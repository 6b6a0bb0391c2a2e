------------------------- MODULE FeedbackPumpProofs -------------------------
(***************************************************************************)
(* Proofs about FeedbackPump, for any pumps, targets, updates, lists of    *)
(* mappings, glyphs and titles, on either platform.                        *)
(***************************************************************************)
EXTENDS FeedbackPump, SequenceTheorems, TLAPS

-----------------------------------------------------------------------------
(* Plans and keys. *)

LEMMA Bounds ==
  /\ SourceCap \in Nat \ {0} /\ MaxUpdates \in Nat /\ MaxEdits \in Nat
  /\ \A title \in DOMAIN FramesOf : FramesOf[title] \in Nat \ {0}
  /\ NoPlan \notin AllPlans
  /\ \A plan \in AllPlans, k \in Keys : [plan |-> plan, key |-> k] # NoPlan
  BY FeedbackAssumption, PlanAssumption

\* The keys of an update: its property is the first part of each.
LEMMA KeysIs ==
  ASSUME NEW u \in Updates
  PROVE  /\ KeyOf(u) \in Keys /\ KeyOf(u)[1] = u.property
         /\ <<u.property, u.target>> \in Keys
         /\ platform = "edge" => KeyOf(u) = <<u.property, u.target>>
<1>1. u.property \in Properties /\ u.target \in Targets
  BY FeedbackAssumption DEF Properties
<1>2. QED
  BY <1>1 DEF KeyOf, Keys

\* A scroll is of a title that has frames.
LEMMA ScrollIs ==
  ASSUME NEW plan \in AllPlans, plan[1] = "scroll"
  PROVE  plan = Scroll(plan[2]) /\ plan[2] \in DOMAIN FramesOf
<1>1. PICK rule \in AllRules, u \in Updates : plan \in PlansOf(rule, u.value)
  BY DEF AllPlans
<1>2. /\ rule.type = "track_scroll"
      /\ \E title \in {is \in {u.value[2]} : rule.type \in DOMAIN Reads
                                            /\ u.value[1] \in Reads[rule.type]} \ {NoTitle} :
           plan = Scroll(title)
  BY <1>1 DEF PlansOf, Glyph, Letter, Bar, Scroll
<1>3. u.value[1] = "track" /\ u.value[2] # NoTitle /\ plan = Scroll(u.value[2])
  BY <1>2 DEF Reads
<1>4. u.value[2] \in DOMAIN FramesOf
  BY <1>3, FeedbackAssumption
<1>5. QED
  BY <1>3, <1>4 DEF Scroll

\* What a pump makes of an update is one of the plans there can be.
LEMMA PlansArePlans ==
  ASSUME mappings \in MappingLists, NEW u \in Updates
  PROVE  Plans(u) \subseteq AllPlans
<1> SUFFICES ASSUME NEW plan \in Plans(u) PROVE plan \in AllPlans
  OBVIOUS
<1>1. PICK list \in RulesFor(u.target) : plan \in Resolve(u, list)
  BY DEF Plans
<1>2. PICK i \in DOMAIN mappings : list = mappings[i].feedback
  BY <1>1 DEF RulesFor
<1>3. \A j \in DOMAIN list : list[j] \in AllRules
  BY <1>2 DEF AllRules, Elements
<1>4. CASE plan \in FromRules(u, list)
  BY <1>3, <1>4 DEF FromRules, AllPlans
<1>5. CASE plan \in DefaultPlans(u)
  <2>1. PICK type \in {"playback_glyph", "volume_bar"} : plan \in PlansOf([type |-> type], u.value)
    BY <1>5 DEF DefaultPlans
  <2>2. [type |-> type] \in AllRules
    BY DEF AllRules
  <2>3. QED
    BY <2>1, <2>2 DEF AllPlans
<1>6. QED
  BY <1>1, <1>4, <1>5 DEF Resolve

-----------------------------------------------------------------------------
(* The shape of the state. *)

ScrollType ==
  [pump : Pumps, property : Properties, title : DOMAIN FramesOf, left : Nat \ {0},
   phase : {"wait", "draw"}, held : BOOLEAN, aborted : BOOLEAN]

Asks == AllPlans \cup {NoPlan}

Shape ==
  /\ platform \in Platforms /\ mappings \in MappingLists /\ registry \in GlyphSets
  /\ queue \in [Pumps -> Seq(Updates)]
  /\ \A p \in Pumps : Len(queue[p]) <= SourceCap
  /\ \A p \in Pumps : p \notin Running => queue[p] = <<>> /\ Idle(p)
  /\ lastSig \in [Pumps -> [Keys -> Asks]] /\ newest \in [Pumps -> [Keys -> Asks]]
  /\ drawn \in [Pumps -> [Keys -> Asks \cup {NotDrawn}]]
  /\ busy \in [Pumps -> {NoPlan} \cup [plan : AllPlans, key : Keys]]
  /\ cooling \subseteq Pumps \X Keys
  /\ scrolls \subseteq ScrollType

\* A table of the pumps' keys with one entry changed.
LEMMA SetEntry ==
  ASSUME NEW S, NEW f \in [Pumps -> [Keys -> S]], NEW p \in Pumps, NEW k \in Keys, NEW v \in S
  PROVE  LET g == [f EXCEPT ![p][k] = v]
         IN  /\ g \in [Pumps -> [Keys -> S]] /\ g[p][k] = v
             /\ \A j \in Keys : j # k => g[p][j] = f[p][j]
             /\ \A q \in Pumps : q # p => g[q] = f[q]
  OBVIOUS

LEMMA ShapeInit == Init => Shape
<1> SUFFICES ASSUME Init PROVE Shape
  OBVIOUS
<1>1. \A p \in Pumps : queue[p] = <<>> /\ busy[p] = NoPlan
  BY DEF Init
<1>2. queue \in [Pumps -> Seq(Updates)] /\ \A p \in Pumps : Len(queue[p]) <= SourceCap
  <2>1. Len(<<>>) = 0 /\ 0 <= SourceCap
    BY Bounds
  <2>2. QED
    BY <1>1, <2>1 DEF Init
<1>3. /\ lastSig \in [Pumps -> [Keys -> Asks]] /\ newest \in [Pumps -> [Keys -> Asks]]
      /\ drawn \in [Pumps -> [Keys -> Asks \cup {NotDrawn}]]
      /\ busy \in [Pumps -> {NoPlan} \cup [plan : AllPlans, key : Keys]]
      /\ cooling \subseteq Pumps \X Keys /\ scrolls \subseteq ScrollType
  BY DEF Init, Asks
<1>4. QED
  BY <1>1, <1>2, <1>3 DEF Init, Shape, Idle

\* An update that is published is the last the pump will read,
LEMMA PublishIs ==
  ASSUME Shape, NEW p \in Pumps, NEW u \in Updates, Publish(p, u)
  PROVE  /\ queue' \in [Pumps -> Seq(Updates)]
         /\ \A q \in Pumps : Len(queue'[q]) <= SourceCap /\ (q # p => queue'[q] = queue[q])
<1> DEFINE kept == IF Len(queue[p]) = SourceCap THEN Tail(queue[p]) ELSE queue[p]
<1>1. /\ queue \in [Pumps -> Seq(Updates)] /\ \A q \in Pumps : Len(queue[q]) <= SourceCap
      /\ queue' = [queue EXCEPT ![p] = Append(kept, u)]
  BY DEF Shape, Publish
<1>2. kept \in Seq(Updates) /\ Len(kept) + 1 <= SourceCap
  <2>1. queue[p] \in Seq(Updates) /\ Len(queue[p]) \in Nat /\ Len(queue[p]) <= SourceCap
    BY <1>1
  <2>2. CASE Len(queue[p]) = SourceCap
    <3>1. queue[p] # <<>>
      BY <2>1, <2>2, Bounds
    <3>2. Tail(queue[p]) \in Seq(Updates) /\ Len(Tail(queue[p])) = Len(queue[p]) - 1
      BY <2>1, <3>1, HeadTailProperties
    <3>3. QED
      BY <2>2, <3>2, Bounds
  <2>3. CASE Len(queue[p]) # SourceCap
    BY <2>1, <2>3, Bounds
  <2>4. QED
    BY <2>2, <2>3
<1> HIDE DEF kept
<1>3. Append(kept, u) \in Seq(Updates) /\ Len(Append(kept, u)) = Len(kept) + 1
  BY <1>2, AppendProperties
<1>4. QED
  BY <1>1, <1>2, <1>3

\* and one that is read was the first.
LEMMA ReadIs ==
  ASSUME Shape, NEW p \in Pumps, queue[p] # <<>>, Read(p)
  PROVE  /\ Head(queue[p]) \in Updates /\ p \in Running /\ busy[p] = NoPlan
         /\ queue' \in [Pumps -> Seq(Updates)]
         /\ \A q \in Pumps : Len(queue'[q]) <= SourceCap /\ (q # p => queue'[q] = queue[q])
<1>1. /\ queue \in [Pumps -> Seq(Updates)] /\ \A q \in Pumps : Len(queue[q]) <= SourceCap
      /\ p \in Running
      /\ queue' = [queue EXCEPT ![p] = Tail(queue[p])] /\ busy[p] = NoPlan
  BY DEF Shape, Read
<1>2. /\ Head(queue[p]) \in Updates
      /\ Tail(queue[p]) \in Seq(Updates) /\ Len(Tail(queue[p])) = Len(queue[p]) - 1
  BY <1>1, HeadTailProperties
<1>3. Len(queue[p]) - 1 <= SourceCap
  <2>1. queue[p] \in Seq(Updates) /\ Len(queue[p]) \in Nat
    BY <1>1
  <2>2. QED
    BY <1>1, <2>1, Bounds
<1>4. QED
  BY <1>1, <1>2, <1>3

\* What the filter leaves behind of a plan it admits, and of one it refuses.
LEMMA RememberIs ==
  ASSUME Shape, NEW p \in Pumps, NEW u \in Updates, NEW plan \in AllPlans, Remember(p, u, plan)
  PROVE  /\ lastSig' \in [Pumps -> [Keys -> Asks]] /\ cooling' \subseteq Pumps \X Keys
         /\ ~Admits(p, u, plan) => lastSig' = lastSig /\ cooling' = cooling
         /\ Admits(p, u, plan) =>
              /\ lastSig'[p][KeyOf(u)] = plan
              /\ cooling' \subseteq cooling \cup {<<p, KeyOf(u)>>}
              /\ <<p, KeyOf(u)>> \notin cooling => 
                   (<<p, KeyOf(u)>> \in cooling' => Throttled(u.property))
              /\ \A j \in Keys : j # KeyOf(u) => lastSig'[p][j] = lastSig[p][j]
              /\ \A q \in Pumps : q # p => lastSig'[q] = lastSig[q]
<1>1. /\ lastSig \in [Pumps -> [Keys -> Asks]] /\ cooling \subseteq Pumps \X Keys
      /\ KeyOf(u) \in Keys /\ plan \in Asks
  BY KeysIs DEF Shape, Asks
<1>2. CASE ~Admits(p, u, plan)
  BY <1>1, <1>2 DEF Remember, filter
<1>3. CASE Admits(p, u, plan)
  <2>1. /\ lastSig' = [lastSig EXCEPT ![p][KeyOf(u)] = plan]
        /\ cooling' = cooling \cup {c \in {<<p, KeyOf(u)>>} : Throttled(u.property)}
    BY <1>3 DEF Remember
  <2>2. /\ lastSig' \in [Pumps -> [Keys -> Asks]] /\ lastSig'[p][KeyOf(u)] = plan
        /\ \A j \in Keys : j # KeyOf(u) => lastSig'[p][j] = lastSig[p][j]
        /\ \A q \in Pumps : q # p => lastSig'[q] = lastSig[q]
    BY <1>1, <2>1, SetEntry
  <2>3. /\ cooling' \subseteq cooling \cup {<<p, KeyOf(u)>>}
        /\ <<p, KeyOf(u)>> \notin cooling =>
             (<<p, KeyOf(u)>> \in cooling' => Throttled(u.property))
    BY <2>1
  <2>4. cooling' \subseteq Pumps \X Keys
    BY <1>1, <2>3
  <2>5. QED
    BY <1>3, <2>2, <2>3, <2>4
<1>4. QED
  BY <1>2, <1>3

\* The scrolls of a pump and property that are superseded, and the others.
LEMMA SupersededIs ==
  ASSUME Shape, NEW p, NEW property, NEW s \in Superseded(p, property)
  PROVE  /\ s \in ScrollType
         /\ \/ s \in scrolls /\ ~(s.held /\ s.pump = p /\ s.property = property)
            \/ /\ ~s.held /\ s.aborted /\ s.phase = "draw"
               /\ \E r \in scrolls : s.left = r.left /\ s.title = r.title
<1>1. PICK r \in scrolls :
        /\ ~(r.held /\ r.pump = p /\ r.property = property /\ r.phase = "wait")
        /\ s = IF r.held /\ r.pump = p /\ r.property = property
               THEN [r EXCEPT !.held = FALSE, !.aborted = TRUE] ELSE r
  BY DEF Superseded
<1>2. r \in ScrollType
  BY DEF Shape
<1>3. CASE r.held /\ r.pump = p /\ r.property = property
  <2>1. s = [r EXCEPT !.held = FALSE, !.aborted = TRUE] /\ r.phase # "wait"
    BY <1>1, <1>3
  <2>2. s \in ScrollType
    BY <1>2, <2>1 DEF ScrollType
  <2>3. ~s.held /\ s.aborted /\ s.left = r.left /\ s.title = r.title /\ s.phase = r.phase
    BY <1>2, <2>1 DEF ScrollType
  <2>4. r.phase = "draw"
    BY <1>2, <2>1 DEF ScrollType
  <2>5. QED
    BY <2>2, <2>3, <2>4
<1>4. CASE ~(r.held /\ r.pump = p /\ r.property = property)
  BY <1>1, <1>2, <1>4
<1>5. QED
  BY <1>3, <1>4

\* A pump that takes a plan reads one update and starts a scroll or a frame.
Takes(p, u, plan) ==
  /\ u \in Updates /\ plan \in AllPlans /\ plan # NoPlan
  /\ p \in Running /\ busy[p] = NoPlan
  /\ Admits(p, u, plan) /\ Remember(p, u, plan) /\ Asked(p, u, plan)
  /\ StartScroll(p, u, plan) \/ StartFrame(p, u, plan)

\* One that refuses it leaves all but the update and what was asked for.
Refuses(p, u, plan) ==
  /\ u \in Updates /\ plan \in AllPlans
  /\ ~Admits(p, u, plan) /\ Asked(p, u, plan)
  /\ UNCHANGED <<lastSig, cooling, busy, scrolls, drawn>>

LEMMA ReceiveDoes ==
  ASSUME Shape, NEW p \in Pumps, Receive(p)
  PROVE  /\ queue[p] # <<>> /\ Read(p)
         /\ \/ UNCHANGED <<lastSig, cooling, busy, scrolls, newest, drawn>>
            \/ \E u, plan : Refuses(p, u, plan)
            \/ \E u, plan : Takes(p, u, plan)
<1> DEFINE u == Head(queue[p])
<1>1. queue[p] # <<>> /\ (Ignore(p, u) \/ Suppress(p, u) \/ Accept(p, u))
  BY DEF Receive
<1>2. Read(p)
  BY <1>1 DEF Ignore, Suppress, Accept
<1>3. u \in Updates /\ p \in Running /\ busy[p] = NoPlan
  BY <1>1, <1>2, ReadIs
<1>4. Plans(u) \subseteq AllPlans
  BY <1>3, PlansArePlans DEF Shape
<1> HIDE DEF u
<1>5. CASE Ignore(p, u)
  BY <1>1, <1>2, <1>5 DEF Ignore, filter, history
<1>6. CASE Suppress(p, u)
  <2>1. PICK plan \in Plans(u) : ~Admits(p, u, plan) /\ Remember(p, u, plan) /\ Asked(p, u, plan)
    BY <1>6 DEF Suppress
  <2>2. UNCHANGED <<lastSig, cooling>>
    BY <2>1 DEF Remember, filter
  <2>3. UNCHANGED <<busy, scrolls, drawn>>
    BY <1>6 DEF Suppress
  <2>4. Refuses(p, u, plan)
    BY <1>3, <1>4, <2>1, <2>2, <2>3 DEF Refuses
  <2>5. QED
    BY <1>1, <1>2, <2>4
<1>7. CASE Accept(p, u)
  <2>1. PICK plan \in Plans(u) : /\ Admits(p, u, plan) /\ Remember(p, u, plan)
                                 /\ Asked(p, u, plan)
                                 /\ StartScroll(p, u, plan) \/ StartFrame(p, u, plan)
    BY <1>7 DEF Accept
  <2>2. Takes(p, u, plan)
    BY <1>3, <1>4, <2>1, Bounds DEF Takes
  <2>3. QED
    BY <1>1, <1>2, <2>2
<1>8. QED
  BY <1>1, <1>5, <1>6, <1>7

\* What is asked for.
LEMMA AskedIs ==
  ASSUME Shape, NEW p \in Pumps, NEW u \in Updates, NEW plan \in AllPlans, Asked(p, u, plan)
  PROVE  /\ newest' \in [Pumps -> [Keys -> Asks]] /\ newest'[p][<<u.property, u.target>>] = plan
         /\ \A j \in Keys : j # <<u.property, u.target>> => newest'[p][j] = newest[p][j]
         /\ \A q \in Pumps : q # p => newest'[q] = newest[q]
<1>1. /\ newest \in [Pumps -> [Keys -> Asks]] /\ <<u.property, u.target>> \in Keys
      /\ plan \in Asks
  BY KeysIs DEF Shape, Asks
<1>2. newest' = [newest EXCEPT ![p][<<u.property, u.target>>] = plan]
  BY DEF Asked
<1>3. QED
  BY <1>1, <1>2, SetEntry

\* A scroll that starts, and a frame,
LEMMA StartScrollIs ==
  ASSUME Shape, NEW p \in Pumps, NEW u \in Updates, NEW plan \in AllPlans,
         StartScroll(p, u, plan)
  PROVE  /\ drawn' \in [Pumps -> [Keys -> Asks \cup {NotDrawn}]] /\ drawn'[p][KeyOf(u)] = plan
         /\ \A j \in Keys : j # KeyOf(u) => drawn'[p][j] = drawn[p][j]
         /\ \A q \in Pumps : q # p => drawn'[q] = drawn[q]
         /\ busy' = busy /\ plan = Scroll(plan[2]) /\ plan[2] \in DOMAIN FramesOf
         /\ scrolls' = Superseded(p, u.property) \cup {NewScroll(p, u, plan[2])}
         /\ NewScroll(p, u, plan[2]) \in ScrollType
<1>1. /\ drawn \in [Pumps -> [Keys -> Asks \cup {NotDrawn}]] /\ KeyOf(u) \in Keys
      /\ plan \in Asks \cup {NotDrawn} /\ u.property \in Properties
  BY KeysIs DEF Shape, Asks, Properties
<1>2. drawn' = [drawn EXCEPT ![p][KeyOf(u)] = plan]
  BY DEF StartScroll
<1>3. plan = Scroll(plan[2]) /\ plan[2] \in DOMAIN FramesOf
  BY ScrollIs DEF StartScroll
<1>4. FramesOf[plan[2]] \in Nat \ {0}
  BY <1>3, Bounds
<1>5. NewScroll(p, u, plan[2]) \in ScrollType
  BY <1>1, <1>3, <1>4 DEF NewScroll, ScrollType
<1>6. /\ drawn' \in [Pumps -> [Keys -> Asks \cup {NotDrawn}]] /\ drawn'[p][KeyOf(u)] = plan
      /\ \A j \in Keys : j # KeyOf(u) => drawn'[p][j] = drawn[p][j]
      /\ \A q \in Pumps : q # p => drawn'[q] = drawn[q]
  BY <1>1, <1>2, SetEntry
<1>7. QED
  BY <1>3, <1>5, <1>6 DEF StartScroll

LEMMA StartFrameIs ==
  ASSUME Shape, NEW p \in Pumps, NEW u \in Updates, NEW plan \in AllPlans,
         StartFrame(p, u, plan)
  PROVE  /\ busy' \in [Pumps -> {NoPlan} \cup [plan : AllPlans, key : Keys]]
         /\ busy'[p] # NoPlan /\ busy'[p].plan = plan /\ busy'[p].key = KeyOf(u)
         /\ \A q \in Pumps : q # p => busy'[q] = busy[q]
         /\ drawn' = drawn /\ scrolls' = Superseded(p, u.property)
<1>1. /\ busy \in [Pumps -> {NoPlan} \cup [plan : AllPlans, key : Keys]] /\ KeyOf(u) \in Keys
      /\ busy' = [busy EXCEPT ![p] = [plan |-> plan, key |-> KeyOf(u)]]
  BY KeysIs DEF Shape, StartFrame
<1>2. [plan |-> plan, key |-> KeyOf(u)] # NoPlan
  BY <1>1, Bounds
<1>3. QED
  BY <1>1, <1>2 DEF StartFrame

\* and a frame that is written.
LEMMA WriteIs ==
  ASSUME Shape, NEW p \in Pumps, Write(p)
  PROVE  /\ busy[p] # NoPlan /\ busy[p].key \in Keys /\ busy[p].plan \in AllPlans
         /\ busy' \in [Pumps -> {NoPlan} \cup [plan : AllPlans, key : Keys]]
         /\ busy'[p] = NoPlan /\ \A q \in Pumps : q # p => busy'[q] = busy[q]
         /\ drawn' \in [Pumps -> [Keys -> Asks \cup {NotDrawn}]]
         /\ drawn'[p][busy[p].key] \in {busy[p].plan, NotDrawn}
         /\ \A j \in Keys : j # busy[p].key => drawn'[p][j] = drawn[p][j]
         /\ \A q \in Pumps : q # p => drawn'[q] = drawn[q]
<1> DEFINE v == IF Missing(busy[p].plan) THEN NotDrawn ELSE busy[p].plan
<1>1. /\ drawn \in [Pumps -> [Keys -> Asks \cup {NotDrawn}]]
      /\ busy \in [Pumps -> {NoPlan} \cup [plan : AllPlans, key : Keys]]
      /\ busy' = [busy EXCEPT ![p] = NoPlan] /\ busy[p] # NoPlan
      /\ drawn' = [drawn EXCEPT ![p][busy[p].key] = v]
  BY DEF Shape, Write
<1>2. busy[p].key \in Keys /\ busy[p].plan \in AllPlans
  BY <1>1
<1>3. v \in Asks \cup {NotDrawn} /\ v \in {busy[p].plan, NotDrawn}
  BY <1>2 DEF Asks
<1> HIDE DEF v
<1>4. /\ drawn' \in [Pumps -> [Keys -> Asks \cup {NotDrawn}]] /\ drawn'[p][busy[p].key] = v
      /\ \A j \in Keys : j # busy[p].key => drawn'[p][j] = drawn[p][j]
      /\ \A q \in Pumps : q # p => drawn'[q] = drawn[q]
  BY <1>1, <1>2, <1>3, SetEntry
<1>5. QED
  BY <1>1, <1>2, <1>3, <1>4

\* An animation that goes on has the same title and place, and no more frames.
LEMMA AnimateIs ==
  ASSUME Shape, NEW s \in scrolls, Tick(s) \/ DrawFrame(s)
  PROVE  /\ UNCHANGED <<platform, mappings, registry, queue, lastSig, cooling, busy, newest, drawn>>
         /\ scrolls' \subseteq ScrollType
         /\ \A r \in scrolls' :
              \/ r \in scrolls /\ r # s
              \/ /\ r.pump = s.pump /\ r.property = s.property /\ r.title = s.title
                 /\ r.held = s.held /\ r.aborted = s.aborted
                 /\ r.phase = "draw" \/ ~s.aborted
                 /\ r.left = s.left \/ (s.left # 1 /\ r.left = s.left - 1)
         /\ \A r \in scrolls' : r \notin scrolls \ {s} => scrolls' \ {r} \subseteq scrolls \ {s}
<1>1. s \in ScrollType /\ scrolls \subseteq ScrollType /\ s.left \in Nat \ {0}
  BY DEF Shape, ScrollType
<1>2. CASE Tick(s)
  <2> DEFINE r == [s EXCEPT !.phase = "draw"]
  <2>1. r \in ScrollType
    BY <1>1 DEF ScrollType
  <2>2. /\ r.pump = s.pump /\ r.property = s.property /\ r.title = s.title
        /\ r.held = s.held /\ r.aborted = s.aborted /\ r.phase = "draw" /\ r.left = s.left
    BY <1>1 DEF ScrollType
  <2> HIDE DEF r
  <2>3. scrolls' = (scrolls \ {s}) \cup {r}
    BY <1>2 DEF Tick, Animate, r
  <2>4. QED
    BY <1>1, <1>2, <2>1, <2>2, <2>3 DEF Tick, Animate, filter, history
<1>3. CASE DrawFrame(s) /\ (s.aborted \/ s.left = 1)
  <2>1. scrolls' = scrolls \ {s}
    BY <1>3 DEF DrawFrame, Animate
  <2>2. QED
    BY <1>1, <1>3, <2>1 DEF DrawFrame, Animate, filter, history
<1>4. CASE DrawFrame(s) /\ ~(s.aborted \/ s.left = 1)
  <2> DEFINE r == [s EXCEPT !.phase = "wait", !.left = s.left - 1]
  <2>1. s.left - 1 \in Nat \ {0} /\ ~s.aborted /\ s.left # 1
    BY <1>1, <1>4
  <2>2. /\ r.pump = s.pump /\ r.property = s.property /\ r.title = s.title
        /\ r.held = s.held /\ r.aborted = s.aborted /\ r.left = s.left - 1
    BY <1>1 DEF ScrollType
  <2>3. r \in ScrollType
    BY <1>1, <2>1 DEF ScrollType
  <2> HIDE DEF r
  <2>4. scrolls' = (scrolls \ {s}) \cup {r}
    BY <1>4 DEF DrawFrame, Animate, r
  <2>5. QED
    BY <1>1, <1>4, <2>1, <2>2, <2>3, <2>4 DEF DrawFrame, Animate, filter, history
<1>5. QED
  BY <1>2, <1>3, <1>4

LEMMA ShapeStep == Shape /\ [Next]_vars => Shape'
<1> SUFFICES ASSUME Shape, [Next]_vars PROVE Shape'
  OBVIOUS
<1>0. /\ queue \in [Pumps -> Seq(Updates)]
      /\ \A p \in Pumps : Len(queue[p]) <= SourceCap
      /\ lastSig \in [Pumps -> [Keys -> Asks]] /\ newest \in [Pumps -> [Keys -> Asks]]
      /\ drawn \in [Pumps -> [Keys -> Asks \cup {NotDrawn}]]
      /\ busy \in [Pumps -> {NoPlan} \cup [plan : AllPlans, key : Keys]]
      /\ cooling \subseteq Pumps \X Keys
      /\ scrolls \subseteq ScrollType
      /\ platform \in Platforms /\ mappings \in MappingLists /\ registry \in GlyphSets
      /\ \A p \in Pumps : p \notin Running => queue[p] = <<>> /\ Idle(p)
  BY DEF Shape
<1>1. CASE UNCHANGED vars
  BY <1>1 DEF Shape, vars, filter, history, Running, Idle
<1>2. CASE \E p \in Pumps, u \in Updates : Publish(p, u)
  <2>1. PICK p \in Pumps, u \in Updates : Publish(p, u)
    BY <1>2
  <2>2. /\ queue' \in [Pumps -> Seq(Updates)]
        /\ \A q \in Pumps : Len(queue'[q]) <= SourceCap /\ (q # p => queue'[q] = queue[q])
    BY <2>1, PublishIs
  <2>3. p \in Running
    BY <2>1 DEF Publish
  <2>4. QED
    BY <1>0, <2>1, <2>2, <2>3 DEF Shape, Publish, filter, history, Running, Idle
<1>3. CASE Configure \/ RegisterSink
  BY <1>0, <1>3 DEF Configure, RegisterSink, Shape, filter, history, Running, Idle
<1>4. ASSUME NEW p \in Pumps, NEW k \in Keys, GapOver(p, k) PROVE Shape'
  BY <1>0, <1>4 DEF GapOver, Shape, history, Running, Idle
<1>5. ASSUME NEW p \in Pumps, Receive(p) PROVE Shape'
  <2>1. queue[p] # <<>> /\ Read(p)
    BY <1>5, ReceiveDoes
  <2>2. /\ queue' \in [Pumps -> Seq(Updates)] /\ p \in Running
        /\ \A q \in Pumps : Len(queue'[q]) <= SourceCap /\ (q # p => queue'[q] = queue[q])
    BY <2>1, ReadIs
  <2>3. UNCHANGED <<platform, mappings, registry>>
    BY <2>1 DEF Read
  <2>4. CASE UNCHANGED <<lastSig, cooling, busy, scrolls, newest, drawn>>
    BY <1>0, <2>2, <2>3, <2>4 DEF Shape, Running, Idle
  <2>5. ASSUME NEW u, NEW plan, Refuses(p, u, plan) PROVE Shape'
    <3>1. newest' \in [Pumps -> [Keys -> Asks]]
      BY <2>5, AskedIs DEF Refuses
    <3>2. QED
      BY <1>0, <2>2, <2>3, <2>5, <3>1 DEF Shape, Refuses, Running, Idle
  <2>6. ASSUME NEW u, NEW plan, Takes(p, u, plan) PROVE Shape'
    <3>1. u \in Updates /\ plan \in AllPlans
      BY <2>6 DEF Takes
    <3>2. newest' \in [Pumps -> [Keys -> Asks]]
      BY <2>6, <3>1, AskedIs DEF Takes
    <3>3. lastSig' \in [Pumps -> [Keys -> Asks]] /\ cooling' \subseteq Pumps \X Keys
      BY <2>6, <3>1, RememberIs DEF Takes
    <3>4. Superseded(p, u.property) \subseteq ScrollType
      BY SupersededIs
    <3>5. CASE StartScroll(p, u, plan)
      <4>1. /\ drawn' \in [Pumps -> [Keys -> Asks \cup {NotDrawn}]] /\ busy' = busy
            /\ scrolls' \subseteq ScrollType
        BY <3>1, <3>4, <3>5, StartScrollIs
      <4>2. QED
        BY <1>0, <2>2, <2>3, <3>2, <3>3, <4>1 DEF Shape, Running, Idle
    <3>6. CASE StartFrame(p, u, plan)
      <4>1. /\ busy' \in [Pumps -> {NoPlan} \cup [plan : AllPlans, key : Keys]]
            /\ \A q \in Pumps : q # p => busy'[q] = busy[q]
            /\ drawn' = drawn /\ scrolls' \subseteq ScrollType
        BY <3>1, <3>4, <3>6, StartFrameIs
      <4>2. QED
        BY <1>0, <2>2, <2>3, <3>2, <3>3, <4>1 DEF Shape, Running, Idle
    <3>7. QED
      BY <2>6, <3>5, <3>6 DEF Takes
  <2>7. QED
    BY <1>5, <2>4, <2>5, <2>6, ReceiveDoes
<1>6. ASSUME NEW p \in Pumps, Write(p) PROVE Shape'
  <2>1. /\ busy' \in [Pumps -> {NoPlan} \cup [plan : AllPlans, key : Keys]]
        /\ busy'[p] = NoPlan /\ \A q \in Pumps : q # p => busy'[q] = busy[q]
        /\ drawn' \in [Pumps -> [Keys -> Asks \cup {NotDrawn}]]
    BY <1>6, WriteIs
  <2>2. QED
    BY <1>0, <1>6, <2>1 DEF Write, Shape, filter, Running, Idle
<1>7. ASSUME NEW s \in scrolls, Tick(s) \/ DrawFrame(s) PROVE Shape'
  <2>1. /\ UNCHANGED <<platform, mappings, registry, queue, lastSig, cooling, busy, newest, drawn>>
        /\ scrolls' \subseteq ScrollType
    BY <1>7, AnimateIs
  <2>2. QED
    BY <1>0, <2>1 DEF Shape, Running, Idle
<1>8. QED
  BY <1>1, <1>2, <1>3, <1>4, <1>5, <1>6, <1>7 DEF Next, Pump

-----------------------------------------------------------------------------
(* What the filter remembers. *)

\* Of each pump: the frame it is about to write is the one remembered for its
\* key, any other key shows what is remembered or nothing, and on edge-agent
\* what is remembered of a property but volume is what was asked for last.
Remembers(p) ==
  /\ busy[p] # NoPlan => lastSig[p][busy[p].key] = busy[p].plan
  /\ \A k \in Keys :
       drawn[p][k] \in {lastSig[p][k], NotDrawn} \/ (busy[p] # NoPlan /\ busy[p].key = k)
  /\ \A k \in Keys :
       platform = "edge" /\ k[1] # "volume" => newest[p][k] \in {NoPlan, lastSig[p][k]}
  /\ \A k \in Keys :
       <<p, k>> \in cooling =>
         lastSig[p][k] # NoPlan /\ (platform = "ios" \/ k[1] = "volume")

FilterInv == Shape /\ \A p \in Pumps : Remembers(p)

LEMMA FilterInit == Init => FilterInv
<1> SUFFICES ASSUME Init PROVE FilterInv
  OBVIOUS
<1>1. \A p \in Pumps : busy[p] = NoPlan /\ cooling = {} /\
        \A k \in Keys : lastSig[p][k] = NoPlan /\ drawn[p][k] = NoPlan /\ newest[p][k] = NoPlan
  BY DEF Init
<1>2. \A p \in Pumps : Remembers(p)
  BY <1>1 DEF Remembers
<1>3. QED
  BY <1>2, ShapeInit DEF FilterInv

LEMMA FilterStep == FilterInv /\ [Next]_vars => FilterInv'
<1> SUFFICES ASSUME FilterInv, [Next]_vars PROVE FilterInv'
  OBVIOUS
<1>0. Shape /\ Shape' /\ \A p \in Pumps : Remembers(p)
  BY ShapeStep DEF FilterInv
<1>1. ASSUME UNCHANGED <<platform, lastSig, cooling, busy, newest, drawn>> PROVE FilterInv'
  BY <1>0, <1>1 DEF FilterInv, Remembers
<1>2. CASE \/ UNCHANGED vars \/ Configure \/ RegisterSink
           \/ \E p \in Pumps, u \in Updates : Publish(p, u)
  BY <1>1, <1>2 DEF vars, filter, history, Configure, RegisterSink, Publish
<1>3. ASSUME NEW s \in scrolls, Tick(s) \/ DrawFrame(s) PROVE FilterInv'
  <2>1. UNCHANGED <<platform, lastSig, cooling, busy, newest, drawn>>
    BY <1>0, <1>3, AnimateIs
  <2>2. QED
    BY <1>1, <2>1
<1>4. ASSUME NEW p \in Pumps, NEW k \in Keys, GapOver(p, k) PROVE FilterInv'
  BY <1>0, <1>4 DEF GapOver, FilterInv, Remembers, history
<1>5. ASSUME NEW p \in Pumps, Remembers(p)', platform' = platform,
             \A q \in Pumps : q # p =>
               /\ lastSig'[q] = lastSig[q] /\ busy'[q] = busy[q]
               /\ newest'[q] = newest[q] /\ drawn'[q] = drawn[q],
             \A q \in Pumps, k \in Keys : q # p /\ <<q, k>> \in cooling' => <<q, k>> \in cooling
      PROVE  FilterInv'
  <2>1. ASSUME NEW q \in Pumps, q # p PROVE Remembers(q)'
    BY <1>0, <1>5, <2>1 DEF Remembers
  <2>2. QED
    BY <1>0, <1>5, <2>1 DEF FilterInv
<1>6. ASSUME NEW p \in Pumps, Write(p) PROVE FilterInv'
  <2>1. /\ busy[p] # NoPlan /\ busy[p].key \in Keys
        /\ busy'[p] = NoPlan /\ \A q \in Pumps : q # p => busy'[q] = busy[q]
        /\ drawn'[p][busy[p].key] \in {busy[p].plan, NotDrawn}
        /\ \A j \in Keys : j # busy[p].key => drawn'[p][j] = drawn[p][j]
        /\ \A q \in Pumps : q # p => drawn'[q] = drawn[q]
    BY <1>0, <1>6, WriteIs
  <2>2. UNCHANGED <<platform, lastSig, cooling, newest>>
    BY <1>6 DEF Write, filter
  <2>3. Remembers(p)'
    BY <1>0, <2>1, <2>2 DEF Remembers
  <2>4. QED
    BY <1>5, <2>1, <2>2, <2>3
<1>7. ASSUME NEW p \in Pumps, Receive(p) PROVE FilterInv'
  <2>1. platform' = platform
    BY <1>0, <1>7, ReceiveDoes DEF Read
  <2>2. ASSUME NEW u, NEW plan, Refuses(p, u, plan) PROVE FilterInv'
    <3>1. /\ u \in Updates /\ plan \in AllPlans
          /\ ~Admits(p, u, plan) /\ Asked(p, u, plan)
          /\ UNCHANGED <<lastSig, cooling, busy, scrolls, drawn>>
      BY <2>2 DEF Refuses
    <3> DEFINE a == <<u.property, u.target>>
    <3>2. /\ newest'[p][a] = plan /\ \A j \in Keys : j # a => newest'[p][j] = newest[p][j]
          /\ \A q \in Pumps : q # p => newest'[q] = newest[q]
      BY <1>0, <3>1, AskedIs
    <3>3. a \in Keys /\ a[1] = u.property /\ (platform = "edge" => KeyOf(u) = a)
          /\ KeyOf(u) \in Keys /\ KeyOf(u)[1] = u.property
      BY <3>1, KeysIs
    <3> HIDE DEF a
    <3>4. platform = "edge" /\ u.property # "volume" => lastSig[p][a] = plan
      BY <3>1, <3>3 DEF Admits, Throttled
    <3>5. Remembers(p)'
      BY <1>0, <2>1, <3>1, <3>2, <3>3, <3>4 DEF Remembers
    <3>6. QED
      BY <1>5, <2>1, <3>1, <3>2, <3>5
  <2>3. ASSUME NEW u, NEW plan, Takes(p, u, plan) PROVE FilterInv'
    <3>1. /\ u \in Updates /\ plan \in AllPlans /\ plan # NoPlan /\ busy[p] = NoPlan
          /\ Admits(p, u, plan) /\ Remember(p, u, plan) /\ Asked(p, u, plan)
      BY <2>3 DEF Takes
    <3> DEFINE a == <<u.property, u.target>>
               k == KeyOf(u)
    <3>2. /\ newest'[p][a] = plan /\ \A j \in Keys : j # a => newest'[p][j] = newest[p][j]
          /\ \A q \in Pumps : q # p => newest'[q] = newest[q]
      BY <1>0, <3>1, AskedIs
    <3>3. a \in Keys /\ a[1] = u.property /\ (platform = "edge" => k = a)
          /\ k \in Keys /\ k[1] = u.property
      BY <3>1, KeysIs
    <3>4. /\ lastSig'[p][k] = plan /\ cooling' \subseteq cooling \cup {<<p, k>>}
          /\ <<p, k>> \notin cooling => (<<p, k>> \in cooling' => Throttled(u.property))
          /\ \A j \in Keys : j # k => lastSig'[p][j] = lastSig[p][j]
          /\ \A q \in Pumps : q # p => lastSig'[q] = lastSig[q]
      BY <1>0, <3>1, RememberIs
    <3>5. CASE StartScroll(p, u, plan)
      <4>1. /\ drawn'[p][k] = plan /\ \A j \in Keys : j # k => drawn'[p][j] = drawn[p][j]
            /\ \A q \in Pumps : q # p => drawn'[q] = drawn[q]
            /\ busy' = busy
        BY <1>0, <3>1, <3>5, StartScrollIs
      <4> HIDE DEF a, k
      <4>2. \A j \in Keys : drawn'[p][j] \in {lastSig'[p][j], NotDrawn}
        BY <1>0, <3>1, <3>4, <4>1 DEF Remembers
      <4>3. \A j \in Keys :
              platform' = "edge" /\ j[1] # "volume" => newest'[p][j] \in {NoPlan, lastSig'[p][j]}
        BY <1>0, <2>1, <3>2, <3>3, <3>4 DEF Remembers
      <4>4. \A j \in Keys :
              <<p, j>> \in cooling' =>
                lastSig'[p][j] # NoPlan /\ (platform' = "ios" \/ j[1] = "volume")
        BY <1>0, <2>1, <3>1, <3>3, <3>4 DEF Remembers, Throttled
      <4>5. Remembers(p)'
        BY <3>1, <4>1, <4>2, <4>3, <4>4 DEF Remembers
      <4>6. QED
        BY <1>5, <2>1, <3>2, <3>4, <4>1, <4>5
    <3>6. CASE StartFrame(p, u, plan)
      <4>1. /\ busy'[p] # NoPlan /\ busy'[p].plan = plan /\ busy'[p].key = k
            /\ \A q \in Pumps : q # p => busy'[q] = busy[q]
            /\ drawn' = drawn
        BY <1>0, <3>1, <3>6, StartFrameIs
      <4> HIDE DEF a, k
      <4>2. \A j \in Keys : drawn'[p][j] \in {lastSig'[p][j], NotDrawn} \/ busy'[p].key = j
        BY <1>0, <3>1, <3>4, <4>1 DEF Remembers
      <4>3. \A j \in Keys :
              platform' = "edge" /\ j[1] # "volume" => newest'[p][j] \in {NoPlan, lastSig'[p][j]}
        BY <1>0, <2>1, <3>2, <3>3, <3>4 DEF Remembers
      <4>4. \A j \in Keys :
              <<p, j>> \in cooling' =>
                lastSig'[p][j] # NoPlan /\ (platform' = "ios" \/ j[1] = "volume")
        BY <1>0, <2>1, <3>1, <3>3, <3>4 DEF Remembers, Throttled
      <4>5. Remembers(p)'
        BY <3>1, <3>4, <4>1, <4>2, <4>3, <4>4 DEF Remembers
      <4>6. QED
        BY <1>5, <2>1, <3>2, <3>4, <4>1, <4>5
    <3>7. QED
      BY <2>3, <3>5, <3>6 DEF Takes
  <2>4. QED
    BY <1>0, <1>1, <1>7, <2>1, <2>2, <2>3, ReceiveDoes
<1>8. QED
  BY <1>2, <1>3, <1>4, <1>6, <1>7 DEF Next, Pump

\* A pump at rest remembers of each key what it shows for it, unless the
\* registry lacked the glyph: a plan that was refused is not remembered.
THEOREM RememberedIsDrawn == Spec => []FilterRemembersDrawn
<1>1. FilterInv => FilterRemembersDrawn
  BY DEF FilterInv, Remembers, FilterRemembersDrawn, Idle
<1>2. QED
  BY FilterInit, FilterStep, <1>1, PTL DEF Spec

\* On edge-agent the last state a pump has read of a target is the one it
\* shows, whatever other targets and properties publish, but for volumes and
\* missing glyphs.
THEOREM LastIsDrawn == Spec => []LastAskedIsDrawn
<1>1. FilterInv => LastAskedIsDrawn
  <2> SUFFICES ASSUME FilterInv, platform = "edge", NEW p \in EdgePumps, NEW u \in Updates,
                      Idle(p), newest[p][<<u.property, u.target>>] # NoPlan,
                      u.property # "volume"
               PROVE  drawn[p][KeyOf(u)] \in {newest[p][<<u.property, u.target>>], NotDrawn}
    BY DEF LastAskedIsDrawn
  <2> DEFINE k == KeyOf(u)
  <2>1. p \in Pumps /\ Remembers(p)
    BY DEF FilterInv, Pumps
  <2>2. k \in Keys /\ k[1] = u.property /\ k = <<u.property, u.target>>
    BY KeysIs
  <2>3. newest[p][k] \in {NoPlan, lastSig[p][k]} /\ drawn[p][k] \in {lastSig[p][k], NotDrawn}
    BY <2>1, <2>2 DEF Remembers, Idle
  <2>4. QED
    BY <2>2, <2>3
<1>2. QED
  BY FilterInit, FilterStep, <1>1, PTL DEF Spec

-----------------------------------------------------------------------------
(* The scrolls. *)

\* A scroll in the table is the last thing drawn under a key of its property;
\* one that is not is at its last frame.
Shown(s) ==
  \/ ~s.held /\ s.aborted /\ s.phase = "draw"
  \/ s.held /\ \E k \in Keys : k[1] = s.property /\ drawn[s.pump][k] = Scroll(s.title)

OneHeld ==
  \A s1, s2 \in scrolls :
    s1.held /\ s2.held /\ s1.pump = s2.pump /\ s1.property = s2.property => s1 = s2

\* The table holds no scroll of the property whose frame is about to be written.
NoneUnderFrame ==
  \A p \in Pumps, s \in scrolls :
    busy[p] # NoPlan /\ s.held /\ s.pump = p => s.property # busy[p].key[1]

ScrollInv ==
  /\ Shape
  /\ \A s \in scrolls : Shown(s) /\ s.left <= FramesOf[s.title]
  /\ OneHeld /\ NoneUnderFrame

LEMMA ScrollInit == Init => ScrollInv
<1> SUFFICES ASSUME Init PROVE ScrollInv
  OBVIOUS
<1>1. scrolls = {}
  BY DEF Init
<1>2. QED
  BY <1>1, ShapeInit DEF ScrollInv, OneHeld, NoneUnderFrame

\* Superseding the scroll of a property leaves none of it in the table.
LEMMA SupersededFits ==
  ASSUME ScrollInv, NEW p, NEW property, NEW s \in Superseded(p, property)
  PROVE  /\ s \in ScrollType /\ s.left <= FramesOf[s.title]
         /\ \/ s \in scrolls /\ Shown(s) /\ ~(s.held /\ s.pump = p /\ s.property = property)
            \/ ~s.held /\ s.aborted /\ s.phase = "draw"
<1>1. Shape /\ \A r \in scrolls : Shown(r) /\ r.left <= FramesOf[r.title]
  BY DEF ScrollInv
<1>2. s \in ScrollType
  BY <1>1, SupersededIs
<1>3. \/ s \in scrolls /\ ~(s.held /\ s.pump = p /\ s.property = property)
      \/ /\ ~s.held /\ s.aborted /\ s.phase = "draw"
         /\ \E r \in scrolls : s.left = r.left /\ s.title = r.title
  BY <1>1, SupersededIs
<1>4. QED
  BY <1>1, <1>2, <1>3

LEMMA ScrollStep == ScrollInv /\ [Next]_vars => ScrollInv'
<1> SUFFICES ASSUME ScrollInv, [Next]_vars PROVE ScrollInv'
  OBVIOUS
<1>0. /\ Shape /\ Shape' /\ scrolls \subseteq ScrollType
      /\ \A s \in scrolls : Shown(s) /\ s.left <= FramesOf[s.title]
      /\ OneHeld /\ NoneUnderFrame
  BY ShapeStep DEF ScrollInv, Shape
<1>1. ASSUME UNCHANGED <<busy, scrolls, drawn>> PROVE ScrollInv'
  BY <1>0, <1>1 DEF ScrollInv, Shown, OneHeld, NoneUnderFrame
<1>2. CASE \/ UNCHANGED vars \/ Configure \/ RegisterSink
           \/ \E p \in Pumps, u \in Updates : Publish(p, u)
           \/ \E p \in Pumps, k \in Keys : GapOver(p, k)
  BY <1>1, <1>2 DEF vars, history, Configure, RegisterSink, Publish, GapOver
<1>3. ASSUME NEW p \in Pumps, Write(p) PROVE ScrollInv'
  <2>1. /\ busy[p] # NoPlan /\ busy[p].key \in Keys
        /\ busy'[p] = NoPlan /\ \A q \in Pumps : q # p => busy'[q] = busy[q]
        /\ \A j \in Keys : j # busy[p].key => drawn'[p][j] = drawn[p][j]
        /\ \A q \in Pumps : q # p => drawn'[q] = drawn[q]
    BY <1>0, <1>3, WriteIs
  <2>2. scrolls' = scrolls
    BY <1>3 DEF Write
  <2>3. ASSUME NEW s \in scrolls PROVE Shown(s)'
    <3>1. s.pump \in Pumps /\ Shown(s)
      BY <1>0 DEF ScrollType
    <3>2. CASE s.held /\ s.pump = p
      <4>1. s.property # busy[p].key[1]
        BY <1>0, <2>1, <3>2 DEF NoneUnderFrame
      <4>2. QED
        BY <2>1, <3>1, <3>2, <4>1 DEF Shown
    <3>3. CASE s.held /\ s.pump # p
      BY <2>1, <3>1, <3>3 DEF Shown
    <3>4. CASE ~s.held
      BY <3>1, <3>4 DEF Shown
    <3>5. QED
      BY <3>2, <3>3, <3>4
  <2>4. NoneUnderFrame'
    BY <1>0, <2>1, <2>2 DEF NoneUnderFrame
  <2>5. QED
    BY <1>0, <2>2, <2>3, <2>4 DEF ScrollInv, OneHeld
<1>4. ASSUME NEW s \in scrolls, Tick(s) \/ DrawFrame(s) PROVE ScrollInv'
  <2>1. UNCHANGED <<busy, drawn>> /\ scrolls' \subseteq ScrollType
    BY <1>0, <1>4, AnimateIs
  <2>2. \A r \in scrolls' :
          \/ r \in scrolls /\ r # s
          \/ /\ r.pump = s.pump /\ r.property = s.property /\ r.title = s.title
             /\ r.held = s.held /\ r.aborted = s.aborted
             /\ r.phase = "draw" \/ ~s.aborted
             /\ r.left = s.left \/ (s.left # 1 /\ r.left = s.left - 1)
    BY <1>0, <1>4, AnimateIs
  <2>3. \A r \in scrolls' : r \notin scrolls \ {s} => scrolls' \ {r} \subseteq scrolls \ {s}
    BY <1>0, <1>4, AnimateIs
  <2>4. ASSUME NEW r \in scrolls' PROVE Shown(r)' /\ r.left <= FramesOf[r.title]
    <3>1. CASE r \in scrolls /\ r # s
      BY <1>0, <2>1, <3>1 DEF Shown
    <3>2. CASE ~(r \in scrolls /\ r # s)
      <4>1. /\ r.pump = s.pump /\ r.property = s.property /\ r.title = s.title
            /\ r.held = s.held /\ r.aborted = s.aborted
            /\ r.phase = "draw" \/ ~s.aborted
            /\ r.left = s.left \/ (s.left # 1 /\ r.left = s.left - 1)
        BY <2>2, <3>2
      <4>2. Shown(s) /\ s.left <= FramesOf[s.title] /\ s.left \in Nat
            /\ FramesOf[s.title] \in Nat
        BY <1>0, Bounds DEF ScrollType
      <4>3. Shown(r)'
        BY <2>1, <4>1, <4>2 DEF Shown
      <4>4. r.left <= FramesOf[r.title]
        BY <4>1, <4>2
      <4>5. QED
        BY <4>3, <4>4
    <3>3. QED
      BY <3>1, <3>2
  <2>5. \A r \in scrolls' : \E o \in scrolls :
          o.pump = r.pump /\ o.property = r.property /\ o.held = r.held
    BY <2>2
  <2>6. NoneUnderFrame'
    BY <1>0, <2>1, <2>5 DEF NoneUnderFrame
  <2>7. ASSUME NEW r1 \in scrolls', NEW r2 \in scrolls', r1.held, r2.held,
               r1.pump = r2.pump, r1.property = r2.property
        PROVE  r1 = r2
    <3>1. CASE r1 \in scrolls \ {s} /\ r2 \in scrolls \ {s}
      BY <1>0, <2>7, <3>1 DEF OneHeld
    <3>2. CASE r1 \notin scrolls \ {s}
      <4>1. r1.pump = s.pump /\ r1.property = s.property /\ s.held
        BY <2>2, <2>7, <3>2
      <4>2. CASE r2 \in scrolls \ {s}
        BY <1>0, <2>7, <4>1, <4>2 DEF OneHeld
      <4>3. CASE r2 \notin scrolls \ {s}
        BY <2>3, <2>7, <3>2, <4>3
      <4>4. QED
        BY <4>2, <4>3
    <3>3. CASE r2 \notin scrolls \ {s}
      <4>1. r2.pump = s.pump /\ r2.property = s.property /\ s.held
        BY <2>2, <2>7, <3>3
      <4>2. CASE r1 \in scrolls \ {s}
        BY <1>0, <2>7, <4>1, <4>2 DEF OneHeld
      <4>3. QED
        BY <2>3, <2>7, <3>3, <4>2
    <3>4. QED
      BY <3>1, <3>2, <3>3
  <2>8. OneHeld'
    BY <2>7 DEF OneHeld
  <2>9. QED
    BY <1>0, <2>4, <2>6, <2>8 DEF ScrollInv
<1>5. ASSUME NEW p \in Pumps, Receive(p) PROVE ScrollInv'
  <2>1. CASE UNCHANGED <<lastSig, cooling, busy, scrolls, newest, drawn>>
    BY <1>1, <2>1
  <2>2. ASSUME NEW u, NEW plan, Refuses(p, u, plan) PROVE ScrollInv'
    BY <1>1, <2>2 DEF Refuses
  <2>3. ASSUME NEW u, NEW plan, Takes(p, u, plan) PROVE ScrollInv'
    <3>1. u \in Updates /\ plan \in AllPlans /\ busy[p] = NoPlan
      BY <2>3 DEF Takes
    <3> DEFINE old == Superseded(p, u.property)
    <3>2. \A s \in old :
            /\ s \in ScrollType /\ s.left <= FramesOf[s.title]
            /\ \/ s \in scrolls /\ Shown(s)
                  /\ ~(s.held /\ s.pump = p /\ s.property = u.property)
               \/ ~s.held /\ s.aborted /\ s.phase = "draw"
      BY SupersededFits
    <3>3. KeyOf(u) \in Keys /\ KeyOf(u)[1] = u.property
      BY <3>1, KeysIs
    <3> HIDE DEF old
    <3>4. CASE StartScroll(p, u, plan)
      <4> DEFINE n == NewScroll(p, u, plan[2])
      <4>1. /\ drawn'[p][KeyOf(u)] = plan /\ \A j \in Keys : j # KeyOf(u) => drawn'[p][j] = drawn[p][j]
            /\ \A q \in Pumps : q # p => drawn'[q] = drawn[q]
            /\ busy' = busy /\ plan = Scroll(plan[2]) /\ plan[2] \in DOMAIN FramesOf
            /\ scrolls' = old \cup {n} /\ n \in ScrollType
        BY <1>0, <3>1, <3>4, StartScrollIs DEF old
      <4>2. /\ n.pump = p /\ n.property = u.property /\ n.title = plan[2] /\ n.held
            /\ n.left = FramesOf[plan[2]] /\ FramesOf[plan[2]] \in Nat
        BY <4>1, Bounds DEF NewScroll
      <4> HIDE DEF n
      <4>3. Shown(n)'
        BY <3>3, <4>1, <4>2 DEF Shown
      <4>4. ASSUME NEW s \in old PROVE Shown(s)'
        <5>1. CASE s.held /\ s.pump = p
          <6>1. Shown(s) /\ s.property # u.property
            BY <3>2, <5>1
          <6>2. QED
            BY <3>3, <4>1, <5>1, <6>1 DEF Shown
        <5>2. CASE s.held /\ s.pump # p
          <6>1. Shown(s) /\ s.pump \in Pumps
            BY <3>2, <5>2 DEF ScrollType
          <6>2. QED
            BY <4>1, <5>2, <6>1 DEF Shown
        <5>3. CASE ~s.held
          <6>1. s.aborted /\ s.phase = "draw"
            BY <3>2, <5>3 DEF Shown
          <6>2. QED
            BY <5>3, <6>1 DEF Shown
        <5>4. QED
          BY <5>1, <5>2, <5>3
      <4>5. \A s \in scrolls' : s.left <= FramesOf[s.title]
        BY <3>2, <4>1, <4>2
      <4>6. OneHeld'
        BY <1>0, <3>2, <4>1, <4>2 DEF OneHeld
      <4>7. NoneUnderFrame'
        BY <1>0, <3>1, <3>2, <4>1, <4>2 DEF NoneUnderFrame
      <4>8. QED
        BY <1>0, <4>1, <4>3, <4>4, <4>5, <4>6, <4>7 DEF ScrollInv
    <3>5. CASE StartFrame(p, u, plan)
      <4>1. /\ busy'[p].key = KeyOf(u) /\ \A q \in Pumps : q # p => busy'[q] = busy[q]
            /\ drawn' = drawn /\ scrolls' = old
        BY <1>0, <3>1, <3>5, StartFrameIs DEF old
      <4>2. \A s \in old : Shown(s)'
        BY <3>2, <4>1 DEF Shown
      <4>3. OneHeld'
        BY <1>0, <3>2, <4>1 DEF OneHeld
      <4>4. NoneUnderFrame'
        BY <1>0, <3>2, <3>3, <4>1 DEF NoneUnderFrame
      <4>5. QED
        BY <1>0, <3>2, <4>1, <4>2, <4>3, <4>4 DEF ScrollInv
    <3>6. QED
      BY <2>3, <3>4, <3>5 DEF Takes
  <2>4. QED
    BY <1>0, <1>5, <2>1, <2>2, <2>3, ReceiveDoes
<1>6. QED
  BY <1>2, <1>3, <1>4, <1>5 DEF Next, Pump

\* Whatever the pumps read while an animation sleeps or draws, one whose
\* property has something newer to show is at its last frame or gone.
THEOREM ScrollsAreSuperseded == Spec => []SupersededScrollEnds
<1>1. ScrollInv => SupersededScrollEnds
  BY DEF ScrollInv, Shown, SupersededScrollEnds
<1>2. QED
  BY ScrollInit, ScrollStep, <1>1, PTL DEF Spec

\* The shape of the state, with one scroll in the table per property and only
\* volumes cooling on edge-agent.
THEOREM PumpTyped == Spec => []TypeOK
<1>1. FilterInv /\ ScrollInv => TypeOK
  <2> SUFFICES ASSUME FilterInv, ScrollInv PROVE TypeOK
    OBVIOUS
  <2>1. /\ platform \in Platforms /\ mappings \in MappingLists /\ registry \in GlyphSets
        /\ \A p \in Pumps :
             /\ queue[p] \in Seq(Updates) /\ Len(queue[p]) <= SourceCap
             /\ p \notin Running => queue[p] = <<>> /\ Idle(p)
    BY DEF FilterInv, Shape
  <2>2. ASSUME NEW c \in cooling
        PROVE  lastSig[c[1]][c[2]] # NoPlan /\ (platform = "ios" \/ c[2][1] = "volume")
    <3>1. c \in Pumps \X Keys
      BY DEF FilterInv, Shape
    <3>2. c[1] \in Pumps /\ c[2] \in Keys /\ c = <<c[1], c[2]>>
      BY <3>1
    <3>3. QED
      BY <3>2 DEF FilterInv, Remembers
  <2>3. ASSUME NEW s \in scrolls PROVE s.left \in 1..FramesOf[s.title]
    <3>1. s \in ScrollType /\ s.left <= FramesOf[s.title]
      BY DEF ScrollInv, Shape
    <3>2. s.left \in Nat \ {0} /\ FramesOf[s.title] \in Nat
      BY <3>1, Bounds DEF ScrollType
    <3>3. QED
      BY <3>1, <3>2
  <2>4. \A s1, s2 \in {s \in scrolls : s.held} :
          s1.pump = s2.pump /\ s1.property = s2.property => s1 = s2
    BY DEF ScrollInv, OneHeld
  <2>5. QED
    BY <2>1, <2>2, <2>3, <2>4 DEF TypeOK
<1>2. QED
  BY FilterInit, FilterStep, ScrollInit, ScrollStep, <1>1, PTL DEF Spec

=============================================================================
