---------------------------- MODULE FeedbackPump ----------------------------
(***************************************************************************)
(* The LED feedback of one Nuimo: run_feedback_pump, FeedbackPlan,         *)
(* FeedbackFilter and run_scroll_animation, in edge-agent (main.rs) and in *)
(* the iOS edge (weave-ios-core, feedback_pump.rs).  edge-agent runs a     *)
(* pump per source of states (Roon, Hue, peer edges) for each device; the  *)
(* iOS edge runs one, whose keys carry the device.                         *)
(*                                                                         *)
(* A value is what it is read as and what it says then: a "string", a      *)
(* "bool", an "up" or (in dB) a "down" level in percent of its span, or a  *)
(* "track" with its title or NoTitle.  A plan stands for its signature.    *)
(***************************************************************************)
EXTENDS Naturals, Sequences, FiniteSets

CONSTANTS
  Platforms,        \* of "edge" and "ios"
  EdgePumps, IosPump,
  Targets,          \* (service_type, target) pairs
  Updates,          \* [target, property, value]: what the sources publish
  MappingLists,     \* lists of mappings the device may have, each one an
                    \* [active, target, candidates, feedback]
  GlyphSets,        \* names the registry may hold
  FramesOf,         \* frames of the scroll of each title
  Letters,          \* the strings of one character
  NoTitle, NoPlan, NotDrawn, AnyTarget,
  SourceCap,        \* the sources' broadcast channels
  MaxUpdates,       \* bound: updates published
  MaxEdits          \* bound: changes of the configuration

Pumps == EdgePumps \cup {IosPump}
Properties == {u.property : u \in Updates}
Keys == Properties \X (Targets \cup {AnyTarget})

ASSUME FeedbackAssumption ==
  /\ Platforms \subseteq {"edge", "ios"}
  /\ SourceCap \in Nat \ {0} /\ {MaxUpdates, MaxEdits} \subseteq Nat
  /\ \A u \in Updates : u.target \in Targets
  /\ \A title \in DOMAIN FramesOf : FramesOf[title] \in Nat \ {0}
  /\ \A u \in Updates : u.value[1] = "track" => u.value[2] \in DOMAIN FramesOf \cup {NoTitle}

VARIABLES
  platform,
  mappings,         \* RoutingEngine::by_device of the device
  registry,         \* the glyphs the registry holds
  sink,             \* iOS: has the host registered its LedFeedbackSink
  queue,            \* per pump: updates it has yet to read
  lastSig,          \* per pump and key: FeedbackFilter::last_sig
  cooling,          \* pumps and keys whose last_at is less than MIN_GAP ago
  busy,             \* per pump: the frame it is about to write, or NoPlan
  scrolls,          \* the animation tasks
  published, edits,
  newest,           \* history, per pump, property and target: the last plan
                    \* an update asked for
  drawn             \* history, per pump and key: the last plan written or
                    \* started, NotDrawn if it could not be

filter == <<lastSig, cooling>>
history == <<newest, drawn>>
vars == <<platform, mappings, registry, sink, queue, filter, busy, scrolls,
          published, edits, history>>

-----------------------------------------------------------------------------
(* FeedbackPlan *)

Glyph(name) == <<"glyph", name>>
Scroll(title) == <<"scroll", title>>
Letter(c) == <<"letter", c>>
\* volume_bar_from_value: nine bars, rounded half up, from the top for dB.
Bar(direction, level) == <<"bar", direction, (level * 9 + 50) \div 100>>

Levels == {"up", "down"}

\* What a rule of each type reads,
Reads == [glyph |-> {"string"}, playback_glyph |-> {"string"}, letter |-> {"string"},
          volume_bar |-> Levels, brightness_bar |-> Levels, track_scroll |-> {"track"},
          power_glyph |-> {"bool"}, mute_glyph |-> {"bool"},
          pulse |-> {"string", "bool", "track"} \cup Levels]
\* and the glyphs a rule draws for what it reads.
Table == [playback_glyph |-> [playing |-> "play", paused |-> "pause", stopped |-> "pause"],
          power_glyph |-> [on |-> "light_on", off |-> "light_off"],
          mute_glyph |-> [on |-> "muted"]]
GlyphTable(rule) == IF rule.type = "glyph" THEN rule.mapping ELSE Table[rule.type]

\* The plan of one rule for a value, as a set of at most one; a type that is
\* not known has none.  A glyph rule that names "volume_bar" asks a string
\* for a bar, which it cannot give.
PlansOf(rule, value) ==
  LET said == {is \in {value[2]} : rule.type \in DOMAIN Reads /\ value[1] \in Reads[rule.type]}
  IN  CASE rule.type = "letter"       -> {Letter(c) : c \in said \cap Letters}
        [] rule.type = "track_scroll" -> {Scroll(title) : title \in said \ {NoTitle}}
        [] rule.type = "pulse"        -> {Glyph("pulse")}
        [] rule.type \in {"volume_bar", "brightness_bar"} ->
             {Bar(value[1], level) : level \in said}
        [] rule.type \in {"glyph"} \cup DOMAIN Table ->
             {Glyph(GlyphTable(rule)[is]) : is \in said \cap DOMAIN GlyphTable(rule)}
               \ {Glyph("volume_bar")}
        [] OTHER -> {}

\* A rule that ends the search without a plan: a playback_glyph rule on any
\* string, and on iOS a glyph rule on a string it does not map.
EndsSearch(rule, value) ==
  /\ value[1] = "string"
  /\ \/ rule.type = "playback_glyph"
     \/ platform = "ios" /\ rule.type = "glyph" /\ value[2] \notin DOMAIN rule.mapping

Matches(rule, property) ==
  \/ rule.state \in {property, "any"}
  \/ rule.state = "track" /\ property = "now_playing"

\* The defaults of an update no rule decides.
DefaultPlans(u) ==
  UNION {PlansOf([type |-> type], u.value) :
           type \in {t \in {"playback_glyph", "volume_bar"} :
                      u.property \in IF t = "playback_glyph" THEN {"playback"}
                                     ELSE {"volume", "brightness"}}}

Decides(rule, u) ==
  /\ Matches(rule, u.property)
  /\ PlansOf(rule, u.value) # {} \/ EndsSearch(rule, u.value)

\* The first rule that decides, unless it leaves the update to the defaults.
FromRules(u, list) ==
  UNION {PlansOf(list[i], u.value) :
           i \in {k \in DOMAIN list : /\ Decides(list[k], u)
                                      /\ \A j \in 1..(k - 1) : ~Decides(list[j], u)}}

Resolve(u, list) ==
  IF FromRules(u, list) = {} THEN DefaultPlans(u) ELSE FromRules(u, list)

Elements(list) == {list[i] : i \in DOMAIN list}
AllRules ==
  {[type |-> "playback_glyph"], [type |-> "volume_bar"]}
    \cup UNION {Elements(m.feedback) : m \in UNION {Elements(list) : list \in MappingLists}}
\* Every plan there can be.
AllPlans == UNION {PlansOf(rule, u.value) : rule \in AllRules, u \in Updates}

\* NoPlan is none of them, and no frame a pump is about to write.
ASSUME PlanAssumption ==
  /\ NoPlan \notin AllPlans
  /\ \A plan \in AllPlans, k \in Keys : [plan |-> plan, key |-> k] # NoPlan

-----------------------------------------------------------------------------

Init ==
  /\ platform \in Platforms
  /\ mappings \in MappingLists
  /\ registry \in GlyphSets
  /\ sink = (platform = "edge")
  /\ queue = [p \in Pumps |-> <<>>]
  /\ lastSig = [p \in Pumps |-> [k \in Keys |-> NoPlan]]
  /\ cooling = {}
  /\ busy = [p \in Pumps |-> NoPlan]
  /\ scrolls = {}
  /\ published = 0 /\ edits = 0
  /\ newest = lastSig /\ drawn = lastSig

Running == IF platform = "edge" THEN EdgePumps ELSE {IosPump}

\* A source broadcasts; a pump that is SourceCap behind loses the oldest.
Publish(p, u) ==
  /\ p \in Running /\ published < MaxUpdates /\ published' = published + 1
  /\ queue' = [queue EXCEPT ![p] =
                 Append(IF Len(@) = SourceCap THEN Tail(@) ELSE @, u)]
  /\ UNCHANGED <<platform, mappings, registry, sink, filter, busy, scrolls, edits, history>>

\* The server's frames change the mappings and the glyphs under the pump.
Configure ==
  /\ edits < MaxEdits /\ edits' = edits + 1
  /\ \/ mappings' \in MappingLists /\ UNCHANGED registry
     \/ registry' \in GlyphSets /\ UNCHANGED mappings
  /\ <<mappings, registry>>' # <<mappings, registry>>
  /\ UNCHANGED <<platform, sink, queue, filter, busy, scrolls, published, history>>

RegisterSink ==
  /\ ~sink /\ sink' = TRUE
  /\ UNCHANGED <<platform, mappings, registry, queue, filter, busy, scrolls, published,
                 edits, history>>

-----------------------------------------------------------------------------
(* FeedbackFilter *)

\* Mutant: edge-agent keeps a signature per property alone.
KeyOfProperty(u) == <<u.property, AnyTarget>>

\* edge-agent keeps a signature per property and target, the iOS edge per
\* property (and device).
KeyOf(u) == <<u.property, IF platform = "edge" THEN u.target ELSE AnyTarget>>

\* Mutant: edge-agent throttles every property.
ThrottledAll(property) == TRUE

\* edge-agent throttles volumes only.
Throttled(property) == platform = "ios" \/ property = "volume"

\* should_render,
Admits(p, u, plan) ==
  /\ lastSig[p][KeyOf(u)] # plan
  /\ ~(Throttled(u.property) /\ <<p, KeyOf(u)>> \in cooling)

\* Mutant: a plan is remembered before the throttle is asked.
RememberEager(p, u, plan) ==
  /\ lastSig' = [lastSig EXCEPT ![p][KeyOf(u)] = plan]
  /\ cooling' = cooling \cup {c \in {<<p, KeyOf(u)>>} : Throttled(u.property)}

\* and what it leaves behind: a plan it refuses is not remembered.
Remember(p, u, plan) ==
  IF Admits(p, u, plan)
  THEN /\ lastSig' = [lastSig EXCEPT ![p][KeyOf(u)] = plan]
       /\ cooling' = cooling \cup {c \in {<<p, KeyOf(u)>>} : Throttled(u.property)}
  ELSE UNCHANGED filter

\* MIN_GAP later.
GapOver(p, k) ==
  /\ <<p, k>> \in cooling /\ cooling' = cooling \ {<<p, k>>}
  /\ UNCHANGED <<platform, mappings, registry, sink, queue, lastSig, busy, scrolls,
                 published, edits, history>>

-----------------------------------------------------------------------------
(* run_feedback_pump *)

\* Mutant: the handle is dropped, which detaches the task.
SupersededDetached(p, property) ==
  {[s EXCEPT !.held = @ /\ ~(s.pump = p /\ s.property = property)] : s \in scrolls}

\* The handle of the property's scroll is taken out and aborted: a task that
\* waits for its next frame is gone, one that is at it stops after it.
Superseded(p, property) ==
  {IF s.held /\ s.pump = p /\ s.property = property
   THEN [s EXCEPT !.held = FALSE, !.aborted = TRUE] ELSE s :
     s \in {r \in scrolls : ~(/\ r.held /\ r.pump = p /\ r.property = property
                              /\ r.phase = "wait")}}

NewScroll(p, u, title) ==
  [pump |-> p, property |-> u.property, title |-> title, left |-> FramesOf[title],
   phase |-> "wait", held |-> TRUE, aborted |-> FALSE]

Read(p) ==
  /\ busy[p] = NoPlan
  /\ queue' = [queue EXCEPT ![p] = Tail(@)]
  /\ UNCHANGED <<platform, mappings, registry, sink, published, edits>>

Asked(p, u, plan) == newest' = [newest EXCEPT ![p][<<u.property, u.target>>] = plan]

\* A mapping speaks for its target and for its candidates, while it is active.
Covers(m, t) == m.active /\ t \in {m.target} \cup m.candidates

\* The rules of the first mapping of the device that covers a target, if any.
RulesFor(t) ==
  {mappings[i].feedback :
     i \in {k \in DOMAIN mappings : /\ Covers(mappings[k], t)
                                   /\ \A j \in 1..(k - 1) : ~Covers(mappings[j], t)}}

\* None if no mapping covers the target, the host has not registered or no
\* rule decides.
Plans(u) == UNION {Resolve(u, list) : list \in {l \in RulesFor(u.target) : sink}}

Ignore(p, u) ==
  /\ Read(p) /\ Plans(u) = {}
  /\ UNCHANGED <<filter, busy, scrolls, history>>

\* The signature is the last one already, or the plan comes too soon.
Suppress(p, u) ==
  /\ Read(p)
  /\ \E plan \in Plans(u) :
        /\ ~Admits(p, u, plan) /\ Remember(p, u, plan)
        /\ Asked(p, u, plan)
  /\ UNCHANGED <<busy, scrolls, drawn>>

StartScroll(p, u, plan) ==
  /\ plan[1] = "scroll"
  /\ scrolls' = Superseded(p, u.property) \cup {NewScroll(p, u, plan[2])}
  /\ drawn' = [drawn EXCEPT ![p][KeyOf(u)] = plan]
  /\ UNCHANGED busy

StartFrame(p, u, plan) ==
  /\ plan[1] # "scroll"
  /\ scrolls' = Superseded(p, u.property)
  /\ busy' = [busy EXCEPT ![p] = [plan |-> plan, key |-> KeyOf(u)]]
  /\ UNCHANGED drawn

Accept(p, u) ==
  /\ Read(p)
  /\ \E plan \in Plans(u) :
        /\ Admits(p, u, plan) /\ Remember(p, u, plan)
        /\ Asked(p, u, plan)
        /\ StartScroll(p, u, plan) \/ StartFrame(p, u, plan)

Missing(plan) == plan[1] = "glyph" /\ plan[2] \notin registry

\* Mutant: a frame waits for its glyph.
WritePatiently(p) ==
  /\ busy[p] # NoPlan /\ ~Missing(busy[p].plan)
  /\ busy' = [busy EXCEPT ![p] = NoPlan]
  /\ drawn' = [drawn EXCEPT ![p][busy[p].key] = busy[p].plan]
  /\ UNCHANGED <<platform, mappings, registry, sink, queue, filter, scrolls, published,
                 edits, newest>>

\* execute: the registry is asked now; a glyph it lacks is not drawn.
Write(p) ==
  /\ busy[p] # NoPlan /\ busy' = [busy EXCEPT ![p] = NoPlan]
  /\ drawn' = [drawn EXCEPT ![p][busy[p].key] =
                 IF Missing(busy[p].plan) THEN NotDrawn ELSE busy[p].plan]
  /\ UNCHANGED <<platform, mappings, registry, sink, queue, filter, scrolls, published,
                 edits, newest>>

-----------------------------------------------------------------------------
(* run_scroll_animation *)

Animate(s, next) ==
  /\ scrolls' = (scrolls \ {s}) \cup next
  /\ UNCHANGED <<platform, mappings, registry, sink, queue, filter, busy, published,
                 edits, history>>

\* interval.tick returns,
Tick(s) == s.phase = "wait" /\ Animate(s, {[s EXCEPT !.phase = "draw"]})

\* and a frame goes to the LED. The last one ends the task; its handle stays
\* in the table, where an abort of it does nothing.
DrawFrame(s) ==
  /\ s.phase = "draw"
  /\ Animate(s, IF s.aborted \/ s.left = 1 THEN {}
                ELSE {[s EXCEPT !.phase = "wait", !.left = @ - 1]})

Receive(p) ==
  /\ queue[p] # <<>>
  /\ \E u \in {Head(queue[p])} : Ignore(p, u) \/ Suppress(p, u) \/ Accept(p, u)

Pump(p) == Receive(p) \/ Write(p)

Next ==
  \/ \E p \in Pumps, u \in Updates : Publish(p, u)
  \/ Configure \/ RegisterSink
  \/ \E p \in Pumps : Pump(p) \/ \E k \in Keys : GapOver(p, k)
  \/ \E s \in scrolls : Tick(s) \/ DrawFrame(s)

Spec == Init /\ [][Next]_vars

\* Pumps and animations run, and a write to the LED returns; nothing is ever
\* published or configured by force.
FairSpec ==
  /\ Spec
  /\ \A p \in Pumps : WF_vars(Pump(p))
  /\ WF_vars(\E s \in scrolls : Tick(s) \/ DrawFrame(s))

-----------------------------------------------------------------------------
(* Properties. *)

Idle(p) == busy[p] = NoPlan

\* The shape of the state: a scroll has frames left and only one is in the
\* table per property; the throttle times volumes alone on edge-agent, and
\* only a signature that was let through can be cooling.
TypeOK ==
  /\ platform \in Platforms
  /\ mappings \in MappingLists /\ registry \in GlyphSets
  /\ \A p \in Pumps :
        /\ queue[p] \in Seq(Updates) /\ Len(queue[p]) <= SourceCap
        /\ p \notin Running => queue[p] = <<>> /\ Idle(p)
  /\ \A c \in cooling :
        /\ lastSig[c[1]][c[2]] # NoPlan
        /\ platform = "ios" \/ c[2][1] = "volume"
  /\ \A s \in scrolls : s.left \in 1..FramesOf[s.title]
  /\ \A s1, s2 \in {s \in scrolls : s.held} :
        s1.pump = s2.pump /\ s1.property = s2.property => s1 = s2

\* A scroll that a newer state of its property has superseded draws no frame
\* but the one it is at (main.rs: "A new state update for the same property
\* aborts the previous scroll before launching the next").
SupersededScrollEnds ==
  \A s \in scrolls :
    \/ ~s.held /\ s.aborted /\ s.phase = "draw"
    \/ s.held /\ \E k \in Keys : k[1] = s.property /\ drawn[s.pump][k] = Scroll(s.title)

\* The filter remembers what reached the LED: a plan that the throttle
\* refused can be drawn later. A glyph the registry lacks is the exception.
FilterRemembersDrawn ==
  \A p \in Pumps, k \in Keys : Idle(p) => drawn[p][k] \in {lastSig[p][k], NotDrawn}

\* On edge-agent nothing but a volume that came too soon, or a glyph the
\* registry lacks, leaves a target's LED state older than the last update
\* its pump read, whatever other targets and properties publish meanwhile.
LastAskedIsDrawn ==
  platform = "edge" =>
    \A p \in EdgePumps, u \in Updates :
      LET asked == newest[p][<<u.property, u.target>>]
      IN  \/ ~Idle(p) \/ asked = NoPlan \/ u.property = "volume"
          \/ drawn[p][KeyOf(u)] \in {asked, NotDrawn}

\* A pump reads all that is published and gets over a glyph it cannot draw,
\* and every scroll ends.
Settles ==
  <>[](scrolls = {} /\ \A p \in Pumps : queue[p] = <<>> /\ Idle(p))

=============================================================================
