--------------------------- MODULE EdgeLinkProofs ---------------------------
(***************************************************************************)
(* Proofs about EdgeLink, for every set of keys, every capacity and every  *)
(* bound: its types, that nothing under way is all that the server lacks,  *)
(* and that every step is one of StateMirror.                              *)
(***************************************************************************)
EXTENDS EdgeLink, TLAPS

-----------------------------------------------------------------------------
(* The inductive invariant. *)

StateFrame == [kind : {"state"}, key : Keys, nr : 1..MaxChanges]

\* The pump's side of the queues carries states alone.
Typed ==
  /\ TypeOK /\ events <= inputs
  /\ source \in Seq(StateFrame) /\ todo \subseteq StateFrame

\* What the pump has yet to read is newer than all it has read, in order.
SourceAhead ==
  /\ \A i, j \in DOMAIN source : i < j => source[i].nr < source[j].nr
  /\ \A i \in DOMAIN source : source[i].nr <= nr
  /\ \A i \in DOMAIN source : \A k \in Keys : last[k] < source[i].nr
  /\ \A k \in Keys : last[k] <= nr

\* What the pump is sending is in its cache.
TodoIsLast == \A f \in todo : f.nr = last[f.key]

\* f, if it is a state, comes before g in the order of versions of a key.
Before(f, g) == f.kind = "state" /\ g.kind = "state" /\ f.key = g.key => f.nr <= g.nr

InOrder(q) == \A i, j \in DOMAIN q : i < j => Before(q[i], q[j])

\* f, if it is a state, is between the versions s and l of its key.
Between(f, s, l) == f.kind = "state" => s[f.key] <= f.nr /\ f.nr <= l[f.key]

\* From the server back to the pump the versions of a key never decrease.
Flow ==
  /\ \A k \in Keys : seen[k] <= last[k]
  /\ \A i \in DOMAIN wire : Between(wire[i], seen, last)
  /\ \A i \in DOMAIN outbox : Between(outbox[i], seen, last)
  /\ InOrder(wire) /\ InOrder(outbox)
  /\ \A i \in DOMAIN wire : \A j \in DOMAIN outbox : Before(wire[i], outbox[j])

\* The cached version of k is in one of the queues.
Newest(f, k) == f.kind = "state" /\ f.key = k /\ f.nr = last[k]
Coming(k) ==
  \/ \E f \in todo : Newest(f, k)
  \/ \E i \in DOMAIN outbox : Newest(outbox[i], k)
  \/ \E i \in DOMAIN wire : Newest(wire[i], k)

\* In a session whose resync has been answered the server holds the cached
\* version of a key, or it is on its way.
Covered == connected /\ resync = 0 => \A k \in Keys : seen[k] = last[k] \/ Coming(k)

LinkInv == Typed /\ SourceAhead /\ TodoIsLast /\ Flow /\ Covered

-----------------------------------------------------------------------------
(* Queues. *)

\* A queue with an element more.
LEMMA Appended ==
  ASSUME NEW T, NEW q \in Seq(T), NEW x \in T
  PROVE  /\ Append(q, x) \in Seq(T) /\ Len(Append(q, x)) = Len(q) + 1
         /\ DOMAIN Append(q, x) = 1..Len(q) + 1
         /\ Append(q, x)[Len(q) + 1] = x
         /\ \A i \in DOMAIN q : i \in 1..Len(q) /\ Append(q, x)[i] = q[i]
  OBVIOUS

\* A queue without its first element.
LEMMA Rest ==
  ASSUME NEW T, NEW q \in Seq(T), q # <<>>
  PROVE  /\ Tail(q) \in Seq(T) /\ Len(Tail(q)) = Len(q) - 1
         /\ Head(q) = q[1] /\ 1 \in DOMAIN q /\ Head(q) \in T
         /\ DOMAIN q = 1..Len(q) /\ Len(q) \in Nat
         /\ \A i \in DOMAIN Tail(q) : /\ i + 1 \in DOMAIN q /\ i + 1 > 1
                                      /\ Tail(q)[i] = q[i + 1]
  OBVIOUS

LEMMA OrderedRest ==
  ASSUME NEW T, NEW q \in Seq(T), q # <<>>, InOrder(q)
  PROVE  /\ InOrder(Tail(q))
         /\ \A i \in DOMAIN Tail(q) : Before(Head(q), Tail(q)[i])
<1>1. \A i, j \in DOMAIN Tail(q) : i < j => i + 1 < j + 1
  BY Rest
<1>2. QED
  BY <1>1, Rest DEF InOrder

LEMMA OrderedAppended ==
  ASSUME NEW T, NEW q \in Seq(T), NEW x \in T,
         InOrder(q), \A i \in DOMAIN q : Before(q[i], x)
  PROVE  InOrder(Append(q, x))
<1> SUFFICES ASSUME NEW i \in DOMAIN Append(q, x), NEW j \in DOMAIN Append(q, x), i < j
             PROVE  Before(Append(q, x)[i], Append(q, x)[j])
  BY DEF InOrder
<1>1. i \in DOMAIN q /\ Append(q, x)[i] = q[i]
  BY Appended
<1>2. CASE j \in DOMAIN q
  BY <1>1, <1>2, Appended DEF InOrder
<1>3. CASE j = Len(q) + 1
  BY <1>1, <1>3, Appended
<1>4. QED
  BY <1>2, <1>3, Appended

\* A state among the frames has a key and a version.
LEMMA StateOf ==
  ASSUME NEW f \in Frame, f.kind = "state"
  PROVE  f \in StateFrame /\ f.key \in Keys /\ f.nr \in 1..MaxChanges
  BY DEF Frame, StateFrame

LEMMA StateIsFrame == StateFrame \subseteq Frame
  BY DEF Frame, StateFrame

-----------------------------------------------------------------------------
(* Types. *)

LEMMA Caps ==
  /\ OutboxCap \in Nat \ {0} /\ ResyncCap \in Nat \ {0}
  /\ SourceCap \in Nat \ {0} /\ WireCap \in Nat \ {0}
  /\ MaxChanges \in Nat /\ MaxInputs \in Nat /\ MaxDrops \in Nat
  BY CapAssumption

LEMMA NoneTyped == None \in [Keys -> 0..MaxChanges] /\ \A k \in Keys : None[k] = 0
  BY Caps DEF None

LEMMA TypedInit == Init => Typed
<1> SUFFICES ASSUME Init PROVE Typed
  OBVIOUS
<1>1. wire \in Seq(Frame) /\ outbox \in Seq(Frame) /\ source \in Seq(Frame)
        /\ source \in Seq(StateFrame)
  BY DEF Init
<1>2. Len(wire) = 0 /\ Len(outbox) = 0 /\ Len(source) = 0
  BY DEF Init
<1>3. {seen, world, last} \subseteq [Keys -> 0..MaxChanges]
  BY NoneTyped DEF Init
<1>7. 0 \in 0..MaxChanges /\ 0 \in 0..ResyncCap /\ 0 \in 0..MaxInputs /\ 0 \in 0..MaxDrops
  BY Caps
<1>9. connected \in BOOLEAN
  BY DEF Init
<1>10. events <= inputs
  BY DEF Init
<1>4. /\ nr \in 0..MaxChanges /\ resync \in 0..ResyncCap
      /\ events \in 0..MaxInputs /\ inputs \in 0..MaxInputs /\ drops \in 0..MaxDrops
      /\ loop \in {"idle", "emit", "route"} /\ beat \in {"idle", "send"}
  BY <1>7 DEF Init
<1>8. todo \subseteq Frame /\ todo \subseteq StateFrame
  BY DEF Init
<1>5. Len(wire) <= WireCap /\ Len(outbox) <= OutboxCap /\ Len(source) <= SourceCap
  BY <1>2, Caps
<1>6. QED
  BY <1>1, <1>3, <1>4, <1>5, <1>8, <1>9, <1>10 DEF Typed, TypeOK

\* p holds what q held, less its first d, and x.
Followed(p, q, x) ==
  \E d \in {0, 1}, n \in Nat :
    /\ DOMAIN p = 1..n + 1 /\ p[n + 1] = x
    /\ \A i \in 1..n : i + d \in DOMAIN q /\ p[i] = q[i + d]

\* A broadcast holds what it held, without its oldest message when it was
\* full, and the new one last.
LEMMA PushedIs ==
  ASSUME NEW T, NEW q \in Seq(T), NEW x \in T, Len(q) <= SourceCap
  PROVE  /\ Pushed(q, x) \in Seq(T) /\ Len(Pushed(q, x)) <= SourceCap
         /\ Followed(Pushed(q, x), q, x)
<1>1. CASE Len(q) = SourceCap
  <2>1. q # <<>> /\ Pushed(q, x) = Append(Tail(q), x)
    BY <1>1, Caps DEF Pushed
  <2> DEFINE r == Tail(q)
  <2>2. r \in Seq(T) /\ Len(r) = Len(q) - 1 /\ Len(r) \in Nat /\ DOMAIN r = 1..Len(r)
          /\ \A i \in DOMAIN r : i + 1 \in DOMAIN q /\ r[i] = q[i + 1]
    BY <2>1, Rest
  <2> HIDE DEF r
  <2>3. /\ Append(r, x) \in Seq(T) /\ Len(Append(r, x)) = Len(r) + 1
        /\ DOMAIN Append(r, x) = 1..Len(r) + 1 /\ Append(r, x)[Len(r) + 1] = x
        /\ \A i \in 1..Len(r) : Append(r, x)[i] = r[i]
    BY <2>2, Appended
  <2>4. Pushed(q, x) = Append(r, x)
    BY <2>1 DEF r
  <2>5. Len(Append(r, x)) <= SourceCap
    BY <1>1, <2>2, <2>3, Caps
  <2>6. \A i \in 1..Len(r) : i + 1 \in DOMAIN q /\ Append(r, x)[i] = q[i + 1]
    BY <2>2, <2>3
  <2>7. QED
    BY <2>2, <2>3, <2>4, <2>5, <2>6 DEF Followed
<1>2. CASE Len(q) # SourceCap
  <2>1. Pushed(q, x) = Append(q, x) /\ Len(q) \in Nat /\ DOMAIN q = 1..Len(q)
    BY <1>2 DEF Pushed
  <2>5. Len(Append(q, x)) = Len(q) + 1
    BY Appended
  <2>6. \A m \in Nat : m <= SourceCap /\ m # SourceCap => m + 1 <= SourceCap
    BY Caps
  <2>2. Len(Append(q, x)) <= SourceCap
    BY <1>2, <2>1, <2>5, <2>6
  <2>3. \A i \in 1..Len(q) : i + 0 \in DOMAIN q /\ Append(q, x)[i] = q[i + 0]
    BY <2>1, Appended
  <2>4. QED
    BY <2>1, <2>2, <2>3, Appended DEF Followed
<1>3. QED
  BY <1>1, <1>2

\* Sending and forwarding keep the queues typed.
LEMMA SendTyped ==
  ASSUME Typed, NEW f \in Frame, Send(f)
  PROVE  outbox' \in Seq(Frame) /\ Len(outbox') <= OutboxCap
<1>1. outbox \in Seq(Frame) /\ Len(outbox) \in Nat /\ Len(outbox) < OutboxCap
        /\ outbox' = Append(outbox, f)
  BY DEF Typed, TypeOK, Send
<1>2. outbox' \in Seq(Frame) /\ Len(outbox') = Len(outbox) + 1
  BY <1>1, Appended
<1>3. \A m \in Nat : m < OutboxCap => m + 1 <= OutboxCap
  BY Caps
<1>4. QED
  BY <1>1, <1>2, <1>3

LEMMA TypedStep == Typed /\ [Next]_vars => Typed'
<1> SUFFICES ASSUME Typed, [Next]_vars PROVE Typed'
  OBVIOUS
<1> USE DEF Typed, TypeOK
<1>1. CASE \E k \in Keys : Change(k)
  <2>1. PICK k \in Keys : Change(k)
    BY <1>1
  <2>2. nr' \in 1..MaxChanges /\ nr' \in 0..MaxChanges
    BY <2>1, Caps DEF Change
  <2>3. world' \in [Keys -> 0..MaxChanges]
    BY <2>1, <2>2 DEF Change
  <2>4. State(k, nr') \in StateFrame /\ State(k, nr') \in Frame
    BY <2>2, StateIsFrame DEF State, StateFrame
  <2>5. source' \in Seq(StateFrame) /\ source' \in Seq(Frame) /\ Len(source') <= SourceCap
    BY <2>1, <2>4, PushedIs DEF Change
  <2>6. QED
    BY <2>1, <2>2, <2>3, <2>5 DEF Change, pump
<1>2. CASE DeviceEvent
  <2>1. inputs' \in 0..MaxInputs /\ events' \in 0..MaxInputs /\ events' <= inputs'
    BY <1>2, Caps DEF DeviceEvent
  <2>2. QED
    BY <1>2, <2>1 DEF DeviceEvent, pump
<1>3. CASE Drop
  <2>1. drops' \in 0..MaxDrops
    BY <1>3, Caps DEF Drop
  <2>2. wire' = <<>> /\ wire' \in Seq(Frame) /\ Len(wire') <= WireCap
    BY <1>3, Caps DEF Drop
  <2>3. outbox' \in Seq(Frame) /\ Len(outbox') <= OutboxCap
    <3>1. CASE outbox' = outbox
      BY <3>1
    <3>2. CASE outbox # <<>> /\ outbox' = Tail(outbox)
      <4>1. outbox' \in Seq(Frame) /\ Len(outbox') = Len(outbox) - 1 /\ Len(outbox) \in Nat
        BY <3>2, Rest
      <4>2. QED
        BY <4>1, Caps
    <3>3. QED
      BY <1>3, <3>1, <3>2 DEF Drop
  <2>4. seen' \in [Keys -> 0..MaxChanges]
    BY <1>3, NoneTyped DEF Drop
  <2>5. connected' \in BOOLEAN
    BY <1>3 DEF Drop
  <2>6. QED
    BY <1>3, <2>1, <2>2, <2>3, <2>4, <2>5 DEF Drop, sides, pump
<1>4. CASE Connect
  <2>1. resync' \in 0..ResyncCap
    BY <1>4, Caps DEF Connect
  <2>2. connected' \in BOOLEAN
    BY <1>4 DEF Connect
  <2>3. QED
    BY <1>4, <2>1, <2>2 DEF Connect, sides
<1>5. CASE Forward
  <2>1. outbox \in Seq(Frame) /\ outbox # <<>> /\ outbox' = Tail(outbox)
          /\ wire \in Seq(Frame) /\ wire' = Append(wire, Head(outbox))
          /\ Len(wire) < WireCap /\ Len(wire) \in Nat
    BY <1>5 DEF Forward
  <2>2. /\ outbox' \in Seq(Frame) /\ Len(outbox') = Len(outbox) - 1 /\ Len(outbox) \in Nat
        /\ Head(outbox) \in Frame
    BY <2>1, Rest
  <2>3. wire' \in Seq(Frame) /\ Len(wire') = Len(wire) + 1
    BY <2>1, <2>2, Appended
  <2>4. \A m \in Nat : m < WireCap => m + 1 <= WireCap
    BY Caps
  <2>5. \A m \in Nat : m <= OutboxCap => m - 1 <= OutboxCap
    BY Caps
  <2>6. Len(wire') <= WireCap /\ Len(outbox') <= OutboxCap
    BY <2>1, <2>2, <2>3, <2>4, <2>5
  <2>7. QED
    BY <1>5, <2>2, <2>3, <2>6 DEF Forward, sides, pump
<1>6. CASE ServerReceive
  <2>1. wire \in Seq(Frame) /\ wire # <<>> /\ wire' = Tail(wire)
    BY <1>6 DEF ServerReceive
  <2>2. wire' \in Seq(Frame) /\ Len(wire') = Len(wire) - 1 /\ Len(wire) \in Nat
          /\ Head(wire) \in Frame
    BY <2>1, Rest
  <2>3. \A m \in Nat : m <= WireCap => m - 1 <= WireCap
    BY Caps
  <2>4. Head(wire).kind = "state" =>
          Head(wire).key \in Keys /\ Head(wire).nr \in 0..MaxChanges
    BY <2>2, StateOf, Caps
  <2>5. seen' \in [Keys -> 0..MaxChanges]
    BY <1>6, <2>4 DEF ServerReceive
  <2>6. QED
    BY <1>6, <2>1, <2>2, <2>3, <2>5 DEF ServerReceive, sides, pump
<1>7. CASE PumpTake
  <2>1. source \in Seq(StateFrame) /\ source # <<>> /\ source' = Tail(source)
    BY <1>7 DEF PumpTake
  <2>2. source' \in Seq(StateFrame) /\ Len(source') = Len(source) - 1 /\ Len(source) \in Nat
          /\ Head(source) \in StateFrame
    BY <2>1, Rest
  <2>3. source' \in Seq(Frame)
    BY <2>1, Rest
  <2>4. \A m \in Nat : m <= SourceCap => m - 1 <= SourceCap
    BY Caps
  <2>5. Head(source).key \in Keys /\ Head(source).nr \in 0..MaxChanges
    <3>1. Head(source).key \in Keys /\ Head(source).nr \in 1..MaxChanges
      BY <2>2 DEF StateFrame
    <3>2. 1..MaxChanges \subseteq 0..MaxChanges
      BY Caps
    <3>3. QED
      BY <3>1, <3>2
  <2>6. last' \in [Keys -> 0..MaxChanges]
    BY <1>7, <2>5 DEF PumpTake
  <2>7. todo' \subseteq StateFrame /\ todo' \subseteq Frame
    BY <1>7, <2>2, StateIsFrame DEF PumpTake
  <2>8. Len(source') <= SourceCap
    BY <2>2, <2>4
  <2>9. QED
    BY <1>7, <2>2, <2>3, <2>6, <2>7, <2>8 DEF PumpTake
<1>8. CASE PumpReplay
  <2>1. resync' \in 0..ResyncCap
    <3>1. \A n \in 0..ResyncCap : n > 0 => n - 1 \in 0..ResyncCap
      BY Caps
    <3>2. resync \in 0..ResyncCap /\ resync > 0 /\ resync' = resync - 1
      BY <1>8 DEF PumpReplay
    <3>3. QED
      BY <3>1, <3>2
  <2>2. todo' \subseteq StateFrame
    <3>1. \A n \in 0..MaxChanges : n # 0 => n \in 1..MaxChanges
      BY Caps
    <3>2. \A k \in Keys : last[k] \in 0..MaxChanges
      OBVIOUS
    <3>3. \A k \in Keys : last[k] # 0 => last[k] \in 1..MaxChanges
      BY <3>1, <3>2
    <3>4. \A k \in Keys : last[k] # 0 => State(k, last[k]) \in StateFrame
      BY <3>3 DEF State, StateFrame
    <3>5. todo' = {State(k, last[k]) : k \in {x \in Keys : last[x] # 0}}
      BY <1>8 DEF PumpReplay
    <3>6. QED
      BY <3>4, <3>5
  <2>3. todo' \subseteq Frame
    BY <2>2, StateIsFrame
  <2>4. UNCHANGED <<connected, wire, seen, world, nr, source, events, inputs, last, loop,
                    beat, outbox, drops>>
    BY <1>8 DEF PumpReplay, sides
  <2>5. QED
    BY <2>1, <2>2, <2>3, <2>4
<1>9. CASE PumpSend
  <2>1. PICK f \in todo : Send(f) /\ todo' = todo \ {f}
    BY <1>9 DEF PumpSend
  <2>2. outbox' \in Seq(Frame) /\ Len(outbox') <= OutboxCap
    BY <2>1, SendTyped
  <2>3. QED
    BY <1>9, <2>1, <2>2 DEF PumpSend, sides
<1>10. CASE Tick \/ RouteInput
  BY <1>10 DEF Tick, RouteInput, sides, pump
<1>11. CASE SendBeat
  <2>1. outbox' \in Seq(Frame) /\ Len(outbox') <= OutboxCap
    BY <1>11, SendTyped DEF SendBeat, Beat, Frame
  <2>2. QED
    BY <1>11, <2>1 DEF SendBeat, sides, pump
<1>12. CASE TakeEvent
  <2>1. events' \in 0..MaxInputs /\ events' <= inputs'
    BY <1>12, Caps DEF TakeEvent
  <2>2. QED
    BY <1>12, <2>1 DEF TakeEvent, pump
<1>13. CASE ReportInput
  <2>1. outbox' \in Seq(Frame) /\ Len(outbox') <= OutboxCap
    BY <1>13, SendTyped DEF ReportInput, Report, Frame
  <2>2. QED
    BY <1>13, <2>1 DEF ReportInput, sides, pump
<1>14. CASE UNCHANGED vars
  BY <1>14 DEF vars, sides, pump
<1>15. QED
  BY <1>1, <1>2, <1>3, <1>4, <1>5, <1>6, <1>7, <1>8, <1>9, <1>10, <1>11, <1>12,
     <1>13, <1>14 DEF Next, Environment

-----------------------------------------------------------------------------
(* Versions. *)

\* Versions and keys under way are versions and keys.
LEMMA Versions ==
  ASSUME Typed
  PROVE  /\ nr \in Nat /\ DOMAIN seen = Keys /\ DOMAIN last = Keys
         /\ \A k \in Keys : seen[k] \in Nat /\ last[k] \in Nat
         /\ \A i \in DOMAIN source : source[i].key \in Keys /\ source[i].nr \in Nat
         /\ \A f \in todo : f.kind = "state" /\ f.key \in Keys /\ f.nr \in Nat
         /\ \A i \in DOMAIN wire : wire[i].kind = "state" =>
              wire[i].key \in Keys /\ wire[i].nr \in Nat
         /\ \A i \in DOMAIN outbox : outbox[i].kind = "state" =>
              outbox[i].key \in Keys /\ outbox[i].nr \in Nat
<1>1. 0..MaxChanges \subseteq Nat /\ 1..MaxChanges \subseteq Nat
  BY Caps
<1>2. nr \in Nat /\ DOMAIN seen = Keys /\ DOMAIN last = Keys
        /\ \A k \in Keys : seen[k] \in Nat /\ last[k] \in Nat
  BY <1>1 DEF Typed, TypeOK
<1>3. \A f \in StateFrame : f.kind = "state" /\ f.key \in Keys /\ f.nr \in Nat
  BY <1>1 DEF StateFrame
<1>4. \A f \in Frame : f.kind = "state" => f.key \in Keys /\ f.nr \in Nat
  BY <1>3, StateOf
<1>5. \A i \in DOMAIN source : source[i] \in StateFrame
  BY DEF Typed
<1>6. /\ \A i \in DOMAIN wire : wire[i] \in Frame
      /\ \A i \in DOMAIN outbox : outbox[i] \in Frame
  BY DEF Typed, TypeOK
<1>7. todo \subseteq StateFrame
  BY DEF Typed
<1>8. QED
  BY <1>2, <1>3, <1>4, <1>5, <1>6, <1>7

LEMMA AheadInit == Init => SourceAhead /\ TodoIsLast
<1> SUFFICES ASSUME Init PROVE SourceAhead /\ TodoIsLast
  OBVIOUS
<1>1. DOMAIN source = {} /\ todo = {}
  BY DEF Init
<1>2. last = None /\ nr = 0
  BY DEF Init
<1>3. \A k \in Keys : last[k] <= nr
  <2>1. \A k \in Keys : last[k] = 0
    BY <1>2, NoneTyped
  <2>2. 0 <= 0
    OBVIOUS
  <2>3. QED
    BY <1>2, <2>1, <2>2, Zenon
<1>4. QED
  BY <1>1, <1>3 DEF SourceAhead, TodoIsLast

LEMMA AheadStep == Typed /\ SourceAhead /\ [Next]_vars => SourceAhead'
<1> SUFFICES ASSUME Typed, SourceAhead, [Next]_vars PROVE SourceAhead'
  OBVIOUS
<1>1. CASE \E k \in Keys : Change(k)
  <2>1. PICK k \in Keys : Change(k)
    BY <1>1
  <2> DEFINE x == State(k, nr')
  <2>2. nr' = nr + 1 /\ nr' \in 1..MaxChanges /\ x.nr = nr' /\ x \in StateFrame
          /\ source' = Pushed(source, x) /\ last' = last
    BY <2>1, Versions, Caps DEF Change, State, StateFrame, pump
  <2> HIDE DEF x
  <2>3. source \in Seq(StateFrame) /\ Len(source) <= SourceCap
    BY DEF Typed, TypeOK
  <2>16. Followed(source', source, x)
    BY <2>2, <2>3, PushedIs
  <2>4. PICK d \in {0, 1}, n \in Nat :
          /\ DOMAIN source' = 1..n + 1 /\ source'[n + 1] = x
          /\ \A i \in 1..n : i + d \in DOMAIN source /\ source'[i] = source[i + d]
    BY <2>16 DEF Followed
  <2>5. \A i \in DOMAIN source' : i \in 1..n \/ i = n + 1
    BY <2>4
  <2>6. \A i \in 1..n : source'[i].nr \in Nat /\ source'[i].nr <= nr
          /\ \A k1 \in Keys : last[k1] < source'[i].nr
    BY <2>4, Versions DEF SourceAhead
  <2>7. \A i, j \in 1..n : i < j => source'[i].nr < source'[j].nr
    <3>1. \A i, j \in 1..n : i < j => i + d < j + d
      BY <2>4
    <3>2. QED
      BY <2>4, <3>1 DEF SourceAhead
  <2>8. source'[n + 1].nr = nr + 1 /\ nr \in Nat
    BY <2>2, <2>4, Versions
  <2>9. \A k1 \in Keys : last[k1] <= nr /\ last[k1] \in Nat
    BY Versions DEF SourceAhead
  <2>10. \A i \in 1..n : source'[i].nr < source'[n + 1].nr
    BY <2>6, <2>8
  <2>11. \A i, j \in DOMAIN source' : i < j => source'[i].nr < source'[j].nr
    <3> SUFFICES ASSUME NEW i \in DOMAIN source', NEW j \in DOMAIN source', i < j
                 PROVE  source'[i].nr < source'[j].nr
      OBVIOUS
    <3>1. i \in 1..n
      BY <2>4
    <3>2. QED
      BY <3>1, <2>5, <2>7, <2>10
  <2>12. \A i \in DOMAIN source' : source'[i].nr <= nr + 1
    BY <2>5, <2>6, <2>8
  <2>13. \A i \in DOMAIN source' : \A k1 \in Keys : last[k1] < source'[i].nr
    BY <2>5, <2>6, <2>8, <2>9
  <2>14. \A k1 \in Keys : last[k1] <= nr + 1
    BY <2>8, <2>9
  <2>15. QED
    BY <2>2, <2>11, <2>12, <2>13, <2>14 DEF SourceAhead
<1>2. CASE PumpTake
  <2>1. /\ source \in Seq(StateFrame) /\ source # <<>> /\ source' = Tail(source) /\ nr' = nr
        /\ last' = [last EXCEPT ![Head(source).key] = Head(source).nr]
    BY <1>2 DEF PumpTake, Typed
  <2>2. /\ Head(source) = source[1] /\ 1 \in DOMAIN source
        /\ \A i \in DOMAIN source' : /\ i + 1 \in DOMAIN source /\ i + 1 > 1
                                     /\ source'[i] = source[i + 1]
    BY <2>1, Rest
  <2>3. \A i, j \in DOMAIN source' : i < j => i + 1 < j + 1
    BY <2>1, Rest
  <2>4. \A k \in Keys : last'[k] = last[k] \/ last'[k] = source[1].nr
    BY <2>1, <2>2, Versions
  <2>5. \A i, j \in DOMAIN source' : i < j => source'[i].nr < source'[j].nr
    BY <2>2, <2>3 DEF SourceAhead
  <2>6. \A i \in DOMAIN source' : source'[i].nr <= nr
    BY <2>2 DEF SourceAhead
  <2>7. \A i \in DOMAIN source' : source[1].nr < source'[i].nr
    BY <2>2 DEF SourceAhead
  <2>8. \A i \in DOMAIN source' : \A k \in Keys : last'[k] < source'[i].nr
    BY <2>2, <2>4, <2>7 DEF SourceAhead
  <2>9. \A k \in Keys : last'[k] <= nr
    BY <2>2, <2>4 DEF SourceAhead
  <2>10. QED
    BY <2>1, <2>5, <2>6, <2>8, <2>9 DEF SourceAhead
<1>3. CASE UNCHANGED <<nr, source, last>>
  BY <1>3 DEF SourceAhead
<1>4. \/ UNCHANGED <<nr, source, last>> \/ PumpTake \/ \E k \in Keys : Change(k)
  BY DEF Next, Environment, vars, sides, pump, DeviceEvent, Drop, Connect, Forward,
         ServerReceive, PumpReplay, PumpSend, Tick, SendBeat, TakeEvent, ReportInput,
         RouteInput
<1>5. QED
  BY <1>1, <1>2, <1>3, <1>4

LEMMA TodoStep == Typed /\ TodoIsLast /\ [Next]_vars => TodoIsLast'
<1> SUFFICES ASSUME Typed, TodoIsLast, [Next]_vars PROVE TodoIsLast'
  OBVIOUS
<1>1. CASE PumpTake
  <2>1. /\ source # <<>> /\ todo' = {Head(source)}
        /\ last' = [last EXCEPT ![Head(source).key] = Head(source).nr]
    BY <1>1 DEF PumpTake
  <2>2. Head(source).key \in DOMAIN last
    <3>1. source \in Seq(StateFrame) /\ source # <<>>
      BY <2>1 DEF Typed
    <3>2. Head(source) = source[1] /\ 1 \in DOMAIN source
      BY <3>1, Rest
    <3>3. QED
      BY <3>2, Versions
  <2>3. QED
    BY <2>1, <2>2 DEF TodoIsLast
<1>2. CASE PumpReplay
  BY <1>2 DEF PumpReplay, State, TodoIsLast
<1>3. CASE PumpSend
  BY <1>3 DEF PumpSend, TodoIsLast
<1>4. CASE UNCHANGED <<todo, last>>
  BY <1>4 DEF TodoIsLast
<1>5. UNCHANGED <<todo, last>> \/ PumpTake \/ PumpReplay \/ PumpSend
  BY DEF Next, Environment, vars, sides, pump, Change, DeviceEvent, Drop, Connect, Forward,
         ServerReceive, Tick, SendBeat, TakeEvent, ReportInput, RouteInput
<1>6. QED
  BY <1>1, <1>2, <1>3, <1>4, <1>5

-----------------------------------------------------------------------------
(* From the pump to the server. *)

\* A frame sent after those before it keeps the flow, if it is no state or the
\* cached version.
LEMMA SendFlows ==
  ASSUME Typed, Flow, NEW f \in Frame, Send(f), UNCHANGED <<seen, last, wire>>,
         f.kind = "state" => f.nr = last[f.key]
  PROVE  Flow'
<1>1. outbox \in Seq(Frame) /\ outbox' = Append(outbox, f)
  BY DEF Typed, TypeOK, Send
<1>2. /\ DOMAIN outbox' = 1..Len(outbox) + 1 /\ outbox'[Len(outbox) + 1] = f
      /\ \A i \in DOMAIN outbox : i \in 1..Len(outbox) /\ outbox'[i] = outbox[i]
      /\ DOMAIN outbox = 1..Len(outbox) /\ Len(outbox) \in Nat
  BY <1>1, Appended
<1>3. \A i \in DOMAIN outbox' : i \in DOMAIN outbox \/ i = Len(outbox) + 1
  BY <1>2
<1>4. Between(f, seen, last)
  <2> SUFFICES ASSUME f.kind = "state" PROVE seen[f.key] <= f.nr /\ f.nr <= last[f.key]
    BY DEF Between
  <2>1. f.key \in Keys
    BY StateOf
  <2>2. seen[f.key] <= last[f.key] /\ last[f.key] <= last[f.key]
    BY <2>1, Versions DEF Flow
  <2>3. QED
    BY <2>2
<1>5. \A g \in Frame : Between(g, seen, last) => Before(g, f)
  BY DEF Between, Before
<1>6. \A i \in DOMAIN outbox : outbox[i] \in Frame /\ Before(outbox[i], f)
  BY <1>1, <1>5 DEF Flow
<1>7. \A i \in DOMAIN wire : Before(wire[i], f)
  BY <1>5 DEF Flow, Typed, TypeOK
<1>8. InOrder(outbox')
  BY <1>1, <1>6, OrderedAppended DEF Flow
<1>9. \A i \in DOMAIN outbox' : Between(outbox'[i], seen, last)
  BY <1>2, <1>3, <1>4 DEF Flow
<1>10. \A i \in DOMAIN wire : \A j \in DOMAIN outbox' : Before(wire[i], outbox'[j])
  BY <1>2, <1>3, <1>7 DEF Flow
<1>11. QED
  BY <1>8, <1>9, <1>10 DEF Flow, Between

LEMMA FlowInit == Init => Flow
<1> SUFFICES ASSUME Init PROVE Flow
  OBVIOUS
<1>1. DOMAIN wire = {} /\ DOMAIN outbox = {}
  BY DEF Init
<1>2. seen = None /\ last = None
  BY DEF Init
<1>3. \A k \in Keys : seen[k] = 0 /\ last[k] = 0
  BY <1>2, NoneTyped
<1>4. 0 <= 0
  OBVIOUS
<1>5. \A k \in Keys : seen[k] <= last[k]
  BY <1>3, <1>4, Zenon
<1>6. QED
  BY <1>1, <1>5 DEF Flow, InOrder

LEMMA FlowStep == Typed /\ SourceAhead /\ TodoIsLast /\ Flow /\ [Next]_vars => Flow'
<1> SUFFICES ASSUME Typed, SourceAhead, TodoIsLast, Flow, [Next]_vars PROVE Flow'
  OBVIOUS
<1>1. CASE Drop
  <2>1. last' = last /\ wire' = <<>> /\ DOMAIN wire' = {} /\ (seen' = seen \/ seen' = None)
    BY <1>1 DEF Drop, pump
  <2>2. \A k \in Keys : last[k] \in Nat /\ seen[k] \in Nat
    BY Versions
  <2>3. \A k \in Keys : seen'[k] <= seen[k]
    BY <2>1, <2>2, NoneTyped
  <2>4. \A g \in Frame : Between(g, seen, last) => Between(g, seen', last')
    <3> SUFFICES ASSUME NEW g \in Frame, Between(g, seen, last), g.kind = "state"
                 PROVE  seen'[g.key] <= g.nr /\ g.nr <= last[g.key]
      BY <2>1 DEF Between
    <3>1. g.key \in Keys /\ g.nr \in Nat
      BY StateOf, Caps
    <3>2. seen'[g.key] \in Nat
      BY <3>1, <2>1, <2>2, NoneTyped
    <3>3. QED
      BY <3>1, <3>2, <2>2, <2>3 DEF Between
  <2>5. /\ \A i \in DOMAIN outbox' : outbox'[i] \in Frame /\ Between(outbox'[i], seen, last)
        /\ InOrder(outbox')
    <3>1. CASE outbox' = outbox
      BY <3>1 DEF Flow, Typed, TypeOK
    <3>2. CASE outbox # <<>> /\ outbox' = Tail(outbox)
      <4>1. outbox \in Seq(Frame)
        BY DEF Typed, TypeOK
      <4>2. \A i \in DOMAIN outbox' : i + 1 \in DOMAIN outbox /\ outbox'[i] = outbox[i + 1]
        BY <3>2, <4>1, Rest
      <4>3. InOrder(outbox')
        BY <3>2, <4>1, OrderedRest DEF Flow
      <4>4. QED
        BY <4>1, <4>2, <4>3 DEF Flow
    <3>3. QED
      BY <1>1, <3>1, <3>2 DEF Drop
  <2>6. \A k \in Keys : seen'[k] <= last'[k]
    <3>1. \A k \in Keys : seen'[k] \in Nat
      BY <2>1, <2>2, NoneTyped
    <3>2. QED
      BY <3>1, <2>1, <2>2, <2>3 DEF Flow
  <2>7. InOrder(wire')
    BY <2>1 DEF InOrder
  <2>8. \A i \in DOMAIN outbox' : Between(outbox'[i], seen', last')
    BY <2>4, <2>5
  <2>9. QED
    BY <2>1, <2>5, <2>6, <2>7, <2>8 DEF Flow, Between
<1>2. CASE Forward
  <2>1. /\ outbox \in Seq(Frame) /\ outbox # <<>> /\ outbox' = Tail(outbox)
        /\ wire \in Seq(Frame) /\ wire' = Append(wire, Head(outbox))
        /\ seen' = seen /\ last' = last
    BY <1>2 DEF Forward, Typed, TypeOK, pump
  <2>2. /\ Head(outbox) = outbox[1] /\ 1 \in DOMAIN outbox /\ Head(outbox) \in Frame
        /\ \A i \in DOMAIN outbox' : i + 1 \in DOMAIN outbox /\ outbox'[i] = outbox[i + 1]
    BY <2>1, Rest
  <2>3. /\ DOMAIN wire' = 1..Len(wire) + 1 /\ wire'[Len(wire) + 1] = outbox[1]
        /\ \A i \in DOMAIN wire : wire'[i] = wire[i]
        /\ DOMAIN wire = 1..Len(wire) /\ Len(wire) \in Nat
    BY <2>1, <2>2, Appended
  <2>4. \A i \in DOMAIN wire' : i \in DOMAIN wire \/ i = Len(wire) + 1
    BY <2>3
  <2>5. /\ InOrder(outbox') /\ \A i \in DOMAIN outbox' : Before(outbox[1], outbox'[i])
    BY <2>1, <2>2, OrderedRest DEF Flow
  <2>6. InOrder(wire')
    BY <2>1, <2>2, OrderedAppended DEF Flow
  <2>7. \A i \in DOMAIN wire' : Between(wire'[i], seen, last)
    BY <2>2, <2>3, <2>4 DEF Flow
  <2>8. \A i \in DOMAIN outbox' : Between(outbox'[i], seen, last)
    BY <2>2 DEF Flow
  <2>9. \A i \in DOMAIN wire' : \A j \in DOMAIN outbox' : Before(wire'[i], outbox'[j])
    BY <2>2, <2>3, <2>4, <2>5 DEF Flow
  <2>10. QED
    BY <2>1, <2>5, <2>6, <2>7, <2>8, <2>9 DEF Flow, Between
<1>3. CASE ServerReceive
  <2>1. /\ wire \in Seq(Frame) /\ wire # <<>> /\ wire' = Tail(wire)
        /\ outbox' = outbox /\ last' = last
    BY <1>3 DEF ServerReceive, Typed, TypeOK, pump
  <2>2. /\ Head(wire) = wire[1] /\ 1 \in DOMAIN wire /\ Head(wire) \in Frame
        /\ \A i \in DOMAIN wire' : i + 1 \in DOMAIN wire /\ wire'[i] = wire[i + 1]
    BY <2>1, Rest
  <2>3. InOrder(wire') /\ \A i \in DOMAIN wire' : Before(wire[1], wire'[i])
    BY <2>1, <2>2, OrderedRest DEF Flow
  <2>4. \A k \in Keys : \/ seen'[k] = seen[k]
                        \/ wire[1].kind = "state" /\ wire[1].key = k /\ seen'[k] = wire[1].nr
    BY <1>3, <2>2, Versions DEF ServerReceive
  <2>5. Between(wire[1], seen, last)
    BY <2>2 DEF Flow
  <2>6. \A k \in Keys : seen'[k] <= last[k]
    BY <2>4, <2>5 DEF Flow, Between
  <2>7. ASSUME NEW g \in Frame, Between(g, seen, last), Before(wire[1], g)
        PROVE  Between(g, seen', last')
    <3> SUFFICES ASSUME g.kind = "state" PROVE seen'[g.key] <= g.nr
      BY <2>1, <2>7 DEF Between
    <3>1. g.key \in Keys
      BY StateOf
    <3>2. QED
      BY <3>1, <2>4, <2>7 DEF Between, Before
  <2>8. \A i \in DOMAIN wire' : Between(wire'[i], seen', last')
    <3>1. \A i \in DOMAIN wire' : wire'[i] \in Frame /\ Between(wire'[i], seen, last)
      BY <2>1, <2>2 DEF Flow
    <3>2. QED
      BY <3>1, <2>3, <2>7
  <2>9. \A i \in DOMAIN outbox : Between(outbox[i], seen', last')
    <3>1. \A i \in DOMAIN outbox : outbox[i] \in Frame /\ Between(outbox[i], seen, last)
      BY DEF Flow, Typed, TypeOK
    <3>2. QED
      BY <3>1, <2>2, <2>7 DEF Flow
  <2>10. \A i \in DOMAIN wire' : \A j \in DOMAIN outbox : Before(wire'[i], outbox[j])
    BY <2>2 DEF Flow
  <2>11. QED
    BY <2>1, <2>3, <2>6, <2>8, <2>9, <2>10 DEF Flow, Between
<1>4. CASE PumpTake
  <2>1. /\ source \in Seq(StateFrame) /\ source # <<>>
        /\ last' = [last EXCEPT ![Head(source).key] = Head(source).nr]
        /\ UNCHANGED <<seen, wire, outbox>>
    BY <1>4 DEF PumpTake, Typed
  <2>2. Head(source) = source[1] /\ 1 \in DOMAIN source
    BY <2>1, Rest
  <2>3. \A k \in Keys : last[k] \in Nat /\ seen[k] \in Nat /\ last'[k] \in Nat
    BY <2>1, <2>2, Versions
  <2>4. \A k \in Keys : last[k] <= last'[k]
    BY <2>1, <2>2, <2>3, Versions DEF SourceAhead
  <2>5. \A g \in Frame : Between(g, seen, last) => Between(g, seen', last')
    <3> SUFFICES ASSUME NEW g \in Frame, Between(g, seen, last), g.kind = "state"
                 PROVE  g.nr <= last'[g.key]
      BY <2>1 DEF Between
    <3>1. g.key \in Keys /\ g.nr \in Nat
      BY StateOf, Caps
    <3>2. QED
      BY <3>1, <2>3, <2>4 DEF Between
  <2>6. /\ \A i \in DOMAIN wire : wire[i] \in Frame
        /\ \A i \in DOMAIN outbox : outbox[i] \in Frame
    BY DEF Typed, TypeOK
  <2>7. \A k \in Keys : seen[k] <= last'[k]
    BY <2>3, <2>4 DEF Flow
  <2>8. /\ \A i \in DOMAIN wire : Between(wire[i], seen', last')
        /\ \A i \in DOMAIN outbox : Between(outbox[i], seen', last')
    BY <2>5, <2>6 DEF Flow
  <2>9. QED
    BY <2>1, <2>7, <2>8 DEF Flow, Between
<1>5. CASE PumpSend
  <2>1. PICK f \in todo : Send(f)
    BY <1>5 DEF PumpSend
  <2>2. f \in Frame /\ f.nr = last[f.key] /\ UNCHANGED <<seen, last, wire>>
    BY <1>5 DEF PumpSend, TodoIsLast, Typed, TypeOK
  <2>3. QED
    BY <2>1, <2>2, SendFlows
<1>6. CASE SendBeat
  BY <1>6, SendFlows DEF SendBeat, Beat, Frame, pump
<1>7. CASE ReportInput
  BY <1>7, SendFlows DEF ReportInput, Report, Frame, pump
<1>8. CASE UNCHANGED <<seen, last, wire, outbox>>
  BY <1>8 DEF Flow, Between
<1>9. \/ UNCHANGED <<seen, last, wire, outbox>> \/ Drop \/ Forward \/ ServerReceive
      \/ PumpTake \/ PumpSend \/ SendBeat \/ ReportInput
  BY DEF Next, Environment, vars, sides, pump, Change, DeviceEvent, Connect,
         PumpReplay, Tick, TakeEvent, RouteInput
<1>10. QED
  BY <1>1, <1>2, <1>3, <1>4, <1>5, <1>6, <1>7, <1>8, <1>9

-----------------------------------------------------------------------------
(* What the server lacks is under way. *)

\* A frame sent leaves under way what was: it moves to the outbox itself.
LEMMA SendCovers ==
  ASSUME Typed, NEW f \in Frame, Send(f), UNCHANGED <<last, wire>>,
         todo' = todo \/ todo' = todo \ {f}, NEW k \in Keys, Coming(k)
  PROVE  Coming(k)'
<1>1. outbox \in Seq(Frame) /\ outbox' = Append(outbox, f)
  BY DEF Typed, TypeOK, Send
<1>2. /\ DOMAIN outbox' = 1..Len(outbox) + 1 /\ outbox'[Len(outbox) + 1] = f
      /\ \A i \in DOMAIN outbox : i \in 1..Len(outbox) /\ outbox'[i] = outbox[i]
      /\ DOMAIN outbox = 1..Len(outbox) /\ Len(outbox) \in Nat
  BY <1>1, Appended
<1>3. Len(outbox) + 1 \in DOMAIN outbox' /\ \A i \in DOMAIN outbox : i \in DOMAIN outbox'
  BY <1>2
<1>4. CASE \E g \in todo : Newest(g, k)
  <2>1. PICK g \in todo : Newest(g, k)
    BY <1>4
  <2>2. CASE g \in todo'
    BY <2>1, <2>2 DEF Coming, Newest
  <2>3. CASE g = f
    BY <2>1, <2>3, <1>2, <1>3 DEF Coming, Newest
  <2>4. QED
    BY <2>2, <2>3
<1>5. CASE \E i \in DOMAIN outbox : Newest(outbox[i], k)
  BY <1>5, <1>2, <1>3 DEF Coming, Newest
<1>6. CASE \E i \in DOMAIN wire : Newest(wire[i], k)
  BY <1>6 DEF Coming, Newest
<1>7. QED
  BY <1>4, <1>5, <1>6 DEF Coming

LEMMA CoveredStep ==
  Typed /\ SourceAhead /\ TodoIsLast /\ Flow /\ Covered /\ [Next]_vars => Covered'
<1> SUFFICES ASSUME Typed, SourceAhead, TodoIsLast, Flow, Covered, [Next]_vars,
                    connected', resync' = 0, NEW k \in Keys
             PROVE  seen'[k] = last'[k] \/ Coming(k)'
  BY DEF Covered
<1>1. CASE Connect
  <2>1. resync \in 0..ResyncCap /\ ResyncCap \in Nat \ {0}
    BY Caps DEF Typed, TypeOK
  <2>2. \A n \in 0..ResyncCap : n + 1 # 0
    BY <2>1
  <2>3. resync' = IF resync = ResyncCap THEN resync ELSE resync + 1
    BY <1>1 DEF Connect
  <2>4. QED
    BY <2>1, <2>2, <2>3
<1>2. CASE Drop
  BY <1>2 DEF Drop
<1>3. CASE PumpReplay
  <2>1. /\ todo' = {State(x, last[x]) : x \in {y \in Keys : last[y] # 0}}
        /\ UNCHANGED <<seen, last>>
    BY <1>3 DEF PumpReplay
  <2>2. CASE last[k] = 0
    BY <2>1, <2>2, Versions DEF Flow
  <2>3. CASE last[k] # 0
    <3>1. State(k, last[k]) \in todo'
      BY <2>1, <2>3
    <3>2. State(k, last[k]).kind = "state" /\ State(k, last[k]).key = k
            /\ State(k, last[k]).nr = last'[k]
      BY <2>1 DEF State
    <3>3. QED
      BY <3>1, <3>2 DEF Coming, Newest
  <2>4. QED
    BY <2>2, <2>3
\* The other steps leave the session and its resync alone.
<1>4. CASE connected /\ resync = 0
  <2>1. seen[k] = last[k] \/ Coming(k)
    BY <1>4 DEF Covered
  <2>2. CASE PumpTake
    <3>1. /\ todo = {} /\ source \in Seq(StateFrame) /\ source # <<>>
          /\ last' = [last EXCEPT ![Head(source).key] = Head(source).nr]
          /\ todo' = {Head(source)} /\ UNCHANGED <<seen, wire, outbox>>
      BY <2>2 DEF PumpTake, Typed
    <3>2. Head(source) \in StateFrame
      BY <3>1, Rest
    <3>3. CASE k = Head(source).key
      <4>1. Head(source).kind = "state" /\ last'[k] = Head(source).nr
        BY <3>1, <3>2, <3>3, Versions DEF StateFrame
      <4>2. QED
        BY <3>1, <3>3, <4>1 DEF Coming, Newest
    <3>4. CASE k # Head(source).key
      <4>1. last'[k] = last[k]
        BY <3>1, <3>4, Versions
      <4>2. QED
        BY <2>1, <3>1, <4>1 DEF Coming, Newest
    <3>5. QED
      BY <3>3, <3>4
  <2>3. CASE Forward
    <3>1. /\ outbox \in Seq(Frame) /\ outbox # <<>> /\ outbox' = Tail(outbox)
          /\ wire \in Seq(Frame) /\ wire' = Append(wire, Head(outbox))
          /\ UNCHANGED <<seen, last, todo>>
      BY <2>3 DEF Forward, Typed, TypeOK, pump
    <3>2. Head(outbox) = outbox[1] /\ 1 \in DOMAIN outbox /\ Head(outbox) \in Frame
            /\ DOMAIN outbox = 1..Len(outbox) /\ Len(outbox) \in Nat
            /\ Len(outbox') = Len(outbox) - 1 /\ outbox' \in Seq(Frame)
      BY <3>1, Rest
    <3>3. \A i \in DOMAIN outbox : i # 1 => i - 1 \in DOMAIN outbox' /\ outbox'[i - 1] = outbox[i]
      BY <3>1, <3>2
    <3>4. /\ Len(wire) + 1 \in DOMAIN wire' /\ wire'[Len(wire) + 1] = outbox[1]
          /\ \A i \in DOMAIN wire : i \in DOMAIN wire' /\ wire'[i] = wire[i]
      BY <3>1, <3>2, Appended
    <3>5. CASE seen[k] = last[k] \/ \E f \in todo : Newest(f, k)
      BY <3>1, <3>5 DEF Coming, Newest
    <3>6. CASE \E i \in DOMAIN wire : Newest(wire[i], k)
      BY <3>1, <3>4, <3>6 DEF Coming, Newest
    <3>7. CASE \E i \in DOMAIN outbox : Newest(outbox[i], k)
      <4>1. PICK i \in DOMAIN outbox : Newest(outbox[i], k)
        BY <3>7
      <4>2. CASE i = 1
        BY <3>1, <3>4, <4>1, <4>2 DEF Coming, Newest
      <4>3. CASE i # 1
        BY <3>1, <3>3, <4>1, <4>3 DEF Coming, Newest
      <4>4. QED
        BY <4>2, <4>3
    <3>8. QED
      BY <2>1, <3>5, <3>6, <3>7 DEF Coming
  <2>4. CASE ServerReceive
    <3>1. /\ wire \in Seq(Frame) /\ wire # <<>> /\ wire' = Tail(wire)
          /\ UNCHANGED <<last, todo, outbox>>
      BY <2>4 DEF ServerReceive, Typed, TypeOK, pump
    <3>2. Head(wire) = wire[1] /\ 1 \in DOMAIN wire /\ Head(wire) \in Frame
            /\ DOMAIN wire = 1..Len(wire) /\ Len(wire) \in Nat
            /\ Len(wire') = Len(wire) - 1 /\ wire' \in Seq(Frame)
      BY <3>1, Rest
    <3>3. \A i \in DOMAIN wire : i # 1 => i - 1 \in DOMAIN wire' /\ wire'[i - 1] = wire[i]
      BY <3>1, <3>2
    <3>4. IF wire[1].kind = "state" /\ wire[1].key = k THEN seen'[k] = wire[1].nr
                                                      ELSE seen'[k] = seen[k]
      BY <2>4, <3>2, Versions DEF ServerReceive
    <3>5. CASE seen[k] = last[k]
      <4>1. wire[1].kind = "state" /\ wire[1].key = k =>
              seen[k] <= wire[1].nr /\ wire[1].nr <= last[k]
        BY <3>2 DEF Flow, Between
      <4>2. seen'[k] = last[k]
        BY <3>2, <3>4, <3>5, <4>1, Versions
      <4>3. QED
        BY <3>1, <4>2
    <3>6. CASE (\E f \in todo : Newest(f, k)) \/ \E i \in DOMAIN outbox : Newest(outbox[i], k)
      BY <3>1, <3>6 DEF Coming, Newest
    <3>7. CASE \E i \in DOMAIN wire : Newest(wire[i], k)
      <4>1. PICK i \in DOMAIN wire : Newest(wire[i], k)
        BY <3>7
      <4>2. CASE i = 1
        BY <3>1, <3>4, <4>1, <4>2 DEF Newest
      <4>3. CASE i # 1
        BY <3>1, <3>3, <4>1, <4>3 DEF Coming, Newest
      <4>4. QED
        BY <4>2, <4>3
    <3>8. QED
      BY <2>1, <3>5, <3>6, <3>7 DEF Coming
  <2>5. CASE PumpSend
    <3>1. PICK f \in todo : Send(f) /\ todo' = todo \ {f}
      BY <2>5 DEF PumpSend
    <3>2. f \in Frame /\ UNCHANGED <<seen, last, wire>>
      BY <2>5 DEF PumpSend, Typed, TypeOK
    <3>3. QED
      BY <2>1, <3>1, <3>2, SendCovers
  <2>6. CASE SendBeat
    <3>1. Beat \in Frame /\ Send(Beat) /\ todo' = todo /\ UNCHANGED <<seen, last, wire>>
      BY <2>6 DEF SendBeat, Beat, Frame, pump
    <3>2. QED
      BY <2>1, <3>1, SendCovers
  <2>7. CASE ReportInput
    <3>1. Report \in Frame /\ Send(Report) /\ todo' = todo /\ UNCHANGED <<seen, last, wire>>
      BY <2>7 DEF ReportInput, Report, Frame, pump
    <3>2. QED
      BY <2>1, <3>1, SendCovers
  <2>8. CASE UNCHANGED <<seen, last, todo, wire, outbox>>
    BY <2>1, <2>8 DEF Coming, Newest
  <2>9. \/ UNCHANGED <<seen, last, todo, wire, outbox>>
        \/ Connect \/ Drop \/ PumpReplay \/ PumpTake \/ Forward \/ ServerReceive
        \/ PumpSend \/ SendBeat \/ ReportInput
    BY DEF Next, Environment, vars, sides, pump, Change, DeviceEvent, Tick, TakeEvent, RouteInput
  <2>10. QED
    BY <1>1, <1>2, <1>3, <2>2, <2>3, <2>4, <2>5, <2>6, <2>7, <2>8, <2>9
<1>5. (connected /\ resync = 0) \/ Connect \/ Drop \/ PumpReplay
  BY DEF Next, Environment, vars, sides, pump, Change, DeviceEvent, Forward, ServerReceive,
         PumpTake, PumpSend, Tick, SendBeat, TakeEvent, ReportInput, RouteInput
<1>6. QED
  BY <1>1, <1>2, <1>3, <1>4, <1>5

-----------------------------------------------------------------------------
(* Theorems. *)

LEMMA LinkInvInit == Init => LinkInv
<1> SUFFICES ASSUME Init PROVE LinkInv
  OBVIOUS
<1>1. Covered
  BY DEF Init, Covered
<1>2. QED
  BY <1>1, TypedInit, AheadInit, FlowInit DEF LinkInv

LEMMA LinkInvStep == LinkInv /\ [Next]_vars => LinkInv'
  BY TypedStep, AheadStep, TodoStep, FlowStep, CoveredStep DEF LinkInv

\* No queue outgrows its capacity or holds what it may not, for any number of
\* keys, changes and sessions.
THEOREM LinkTypeCorrect == Spec => []TypeOK
<1>1. Typed => TypeOK
  BY DEF Typed
<1>2. QED
  BY TypedInit, TypedStep, <1>1, PTL DEF Spec

\* Whatever sessions were lost and however often the server restarted, once
\* the resync is answered and no state is queued the server's copy is the
\* pump's cache.
THEOREM LinkHoldsLast == Spec => []ServerHoldsLast
<1>1. LinkInv => ServerHoldsLast
  <2> SUFFICES ASSUME LinkInv, connected, resync = 0, todo = {}, wire = <<>>,
                      \A i \in DOMAIN outbox : outbox[i].kind # "state"
               PROVE  seen = last
    BY DEF ServerHoldsLast
  <2>1. ASSUME NEW k \in Keys PROVE seen[k] = last[k]
    <3>1. DOMAIN wire = {}
      OBVIOUS
    <3>2. ~Coming(k)
      BY <3>1 DEF Coming, Newest
    <3>3. QED
      BY <3>2 DEF LinkInv, Covered
  <2>2. seen \in [Keys -> 0..MaxChanges] /\ last \in [Keys -> 0..MaxChanges]
    BY DEF LinkInv, Typed, TypeOK
  <2>3. QED
    BY <2>1, <2>2
<1>2. QED
  BY LinkInvInit, LinkInvStep, <1>1, PTL DEF Spec

LEMMA MirrorStep == LinkInv /\ [Next]_vars => [Mirror!Next]_<<last, seen>>
<1> SUFFICES ASSUME LinkInv, [Next]_vars PROVE Mirror!Next \/ UNCHANGED <<last, seen>>
  OBVIOUS
<1> USE DEF LinkInv
<1>1. CASE PumpTake
  <2>1. /\ source \in Seq(StateFrame) /\ source # <<>> /\ seen' = seen
        /\ last' = [last EXCEPT ![Head(source).key] = Head(source).nr]
    BY <1>1 DEF PumpTake, Typed
  <2>2. Head(source) = source[1] /\ 1 \in DOMAIN source
    BY <2>1, Rest
  <2>3. source[1].key \in Keys /\ source[1].nr \in Nat /\ DOMAIN last = Keys
    BY <2>2, Versions
  <2>4. last[source[1].key] < source[1].nr /\ last[source[1].key] \in Nat
    BY <2>2, <2>3, Versions DEF SourceAhead
  <2>5. /\ last'[source[1].key] = source[1].nr /\ DOMAIN last' = Keys
        /\ \A x \in Keys \ {source[1].key} : last'[x] = last[x]
    BY <2>1, <2>2, <2>3
  <2>6. last'[source[1].key] > last[source[1].key]
    BY <2>3, <2>4, <2>5
  <2>7. Mirror!Read(source[1].key)
    BY <2>1, <2>5, <2>6 DEF Mirror!Read
  <2>8. QED
    BY <2>3, <2>7 DEF Mirror!Next
<1>2. CASE ServerReceive
  <2>1. wire \in Seq(Frame) /\ wire # <<>> /\ last' = last
    BY <1>2 DEF ServerReceive, Typed, TypeOK, pump
  <2>2. Head(wire) = wire[1] /\ 1 \in DOMAIN wire
    BY <2>1, Rest
  <2>3. CASE wire[1].kind # "state"
    BY <1>2, <2>1, <2>2, <2>3 DEF ServerReceive
  <2>4. CASE wire[1].kind = "state"
    <3> DEFINE k == wire[1].key
               v == wire[1].nr
    <3>1. k \in Keys /\ v \in Nat /\ seen[k] \in Nat /\ last[k] \in Nat
      BY <2>2, <2>4, Versions
    <3>2. seen[k] <= v /\ v <= last[k]
      BY <2>2, <2>4 DEF Flow, Between
    <3>3. seen' = [seen EXCEPT ![k] = v]
      BY <1>2, <2>2, <2>4 DEF ServerReceive
    <3> HIDE DEF k, v
    <3>4. CASE v = seen[k]
      <4>1. seen' = seen
        BY <3>1, <3>3, <3>4 DEF Typed, TypeOK
      <4>2. QED
        BY <2>1, <4>1
    <3>5. CASE v # seen[k]
      <4>1. v \in seen[k] + 1..last[k]
        BY <3>1, <3>2, <3>5
      <4>2. Mirror!Learn(k)
        BY <2>1, <3>3, <4>1 DEF Mirror!Learn
      <4>3. QED
        BY <3>1, <4>2 DEF Mirror!Next
    <3>6. QED
      BY <3>4, <3>5
  <2>5. QED
    BY <2>3, <2>4
<1>3. CASE Drop
  <2>1. last' = last /\ (seen' = seen \/ seen' = None)
    BY <1>3 DEF Drop, pump
  <2>2. None = Mirror!Nothing
    BY DEF None, Mirror!Nothing
  <2>3. QED
    BY <2>1, <2>2 DEF Mirror!Next, Mirror!Forget
<1>4. CASE UNCHANGED <<last, seen>>
  BY <1>4
<1>5. UNCHANGED <<last, seen>> \/ PumpTake \/ ServerReceive \/ Drop
  BY DEF Next, Environment, vars, sides, pump, Change, DeviceEvent, Connect, Forward,
         PumpReplay, PumpSend, Tick, SendBeat, TakeEvent, ReportInput, RouteInput
<1>6. QED
  BY <1>1, <1>2, <1>3, <1>4, <1>5

\* The pump implements the mirror: no replay, no queued frame and no loss of a
\* session takes the server's copy back, or past what the edge has read.
THEOREM LinkMirrors == Spec => Mirror!Spec
<1>1. Init => Mirror!Init
  BY DEF Init, None, Mirror!Init, Mirror!Nothing
<1>2. QED
  BY <1>1, LinkInvInit, LinkInvStep, MirrorStep, PTL DEF Spec, Mirror!Spec

=============================================================================
