--------------------------- MODULE NuimoLinkProofs ---------------------------
(***************************************************************************)
(* Proofs about NuimoLink, for any devices, list of allowed devices,       *)
(* capacity of the broadcast and number of losses, failures and commands.  *)
(***************************************************************************)
EXTENDS NuimoLink, SequenceTheorems, TLAPS

-----------------------------------------------------------------------------
(* Broadcasts. *)

LEMMA Bounds ==
  /\ EventCap \in Nat \ {0}
  /\ MaxDrops \in Nat /\ MaxFails \in Nat /\ MaxInputs \in Nat /\ MaxCommands \in Nat
  BY LinkAssumption

\* An event that is emitted comes last in the queue of a subscriber, and
\* nowhere else does anything change.
LEMMA EmitIs ==
  ASSUME TypeOK, NEW d \in Devices, NEW event \in Event, Emit(d, event)
  PROVE  /\ events' \in [Devices -> Seq(Event)]
         /\ \A e \in Devices : Len(events'[e]) <= EventCap
         /\ \A e \in Devices \ {d} : events'[e] = events[e]
         /\ Subscribed(d) => \E i \in DOMAIN events'[d] : events'[d][i] = event
<1>1. events \in [Devices -> Seq(Event)] /\ \A e \in Devices : Len(events[e]) <= EventCap
  BY DEF TypeOK
<1>2. CASE ~Subscribed(d)
  BY <1>1, <1>2 DEF Emit
<1>3. CASE Subscribed(d)
  <2> DEFINE kept == IF Len(events[d]) = EventCap THEN Tail(events[d]) ELSE events[d]
  <2>1. events' = [events EXCEPT ![d] = Append(kept, event)]
    BY <1>1, <1>3 DEF Emit
  <2>2. kept \in Seq(Event) /\ Len(kept) \in Nat /\ Len(kept) + 1 <= EventCap
    <3>1. events[d] \in Seq(Event) /\ Len(events[d]) \in Nat /\ Len(events[d]) <= EventCap
      BY <1>1
    <3>2. CASE Len(events[d]) = EventCap
      <4>1. events[d] # <<>>
        BY <3>1, <3>2, Bounds
      <4>2. Tail(events[d]) \in Seq(Event) /\ Len(Tail(events[d])) = Len(events[d]) - 1
        BY <3>1, <4>1, HeadTailProperties
      <4>3. QED
        BY <3>2, <4>2, Bounds
    <3>3. CASE Len(events[d]) # EventCap
      BY <3>1, <3>3, Bounds
    <3>4. QED
      BY <3>2, <3>3
  <2> HIDE DEF kept
  <2>3. /\ Append(kept, event) \in Seq(Event) /\ Len(Append(kept, event)) = Len(kept) + 1
        /\ Append(kept, event)[Len(kept) + 1] = event
    BY <2>2, AppendProperties
  <2>4. events'[d] = Append(kept, event) /\ \A e \in Devices \ {d} : events'[e] = events[e]
    BY <1>1, <2>1
  <2>5. Len(kept) + 1 \in DOMAIN Append(kept, event)
    BY <2>2, <2>3
  <2>6. events' \in [Devices -> Seq(Event)]
    BY <1>1, <2>1, <2>3
  <2>7. \A e \in Devices : Len(events'[e]) <= EventCap
    BY <1>1, <2>2, <2>3, <2>4
  <2>8. QED
    BY <2>3, <2>4, <2>5, <2>6, <2>7
<1>4. QED
  BY <1>2, <1>3

\* An event that is taken is the first, and the others stay.
LEMMA TakeIs ==
  ASSUME TypeOK, NEW d \in Devices, NEW event, Take(d, event)
  PROVE  /\ events' \in [Devices -> Seq(Event)]
         /\ \A e \in Devices : Len(events'[e]) <= EventCap
         /\ \A e \in Devices \ {d} : events'[e] = events[e]
         /\ \A i \in DOMAIN events[d] :
              events[d][i] # event => \E j \in DOMAIN events'[d] : events'[d][j] = events[d][i]
<1>1. events \in [Devices -> Seq(Event)] /\ \A e \in Devices : Len(events[e]) <= EventCap
  BY DEF TypeOK
<1>2. /\ events[d] \in Seq(Event) /\ events[d] # <<>> /\ Head(events[d]) = event
      /\ events' = [events EXCEPT ![d] = Tail(events[d])]
  BY <1>1 DEF Take
<1>3. /\ Tail(events[d]) \in Seq(Event) /\ Len(Tail(events[d])) = Len(events[d]) - 1
      /\ \A i \in 1..Len(Tail(events[d])) : Tail(events[d])[i] = events[d][i + 1]
  BY <1>2, HeadTailProperties
<1>4. /\ DOMAIN events[d] = 1..Len(events[d]) /\ Len(events[d]) \in Nat
      /\ DOMAIN Tail(events[d]) = 1..Len(Tail(events[d])) /\ events[d][1] = event
  BY <1>2, <1>3
<1>5. events'[d] = Tail(events[d]) /\ \A e \in Devices \ {d} : events'[e] = events[e]
  BY <1>1, <1>2
<1>6. events' \in [Devices -> Seq(Event)]
  BY <1>1, <1>2, <1>3
<1>7. Len(events'[d]) <= EventCap
  BY <1>1, <1>3, <1>4, <1>5, Bounds
<1>8. \A i \in DOMAIN events[d] :
        events[d][i] # event => i - 1 \in DOMAIN events'[d] /\ events'[d][i - 1] = events[d][i]
  BY <1>3, <1>4, <1>5
<1>9. QED
  BY <1>1, <1>5, <1>6, <1>7, <1>8

\* A link as a connect or a loss leaves it.
LEMMA LinkUpIs ==
  ASSUME TypeOK, NEW d \in Devices, LinkUp(d)
  PROVE  /\ link' = [link EXCEPT ![d] = "up"] /\ link' \in [Devices -> {"up", "down"}]
         /\ missed' = [missed EXCEPT ![d] = FALSE] /\ missed' \in [Devices -> BOOLEAN]
         /\ events' \in [Devices -> Seq(Event)] /\ \A e \in Devices : Len(events'[e]) <= EventCap
         /\ \A e \in Devices \ {d} : events'[e] = events[e]
         /\ fails' = fails
<1>1. link \in [Devices -> {"up", "down"}] /\ missed \in [Devices -> BOOLEAN]
      /\ events \in [Devices -> Seq(Event)] /\ \A e \in Devices : Len(events[e]) <= EventCap
  BY DEF TypeOK
<1>2. /\ link' = [link EXCEPT ![d] = "up"] /\ missed' = [missed EXCEPT ![d] = FALSE]
      /\ fails' = fails
  BY DEF LinkUp
<1>3. CASE link[d] = "up"
  BY <1>1, <1>2, <1>3 DEF LinkUp
<1>4. CASE link[d] # "up"
  <2>1. Emit(d, "connected") /\ "connected" \in Event
    BY <1>4 DEF LinkUp, Event
  <2>2. QED
    BY <1>1, <1>2, <2>1, EmitIs
<1>5. QED
  BY <1>3, <1>4

LEMMA LinkDownIs ==
  ASSUME TypeOK, NEW d \in Devices, LinkDown(d)
  PROVE  /\ link' = [link EXCEPT ![d] = "down"] /\ link' \in [Devices -> {"up", "down"}]
         /\ missed' \in [Devices -> BOOLEAN]
         /\ missed'[d] = (missed[d] \/ (link[d] = "up" /\ ~Subscribed(d)))
         /\ events' \in [Devices -> Seq(Event)] /\ \A e \in Devices : Len(events'[e]) <= EventCap
         /\ \A e \in Devices \ {d} : events'[e] = events[e] /\ missed'[e] = missed[e]
         /\ link[d] = "down" => events' = events
         /\ link[d] = "up" /\ Subscribed(d) =>
              \E i \in DOMAIN events'[d] : events'[d][i] = "disconnected"
<1>1. link \in [Devices -> {"up", "down"}] /\ missed \in [Devices -> BOOLEAN]
      /\ events \in [Devices -> Seq(Event)] /\ \A e \in Devices : Len(events[e]) <= EventCap
  BY DEF TypeOK
<1>2. /\ link' = [link EXCEPT ![d] = "down"]
      /\ missed' = [missed EXCEPT ![d] = missed[d] \/ (link[d] = "up" /\ ~Subscribed(d))]
  BY DEF LinkDown
<1>3. missed' \in [Devices -> BOOLEAN]
  BY <1>1, <1>2, Zenon
<1>4. CASE link[d] = "down"
  BY <1>1, <1>2, <1>3, <1>4 DEF LinkDown
<1>5. CASE link[d] # "down"
  <2>1. Emit(d, "disconnected") /\ "disconnected" \in Event
    BY <1>5 DEF LinkDown, Event
  <2>2. QED
    BY <1>1, <1>2, <1>3, <1>5, <2>1, EmitIs
<1>6. QED
  BY <1>4, <1>5

-----------------------------------------------------------------------------
(* Types. *)

LEMMA TypeInit == Init => TypeOK
<1> SUFFICES ASSUME Init PROVE TypeOK
  OBVIOUS
<1>1. events \in [Devices -> Seq(Event)]
  BY DEF Init
<1>2. \A d \in Devices : Len(events[d]) <= EventCap
  <2>1. \A d \in Devices : events[d] = <<>>
    BY DEF Init
  <2>2. Len(<<>>) <= EventCap
    BY Bounds
  <2>3. QED
    BY <2>1, <2>2
<1>3. {paused, reported, missed, closed} \subseteq [Devices -> BOOLEAN]
  BY DEF Init
<1>4. 0 \in 0..MaxDrops /\ 0 \in 0..MaxFails /\ 0 \in 0..MaxInputs /\ 0 \in 0..MaxCommands
  BY Bounds
<1>5. drops = 0 /\ fails = 0 /\ inputs = 0 /\ commands = 0
  BY DEF Init
<1>6. /\ link \in [Devices -> {"up", "down"}]
      /\ stage \in [Devices -> {"unknown", "connect", "register", "spawn", "tracked"}]
      /\ loop \in [Devices -> {"none", "start", "recv", "retry", "asleep", "connecting", "report"}]
      /\ command \in [Devices -> {"none", "connect", "disconnect"}]
      /\ \A d \in Devices : stage[d] = "unknown" /\ loop[d] = "none"
  BY DEF Init
<1>7. QED
  BY <1>1, <1>2, <1>3, <1>4, <1>5, <1>6 DEF TypeOK

LEMMA TypeStep == TypeOK /\ [Next]_vars => TypeOK'
<1> SUFFICES ASSUME TypeOK, [Next]_vars PROVE TypeOK'
  OBVIOUS
<1> USE DEF TypeOK, counters
<1>1. ASSUME NEW d \in Devices, LoseLink(d) PROVE TypeOK'
  <2>1. drops' \in 0..MaxDrops /\ LinkDown(d)
    BY <1>1, Bounds DEF LoseLink
  <2>2. QED
    BY <1>1, <2>1, LinkDownIs DEF LoseLink
<1>2. ASSUME NEW d \in Devices, InputEvent(d) PROVE TypeOK'
  <2>1. inputs' \in 0..MaxInputs /\ Emit(d, "input") /\ "input" \in Event
    BY <1>2, Bounds DEF InputEvent, Event
  <2>2. QED
    BY <1>2, <2>1, EmitIs DEF InputEvent
<1>3. ASSUME NEW d \in Devices, DeviceConnect(d) PROVE TypeOK'
  <2>1. commands' \in 0..MaxCommands
    BY <1>3, Bounds DEF DeviceConnect, Begin
  <2>2. QED
    BY <1>3, <2>1 DEF DeviceConnect, Begin
<1>4. ASSUME NEW d \in Devices, DeviceDisconnect(d) PROVE TypeOK'
  <2>1. commands' \in 0..MaxCommands
    BY <1>4, Bounds DEF DeviceDisconnect, Begin
  <2>2. QED
    BY <1>4, <2>1 DEF DeviceDisconnect, Begin
<1>5. ASSUME NEW d \in Devices, Supervise(d) PROVE TypeOK'
  <2>1. CASE Admit(d)
    BY <2>1 DEF Admit, Stage
  <2>2. CASE BringUp(d)
    <3>1. CASE Stage(d, "connect", "register") /\ LinkUp(d)
      BY <2>2, <3>1, LinkUpIs DEF BringUp, Stage
    <3>2. CASE Stage(d, "connect", "unknown") /\ ConnectFails(d)
      <4>1. fails' \in 0..MaxFails
        BY <3>2, Bounds DEF ConnectFails
      <4>2. QED
        BY <2>2, <3>2, <4>1 DEF BringUp, Stage, ConnectFails
    <3>3. QED
      BY <2>2, <3>1, <3>2 DEF BringUp
  <2>3. CASE Register(d)
    BY <2>3 DEF Register, Stage
  <2>4. CASE Spawn(d)
    BY <2>4 DEF Spawn, Stage
  <2>5. QED
    BY <1>5, <2>1, <2>2, <2>3, <2>4 DEF Supervise
<1>6. ASSUME NEW d \in Devices, Listen(d) PROVE TypeOK'
  <2>1. CASE Subscribe(d)
    BY <2>1 DEF Subscribe, Loop
  <2>2. CASE TakeDisconnected(d)
    <3>1. Take(d, "disconnected")
      BY <2>2 DEF TakeDisconnected
    <3>2. QED
      BY <2>2, <3>1, TakeIs DEF TakeDisconnected, Loop
  <2>3. CASE TakeConnected(d)
    <3>1. Take(d, "connected")
      BY <2>3 DEF TakeConnected
    <3>2. QED
      BY <2>3, <3>1, TakeIs DEF TakeConnected, Loop
  <2>4. CASE TakeInput(d)
    <3>1. Take(d, "input")
      BY <2>4 DEF TakeInput
    <3>2. QED
      BY <2>4, <3>1, TakeIs DEF TakeInput, Loop
  <2>5. CASE Sleep(d)
    BY <2>5 DEF Sleep, Loop
  <2>6. CASE Wake(d)
    BY <2>6 DEF Wake, Loop
  <2>7. CASE Reconnect(d)
    <3>1. CASE Loop(d, "connecting", "report") /\ LinkUp(d)
      BY <2>7, <3>1, LinkUpIs DEF Reconnect, Loop
    <3>2. CASE Loop(d, "connecting", "retry") /\ ConnectFails(d)
      <4>1. fails' \in 0..MaxFails
        BY <3>2, Bounds DEF ConnectFails
      <4>2. QED
        BY <2>7, <3>2, <4>1 DEF Reconnect, Loop, ConnectFails
    <3>3. QED
      BY <2>7, <3>1, <3>2 DEF Reconnect
  <2>8. CASE Report(d)
    BY <2>8 DEF Report, Loop
  <2>9. QED
    BY <1>6, <2>1, <2>2, <2>3, <2>4, <2>5, <2>6, <2>7, <2>8 DEF Listen
<1>7. ASSUME NEW d \in Devices, FinishConnect(d) PROVE TypeOK'
  <2>1. CASE LinkUp(d)
    BY <1>7, <2>1, LinkUpIs DEF FinishConnect
  <2>2. CASE ConnectFails(d)
    <3>1. fails' \in 0..MaxFails
      BY <2>2, Bounds DEF ConnectFails
    <3>2. QED
      BY <1>7, <2>2, <3>1 DEF FinishConnect, ConnectFails
  <2>3. QED
    BY <1>7, <2>1, <2>2 DEF FinishConnect
<1>8. ASSUME NEW d \in Devices, FinishDisconnect(d) PROVE TypeOK'
  <2>1. closed' \in [Devices -> BOOLEAN]
    BY <1>8 DEF FinishDisconnect
  <2>2. LinkDown(d)
    BY <1>8 DEF FinishDisconnect
  <2>3. QED
    BY <1>8, <2>1, <2>2, LinkDownIs DEF FinishDisconnect
<1>9. CASE UNCHANGED vars
  BY <1>9 DEF vars
<1>10. QED
  BY <1>1, <1>2, <1>3, <1>4, <1>5, <1>6, <1>7, <1>8, <1>9 DEF Next, Finish

\* The state keeps its shape; only devices of the list are ever brought up
\* (supervisor_decision), each with one event loop at most.
THEOREM LinkTyped == Spec => []TypeOK
  BY TypeInit, TypeStep, PTL DEF Spec

-----------------------------------------------------------------------------
(* A link that the server closed. *)

\* While a link counts as closed no one is about to bring it up: the flag is
\* set, the loop is not past its second look at it, the supervisor has done
\* its part and the server has not asked.
Shut(d) ==
  /\ link[d] = "down" /\ paused[d]
  /\ loop[d] # "connecting" /\ command[d] # "connect"
  /\ stage[d] \in {"spawn", "tracked"}

\* A command under way is for a device that is in the map; a disconnect has
\* set the flag.
CommandOK(d) ==
  /\ command[d] # "none" => stage[d] \in {"spawn", "tracked"}
  /\ command[d] = "disconnect" => paused[d]

ShutInv == TypeOK /\ \A d \in Devices : CommandOK(d) /\ (closed[d] => Shut(d))

LEMMA ShutInit == Init => ShutInv
<1> SUFFICES ASSUME Init PROVE ShutInv
  OBVIOUS
<1>1. \A d \in Devices : command[d] = "none" /\ ~closed[d]
  BY DEF Init
<1>2. QED
  BY <1>1, TypeInit DEF ShutInv, CommandOK

\* What a step for d leaves of another device.
LEMMA Elsewhere ==
  ASSUME TypeOK, NEW d \in Devices, NEW e \in Devices \ {d},
         \/ LoseLink(d) \/ InputEvent(d) \/ DeviceConnect(d) \/ DeviceDisconnect(d)
         \/ Supervise(d) \/ Listen(d) \/ Finish(d)
  PROVE  /\ link'[e] = link[e] /\ stage'[e] = stage[e] /\ loop'[e] = loop[e]
         /\ paused'[e] = paused[e] /\ command'[e] = command[e] /\ closed'[e] = closed[e]
         /\ missed'[e] = missed[e] /\ events'[e] = events[e]
<1> USE DEF TypeOK
<1>1. CASE LoseLink(d)
  BY <1>1, LinkDownIs DEF LoseLink
<1>2. CASE InputEvent(d)
  BY <1>2, EmitIs DEF InputEvent, Event
<1>3. CASE DeviceConnect(d) \/ DeviceDisconnect(d)
  BY <1>3 DEF DeviceConnect, DeviceDisconnect, Begin
<1>4. CASE Supervise(d)
  <2>1. CASE BringUp(d)
    BY <2>1, LinkUpIs DEF BringUp, Stage, ConnectFails
  <2>2. CASE Admit(d) \/ Register(d) \/ Spawn(d)
    BY <2>2 DEF Admit, Register, Spawn, Stage
  <2>3. QED
    BY <1>4, <2>1, <2>2 DEF Supervise
<1>5. CASE Listen(d)
  <2>1. CASE Reconnect(d)
    BY <2>1, LinkUpIs DEF Reconnect, Loop, ConnectFails
  <2>2. CASE TakeDisconnected(d) \/ TakeConnected(d) \/ TakeInput(d)
    BY <2>2, TakeIs DEF TakeDisconnected, TakeConnected, TakeInput, Loop
  <2>3. CASE Subscribe(d) \/ Sleep(d) \/ Wake(d) \/ Report(d)
    BY <2>3 DEF Subscribe, Sleep, Wake, Report, Loop
  <2>4. QED
    BY <1>5, <2>1, <2>2, <2>3 DEF Listen
<1>6. CASE FinishConnect(d)
  BY <1>6, LinkUpIs DEF FinishConnect, ConnectFails
<1>7. CASE FinishDisconnect(d)
  BY <1>7, LinkDownIs DEF FinishDisconnect
<1>8. QED
  BY <1>1, <1>2, <1>3, <1>4, <1>5, <1>6, <1>7 DEF Finish

LEMMA ShutStep == ShutInv /\ [Next]_vars => ShutInv'
<1> SUFFICES ASSUME ShutInv, [Next]_vars PROVE ShutInv'
  OBVIOUS
<1> DEFINE Safe(d) == CommandOK(d) /\ (closed[d] => Shut(d))
<1>1. TypeOK /\ TypeOK'
  BY TypeStep DEF ShutInv
<1>2. CASE UNCHANGED vars
  BY <1>1, <1>2 DEF ShutInv, CommandOK, Shut, vars
<1>3. ASSUME NEW d \in Devices,
             \/ LoseLink(d) \/ InputEvent(d) \/ DeviceConnect(d) \/ DeviceDisconnect(d)
             \/ Supervise(d) \/ Listen(d) \/ Finish(d)
      PROVE  ShutInv'
  <2>1. \A e \in Devices \ {d} : Safe(e) => Safe(e)'
    BY <1>1, <1>3, Elsewhere DEF CommandOK, Shut
  <2>2. Safe(d)
    BY DEF ShutInv
  <2>3. Safe(d)'
    <3> USE <1>1 DEF TypeOK, CommandOK, Shut
    <3>1. CASE LoseLink(d)
      BY <2>2, <3>1, LinkDownIs DEF LoseLink
    <3>2. CASE InputEvent(d)
      BY <2>2, <3>2 DEF InputEvent
    <3>3. CASE DeviceConnect(d)
      BY <2>2, <3>3 DEF DeviceConnect, Begin
    <3>4. CASE DeviceDisconnect(d)
      BY <2>2, <3>4 DEF DeviceDisconnect, Begin
    <3>5. CASE Supervise(d)
      <4>1. CASE BringUp(d)
        BY <2>2, <4>1 DEF BringUp, Stage
      <4>2. CASE Admit(d) \/ Register(d) \/ Spawn(d)
        BY <2>2, <4>2 DEF Admit, Register, Spawn, Stage
      <4>3. QED
        BY <3>5, <4>1, <4>2 DEF Supervise
    <3>6. CASE Listen(d)
      <4>1. CASE Wake(d)
        BY <2>2, <4>1 DEF Wake, Loop
      <4>2. CASE Reconnect(d)
        BY <2>2, <4>2 DEF Reconnect, Loop
      <4>3. CASE \/ Subscribe(d) \/ TakeDisconnected(d) \/ TakeConnected(d) \/ TakeInput(d)
                 \/ Sleep(d) \/ Report(d)
        BY <2>2, <4>3 DEF Subscribe, TakeDisconnected, TakeConnected, TakeInput, Sleep, Report, Loop
      <4>4. QED
        BY <3>6, <4>1, <4>2, <4>3 DEF Listen
    <3>7. CASE FinishConnect(d)
      BY <2>2, <3>7 DEF FinishConnect
    <3>8. CASE FinishDisconnect(d)
      BY <2>2, <3>8, LinkDownIs DEF FinishDisconnect
    <3>9. QED
      BY <1>3, <3>1, <3>2, <3>3, <3>4, <3>5, <3>6, <3>7, <3>8 DEF Finish
  <2>4. QED
    BY <1>1, <2>1, <2>3 DEF ShutInv
<1>4. QED
  BY <1>2, <1>3 DEF Next

\* No order of the supervisor, the reconnect loop, the radio and the server's
\* commands brings up a link that the server closed and has not asked for.
THEOREM ClosedLinksStayDown == Spec => []ClosedStaysDown
<1>1. ShutInv => ClosedStaysDown
  BY DEF ShutInv, Shut, ClosedStaysDown
<1>2. QED
  BY ShutInit, ShutStep, <1>1, PTL DEF Spec

-----------------------------------------------------------------------------
(* A loop that waits. *)

\* A loop that waits for events of a link that is down, or is about to, has
\* the Disconnected to read; before it subscribes a loss is missed.
Told(d) ==
  /\ loop[d] \in {"recv", "report"} /\ link[d] = "down" /\ ~missed[d]
       => \E i \in DOMAIN events[d] : events[d][i] = "disconnected"
  /\ ~Subscribed(d) /\ stage[d] \in {"register", "spawn", "tracked"}
       => link[d] = "up" \/ missed[d]

ToldInv == TypeOK /\ \A d \in Devices : Told(d)

LEMMA ToldInit == Init => ToldInv
<1> SUFFICES ASSUME Init PROVE ToldInv
  OBVIOUS
<1>1. \A d \in Devices : loop[d] = "none" /\ stage[d] = "unknown"
  BY DEF Init
<1>2. QED
  BY <1>1, TypeInit DEF ToldInv, Told

LEMMA ToldStep == ToldInv /\ [Next]_vars => ToldInv'
<1> SUFFICES ASSUME ToldInv, [Next]_vars PROVE ToldInv'
  OBVIOUS
<1>1. TypeOK /\ TypeOK'
  BY TypeStep DEF ToldInv
<1>2. CASE UNCHANGED vars
  BY <1>1, <1>2 DEF ToldInv, Told, Subscribed, vars
<1>3. ASSUME NEW d \in Devices,
             \/ LoseLink(d) \/ InputEvent(d) \/ DeviceConnect(d) \/ DeviceDisconnect(d)
             \/ Supervise(d) \/ Listen(d) \/ Finish(d)
      PROVE  ToldInv'
  <2>1. \A e \in Devices \ {d} : Told(e) => Told(e)'
    BY <1>1, <1>3, Elsewhere DEF Told, Subscribed
  <2>2. Told(d)
    BY DEF ToldInv
  <2>3. Told(d)'
    <3> USE <1>1 DEF TypeOK, Told, Subscribed
    <3>1. ASSUME LinkDown(d), loop' = loop, stage' = stage PROVE Told(d)'
      <4>1. CASE link[d] = "up" /\ Subscribed(d)
        BY <3>1, <4>1, LinkDownIs
      <4>2. CASE link[d] = "up" /\ ~Subscribed(d)
        BY <3>1, <4>2, LinkDownIs
      <4>3. CASE link[d] = "down"
        BY <2>2, <3>1, <4>3, LinkDownIs
      <4>4. QED
        BY <4>1, <4>2, <4>3
    <3>2. ASSUME LinkUp(d) PROVE Told(d)'
      BY <3>2, LinkUpIs
    <3>3. ASSUME NEW event, event # "disconnected",
                 Take(d, event), Loop(d, "recv", "recv"), UNCHANGED <<link, stage, missed>>
          PROVE  Told(d)'
      <4>1. loop' = loop
        BY <3>3 DEF Loop
      <4>2. \A i \in DOMAIN events[d] :
              events[d][i] # event => \E j \in DOMAIN events'[d] : events'[d][j] = events[d][i]
        BY <3>3, TakeIs
      <4>3. (\E i \in DOMAIN events[d] : events[d][i] = "disconnected")
              => \E j \in DOMAIN events'[d] : events'[d][j] = "disconnected"
        BY <3>3, <4>2
      <4>4. QED
        BY <2>2, <3>3, <4>1, <4>3
    <3>4. CASE LoseLink(d) \/ InputEvent(d)
      BY <2>2, <3>1, <3>4 DEF LoseLink, InputEvent
    <3>5. CASE DeviceConnect(d) \/ DeviceDisconnect(d)
      BY <2>2, <3>5 DEF DeviceConnect, DeviceDisconnect, Begin
    <3>6. CASE Supervise(d)
      <4>1. CASE BringUp(d)
        BY <2>2, <3>2, <4>1 DEF BringUp, Stage, ConnectFails
      <4>2. CASE Admit(d) \/ Register(d) \/ Spawn(d)
        BY <2>2, <4>2 DEF Admit, Register, Spawn, Stage
      <4>3. QED
        BY <3>6, <4>1, <4>2 DEF Supervise
    <3>7. CASE Listen(d)
      <4>1. CASE Subscribe(d)
        BY <2>2, <4>1 DEF Subscribe, Loop
      <4>2. CASE TakeDisconnected(d)
        BY <2>2, <4>2 DEF TakeDisconnected, Loop
      <4>3. CASE TakeConnected(d)
        <5>1. Take(d, "connected") /\ Loop(d, "recv", "recv") /\ UNCHANGED <<link, stage, missed>>
          BY <4>3 DEF TakeConnected
        <5>2. QED
          BY <3>3, <5>1
      <4>4. CASE TakeInput(d)
        <5>1. Take(d, "input") /\ Loop(d, "recv", "recv") /\ UNCHANGED <<link, stage, missed>>
          BY <4>4 DEF TakeInput
        <5>2. QED
          BY <3>3, <5>1
      <4>5. CASE Sleep(d) \/ Wake(d) \/ Report(d)
        BY <2>2, <4>5 DEF Sleep, Wake, Report, Loop
      <4>6. CASE Reconnect(d)
        BY <2>2, <3>2, <4>6 DEF Reconnect, Loop, ConnectFails
      <4>7. QED
        BY <3>7, <4>1, <4>2, <4>3, <4>4, <4>5, <4>6 DEF Listen
    <3>8. CASE FinishConnect(d)
      BY <2>2, <3>2, <3>8 DEF FinishConnect, ConnectFails
    <3>9. CASE FinishDisconnect(d)
      BY <3>1, <3>9 DEF FinishDisconnect
    <3>10. QED
      BY <1>3, <3>4, <3>5, <3>6, <3>7, <3>8, <3>9 DEF Finish
  <2>4. QED
    BY <1>1, <2>1, <2>3 DEF ToldInv
<1>4. QED
  BY <1>2, <1>3 DEF Next

\* Whatever a full broadcast forgets, a loop never waits for events on a dead
\* link it subscribed to without the Disconnected that would wake it.
THEOREM LoopsHearOfLoss == Spec => []NeverIdleWhileDown
<1>1. ToldInv => NeverIdleWhileDown
  BY DEF ToldInv, Told, NeverIdleWhileDown
<1>2. QED
  BY ToldInit, ToldStep, <1>1, PTL DEF Spec

=============================================================================
