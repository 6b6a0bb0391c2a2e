------------------------------ MODULE EdgeLink ------------------------------
(***************************************************************************)
(* What edge-agent sends to the server: the bounded outbox that outlives   *)
(* the sessions (ws_client.rs), and the tasks of main.rs that await room   *)
(* in it: a state pump with its cache and its replay, the status           *)
(* publisher, and a device's input loop, which reports every input before  *)
(* it routes it.                                                           *)
(*                                                                         *)
(* A state update of a (service_type, target, property, output_id) key is  *)
(* the version of its value: nr counts the changes of all keys.            *)
(***************************************************************************)
EXTENDS Naturals, Sequences

CONSTANTS
  Keys,
  OutboxCap,        \* mpsc::channel(256)
  ResyncCap,        \* broadcast::channel(8)
  SourceCap,        \* the adapter's broadcast::channel(256)
  WireCap,          \* bound: frames the connection buffers
  MaxChanges,       \* bound: state changes of the adapter
  MaxInputs,        \* bound: input events of the device
  MaxDrops          \* bound: sessions lost

ASSUME CapAssumption ==
  /\ {OutboxCap, ResyncCap, SourceCap, WireCap} \subseteq Nat \ {0}
  /\ {MaxChanges, MaxInputs, MaxDrops} \subseteq Nat

VARIABLES
  connected, wire,  \* the session and the frames it carries
  seen,             \* the server's version of each key
  world, nr,        \* the adapter's version of each key, and the newest
  source,           \* the adapter's broadcast, as the pump has yet to read it
  last, todo,       \* the pump's cache, and the frames it is sending
  resync,           \* reconnects the pump has not looked at
  events, loop,     \* the device's events to come, and the input loop
  beat,             \* the status publisher
  outbox,
  inputs, drops

sides == <<world, nr, source, events, inputs>>
pump == <<last, todo, resync>>
vars == <<connected, wire, seen, sides, pump, loop, beat, outbox, drops>>

None == [k \in Keys |-> 0]
State(k, v) == [kind |-> "state", key |-> k, nr |-> v]
Beat == [kind |-> "status"]
Report == [kind |-> "input"]

Init ==
  /\ connected = FALSE /\ wire = <<>> /\ seen = None
  /\ world = None /\ nr = 0 /\ source = <<>>
  /\ last = None /\ todo = {} /\ resync = 0
  /\ events = 0 /\ loop = "idle" /\ beat = "idle"
  /\ outbox = <<>>
  /\ inputs = 0 /\ drops = 0

-----------------------------------------------------------------------------
(* The adapter and the device (external to these tasks). *)

\* A broadcast drops its oldest message when the receiver is SourceCap behind.
Pushed(queue, x) ==
  IF Len(queue) = SourceCap THEN Append(Tail(queue), x) ELSE Append(queue, x)

Change(k) ==
  /\ nr < MaxChanges /\ nr' = nr + 1
  /\ world' = [world EXCEPT ![k] = nr']
  /\ source' = Pushed(source, State(k, nr'))
  /\ UNCHANGED <<connected, wire, seen, pump, events, inputs, loop, beat, outbox, drops>>

DeviceEvent ==
  /\ inputs < MaxInputs /\ inputs' = inputs + 1
  /\ events' = events + 1
  /\ UNCHANGED <<connected, wire, seen, world, nr, source, pump, loop, beat, outbox, drops>>

-----------------------------------------------------------------------------
(* The tasks.  Each awaits outbox.send: it goes on when there is room. *)

\* Mutant: an unbounded channel.
SendUnbounded(frame) == outbox' = Append(outbox, frame)

Send(frame) == Len(outbox) < OutboxCap /\ outbox' = Append(outbox, frame)

\* Mutant: an update is forwarded and not cached.
PumpTakeUncached ==
  /\ todo = {} /\ source # <<>>
  /\ todo' = {Head(source)} /\ source' = Tail(source)
  /\ UNCHANGED <<connected, wire, seen, world, nr, last, resync, events, inputs,
                 loop, beat, outbox, drops>>

\* spawn_state_pump, state_rx.recv
PumpTake ==
  /\ todo = {} /\ source # <<>>
  /\ last' = [last EXCEPT ![Head(source).key] = Head(source).nr]
  /\ todo' = {Head(source)} /\ source' = Tail(source)
  /\ UNCHANGED <<connected, wire, seen, world, nr, resync, events, inputs,
                 loop, beat, outbox, drops>>

\* resync_rx.recv: every cached frame again, in the order of a HashMap.
PumpReplay ==
  /\ todo = {} /\ resync > 0
  /\ resync' = resync - 1
  /\ todo' = {State(k, last[k]) : k \in {x \in Keys : last[x] # 0}}
  /\ UNCHANGED <<connected, wire, seen, sides, last, loop, beat, outbox, drops>>

PumpSend ==
  /\ \E frame \in todo : Send(frame) /\ todo' = todo \ {frame}
  /\ UNCHANGED <<connected, wire, seen, sides, last, resync, loop, beat, drops>>

\* run_edge_status_publisher: the next tick comes after the send.
Tick ==
  /\ beat = "idle" /\ beat' = "send"
  /\ UNCHANGED <<connected, wire, seen, sides, pump, loop, outbox, drops>>

SendBeat ==
  /\ beat = "send" /\ beat' = "idle"
  /\ Send(Beat)
  /\ UNCHANGED <<connected, wire, seen, sides, pump, loop, drops>>

\* run_nuimo_event_loop: emit_input_device_state comes before route_with_mode.
TakeEvent ==
  /\ loop = "idle" /\ events > 0
  /\ events' = events - 1 /\ loop' = "emit"
  /\ UNCHANGED <<connected, wire, seen, world, nr, source, inputs, pump, beat, outbox, drops>>

ReportInput ==
  /\ loop = "emit" /\ loop' = "route"
  /\ Send(Report)
  /\ UNCHANGED <<connected, wire, seen, sides, pump, beat, drops>>

\* Mutant: an input that routes to nothing ends the loop.
RouteInputEnds ==
  /\ loop = "route" /\ loop' = "ended"
  /\ UNCHANGED <<connected, wire, seen, sides, pump, beat, outbox, drops>>

RouteInput ==
  /\ loop = "route" /\ loop' = "idle"
  /\ UNCHANGED <<connected, wire, seen, sides, pump, beat, outbox, drops>>

-----------------------------------------------------------------------------
(* WsClient::run and the server. *)

\* Mutant: the pumps hear nothing of the new session.
ConnectSilently ==
  /\ ~connected /\ connected' = TRUE
  /\ UNCHANGED <<wire, seen, sides, pump, loop, beat, outbox, drops>>

\* connect_once up to resync_tx.send.
Connect ==
  /\ ~connected /\ connected' = TRUE
  /\ resync' = IF resync = ResyncCap THEN resync ELSE resync + 1
  /\ UNCHANGED <<wire, seen, sides, last, todo, loop, beat, outbox, drops>>

\* Mutant: frames queued last are sent first.
ForwardNewest ==
  /\ connected /\ outbox # <<>> /\ Len(wire) < WireCap
  /\ wire' = Append(wire, outbox[Len(outbox)])
  /\ outbox' = SubSeq(outbox, 1, Len(outbox) - 1)
  /\ UNCHANGED <<connected, seen, sides, pump, loop, beat, drops>>

Forward ==
  /\ connected /\ outbox # <<>> /\ Len(wire) < WireCap
  /\ wire' = Append(wire, Head(outbox)) /\ outbox' = Tail(outbox)
  /\ UNCHANGED <<connected, seen, sides, pump, loop, beat, drops>>

ServerReceive ==
  /\ wire # <<>> /\ wire' = Tail(wire)
  /\ seen' = IF Head(wire).kind = "state"
             THEN [seen EXCEPT ![Head(wire).key] = Head(wire).nr] ELSE seen
  /\ UNCHANGED <<connected, sides, pump, loop, beat, outbox, drops>>

\* The session is lost with the frames it carries, the one being sent
\* included; the server forgets everything if it restarts.
Drop ==
  /\ connected /\ drops < MaxDrops
  /\ connected' = FALSE /\ drops' = drops + 1
  /\ wire' = <<>>
  /\ outbox' \in {outbox} \cup (IF outbox = <<>> THEN {} ELSE {Tail(outbox)})
  /\ seen' \in {seen, None}
  /\ UNCHANGED <<sides, pump, loop, beat>>

Environment == (\E k \in Keys : Change(k)) \/ DeviceEvent \/ Drop

Next ==
  \/ Environment \/ Connect \/ Forward \/ ServerReceive
  \/ PumpTake \/ PumpReplay \/ PumpSend
  \/ Tick \/ SendBeat
  \/ TakeEvent \/ ReportInput \/ RouteInput

Spec == Init /\ [][Next]_vars

\* Every task runs. The outbox serves the senders that wait for room in the
\* order they came (tokio's mpsc semaphore), so one that waits is not passed
\* over for ever; tokio::select! picks among its ready branches at random.
TasksRun ==
  /\ WF_vars(Tick) /\ WF_vars(TakeEvent) /\ WF_vars(RouteInput)
  /\ SF_vars(PumpTake) /\ SF_vars(PumpReplay)
  /\ SF_vars(PumpSend) /\ SF_vars(SendBeat) /\ SF_vars(ReportInput)
  /\ SF_vars(Forward) /\ WF_vars(ServerReceive)

\* run() retries for ever, and the server can be reached again.
FairSpec == Spec /\ TasksRun /\ WF_vars(Connect)

-----------------------------------------------------------------------------
(* Properties. *)

Frame == [kind : {"state"}, key : Keys, nr : 1..MaxChanges]
           \cup [kind : {"status", "input"}]

\* Every queue is within its capacity and holds what it may hold.
TypeOK ==
  /\ connected \in BOOLEAN
  /\ wire \in Seq(Frame) /\ Len(wire) <= WireCap
  /\ outbox \in Seq(Frame) /\ Len(outbox) <= OutboxCap
  /\ source \in Seq(Frame) /\ Len(source) <= SourceCap
  /\ {seen, world, last} \subseteq [Keys -> 0..MaxChanges]
  /\ nr \in 0..MaxChanges
  /\ todo \subseteq Frame
  /\ resync \in 0..ResyncCap
  /\ events \in 0..MaxInputs /\ inputs \in 0..MaxInputs /\ drops \in 0..MaxDrops
  /\ loop \in {"idle", "emit", "route"}
  /\ beat \in {"idle", "send"}

\* When nothing is under way the server holds what the pump last read, after
\* whatever sessions and restarts of the server.
ServerHoldsLast ==
  connected /\ resync = 0 /\ todo = {} /\ wire = <<>>
    /\ (\A i \in DOMAIN outbox : outbox[i].kind # "state")
    => seen = last

\* spawn_state_pump implements the abstract mirror: replays and queued frames
\* never take the server back to an older value nor past what was read, and
\* with a server that comes back it ends up with the last.
Mirror == INSTANCE StateMirror WITH held <- last, copy <- seen
ImplementsMirror == Mirror!FairSpec

\* With such a server every input is routed: no task waits for ever for room.
InputsRouted == [](events > 0 => <>(events = 0 /\ loop = "idle"))

=============================================================================
