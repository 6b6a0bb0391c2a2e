----------------------------- MODULE HueTapDials -----------------------------
(***************************************************************************)
(* What follows the resolution of the bridge: HueAdapter::start as far as  *)
(* the network goes, the supervision of the Tap Dials it lists, and their  *)
(* input from the event stream to the routing engine (main.rs, events.rs). *)
(* The lights are HueAdapter's; what the engine makes of an input is       *)
(* RoutingEngine's.                                                        *)
(*                                                                         *)
(* An event is <<kind, dial, number>>; the number tells events apart and   *)
(* is the level of a "battery" event. Snapshots carry level 0.             *)
(***************************************************************************)
EXTENDS HueBootstrap

CONSTANTS
  Dials,
  Unknown,          \* no level; what a dial that is not listed has
  MaxDialEvents,    \* bound: inputs, batteries; far below the channel's 256
  MaxBreaks         \* bound: event streams lost

ASSUME DialAssumption == {MaxDialEvents, MaxBreaks} \subseteq Nat

VARIABLES
  stream, wire,     \* events::run ("off", "down", "up") and what it has to read
  queue,            \* each loop's receiver of tap_dial_tx
  doing,            \* each loop: "off", "idle", "emit"
  routed,           \* the inputs each loop has routed or is about to
  snapshot,         \* the level a dial's first frames are to carry
  battery,          \* the level last handed to the dial's device-state pump
  dialEvents, breaks,
  heard             \* history: what was broadcast to each loop

streamVars == <<stream, wire, dialEvents, breaks>>
loopVars == <<queue, doing, routed, heard>>
dialVars == <<streamVars, loopVars, snapshot, battery>>
vars == <<bootVars, dialVars>>

Init ==
  /\ BootInit
  /\ stream = "off" /\ wire = <<>>
  /\ queue = [d \in Dials |-> <<>>] /\ doing = [d \in Dials |-> "off"]
  /\ routed = [d \in Dials |-> <<>>] /\ heard = [d \in Dials |-> <<>>]
  /\ snapshot = [d \in Dials |-> Unknown] /\ battery = [d \in Dials |-> Unknown]
  /\ dialEvents = 0 /\ breaks = 0

Attempt == Resolve /\ UNCHANGED dialVars

-----------------------------------------------------------------------------
(* HueAdapter::start with the token's host, from now on the adapter's. *)

\* A request with the app key to the adapter's host succeeds.
Served == Observed(token.host) = Paired

ListLights ==
  /\ boot = "list"
  /\ \/ Served /\ GoOn("dials")
     \/ ~Served /\ Fail
     \/ Fault /\ boot' = "report"
  /\ UNCHANGED <<network, file, token, queued, dialVars>>

\* list_tap_dials may fail: the adapter goes on without its dials. The event
\* stream is spawned in either case.
ListDials ==
  /\ boot = "dials"
  /\ \/ /\ Served /\ GoOn("supervise")
        /\ snapshot' = [d \in Dials |-> 0]
     \/ ~Served /\ GoOn("supervise") /\ UNCHANGED snapshot
     \/ Fault /\ boot' = "supervise" /\ UNCHANGED snapshot
  /\ stream' = "down"
  /\ UNCHANGED <<network, file, token, queued, wire, dialEvents, breaks, loopVars, battery>>

Listed == {d \in Dials : snapshot[d] # Unknown}

\* spawn_tap_dial_supervisors, then the adapter is published.
Supervise ==
  /\ boot = "supervise" /\ GoOn("online")
  /\ doing' = [d \in Dials |-> IF d \in Listed THEN "idle" ELSE "off"]
  /\ UNCHANGED <<network, file, token, queued, streamVars, queue, routed, heard, snapshot, battery>>

\* The task that sends a dial's connected, nickname and battery runs beside
\* its loop.
SendSnapshot(d) ==
  /\ boot = "online" /\ d \in Listed
  /\ battery' = [battery EXCEPT ![d] = snapshot[d]]
  /\ snapshot' = [snapshot EXCEPT ![d] = Unknown]
  /\ UNCHANGED <<bootVars, streamVars, loopVars>>

-----------------------------------------------------------------------------
(* The event stream. *)

Open ==
  /\ stream = "down" /\ Served
  /\ stream' = "up"
  /\ UNCHANGED <<bootVars, wire, dialEvents, breaks, loopVars, snapshot, battery>>

\* Someone turns or presses a dial, or its battery level changes.
DialEvent(d) ==
  /\ stream = "up"
  /\ dialEvents < MaxDialEvents /\ dialEvents' = dialEvents + 1
  /\ \E kind \in {"input", "battery"} : wire' = Append(wire, <<kind, d, dialEvents'>>)
  /\ UNCHANGED <<bootVars, stream, breaks, loopVars, snapshot, battery>>

\* Lost by the network, or because the bridge has moved.
Break ==
  /\ stream = "up" /\ stream' = "down" /\ wire' = <<>>
  /\ \/ breaks < MaxBreaks /\ breaks' = breaks + 1
     \/ ~Served /\ UNCHANGED breaks
  /\ UNCHANGED <<bootVars, dialEvents, loopVars, snapshot, battery>>

\* dispatch_event: every loop that has subscribed receives every event.
StreamEvent ==
  LET subscribed == {d \in Dials : doing[d] # "off"}
      With(q) == [d \in Dials |-> IF d \in subscribed THEN Append(q[d], Head(wire)) ELSE q[d]]
  IN  /\ stream = "up" /\ wire # <<>> /\ wire' = Tail(wire)
      /\ queue' = With(queue) /\ heard' = With(heard)
      /\ UNCHANGED <<bootVars, stream, dialEvents, breaks, doing, routed, snapshot, battery>>

-----------------------------------------------------------------------------
(* run_hue_tap_dial_loop *)

\* Mutant: the loop does not ask whose event it is.
TakeEventOfAny(d) ==
  /\ doing[d] = "idle" /\ queue[d] # <<>>
  /\ queue' = [queue EXCEPT ![d] = Tail(@)]
  /\ \/ /\ Head(queue[d])[1] = "input"
        /\ doing' = [doing EXCEPT ![d] = "emit"]
        /\ routed' = [routed EXCEPT ![d] = Append(@, Head(queue[d]))]
        /\ UNCHANGED battery
     \/ /\ Head(queue[d])[1] = "battery"
        /\ battery' = [battery EXCEPT ![d] = Head(queue[d])[3]]
        /\ UNCHANGED <<doing, routed>>
  /\ UNCHANGED <<bootVars, streamVars, heard, snapshot>>

\* A battery level goes to the pump, an input on to the outbox; the events of
\* other dials are skipped.
TakeEvent(d) ==
  /\ doing[d] = "idle" /\ queue[d] # <<>>
  /\ queue' = [queue EXCEPT ![d] = Tail(@)]
  /\ LET event == Head(queue[d])
     IN  \/ /\ event[1] = "input" /\ event[2] = d
            /\ doing' = [doing EXCEPT ![d] = "emit"]
            /\ routed' = [routed EXCEPT ![d] = Append(@, event)]
            /\ UNCHANGED battery
         \/ /\ event[1] = "battery" /\ event[2] = d
            /\ battery' = [battery EXCEPT ![d] = event[3]]
            /\ UNCHANGED <<doing, routed>>
         \/ event[2] # d /\ UNCHANGED <<doing, routed, battery>>
  /\ UNCHANGED <<bootVars, streamVars, heard, snapshot>>

\* emit_input_value awaits room; then the input is routed.
EmitInput(d) ==
  /\ doing[d] = "emit" /\ doing' = [doing EXCEPT ![d] = "idle"]
  /\ queued < OutboxCap /\ queued' = queued + 1
  /\ UNCHANGED <<network, file, token, boot, faults, streamVars, queue, routed, heard, snapshot, battery>>

-----------------------------------------------------------------------------
Bootstrap == Attempt \/ ListLights \/ ListDials \/ Supervise
Network == (Readdress \/ CloudLearns) /\ UNCHANGED dialVars
Session == Drain /\ UNCHANGED dialVars

Next ==
  \/ Bootstrap \/ Network \/ Session
  \/ Open \/ Break \/ StreamEvent
  \/ \E d \in Dials : DialEvent(d) \/ TakeEvent(d) \/ EmitInput(d) \/ SendSnapshot(d)

Spec == Init /\ [][Next]_vars

\* The bootstrap's task runs, a session sends what is queued, and the cloud
\* hears of a new address in the end.
FairSpec ==
  /\ Spec
  /\ WF_vars(Bootstrap) /\ WF_vars(Session)
  /\ WF_vars(CloudLearns /\ UNCHANGED dialVars)

-----------------------------------------------------------------------------
(* Properties. *)

\* The inputs of a dial among events.
Own(d, events) ==
  LET OwnTo[n \in 0..Len(events)] ==
        IF n = 0 THEN <<>>
        ELSE IF events[n][1] = "input" /\ events[n][2] = d THEN Append(OwnTo[n - 1], events[n])
        ELSE OwnTo[n - 1]
  IN  OwnTo[Len(events)]

\* A loop routes the inputs of its dial, all of those it was sent and no
\* other's, in the order they were made.
RoutesItsOwn == \A d \in Dials : routed[d] \o Own(d, queue[d]) = Own(d, heard[d])

\* A token that names its bridge gets the adapter online, whatever answers at
\* the stored address, moved meanwhile or failed: no attempt adopts another
\* bridge, and none is the last.
ComesOnline == file.id = Paired => <>(boot = "online")

=============================================================================
