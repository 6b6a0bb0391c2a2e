------------------------------ MODULE NuimoLink ------------------------------
(***************************************************************************)
(* The BLE links of edge-agent (crates/edge-agent/src/main.rs): the        *)
(* supervisor that brings a discovered Nuimo online, the event loop it     *)
(* spawns for the device, with the reconnect loop inside, and the ws task  *)
(* that carries out the server's DeviceConnect and DeviceDisconnect.       *)
(*                                                                         *)
(* The nuimo crate is external.  As main.rs uses it: connect brings the    *)
(* link up or fails, and on a link that is up does nothing; a link that    *)
(* comes up or goes down emits Connected or Disconnected on a broadcast    *)
(* that reaches only who has subscribed and forgets the oldest event when  *)
(* the reader is EventCap behind.                                          *)
(*                                                                         *)
(* What the loop and the supervisor send to the server is in EdgeLink; the *)
(* last value of the device's "connected" property is kept here.           *)
(***************************************************************************)
EXTENDS Naturals, Sequences

CONSTANTS
  Devices,          \* BLE addresses, upper-cased
  Allowlist,        \* addresses of the configuration; none admits all
  EventCap,         \* the nuimo crate's broadcast channel
  MaxDrops,         \* bound: links lost to the radio
  MaxFails,         \* bound: connects that fail
  MaxInputs,        \* bound: input events
  MaxCommands       \* bound: commands of the server

ASSUME LinkAssumption ==
  /\ EventCap \in Nat \ {0}
  /\ {MaxDrops, MaxFails, MaxInputs, MaxCommands} \subseteq Nat

VARIABLES
  link,             \* per device: "up" or "down"
  stage,            \* per device: how far the supervisor has brought it
  loop,             \* per device: its event loop
  events,           \* per device: events the loop has yet to read
  paused,           \* per device: the flag of NuimoDeviceHandle
  command,          \* per device: the frame the ws task is carrying out
  reported,         \* per device: the "connected" property last sent
  drops, fails, inputs, commands,
  missed,           \* history: the link went down and nobody was subscribed
  closed            \* history: the server closed the link, no reconnect being
                    \* under way, and has not asked for it since

counters == <<drops, fails, inputs, commands>>
vars == <<link, stage, loop, events, paused, command, reported, counters, missed, closed>>

Init ==
  /\ link = [d \in Devices |-> "down"]
  /\ stage = [d \in Devices |-> "unknown"]
  /\ loop = [d \in Devices |-> "none"]
  /\ events = [d \in Devices |-> <<>>]
  /\ paused = [d \in Devices |-> FALSE]
  /\ command = [d \in Devices |-> "none"]
  /\ reported = [d \in Devices |-> FALSE]
  /\ drops = 0 /\ fails = 0 /\ inputs = 0 /\ commands = 0
  /\ missed = [d \in Devices |-> FALSE]
  /\ closed = [d \in Devices |-> FALSE]

-----------------------------------------------------------------------------
(* The nuimo crate and the radio. *)

Subscribed(d) == loop[d] \notin {"none", "start"}

\* What a broadcast does with an event: it forgets the oldest for it.
Emit(d, event) ==
  events' = IF ~Subscribed(d) THEN events
            ELSE [events EXCEPT ![d] =
                    Append(IF Len(@) = EventCap THEN Tail(@) ELSE @, event)]

\* The link as a connect leaves it that succeeded,
LinkUp(d) ==
  /\ link' = [link EXCEPT ![d] = "up"]
  /\ missed' = [missed EXCEPT ![d] = FALSE]
  /\ IF link[d] = "up" THEN UNCHANGED events ELSE Emit(d, "connected")
  /\ UNCHANGED fails

\* or failed: only a link that is down can.
ConnectFails(d) ==
  /\ link[d] = "down"
  /\ fails < MaxFails /\ fails' = fails + 1
  /\ UNCHANGED <<link, events, missed>>

LinkDown(d) ==
  /\ link' = [link EXCEPT ![d] = "down"]
  /\ missed' = [missed EXCEPT ![d] = @ \/ (link[d] = "up" /\ ~Subscribed(d))]
  /\ IF link[d] = "down" THEN UNCHANGED events ELSE Emit(d, "disconnected")

LoseLink(d) ==
  /\ link[d] = "up" /\ drops < MaxDrops /\ drops' = drops + 1
  /\ LinkDown(d)
  /\ UNCHANGED <<stage, loop, paused, command, reported, fails, inputs, commands, closed>>

\* A button, a rotation, a battery level.
InputEvent(d) ==
  /\ link[d] = "up" /\ inputs < MaxInputs /\ inputs' = inputs + 1
  /\ Emit(d, "input")
  /\ UNCHANGED <<link, stage, loop, paused, command, reported, drops, fails, commands,
                 missed, closed>>

-----------------------------------------------------------------------------
(* run_nuimo_supervisor and connect_and_spawn, one device at a time. *)

Stage(d, from, to) == stage[d] = from /\ stage' = [stage EXCEPT ![d] = to]

\* Mutant: the list is not consulted.
AdmitAnyone(d) ==
  /\ \A e \in Devices : stage[e] \in {"unknown", "tracked"}
  /\ Stage(d, "unknown", "connect")
  /\ UNCHANGED <<link, loop, events, paused, command, reported, counters, missed, closed>>

\* supervisor_decision: a device outside the list, or tracked, is ignored.
Admit(d) ==
  /\ \A e \in Devices : stage[e] \in {"unknown", "tracked"}
  /\ Allowlist = {} \/ d \in Allowlist
  /\ Stage(d, "unknown", "connect")
  /\ UNCHANGED <<link, loop, events, paused, command, reported, counters, missed, closed>>

\* A device that does not come up waits for its next sighting.
BringUp(d) ==
  /\ \/ Stage(d, "connect", "register") /\ LinkUp(d)
     \/ Stage(d, "connect", "unknown") /\ ConnectFails(d)
  /\ UNCHANGED <<loop, paused, command, reported, drops, inputs, commands, closed>>

\* The device goes into the map and is reported; then the link glyph is shown.
Register(d) ==
  /\ Stage(d, "register", "spawn")
  /\ reported' = [reported EXCEPT ![d] = TRUE]
  /\ UNCHANGED <<link, loop, events, paused, command, counters, missed, closed>>

Spawn(d) ==
  /\ Stage(d, "spawn", "tracked")
  /\ loop' = [loop EXCEPT ![d] = "start"]
  /\ UNCHANGED <<link, events, paused, command, reported, counters, missed, closed>>

-----------------------------------------------------------------------------
(* run_nuimo_event_loop *)

Loop(d, from, to) == loop[d] = from /\ loop' = [loop EXCEPT ![d] = to]
Take(d, event) ==
  /\ events[d] # <<>> /\ Head(events[d]) = event
  /\ events' = [events EXCEPT ![d] = Tail(@)]

\* device.events(): what was emitted before is lost.
Subscribe(d) ==
  /\ Loop(d, "start", "recv")
  /\ UNCHANGED <<link, stage, events, paused, command, reported, counters, missed, closed>>

\* Mutant: a device the user has closed needs no reconnect.
TakeDisconnectedUnlessPaused(d) ==
  /\ IF paused[d] THEN Loop(d, "recv", "recv") ELSE Loop(d, "recv", "retry")
  /\ Take(d, "disconnected")
  /\ reported' = [reported EXCEPT ![d] = FALSE]
  /\ UNCHANGED <<link, stage, paused, command, counters, missed, closed>>

TakeDisconnected(d) ==
  /\ Loop(d, "recv", "retry")
  /\ Take(d, "disconnected")
  /\ reported' = [reported EXCEPT ![d] = FALSE]
  /\ UNCHANGED <<link, stage, paused, command, counters, missed, closed>>

TakeConnected(d) ==
  /\ Loop(d, "recv", "recv")
  /\ Take(d, "connected")
  /\ reported' = [reported EXCEPT ![d] = TRUE]
  /\ UNCHANGED <<link, stage, paused, command, counters, missed, closed>>

\* RoutingEngine and EdgeLink have what comes of an input.
TakeInput(d) ==
  /\ Loop(d, "recv", "recv")
  /\ Take(d, "input")
  /\ UNCHANGED <<link, stage, paused, command, reported, counters, missed, closed>>

\* reconnect_nuimo: while paused it only polls; otherwise it sleeps,
Sleep(d) ==
  /\ ~paused[d]
  /\ Loop(d, "retry", "asleep")
  /\ UNCHANGED <<link, stage, events, paused, command, reported, counters, missed, closed>>

\* Mutant: the flag is not looked at again after the sleep.
WakeBlindly(d) ==
  /\ Loop(d, "asleep", "connecting")
  /\ UNCHANGED <<link, stage, events, paused, command, reported, counters, missed, closed>>

\* looks at the flag again, and connects.
Wake(d) ==
  /\ Loop(d, "asleep", IF paused[d] THEN "retry" ELSE "connecting")
  /\ UNCHANGED <<link, stage, events, paused, command, reported, counters, missed, closed>>

\* Mutant: one failure is enough.
ReconnectOnce(d) ==
  /\ \/ Loop(d, "connecting", "report") /\ LinkUp(d)
     \/ Loop(d, "connecting", "recv") /\ ConnectFails(d)
  /\ UNCHANGED <<stage, paused, command, reported, drops, inputs, commands, closed>>

Reconnect(d) ==
  /\ \/ Loop(d, "connecting", "report") /\ LinkUp(d)
     \/ Loop(d, "connecting", "retry") /\ ConnectFails(d)
  /\ UNCHANGED <<stage, paused, command, reported, drops, inputs, commands, closed>>

Report(d) ==
  /\ Loop(d, "report", "recv")
  /\ reported' = [reported EXCEPT ![d] = TRUE]
  /\ UNCHANGED <<link, stage, events, paused, command, counters, missed, closed>>

-----------------------------------------------------------------------------
(* DeviceMapControl: the ws task finds the device in the map, sets the flag *)
(* and awaits the nuimo crate; it takes no other frame meanwhile.           *)

Begin(d, what, flag) ==
  /\ \A e \in Devices : command[e] = "none"
  /\ stage[d] \in {"spawn", "tracked"}
  /\ commands < MaxCommands /\ commands' = commands + 1
  /\ command' = [command EXCEPT ![d] = what]
  /\ paused' = [paused EXCEPT ![d] = flag]
  /\ UNCHANGED <<link, stage, loop, events, reported, drops, fails, inputs, missed>>

DeviceConnect(d) ==
  /\ Begin(d, "connect", FALSE)
  /\ closed' = [closed EXCEPT ![d] = FALSE]

DeviceDisconnect(d) == Begin(d, "disconnect", TRUE) /\ UNCHANGED closed

\* A connect that fails is only logged.
FinishConnect(d) ==
  /\ command[d] = "connect" /\ command' = [command EXCEPT ![d] = "none"]
  /\ LinkUp(d) \/ ConnectFails(d)
  /\ UNCHANGED <<stage, loop, paused, reported, drops, inputs, commands, closed>>

FinishDisconnect(d) ==
  /\ command[d] = "disconnect" /\ command' = [command EXCEPT ![d] = "none"]
  /\ LinkDown(d)
  /\ closed' = [closed EXCEPT ![d] = loop[d] # "connecting"]
  /\ UNCHANGED <<stage, loop, paused, reported, counters>>

Supervise(d) == Admit(d) \/ BringUp(d) \/ Register(d) \/ Spawn(d)
Listen(d) ==
  \/ Subscribe(d) \/ TakeDisconnected(d) \/ TakeConnected(d) \/ TakeInput(d)
  \/ Sleep(d) \/ Wake(d) \/ Reconnect(d) \/ Report(d)
Finish(d) == FinishConnect(d) \/ FinishDisconnect(d)

Next ==
  \E d \in Devices :
    \/ LoseLink(d) \/ InputEvent(d)
    \/ DeviceConnect(d) \/ DeviceDisconnect(d)
    \/ Supervise(d) \/ Listen(d) \/ Finish(d)

Spec == Init /\ [][Next]_vars

\* Every task runs, a powered device is sighted again and again, a connect
\* returns, and one that is repeated succeeds in the end (MaxFails).
FairSpec ==
  /\ Spec
  /\ \A d \in Devices : WF_vars(Supervise(d)) /\ WF_vars(Listen(d)) /\ WF_vars(Finish(d))

-----------------------------------------------------------------------------
(* Properties. *)

Event == {"connected", "disconnected", "input"}

\* Every part of the state has the shape its type declares; only devices of
\* the list are brought up, and a loop runs for those that have been.
TypeOK ==
  /\ link \in [Devices -> {"up", "down"}]
  /\ stage \in [Devices -> {"unknown", "connect", "register", "spawn", "tracked"}]
  /\ loop \in [Devices -> {"none", "start", "recv", "retry", "asleep", "connecting", "report"}]
  /\ events \in [Devices -> Seq(Event)] /\ \A d \in Devices : Len(events[d]) <= EventCap
  /\ {paused, reported, missed, closed} \subseteq [Devices -> BOOLEAN]
  /\ command \in [Devices -> {"none", "connect", "disconnect"}]
  /\ \A d \in Devices :
        /\ stage[d] = "unknown" \/ Allowlist = {} \/ d \in Allowlist
        /\ loop[d] = "none" <=> stage[d] # "tracked"
  /\ drops \in 0..MaxDrops /\ fails \in 0..MaxFails
  /\ inputs \in 0..MaxInputs /\ commands \in 0..MaxCommands

\* A loop that waits for events of a link that is down has the Disconnected
\* still to read, whatever the broadcast has forgotten: only the event of a
\* link lost before the loop subscribed is missed.
NeverIdleWhileDown ==
  \A d \in Devices :
    loop[d] = "recv" /\ link[d] = "down" /\ ~missed[d]
      => \E i \in DOMAIN events[d] : events[d][i] = "disconnected"

\* A link the server closed, no reconnect being under way, stays down until
\* the server asks for it.
ClosedStaysDown == \A d \in Devices : closed[d] => link[d] = "down"

\* Every device that may be admitted ends up connected and known to be, unless
\* the server has closed it or its loss was missed.
ComesBack ==
  <>[](\A d \in Devices :
         \/ Allowlist # {} /\ d \notin Allowlist
         \/ missed[d] \/ paused[d]
         \/ link[d] = "up" /\ reported[d])

=============================================================================
