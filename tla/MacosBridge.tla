---------------------------- MODULE MacosBridge ----------------------------
(***************************************************************************)
(* A Mac as a service: the macos adapter of edge-agent (adapter_macos) and *)
(* the macos-hub companion, two MQTT clients of one broker.                *)
(*                                                                         *)
(* Both are built on rumqttc: requests wait in a bounded channel that the  *)
(* event loop empties while it is connected; a publish that was not        *)
(* acknowledged is sent again after a reconnect; the session is clean, so  *)
(* a lost connection takes the subscription and what the broker had yet to *)
(* deliver with it.  The broker keeps the last state (retain).             *)
(*                                                                         *)
(* The state is the volume, a percentage scaled to 0..Full; the output     *)
(* device is published at the same places and is left out, and so are the  *)
(* media keys, which nothing reports back.                                 *)
(***************************************************************************)
EXTENDS Integers, Sequences, FiniteSets

CONSTANTS
  Full,             \* 100 %
  Unmuted,          \* the volume an unmute sets when it remembers none, 30 %
  Unknown, None,
  QueueCap,         \* AsyncClient::new(opts, 64), command channel of 64
  MaxInbox,         \* bound: messages on their way from the broker to a client
  MaxIntents,       \* bound: intents for the adapter
  MaxEvents         \* bound: intents, volume changes at the Mac and connections
                    \* lost together

ASSUME MacosAssumption ==
  /\ {QueueCap, MaxInbox, Full, Unmuted} \subseteq Nat \ {0} /\ Unmuted <= Full
  /\ {MaxIntents, MaxEvents} \subseteq Nat

VARIABLES
  volume, restore,  \* the Mac, and mute_restore of the hub's command task
  conn,             \* event loop of a client: "down", "ack" (ConnAck read), "up"
  queue,            \* its channel of requests
  flying, wired,    \* its request without an answer; on its way to the broker
  subscribed, inbox,\* its subscription at the broker, what comes to it
  retained,         \* the broker's last state
  commands,         \* command_rx
  job,              \* the hub's tasks: "main" handles commands, "tick" repeats
  seen,             \* the volume the adapter last broadcast
  intents, touches, breaks,
  ran, missed       \* history: commands executed; a command came to the broker
                    \* when the hub was not subscribed, or was lost with its link

net == <<conn, queue, flying, wired, subscribed, inbox, retained>>
counters == <<intents, touches, breaks>>
vars == <<volume, restore, net, commands, job, seen, counters, ran, missed>>

Sides == {"edge", "hub"}
Tasks == {"main", "tick"}
Volumes == 0..Full
NoRequest == <<"none">>
Idle == <<"idle">>
Read == <<"read">>
Subscribe == <<"subscribe">>

\* MqttBridge::start has queued the subscription; publish_full_state is next.
Init ==
  /\ volume = Full /\ restore = None
  /\ conn = [s \in Sides |-> "down"]
  /\ queue = [s \in Sides |-> IF s = "hub" THEN <<Subscribe>> ELSE <<>>]
  /\ flying = [s \in Sides |-> NoRequest] /\ wired = [s \in Sides |-> FALSE]
  /\ subscribed = [s \in Sides |-> FALSE] /\ inbox = [s \in Sides |-> <<>>]
  /\ retained = Unknown /\ seen = Unknown /\ commands = <<>>
  /\ job = [k \in Tasks |-> IF k = "main" THEN Read ELSE Idle]
  /\ intents = 0 /\ touches = 0 /\ breaks = 0 /\ ran = 0 /\ missed = FALSE

MayHappen == intents + touches + breaks < MaxEvents

HasRoom(s) == Len(queue[s]) < QueueCap
Enqueue(s, request) == queue' = [queue EXCEPT ![s] = Append(@, request)]

-----------------------------------------------------------------------------
(* The two event loops and the broker. *)

\* poll() returns the ConnAck of a new connection.
ConnAck(s) ==
  /\ conn[s] = "down" /\ conn' = [conn EXCEPT ![s] = "ack"]
  /\ wired' = [wired EXCEPT ![s] = flying[s] # NoRequest]
  /\ UNCHANGED <<volume, restore, queue, flying, subscribed, inbox, retained, commands, job,
                 seen, counters, ran, missed>>

\* Mutant: the adapter subscribes with its first connection only.
EdgeAcceptsOnce ==
  /\ conn["edge"] = "ack" /\ conn' = [conn EXCEPT !["edge"] = "up"]
  /\ HasRoom("edge")
  /\ IF breaks = 0 THEN Enqueue("edge", Subscribe) ELSE UNCHANGED queue
  /\ UNCHANGED <<volume, restore, flying, wired, subscribed, inbox, retained, commands, job,
                 seen, counters, ran, missed>>

\* run_event_loop of the adapter: client.subscribe(..).await inside the loop
\* that empties the channel it waits for.
EdgeAccepts ==
  /\ conn["edge"] = "ack" /\ conn' = [conn EXCEPT !["edge"] = "up"]
  /\ HasRoom("edge") /\ Enqueue("edge", Subscribe)
  /\ UNCHANGED <<volume, restore, flying, wired, subscribed, inbox, retained, commands, job,
                 seen, counters, ran, missed>>

\* The hub logs it.
HubAccepts ==
  /\ conn["hub"] = "ack" /\ conn' = [conn EXCEPT !["hub"] = "up"]
  /\ UNCHANGED <<volume, restore, queue, flying, wired, subscribed, inbox, retained, commands,
                 job, seen, counters, ran, missed>>

\* The broker: commands go to the hub, states to the adapter and to those that
\* subscribe later.
Broker(s, request) ==
  CASE request = Subscribe ->
         /\ subscribed' = [subscribed EXCEPT ![s] = TRUE]
         /\ inbox' = IF s = "edge" /\ retained # Unknown
                     THEN [inbox EXCEPT !["edge"] = Append(@, retained)] ELSE inbox
         /\ UNCHANGED <<retained, missed>>
    [] request[1] = "volume" ->
         /\ Len(inbox["edge"]) < MaxInbox
         /\ retained' = request
         /\ inbox' = IF subscribed["edge"]
                     THEN [inbox EXCEPT !["edge"] = Append(@, request)] ELSE inbox
         /\ UNCHANGED <<subscribed, missed>>
    [] OTHER ->
         /\ Len(inbox["hub"]) < MaxInbox
         /\ inbox' = IF subscribed["hub"]
                     THEN [inbox EXCEPT !["hub"] = Append(@, request)] ELSE inbox
         /\ missed' = (missed \/ ~subscribed["hub"])
         /\ UNCHANGED <<subscribed, retained>>

\* A request goes out, one at a time,
Send(s) ==
  /\ conn[s] = "up" /\ flying[s] = NoRequest /\ queue[s] # <<>>
  /\ queue' = [queue EXCEPT ![s] = Tail(@)]
  /\ flying' = [flying EXCEPT ![s] = Head(queue[s])] /\ wired' = [wired EXCEPT ![s] = TRUE]
  /\ UNCHANGED <<volume, restore, conn, subscribed, inbox, retained, commands, job, seen,
                 counters, ran, missed>>

\* and comes to the broker.
Arrive(s) ==
  /\ conn[s] = "up" /\ wired[s] /\ wired' = [wired EXCEPT ![s] = FALSE]
  /\ Broker(s, flying[s])
  /\ flying' = [flying EXCEPT ![s] = IF @ = Subscribe THEN NoRequest ELSE @]
  /\ UNCHANGED <<volume, restore, conn, queue, commands, job, seen, counters, ran>>

PubAck(s) ==
  /\ conn[s] = "up" /\ flying[s] # NoRequest /\ ~wired[s]
  /\ flying' = [flying EXCEPT ![s] = NoRequest]
  /\ UNCHANGED <<volume, restore, conn, queue, wired, subscribed, inbox, retained, commands,
                 job, seen, counters, ran, missed>>

\* Mutant: a command is published at most once.
UnackedAtMostOnce(s) == IF s = "edge" THEN NoRequest ELSE flying[s]

\* QoS::AtLeastOnce: what is sent again after a reconnect.
Unacked(s) == IF flying[s] = Subscribe THEN NoRequest ELSE flying[s]

\* poll() fails; the loop sleeps and polls again.
Break(s) ==
  /\ conn[s] # "down" /\ conn' = [conn EXCEPT ![s] = "down"]
  /\ MayHappen /\ breaks' = breaks + 1
  /\ flying' = [flying EXCEPT ![s] = Unacked(s)]
  /\ wired' = [wired EXCEPT ![s] = FALSE]
  /\ subscribed' = [subscribed EXCEPT ![s] = FALSE]
  /\ inbox' = [inbox EXCEPT ![s] = <<>>]
  /\ missed' = (missed \/ (s = "hub" /\ inbox[s] # <<>>))
  /\ UNCHANGED <<volume, restore, queue, retained, commands, job, seen, intents, touches, ran>>

-----------------------------------------------------------------------------
(* The adapter. *)

\* send_intent: the commands of intent_to_mqtt that a volume answers to.
\* Intent::Mute asks for a toggle.
SendIntent ==
  /\ intents < MaxIntents /\ MayHappen /\ intents' = intents + 1 /\ HasRoom("edge")
  /\ \E request \in {<<"absolute", Full>>, <<"relative", -1>>, <<"mute", "toggle">>,
                     <<"mute", "unmute">>} : Enqueue("edge", request)
  /\ UNCHANGED <<volume, restore, conn, flying, wired, subscribed, inbox, retained, commands,
                 job, seen, touches, breaks, ran, missed>>

\* handle_publish
HandlePublish ==
  /\ conn["edge"] = "up" /\ inbox["edge"] # <<>>
  /\ inbox' = [inbox EXCEPT !["edge"] = Tail(@)] /\ seen' = Head(inbox["edge"])[2]
  /\ UNCHANGED <<volume, restore, conn, queue, flying, wired, subscribed, retained, commands,
                 job, counters, ran, missed>>

-----------------------------------------------------------------------------
(* macos-hub. *)

\* The event loop forwards a command, whatever Mac it is for.
Forward ==
  /\ conn["hub"] = "up" /\ inbox["hub"] # <<>> /\ Len(commands) < QueueCap
  /\ inbox' = [inbox EXCEPT !["hub"] = Tail(@)]
  /\ commands' = Append(commands, Head(inbox["hub"]))
  /\ UNCHANGED <<volume, restore, conn, queue, flying, wired, subscribed, retained, job, seen,
                 counters, ran, missed>>

\* apply_volume_command
ApplyVolumeCommand(request) ==
  LET next == IF request[1] = "absolute" THEN request[2] ELSE volume + request[2]
  IN  IF next < 0 THEN 0 ELSE IF next > Full THEN Full ELSE next

Mutes(request) == request = <<"mute", "toggle">> /\ volume > 0

\* handle_command; the main task then publishes the volume.
HandleCommand ==
  /\ job["main"] = Idle /\ commands # <<>> /\ commands' = Tail(commands)
  /\ LET request == Head(commands)
     IN  \/ /\ request[1] # "mute" /\ volume' = ApplyVolumeCommand(request)
            /\ UNCHANGED restore
         \/ Mutes(request) /\ restore' = volume /\ volume' = 0
         \/ /\ request[1] = "mute" /\ ~Mutes(request) /\ restore' = None
            /\ volume' = IF restore = None THEN Unmuted ELSE restore
  /\ job' = [job EXCEPT !["main"] = Read] /\ ran' = ran + 1
  /\ UNCHANGED <<net, seen, counters, missed>>

\* republish_volume reads the volume: after a command,
ReadVolume ==
  /\ job["main"] = Read /\ job' = [job EXCEPT !["main"] = <<"volume", volume>>]
  /\ UNCHANGED <<volume, restore, net, commands, seen, counters, ran, missed>>

\* when the interval of the periodic task elapses,
Tick ==
  /\ job["tick"] = Idle /\ job' = [job EXCEPT !["tick"] = <<"volume", volume>>]
  /\ UNCHANGED <<volume, restore, net, commands, seen, counters, ran, missed>>

\* and publishes what it read, when the channel has room.
PublishVolume(k) ==
  /\ job[k] \notin {Idle, Read} /\ job' = [job EXCEPT ![k] = Idle]
  /\ HasRoom("hub") /\ Enqueue("hub", job[k])
  /\ UNCHANGED <<volume, restore, conn, flying, wired, subscribed, inbox, retained, commands,
                 seen, counters, ran, missed>>

\* Somebody moves the volume slider.
TouchVolume ==
  /\ MayHappen /\ touches' = touches + 1
  /\ volume' \in Volumes \ {volume}
  /\ UNCHANGED <<restore, net, commands, job, seen, intents, breaks, ran, missed>>

-----------------------------------------------------------------------------
EventLoops ==
  \/ \E s \in Sides : ConnAck(s) \/ Send(s) \/ Arrive(s) \/ PubAck(s)
  \/ EdgeAccepts \/ HubAccepts \/ HandlePublish \/ Forward
HubTask == HandleCommand \/ ReadVolume \/ PublishVolume("main")

Next ==
  \/ EventLoops \/ HubTask \/ Tick \/ PublishVolume("tick") \/ SendIntent \/ TouchVolume
  \/ \E s \in Sides : Break(s)

Spec == Init /\ [][Next]_vars

\* Tasks are scheduled, the interval ticks, the broker answers; a task that
\* waits for room in a channel is not passed over for ever (senders queue up).
FairSpec ==
  /\ Spec
  /\ \A s \in Sides : WF_vars(ConnAck(s) \/ Send(s) \/ Arrive(s) \/ PubAck(s))
  /\ WF_vars(EdgeAccepts \/ HandlePublish) /\ WF_vars(HubAccepts \/ Forward)
  /\ SF_vars(PublishVolume("main"))
  /\ WF_vars(HubTask) /\ WF_vars(Tick \/ PublishVolume("tick"))

-----------------------------------------------------------------------------
(* Properties. *)

\* "Catches external changes", "so state topics keep flowing after
\* reconnects": once nobody touches the volume and connections hold, what the
\* adapter last broadcast is the volume, for good, although the periodic task
\* may publish a value it read before a command changed it.
StateArrives == <>[](seen = volume)

\* The adapter's commands that wait in its channel, and the one that may yet
\* come to the broker.
InChannel == Cardinality({i \in DOMAIN queue["edge"] : queue["edge"][i] # Subscribe})
InFlight ==
  IF flying["edge"] \notin {NoRequest, Subscribe} /\ (wired["edge"] \/ conn["edge"] # "up")
  THEN 1 ELSE 0

\* However connections are lost on either side of the broker, an intent the
\* adapter took is executed, or on its way in one of the five places it passes,
\* unless one was missed.
NoIntentLost ==
  missed \/ ran + Len(commands) + Len(inbox["hub"]) + InFlight + InChannel >= intents

\* AtLeastOnce: every intent the adapter took is executed, some of them twice,
\* unless one came to the broker while the hub was not subscribed (not yet, or
\* not any more: it subscribes with its first connection only).
CommandsRun == <>[](missed \/ ran >= intents)

=============================================================================
