--------------------------- MODULE IosEdgeClient ---------------------------
(***************************************************************************)
(* The EdgeClient of weave-ios-core and its host: edge_client.rs, cache.rs *)
(* and glyph_registry.rs, called from EdgeClientHost.swift and             *)
(* NowPlayingObserver.swift.                                               *)
(*                                                                         *)
(* A client is known by its generation: the host shuts one down and makes  *)
(* the next without waiting for the old one's loop, and both work in one   *)
(* directory.  Published values, and each table of the configuration, are  *)
(* version numbers; a patch takes a table from one version to the next.    *)
(* RoutingEngine models what the tables do to inputs, FeedbackPump what    *)
(* becomes of the values sent to the LED.                                  *)
(***************************************************************************)
EXTENDS Integers, Sequences, FiniteSets

CONSTANTS
  Tasks,            \* tasks of the host that publish or route
  OutboxCap,        \* OUTBOX_CAPACITY
  MaxClients,       \* bound: generations of the client
  Edited,           \* bound: tables the server edits
  MaxEvents         \* bound: snapshots, inputs, edits, failed connects, broken
                    \* links, failed writes and kills together

ASSUME IosAssumption ==
  /\ OutboxCap \in Nat \ {0} /\ {MaxClients, MaxEvents} \subseteq Nat
  /\ Edited \subseteq {"mappings", "cycles", "glyphs"}

Clients == 1..MaxClients
NoClient == 0

VARIABLES
  client,           \* EdgeClientHost.client, a generation
  shown, calls,     \* its `connected`, and what the last call on its way to
                    \* MainActor says (the calls before it leave no trace)
  phase,            \* where run_ws_loop of each generation is
  stop,             \* its shutdown channel holds a message
  outbox,           \* its outbox
  sent,             \* its replay caches
  todo,             \* what is left of a replay
  alive,            \* its socket reaches the server
  down,             \* frames of the server it has not read
  held,             \* its engine and glyph registry
  task,             \* the host's tasks
  files,            \* mappings.json and glyphs.json
  queued,           \* history: the last value of each property put in the outbox
  stale,            \* history: files a failed write or a replaced client left behind
  config, known,    \* the server: its configuration, what it heard from each client
  made, events

counters == <<made, events>>
host == <<client, shown>>
loop == <<phase, stop, outbox, sent, todo, alive, down, held>>
disk == <<files, stale>>
vars == <<host, calls, loop, task, queued, disk, config, known, counters>>

Cached == {"playback", "now_playing", "device"}
Files == {"mappings", "glyphs"}
\* A task with calls to make, and one at rest.
CallsLeft(props, value) == [props |-> props, at |-> "pick", to |-> NoClient, value |-> value]
NoTask == CallsLeft(<<>>, 0)
NoCall == "none"
Nothing == [p \in Cached |-> 0]
NoTables == [mappings |-> 0, cycles |-> 0, glyphs |-> 0]

Over(g) == phase[g] \in {"none", "ended"}
\* The last call of on_connection_changed said TRUE.
Up(g) == phase[g] \in {"hello", "replay", "steady", "mappings", "glyphs"}

Init ==
  /\ client = NoClient /\ shown = FALSE /\ calls = NoCall
  /\ phase = [g \in Clients |-> "none"]
  /\ stop = [g \in Clients |-> FALSE]
  /\ outbox = [g \in Clients |-> <<>>]
  /\ sent = [g \in Clients |-> Nothing] /\ queued = [g \in Clients |-> Nothing]
  /\ todo = [g \in Clients |-> {}]
  /\ alive = [g \in Clients |-> FALSE]
  /\ down = [g \in Clients |-> <<>>]
  /\ held = [g \in Clients |-> NoTables]
  /\ task = [t \in Tasks |-> NoTask]
  /\ files = [f \in Files |-> 0] /\ stale = {}
  /\ config = [mappings |-> 1, cycles |-> 1, glyphs |-> 1]
  /\ known = [g \in Clients |-> Nothing]
  /\ made = 0 /\ events = 0

Event == events < MaxEvents /\ events' = events + 1 /\ UNCHANGED made

-----------------------------------------------------------------------------
(* EdgeClientHost *)

\* connect(), once disconnect() has returned: EdgeClient::connect hydrates
\* the tables from the files and spawns the loop.
Connect ==
  /\ client = NoClient /\ made < MaxClients
  /\ made' = made + 1 /\ client' = made + 1
  /\ phase' = [phase EXCEPT ![made + 1] = "connect"]
  /\ held' = [held EXCEPT ![made + 1] =
       [mappings |-> files["mappings"], cycles |-> 0, glyphs |-> files["glyphs"]]]
  /\ stale' = {}
  /\ UNCHANGED <<shown, calls, stop, outbox, sent, todo, alive, down, task, queued, files,
                 config, known, events>>

\* disconnect(): the message is in the channel when shutdown() returns.
Disconnect ==
  /\ client # NoClient /\ client' = NoClient /\ shown' = FALSE
  /\ stop' = [stop EXCEPT ![client] = TRUE]
  /\ UNCHANGED <<calls, phase, outbox, sent, todo, alive, down, held, task, queued, disk,
                 config, known, counters>>

\* EdgeClientSink: applyConnection on MainActor.
ApplyConnection ==
  /\ calls # NoCall /\ calls' = NoCall /\ shown' = (calls = "up")
  /\ UNCHANGED <<client, loop, task, queued, disk, config, known, counters>>

\* The system kills the app: only the files stay.
Kill ==
  /\ client # NoClient /\ client' = NoClient /\ shown' = FALSE /\ calls' = NoCall
  /\ Event
  /\ phase' = [g \in Clients |-> IF Over(g) THEN phase[g] ELSE "ended"]
  /\ task' = [t \in Tasks |-> NoTask]
  /\ stop' = [g \in Clients |-> FALSE] /\ alive' = [g \in Clients |-> FALSE]
  /\ outbox' = [g \in Clients |-> <<>>] /\ down' = [g \in Clients |-> <<>>]
  /\ todo' = [g \in Clients |-> {}]
  /\ sent' = [g \in Clients |-> Nothing] /\ held' = [g \in Clients |-> NoTables]
  /\ queued' = [g \in Clients |-> Nothing] /\ known' = [g \in Clients |-> Nothing]
  /\ UNCHANGED <<disk, config>>

-----------------------------------------------------------------------------
(* Tasks of the host: publish() of the observer, and an input. *)

Begin(t, props) ==
  /\ task[t] = NoTask /\ client # NoClient
  /\ Event
  /\ task' = [task EXCEPT ![t] = CallsLeft(props, events + 1)]
  /\ UNCHANGED <<host, calls, loop, queued, disk, config, known>>

\* A snapshot of the player; its volume goes the way of its playback.
Publish(t) == Begin(t, <<"playback", "now_playing">>)

\* A battery level, or a Nuimo that connects or goes.
PublishDeviceState(t) == Begin(t, <<"device">>)

\* route_nuimo_event, for what the iOS edge hands on: a cycle switch, or an
\* intent it has no adapter for.
RouteNuimoEvent(t) == Begin(t, <<"relay">>)

\* The call that is under way is over.
NextCall(t) ==
  LET rest == Tail(task[t].props)
  IN  task' = [task EXCEPT ![t] = IF rest = <<>> THEN NoTask ELSE CallsLeft(rest, @.value)]

\* guard let client: without one the call returns at once.
Pick(t) ==
  /\ task[t] # NoTask /\ task[t].at = "pick"
  /\ \/ client = NoClient /\ NextCall(t)
     \/ /\ client # NoClient
        /\ task' = [task EXCEPT ![t].at = "put", ![t].to = client]
  /\ UNCHANGED <<host, calls, loop, queued, disk, config, known, counters>>

\* outbox_tx.send(..).await waits for room.
HasRoom(g) == Len(outbox[g]) < OutboxCap

\* It fails once the loop has ended, and the task with it. What
\* publish_ios_media_state put there it then hands to FeedbackPump.
Put(t) ==
  LET g == task[t].to
      name == Head(task[t].props)
  IN  /\ task[t].at = "put"
      /\ \/ /\ Over(g) /\ task' = [task EXCEPT ![t] = NoTask]
            /\ UNCHANGED <<outbox, queued>>
         \/ /\ ~Over(g) /\ HasRoom(g)
            /\ outbox' = [outbox EXCEPT ![g] =
                            Append(@, [name |-> name, value |-> task[t].value])]
            /\ queued' = IF name \in Cached THEN [queued EXCEPT ![g][name] = task[t].value]
                         ELSE queued
            /\ NextCall(t)
      /\ UNCHANGED <<host, calls, phase, stop, sent, todo, alive, down, held, disk,
                     config, known, counters>>

-----------------------------------------------------------------------------
(* run_ws_loop of one generation. *)

\* `return`: what the loop owns is dropped, and what the server heard from it
\* is of no more interest here.
Returns(g) ==
  /\ phase' = [phase EXCEPT ![g] = "ended"]
  /\ stop' = [stop EXCEPT ![g] = FALSE]
  /\ alive' = [alive EXCEPT ![g] = FALSE]
  /\ outbox' = [outbox EXCEPT ![g] = <<>>]
  /\ down' = [down EXCEPT ![g] = <<>>]
  /\ sent' = [sent EXCEPT ![g] = Nothing]
  /\ held' = [held EXCEPT ![g] = NoTables]
  /\ queued' = [queued EXCEPT ![g] = Nothing] /\ known' = [known EXCEPT ![g] = Nothing]

\* shutdown_rx.recv() in the three selects; a session is told to be over.
TakeStop(g) ==
  /\ phase[g] \in {"connect", "steady", "backoff"} /\ stop[g]
  /\ Returns(g)
  /\ calls' = IF phase[g] = "steady" THEN "down" ELSE calls
  /\ UNCHANGED <<host, todo, task, disk, config, counters>>

\* connect_async
Dial(g) ==
  /\ phase[g] = "connect"
  /\ \/ /\ phase' = [phase EXCEPT ![g] = "hello"] /\ alive' = [alive EXCEPT ![g] = TRUE]
        /\ calls' = "up" /\ UNCHANGED counters
     \/ phase' = [phase EXCEPT ![g] = "backoff"] /\ UNCHANGED <<alive, calls>> /\ Event
  /\ UNCHANGED <<host, stop, outbox, sent, todo, down, held, task, queued, disk, config, known>>

Wake(g) ==
  /\ phase[g] = "backoff" /\ phase' = [phase EXCEPT ![g] = "connect"]
  /\ UNCHANGED <<host, calls, stop, outbox, sent, todo, alive, down, held, task, queued, disk,
                 config, known, counters>>

\* The link breaks; the loop finds out when it next writes or reads.
Break(g) ==
  /\ alive[g] /\ alive' = [alive EXCEPT ![g] = FALSE] /\ Event
  /\ UNCHANGED <<host, calls, phase, stop, outbox, sent, todo, down, held, task, queued, disk,
                 config, known>>

\* A session is over: Swift is told, what was not read is gone.
SessionOver(g, next) ==
  /\ calls' = "down"
  /\ phase' = [phase EXCEPT ![g] = next]
  /\ down' = [down EXCEPT ![g] = <<>>]
  /\ todo' = [todo EXCEPT ![g] = {}]

\* Mutant: a session that fails in its Hello or its replay ends unannounced.
RetriesUnannounced(g) ==
  /\ phase' = [phase EXCEPT ![g] = "connect"]
  /\ down' = [down EXCEPT ![g] = <<>>]
  /\ todo' = [todo EXCEPT ![g] = {}]
  /\ UNCHANGED calls

\* `continue` dials again without a pause.
Retries(g) == SessionOver(g, "connect")

\* The server answers Hello with the configuration.
Hello(g) ==
  /\ phase[g] = "hello"
  /\ \/ /\ phase' = [phase EXCEPT ![g] = "replay"]
        /\ todo' = [todo EXCEPT ![g] = {p \in Cached : sent[g][p] # 0}]
        /\ down' = [down EXCEPT ![g] = IF alive[g] THEN <<config>> ELSE <<>>]
        /\ UNCHANGED calls
     \/ ~alive[g] /\ Retries(g)
  /\ UNCHANGED <<host, stop, outbox, sent, alive, held, task, queued, disk, config, known, counters>>

\* What is sent on a broken link is lost.
Hears(g, name, value) ==
  known' = IF alive[g] /\ name \in Cached THEN [known EXCEPT ![g][name] = value] ELSE known

\* The states of devices come first; within a map, every order.
NextUp(g) == IF "device" \in todo[g] THEN {"device"} ELSE todo[g]

\* One cached value.
Replay(g) ==
  /\ phase[g] = "replay"
  /\ \/ /\ todo[g] = {} /\ phase' = [phase EXCEPT ![g] = "steady"]
        /\ UNCHANGED <<calls, down, todo, known>>
     \/ \E p \in NextUp(g) :
          \/ /\ todo' = [todo EXCEPT ![g] = @ \ {p}] /\ Hears(g, p, sent[g][p])
             /\ UNCHANGED <<calls, phase, down>>
          \/ ~alive[g] /\ Retries(g) /\ UNCHANGED known
  /\ UNCHANGED <<host, stop, outbox, sent, alive, held, task, queued, disk, config, counters>>

\* Mutant: a value is cached only if the frame went out.
RememberedIfSent(g, command) ==
  sent' = IF alive[g] /\ command.name \in Cached
          THEN [sent EXCEPT ![g][command.name] = command.value] ELSE sent

\* The replay caches take a value before it is sent.
Remembered(g, command) ==
  sent' = IF command.name \in Cached
          THEN [sent EXCEPT ![g][command.name] = command.value] ELSE sent

\* outbox_rx.recv()
Dequeue(g) ==
  /\ phase[g] = "steady" /\ outbox[g] # <<>>
  /\ outbox' = [outbox EXCEPT ![g] = Tail(@)]
  /\ LET command == Head(outbox[g])
     IN  /\ Remembered(g, command)
         /\ \/ Hears(g, command.name, command.value) /\ UNCHANGED <<calls, phase, down, todo>>
            \/ ~alive[g] /\ SessionOver(g, "backoff") /\ UNCHANGED known
  /\ UNCHANGED <<host, stop, alive, held, task, queued, disk, config, counters>>

\* ws.next() fails, or the reply to a Ping does.
ReadError(g) ==
  /\ phase[g] = "steady" /\ ~alive[g] /\ SessionOver(g, "backoff")
  /\ UNCHANGED <<host, stop, outbox, sent, alive, held, task, queued, disk, config, known, counters>>

-----------------------------------------------------------------------------
(* apply_inbound_frame and persist_cache. A frame is the tables it brings. *)

\* Mutant: a GlyphsUpdate is not written to the files.
PersistsMappings(frame) == "mappings" \in DOMAIN frame

\* ConfigFull, ConfigPatch, TargetSwitch and GlyphsUpdate end in
\* persist_cache, a DeviceCyclePatch does not.
Persists(frame) == DOMAIN frame \cap Files # {}

\* Mutant: only what goes to the files is taken over.
UpdatedFilesOnly(tables, frame) ==
  [k \in DOMAIN tables |-> IF k \in DOMAIN frame \cap Files THEN frame[k] ELSE tables[k]]

\* The engine's and the registry's tables once a frame has been applied.
Updated(tables, frame) ==
  [k \in DOMAIN tables |-> IF k \in DOMAIN frame THEN frame[k] ELSE tables[k]]

Apply(g) ==
  /\ phase[g] = "steady" /\ down[g] # <<>>
  /\ down' = [down EXCEPT ![g] = Tail(@)]
  /\ LET frame == Head(down[g])
     IN  /\ held' = [held EXCEPT ![g] = Updated(@, frame)]
         /\ phase' = IF Persists(frame) THEN [phase EXCEPT ![g] = "mappings"] ELSE phase
  /\ UNCHANGED <<host, calls, stop, outbox, sent, todo, alive, task, queued, disk, config, known,
                 counters>>

\* write_atomic, one file after the other; a failure is logged.
Persist(g) ==
  /\ phase[g] \in Files
  /\ LET f == phase[g]
     IN  \/ /\ files' = [files EXCEPT ![f] = held[g][f]]
            /\ stale' = IF g = client THEN stale \ {f} ELSE stale \cup {f}
            /\ UNCHANGED counters
         \/ Event /\ stale' = stale \cup {f} /\ UNCHANGED files
  /\ phase' = [phase EXCEPT ![g] = IF @ = "mappings" THEN "glyphs" ELSE "steady"]
  /\ UNCHANGED <<host, calls, stop, outbox, sent, todo, alive, down, held, task, queued, config, known>>

-----------------------------------------------------------------------------
(* weave-server: an edit goes to the sessions that have said Hello. *)

Edit(table) ==
  /\ Event
  /\ config' = [config EXCEPT ![table] = @ + 1]
  /\ down' = [g \in Clients |->
       IF alive[g] /\ phase[g] \in {"replay", "steady", "mappings", "glyphs"}
       THEN Append(down[g], [k \in {table} |-> config[table] + 1]) ELSE down[g]]
  /\ UNCHANGED <<host, calls, phase, stop, outbox, sent, todo, alive, held, task, queued, disk,
                 known>>

-----------------------------------------------------------------------------
LoopStep(g) ==
  TakeStop(g) \/ Wake(g) \/ Dial(g) \/ Hello(g) \/ Replay(g) \/ Dequeue(g) \/ ReadError(g)
    \/ Apply(g) \/ Persist(g)

TaskStep(t) == Pick(t) \/ Put(t)

Next ==
  \/ Connect \/ Disconnect \/ Kill \/ ApplyConnection
  \/ \E t \in Tasks : Publish(t) \/ PublishDeviceState(t) \/ RouteNuimoEvent(t) \/ TaskStep(t)
  \/ \E g \in Clients : LoopStep(g) \/ Break(g)
  \/ \E table \in Edited : Edit(table)

Spec == Init /\ [][Next]_vars

\* Only what the runtime guarantees: a task that can go on does in the end. The
\* host, the server and the network owe nothing.
FairSpec ==
  /\ Spec
  /\ \A t \in Tasks : WF_vars(TaskStep(t))
  /\ \A g \in Clients : WF_vars(LoopStep(g))

-----------------------------------------------------------------------------
(* Properties. *)

\* Everything has its type, and no outbox holds more than it has room for,
\* however many tasks publish.
TypeOK ==
  /\ client \in Clients \cup {NoClient}
  /\ phase \in [Clients -> {"none", "connect", "hello", "replay", "steady", "mappings",
                            "glyphs", "backoff", "ended"}]
  /\ \A g \in Clients : Len(outbox[g]) <= OutboxCap /\ todo[g] \subseteq Cached
  /\ \A g \in Clients : DOMAIN held[g] = DOMAIN config
  /\ \A t \in Tasks : task[t].to \in Clients \cup {NoClient}

\* on_connection_changed, through a loop that retries, a host that replaces
\* clients and calls that hop to MainActor: once the replaced loops have ended
\* and the calls have arrived, an edge shown online has a session.
ShownOnlineIsOnline ==
  calls = NoCall /\ (\A g \in Clients \ {client} : Over(g)) /\ shown
    => client # NoClient /\ Up(client)

\* cache.rs: the files mirror "the latest ConfigFull / ConfigPatch /
\* GlyphsUpdate". Between two frames each file is the table of the running
\* client, unless its last write failed or a replaced client wrote it since.
FilesFollow ==
  client # NoClient /\ phase[client] \notin Files =>
    \A f \in Files \ stale : files[f] = held[client][f]

\* A session that is on and has read all that was sent to it holds the server's
\* configuration; with its outbox empty, the server holds the last value of
\* every cached property the client was given, whatever earlier sessions lost.
SessionsCatchUp ==
  \A g \in Clients : phase[g] = "steady" /\ alive[g] =>
    /\ down[g] = <<>> => held[g] = config
    /\ outbox[g] = <<>> => known[g] = queued[g]

\* When the host, the server and the network have calmed down, a client that
\* was not shut down is in a session, holds the server's configuration, the
\* server holds the last value published of every cached property, and no task waits.
CalmsDown ==
  <>[]/\ \A t \in Tasks : task[t] = NoTask
      /\ client # NoClient =>
           /\ phase[client] = "steady"
           /\ held[client] = config
           /\ known[client] = queued[client]

=============================================================================
