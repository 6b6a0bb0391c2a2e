----------------------------- MODULE ConfigSync -----------------------------
(***************************************************************************)
(* One edge's configuration: WsClient of crates/edge-core/src/ws_client.rs *)
(* with the cache file of cache.rs and the cycle gestures of one device,   *)
(* against a weave-server (external) that owns the configuration.          *)
(*                                                                         *)
(* A configuration is the mapping table (an id to what the mapping says),  *)
(* the active mapping of the device's cycle or NoCycle, and the glyphs.    *)
(* The members and the gesture of the cycle are fixed: NextOf is the order *)
(* its gesture follows; RoutingEngine has the cycles in full.              *)
(*                                                                         *)
(* The ws task handles one frame to the end before it looks at the next or *)
(* at its outbox, so the three locks apply_full takes in turn are one step *)
(* here; the save that follows is not, the process can die in it.          *)
(*                                                                         *)
(* The server acknowledges a switch by echoing it to every edge, the one   *)
(* that made it included (main.rs, the CycleSwitch arm; routing.rs,        *)
(* display_names).                                                         *)
(***************************************************************************)
EXTENDS Naturals, Sequences

CONSTANTS
  MappingIds, Values, Glyphs,
  NextOf,           \* the cycle's order, a permutation of MappingIds
  Absent, NoCycle, NoFile, Torn, NoGesture,
  Start,            \* configurations the server may have at first
  MaxEdits,         \* bound: changes made at the server
  MaxGestures,      \* bound: cycle gestures
  MaxDrops,         \* bound: sessions lost
  MaxCrashes        \* bound: crashes of the edge

ASSUME OrderAssumption ==
  /\ NextOf \in [MappingIds -> MappingIds] /\ NoCycle \notin MappingIds
  /\ {MaxEdits, MaxGestures, MaxDrops, MaxCrashes} \subseteq Nat

Table == [MappingIds -> Values \cup {Absent}]
Config == [mappings : Table, cycle : MappingIds \cup {NoCycle}, glyphs : Glyphs \cup {Absent}]

\* A server always has a glyph set; what does not parse is no configuration.
ASSUME StartAssumption ==
  /\ Start \subseteq {c \in Config : c.glyphs # Absent}
  /\ NoFile \notin Config /\ Torn \notin Config

Empty == [mappings |-> [id \in MappingIds |-> Absent], cycle |-> NoCycle, glyphs |-> Absent]

VARIABLES
  server,           \* the server's configuration
  connected,        \* is there a session
  toEdge, toServer, \* frames on the wire
  running,          \* is the edge process up
  held,             \* what the engine and the glyph registry hold
  phase,            \* the frame being handled: "idle", "refresh", "write", "writing"
  image,            \* the EdgeConfig about to be written
  file,             \* the cache file
  gesture,          \* the switch a gesture decided on and has not applied
  outbox,           \* switches queued for the server
  edits, gestures, drops, crashes,
  served            \* history: every mapping table the server has had

edge == <<running, held, phase, image, file, gesture, outbox>>
counters == <<edits, gestures, drops, crashes>>
vars == <<server, connected, toEdge, toServer, edge, counters, served>>

Init ==
  /\ server \in Start
  /\ connected = FALSE /\ toEdge = <<>> /\ toServer = <<>>
  /\ running = TRUE /\ held = Empty /\ phase = "idle"
  /\ image = Empty /\ file = NoFile
  /\ gesture = NoGesture /\ outbox = <<>>
  /\ edits = 0 /\ gestures = 0 /\ drops = 0 /\ crashes = 0
  /\ served = {Empty.mappings, server.mappings}

-----------------------------------------------------------------------------
(* The server (external) and the session. *)

Announce(frame) == toEdge' = IF connected THEN Append(toEdge, frame) ELSE toEdge

Edited ==
  /\ edits < MaxEdits /\ edits' = edits + 1
  /\ UNCHANGED <<connected, toServer, edge, gestures, drops, crashes>>

\* ConfigPatch: upsert, or delete for Absent.
EditMapping(id, value) ==
  /\ Edited
  /\ server' = [server EXCEPT !.mappings[id] = value]
  /\ served' = served \cup {server'.mappings}
  /\ Announce([kind |-> "mapping", id |-> id, value |-> value])

EditTarget(id, value) ==
  /\ Edited
  /\ server.mappings[id] # Absent
  /\ server' = [server EXCEPT !.mappings[id] = value]
  /\ served' = served \cup {server'.mappings}
  /\ Announce([kind |-> "target", id |-> id, value |-> value])

EditGlyphs(g) ==
  /\ Edited
  /\ server' = [server EXCEPT !.glyphs = g]
  /\ Announce([kind |-> "glyphs", glyphs |-> g])
  /\ UNCHANGED served

\* DeviceCyclePatch: upsert, or delete for NoCycle.
EditCycle(k) ==
  /\ Edited
  /\ server' = [server EXCEPT !.cycle = k]
  /\ Announce([kind |-> "cycle", cycle |-> k])
  /\ UNCHANGED served

\* POST .../cycle/switch
EditActive(id) ==
  /\ Edited
  /\ server.cycle # NoCycle
  /\ server' = [server EXCEPT !.cycle = id]
  /\ Announce([kind |-> "switch", id |-> id, own |-> FALSE])
  /\ UNCHANGED served

\* A switch of the edge arrives: it is persisted and echoed; without a cycle
\* there is nothing to switch.
ServerReceive ==
  /\ toServer # <<>>
  /\ toServer' = Tail(toServer)
  /\ \/ /\ server.cycle # NoCycle
        /\ server' = [server EXCEPT !.cycle = Head(toServer)]
        /\ Announce([kind |-> "switch", id |-> Head(toServer), own |-> TRUE])
     \/ server.cycle = NoCycle /\ UNCHANGED <<server, toEdge>>
  /\ UNCHANGED <<connected, edge, counters, served>>

\* connect_once: Hello, which the server answers with a ConfigFull.
Connect ==
  /\ running /\ ~connected /\ phase = "idle"
  /\ connected' = TRUE
  /\ toEdge' = <<[kind |-> "full", config |-> server]>>
  /\ UNCHANGED <<server, toServer, edge, counters, served>>

\* The session is lost with every frame on the wire; run reconnects.
Drop ==
  /\ connected /\ drops < MaxDrops
  /\ connected' = FALSE /\ toEdge' = <<>> /\ toServer' = <<>>
  /\ drops' = drops + 1
  /\ UNCHANGED <<server, edge, edits, gestures, crashes, served>>

-----------------------------------------------------------------------------
(* handle_server_frame. *)

Receive(kind) ==
  /\ running /\ phase = "idle"
  /\ toEdge # <<>> /\ Head(toEdge).kind = kind
  /\ toEdge' = Tail(toEdge)
  /\ UNCHANGED <<server, connected, toServer, running, file, gesture, outbox,
                 counters, served>>

\* ConfigFull: apply_full, and the frame itself goes to the cache.
HandleFull ==
  /\ Receive("full")
  /\ held' = Head(toEdge).config
  /\ image' = Head(toEdge).config
  /\ phase' = "write"

Refresh == phase' = "refresh" /\ UNCHANGED image

\* Mutant: a deletion is forgotten.
HandleMappingUpsertOnly ==
  /\ Receive("mapping")
  /\ held' = IF Head(toEdge).value = Absent THEN held
             ELSE [held EXCEPT !.mappings[Head(toEdge).id] = Head(toEdge).value]
  /\ Refresh

\* Mutant: the change is not persisted.
HandleMappingVolatile ==
  /\ Receive("mapping")
  /\ held' = [held EXCEPT !.mappings[Head(toEdge).id] = Head(toEdge).value]
  /\ UNCHANGED <<phase, image>>

\* ConfigPatch
HandleMapping ==
  /\ Receive("mapping")
  /\ held' = [held EXCEPT !.mappings[Head(toEdge).id] = Head(toEdge).value]
  /\ Refresh

\* TargetSwitch: an id the engine does not hold is only logged.
HandleTarget ==
  LET frame == Head(toEdge)
  IN  /\ Receive("target")
      /\ IF held.mappings[frame.id] = Absent
         THEN UNCHANGED <<held, phase, image>>
         ELSE held' = [held EXCEPT !.mappings[frame.id] = frame.value] /\ Refresh

\* GlyphsUpdate: the registry only.
HandleGlyphs ==
  /\ Receive("glyphs")
  /\ held' = [held EXCEPT !.glyphs = Head(toEdge).glyphs]
  /\ UNCHANGED <<phase, image>>

\* DeviceCyclePatch
HandleCycle ==
  /\ Receive("cycle")
  /\ held' = [held EXCEPT !.cycle = Head(toEdge).cycle]
  /\ Refresh

\* Mutant: the edge takes the echo of its own switch for old news.
HandleSwitchOfOthers ==
  LET frame == Head(toEdge)
  IN  /\ Receive("switch")
      /\ held' = IF held.cycle = NoCycle \/ frame.own THEN held
                 ELSE [held EXCEPT !.cycle = frame.id]
      /\ Refresh

\* SwitchActiveConnection: set_cycle_active, which needs a cycle. Whose switch
\* it is makes no difference: an echo of an older one undoes a newer one, until
\* that one's own echo comes.
HandleSwitch ==
  LET frame == Head(toEdge)
  IN  /\ Receive("switch")
      /\ held' = IF held.cycle = NoCycle THEN held ELSE [held EXCEPT !.cycle = frame.id]
      /\ Refresh

\* refresh_cache: the engine's snapshots, and the glyphs of the last file.
\* The cycle gesture runs beside it, and may have moved the cycle since.
ReadSnapshots ==
  /\ running /\ phase = "refresh"
  /\ image' = [held EXCEPT !.glyphs = IF file \in Config THEN file.glyphs ELSE Absent]
  /\ phase' = "write"
  /\ UNCHANGED <<server, connected, toEdge, toServer, running, held, file,
                 gesture, outbox, counters, served>>

Saving(from, to, contents) ==
  /\ running /\ phase = from /\ phase' = to
  /\ file' = contents
  /\ UNCHANGED <<server, connected, toEdge, toServer, running, held, image,
                 gesture, outbox, counters, served>>

\* cache::save: tokio::fs::write truncates the file and then fills it.
Truncate == Saving("write", "writing", Torn)
Fill == Saving("writing", "idle", image)

-----------------------------------------------------------------------------
(* The input loop and the outbox. *)

\* The gesture decides on its clone of the cycle,
DecideSwitch ==
  /\ running /\ gesture = NoGesture /\ held.cycle # NoCycle
  /\ gestures < MaxGestures /\ gestures' = gestures + 1
  /\ gesture' = NextOf[held.cycle]
  /\ UNCHANGED <<server, connected, toEdge, toServer, running, held, phase, image,
                 file, outbox, edits, drops, crashes, served>>

\* moves the pointer of the cycle that is there, and queues the request.
ApplySwitch ==
  /\ gesture # NoGesture
  /\ held' = IF held.cycle = NoCycle THEN held ELSE [held EXCEPT !.cycle = gesture]
  /\ outbox' = Append(outbox, gesture)
  /\ gesture' = NoGesture
  /\ UNCHANGED <<server, connected, toEdge, toServer, running, phase, image,
                 file, counters, served>>

\* The ws task forwards the outbox between frames.
SendOutbox ==
  /\ connected /\ phase = "idle" /\ outbox # <<>>
  /\ toServer' = Append(toServer, Head(outbox))
  /\ outbox' = Tail(outbox)
  /\ UNCHANGED <<server, connected, toEdge, running, held, phase, image, file,
                 gesture, counters, served>>

-----------------------------------------------------------------------------
(* The process. *)

\* All but the file is lost, whatever was under way. held and phase keep what
\* the process had and where it was when it died, for the properties: nothing
\* reads them before Boot.
Crash ==
  /\ running /\ crashes < MaxCrashes
  /\ running' = FALSE /\ crashes' = crashes + 1
  /\ connected' = FALSE /\ toEdge' = <<>> /\ toServer' = <<>>
  /\ gesture' = NoGesture /\ outbox' = <<>>
  /\ image' = Empty
  /\ UNCHANGED <<server, held, phase, file, edits, gestures, drops, served>>

\* Mutant: whatever the file holds is taken.
RestoredUnchecked == IF file = NoFile THEN Empty ELSE file

\* prime_from_cache: mappings and glyphs; a file that does not parse is an
\* error that main only logs.
Restored == IF file \in Config THEN [file EXCEPT !.cycle = NoCycle] ELSE Empty

Boot ==
  /\ ~running /\ running' = TRUE
  /\ held' = Restored /\ phase' = "idle"
  /\ UNCHANGED <<server, connected, toEdge, toServer, image, file, gesture,
                 outbox, counters, served>>

Edit ==
  \/ \E id \in MappingIds, v \in Values \cup {Absent} : EditMapping(id, v)
  \/ \E id \in MappingIds, v \in Values : EditTarget(id, v)
  \/ \E g \in Glyphs : EditGlyphs(g)
  \/ \E k \in MappingIds \cup {NoCycle} : EditCycle(k)
  \/ \E id \in MappingIds : EditActive(id)

Handle ==
  \/ HandleFull \/ HandleMapping \/ HandleTarget \/ HandleGlyphs
  \/ HandleCycle \/ HandleSwitch

Save == ReadSnapshots \/ Truncate \/ Fill

Next ==
  \/ Edit \/ ServerReceive \/ Connect \/ Drop
  \/ Handle \/ Save
  \/ DecideSwitch \/ ApplySwitch \/ SendOutbox
  \/ Crash \/ Boot

Spec == Init /\ [][Next]_vars

\* Every task of the edge runs, run() retries for ever, a supervisor restarts
\* the process, the server reads its sockets. Edits, gestures, drops and
\* crashes need not happen.
FairSpec ==
  /\ Spec
  /\ WF_vars(Connect) /\ WF_vars(ServerReceive)
  /\ WF_vars(Handle) /\ WF_vars(Save)
  /\ WF_vars(ApplySwitch) /\ WF_vars(SendOutbox)
  /\ WF_vars(Boot)

-----------------------------------------------------------------------------
(* Properties. *)

Frame ==
  [kind : {"full"}, config : Config]
  \cup [kind : {"mapping"}, id : MappingIds, value : Values \cup {Absent}]
  \cup [kind : {"target"}, id : MappingIds, value : Values]
  \cup [kind : {"glyphs"}, glyphs : Glyphs]
  \cup [kind : {"cycle"}, cycle : MappingIds \cup {NoCycle}]
  \cup [kind : {"switch"}, id : MappingIds, own : BOOLEAN]

\* Every part of the state has the shape its type declares.
TypeOK ==
  /\ server \in Config /\ held \in Config /\ image \in Config
  /\ connected \in BOOLEAN /\ running \in BOOLEAN
  /\ toEdge \in Seq(Frame) /\ toServer \in Seq(MappingIds) /\ outbox \in Seq(MappingIds)
  /\ phase \in {"idle", "refresh", "write", "writing"}
  /\ file \in Config \cup {NoFile, Torn}
  /\ gesture \in MappingIds \cup {NoGesture}
  /\ edits \in 0..MaxEdits /\ gestures \in 0..MaxGestures
  /\ drops \in 0..MaxDrops /\ crashes \in 0..MaxCrashes
  /\ served \subseteq Table

\* The edge routes by a mapping table the server has had as a whole, never by
\* a mixture of two, whatever sessions, crashes and patches went before.
NeverMixed == held.mappings \in served

\* Between frames a restart without a server would restore the mappings the
\* engine holds: a patch is on disk before the next frame is looked at.
CacheFollows ==
  running /\ phase = "idle" /\ file # NoFile => Restored.mappings = held.mappings

\* When nothing is on its way the edge and the server agree on everything,
\* the cycle that both sides move included.
NothingInFlight ==
  /\ connected /\ phase = "idle" /\ gesture = NoGesture
  /\ toEdge = <<>> /\ toServer = <<>> /\ outbox = <<>>
QuiescentSync == NothingInFlight => held = server

\* Once edits, gestures and failures stop the edge comes to agree with the
\* server and stays so, and "frames queued during a disconnect drain the moment
\* the next session is up" (main.rs).
Converges == <>[](connected /\ held = server /\ outbox = <<>>)

=============================================================================
