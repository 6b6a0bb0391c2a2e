-------------------------- MODULE ConfigSyncProofs --------------------------
(***************************************************************************)
(* Proofs about ConfigSync, for any mappings, values and glyphs, any order *)
(* of the cycle, and any number of edits, gestures, lost sessions and      *)
(* crashes.                                                                *)
(***************************************************************************)
EXTENDS ConfigSync, SequenceTheorems, TLAPS

-----------------------------------------------------------------------------
(* Configurations and frames. *)

LEMMA Bounds ==
  /\ NextOf \in [MappingIds -> MappingIds] /\ NoCycle \notin MappingIds
  /\ MaxEdits \in Nat /\ MaxGestures \in Nat /\ MaxDrops \in Nat /\ MaxCrashes \in Nat
  BY OrderAssumption

LEMMA EmptyIsConfig == Empty \in Config
  BY DEF Empty, Config, Table

LEMMA StartIsConfig ==
  /\ \A c \in Start : c \in Config
  /\ NoFile \notin Config /\ Torn \notin Config
  BY StartAssumption

\* What a configuration is made of.
LEMMA ConfigIs ==
  ASSUME NEW c \in Config
  PROVE  /\ c.mappings \in Table /\ c.cycle \in MappingIds \cup {NoCycle}
         /\ c.glyphs \in Glyphs \cup {Absent}
  BY DEF Config

LEMMA ConfigsAgree ==
  ASSUME NEW c \in Config, NEW d \in Config,
         c.mappings = d.mappings, c.cycle = d.cycle, c.glyphs = d.glyphs
  PROVE  c = d
  BY DEF Config

\* What each kind of frame carries.
LEMMA FrameIs ==
  ASSUME NEW f \in Frame
  PROVE  /\ f.kind \in {"full", "mapping", "target", "glyphs", "cycle", "switch"}
         /\ f.kind = "full" => f.config \in Config
         /\ f.kind = "mapping" => f.id \in MappingIds /\ f.value \in Values \cup {Absent}
         /\ f.kind = "target" => f.id \in MappingIds /\ f.value \in Values
         /\ f.kind = "glyphs" => f.glyphs \in Glyphs
         /\ f.kind = "cycle" => f.cycle \in MappingIds \cup {NoCycle}
         /\ f.kind = "switch" => f.id \in MappingIds
  BY DEF Frame

\* Changing one part of a configuration leaves a configuration, and the others.
LEMMA SetMapping ==
  ASSUME NEW c \in Config, NEW id \in MappingIds, NEW v \in Values \cup {Absent}
  PROVE  LET d == [c EXCEPT !.mappings[id] = v]
         IN  /\ d \in Config /\ d.mappings = [c.mappings EXCEPT ![id] = v]
             /\ d.cycle = c.cycle /\ d.glyphs = c.glyphs
  BY DEF Config, Table

LEMMA SetCycle ==
  ASSUME NEW c \in Config, NEW k \in MappingIds \cup {NoCycle}
  PROVE  LET d == [c EXCEPT !.cycle = k]
         IN  /\ d \in Config /\ d.cycle = k
             /\ d.mappings = c.mappings /\ d.glyphs = c.glyphs
  BY DEF Config

LEMMA SetGlyphs ==
  ASSUME NEW c \in Config, NEW g \in Glyphs \cup {Absent}
  PROVE  LET d == [c EXCEPT !.glyphs = g]
         IN  /\ d \in Config /\ d.glyphs = g
             /\ d.mappings = c.mappings /\ d.cycle = c.cycle
  BY DEF Config

\* What a frame makes of the configuration an edge holds.
After(c, f) ==
  CASE f.kind = "full"    -> f.config
    [] f.kind = "mapping" -> [c EXCEPT !.mappings[f.id] = f.value]
    [] f.kind = "target"  -> IF c.mappings[f.id] = Absent THEN c
                             ELSE [c EXCEPT !.mappings[f.id] = f.value]
    [] f.kind = "glyphs"  -> [c EXCEPT !.glyphs = f.glyphs]
    [] f.kind = "cycle"   -> [c EXCEPT !.cycle = f.cycle]
    [] f.kind = "switch"  -> IF c.cycle = NoCycle THEN c ELSE [c EXCEPT !.cycle = f.id]

LEMMA AfterIs ==
  ASSUME NEW c \in Config, NEW f \in Frame
  PROVE  /\ f.kind = "full" => After(c, f) = f.config
         /\ f.kind = "mapping" => After(c, f) = [c EXCEPT !.mappings[f.id] = f.value]
         /\ f.kind = "target" =>
              After(c, f) = IF c.mappings[f.id] = Absent THEN c
                            ELSE [c EXCEPT !.mappings[f.id] = f.value]
         /\ f.kind = "glyphs" => After(c, f) = [c EXCEPT !.glyphs = f.glyphs]
         /\ f.kind = "cycle" => After(c, f) = [c EXCEPT !.cycle = f.cycle]
         /\ f.kind = "switch" =>
              After(c, f) = IF c.cycle = NoCycle THEN c ELSE [c EXCEPT !.cycle = f.id]
         /\ After(c, f) \in Config
<1>1. CASE f.kind = "full"
  BY <1>1, FrameIs DEF After
<1>2. CASE f.kind = "mapping"
  BY <1>2, FrameIs, SetMapping DEF After
<1>3. CASE f.kind = "target"
  BY <1>3, FrameIs, SetMapping DEF After
<1>4. CASE f.kind = "glyphs"
  BY <1>4, FrameIs, SetGlyphs DEF After
<1>5. CASE f.kind = "cycle"
  BY <1>5, FrameIs, SetCycle DEF After
<1>6. CASE f.kind = "switch"
  BY <1>6, FrameIs, SetCycle DEF After
<1>7. QED
  BY <1>1, <1>2, <1>3, <1>4, <1>5, <1>6, FrameIs

-----------------------------------------------------------------------------
(* Types. *)

LEMMA RestoredIs == Restored \in Config
  BY EmptyIsConfig, SetCycle DEF Restored

LEMMA TypeInit == Init => TypeOK
<1> SUFFICES ASSUME Init PROVE TypeOK
  OBVIOUS
<1>1. server \in Config /\ held \in Config /\ image \in Config
  BY EmptyIsConfig, StartIsConfig DEF Init
<1>2. Empty.mappings \in Table /\ server.mappings \in Table
  BY <1>1, EmptyIsConfig, ConfigIs
<1>3. served \subseteq Table
  BY <1>2 DEF Init
<1>4. /\ edits \in 0..MaxEdits /\ gestures \in 0..MaxGestures
      /\ drops \in 0..MaxDrops /\ crashes \in 0..MaxCrashes
  BY Bounds DEF Init
<1>5. /\ toEdge \in Seq(Frame) /\ toServer \in Seq(MappingIds) /\ outbox \in Seq(MappingIds)
      /\ phase \in {"idle", "refresh", "write", "writing"}
      /\ file \in Config \cup {NoFile, Torn} /\ gesture \in MappingIds \cup {NoGesture}
  BY DEF Init
<1>6. connected \in BOOLEAN /\ running \in BOOLEAN
  BY DEF Init
<1>7. QED
  BY <1>1, <1>3, <1>4, <1>5, <1>6 DEF TypeOK

\* A frame of the server that is announced is added to the wire, or lost.
LEMMA AnnounceIs ==
  ASSUME TypeOK, NEW f \in Frame, Announce(f)
  PROVE  toEdge' \in Seq(Frame)
  BY DEF TypeOK, Announce

\* The first frame on the wire, and the others.
LEMMA ReceiveIs ==
  ASSUME TypeOK, NEW kind, Receive(kind)
  PROVE  /\ toEdge # <<>> /\ Head(toEdge) \in Frame /\ Head(toEdge).kind = kind
         /\ toEdge' = Tail(toEdge) /\ toEdge' \in Seq(Frame)
  BY HeadTailProperties DEF TypeOK, Receive

\* The engine holds what the frame makes of what it held.
LEMMA HandleIs ==
  ASSUME TypeOK, Handle
  PROVE  /\ \E kind : Receive(kind)
         /\ held' = After(held, Head(toEdge)) /\ held' \in Config /\ image' \in Config
         /\ phase' \in {"idle", "refresh", "write"}
         /\ phase' = "write" => image' = held'
         /\ phase' = "idle" => held'.mappings = held.mappings
<1>1. held \in Config /\ image \in Config
  BY DEF TypeOK
<1> DEFINE f == Head(toEdge)
<1>2. ASSUME NEW kind, Receive(kind), held' = After(held, f), After(held, f) \in Config,
             phase' = "refresh", image' = image
      PROVE  /\ \E k : Receive(k)
             /\ held' = After(held, Head(toEdge)) /\ held' \in Config /\ image' \in Config
             /\ phase' \in {"idle", "refresh", "write"} /\ phase' # "write" /\ phase' # "idle"
  BY <1>1, <1>2
<1>3. CASE HandleFull
  <2>1. Receive("full") /\ held' = f.config /\ image' = f.config /\ phase' = "write"
    BY <1>3 DEF HandleFull
  <2>2. f \in Frame /\ f.kind = "full"
    BY <2>1, ReceiveIs
  <2>3. After(held, f) = f.config /\ After(held, f) \in Config
    BY <1>1, <2>2, AfterIs
  <2>4. held' = After(held, f) /\ image' = held'
    BY <2>1, <2>3
  <2>5. \E kind : Receive(kind)
    BY <2>1
  <2>6. phase' # "idle" /\ phase' \in {"idle", "refresh", "write"}
    BY <2>1
  <2>7. held' \in Config /\ image' \in Config
    BY <2>3, <2>4
  <2>8. QED
    BY <2>4, <2>5, <2>6, <2>7
<1>4. CASE HandleMapping
  <2>1. /\ Receive("mapping") /\ held' = [held EXCEPT !.mappings[f.id] = f.value]
        /\ phase' = "refresh" /\ image' = image
    BY <1>4 DEF HandleMapping, Refresh
  <2>2. f \in Frame /\ f.kind = "mapping"
    BY <2>1, ReceiveIs
  <2>3. held' = After(held, f) /\ After(held, f) \in Config
    BY <1>1, <2>1, <2>2, AfterIs
  <2>4. QED
    BY <1>1, <1>2, <2>1, <2>3
<1>5. CASE HandleTarget
  <2>1. Receive("target")
    BY <1>5 DEF HandleTarget
  <2>2. f \in Frame /\ f.kind = "target" /\ phase = "idle"
    BY <2>1, ReceiveIs DEF Receive
  <2>3. After(held, f) = IF held.mappings[f.id] = Absent THEN held
                         ELSE [held EXCEPT !.mappings[f.id] = f.value]
    BY <1>1, <2>2, AfterIs
  <2>4. After(held, f) \in Config
    BY <1>1, <2>2, AfterIs
  <2>5. CASE held.mappings[f.id] = Absent
    BY <1>1, <1>5, <2>1, <2>2, <2>3, <2>4, <2>5 DEF HandleTarget
  <2>6. CASE held.mappings[f.id] # Absent
    BY <1>1, <1>5, <2>1, <2>2, <2>3, <2>4, <2>6 DEF HandleTarget, Refresh
  <2>7. QED
    BY <2>5, <2>6
<1>6. CASE HandleGlyphs
  <2>1. /\ Receive("glyphs") /\ held' = [held EXCEPT !.glyphs = f.glyphs]
        /\ phase' = phase /\ image' = image
    BY <1>6 DEF HandleGlyphs
  <2>2. f \in Frame /\ f.kind = "glyphs" /\ phase = "idle" /\ f.glyphs \in Glyphs
    BY <2>1, ReceiveIs, FrameIs DEF Receive
  <2>3. held'.mappings = held.mappings
    BY <1>1, <2>1, <2>2, SetGlyphs
  <2>4. QED
    BY <1>1, <2>1, <2>2, <2>3, AfterIs
<1>7. CASE HandleCycle
  <2>1. /\ Receive("cycle") /\ held' = [held EXCEPT !.cycle = f.cycle]
        /\ phase' = "refresh" /\ image' = image
    BY <1>7 DEF HandleCycle, Refresh
  <2>2. f \in Frame /\ f.kind = "cycle"
    BY <2>1, ReceiveIs
  <2>3. held' = After(held, f) /\ After(held, f) \in Config
    BY <1>1, <2>1, <2>2, AfterIs
  <2>4. QED
    BY <1>1, <1>2, <2>1, <2>3
<1>8. CASE HandleSwitch
  <2>1. /\ Receive("switch")
        /\ held' = IF held.cycle = NoCycle THEN held ELSE [held EXCEPT !.cycle = f.id]
        /\ phase' = "refresh" /\ image' = image
    BY <1>8 DEF HandleSwitch, Refresh
  <2>2. f \in Frame /\ f.kind = "switch"
    BY <2>1, ReceiveIs
  <2>3. held' = After(held, f) /\ After(held, f) \in Config
    BY <1>1, <2>1, <2>2, AfterIs
  <2>4. QED
    BY <1>1, <1>2, <2>1, <2>3
<1>9. QED
  BY <1>3, <1>4, <1>5, <1>6, <1>7, <1>8 DEF Handle

\* A change at the server, the frame that announces it, and the configuration
\* that frame turns the old one into.
EditIs(f) ==
  /\ f \in Frame /\ Announce(f)
  /\ server' = After(server, f) /\ server' \in Config
  /\ served' = served \cup {server'.mappings}

LEMMA EditHasFrame ==
  ASSUME TypeOK, server.mappings \in served, Edit
  PROVE  Edited /\ \E f : EditIs(f)
<1>1. server \in Config
  BY DEF TypeOK
<1>2. ASSUME NEW id \in MappingIds, NEW v \in Values \cup {Absent}, EditMapping(id, v)
      PROVE  Edited /\ \E f : EditIs(f)
  <2> DEFINE f == [kind |-> "mapping", id |-> id, value |-> v]
  <2>1. f \in Frame /\ f.kind = "mapping" /\ f.id = id /\ f.value = v
    BY DEF Frame
  <2>2. After(server, f) = [server EXCEPT !.mappings[id] = v] /\ After(server, f) \in Config
    BY <1>1, <2>1, AfterIs
  <2>3. EditIs(f)
    BY <1>2, <2>1, <2>2 DEF EditMapping, EditIs
  <2>4. QED
    BY <1>2, <2>3 DEF EditMapping
<1>3. ASSUME NEW id \in MappingIds, NEW v \in Values, EditTarget(id, v)
      PROVE  Edited /\ \E f : EditIs(f)
  <2> DEFINE f == [kind |-> "target", id |-> id, value |-> v]
  <2>1. f \in Frame /\ f.kind = "target" /\ f.id = id /\ f.value = v
    BY DEF Frame
  <2>2. server.mappings[id] # Absent
    BY <1>3 DEF EditTarget
  <2>3. After(server, f) = [server EXCEPT !.mappings[id] = v] /\ After(server, f) \in Config
    BY <1>1, <2>1, <2>2, AfterIs
  <2>4. EditIs(f)
    BY <1>3, <2>1, <2>3 DEF EditTarget, EditIs
  <2>5. QED
    BY <1>3, <2>4 DEF EditTarget
<1>4. ASSUME NEW g \in Glyphs, EditGlyphs(g)
      PROVE  Edited /\ \E f : EditIs(f)
  <2> DEFINE f == [kind |-> "glyphs", glyphs |-> g]
  <2>1. f \in Frame /\ f.kind = "glyphs" /\ f.glyphs = g
    BY DEF Frame
  <2>2. After(server, f) = [server EXCEPT !.glyphs = g] /\ After(server, f) \in Config
    BY <1>1, <2>1, AfterIs
  <2>3. [server EXCEPT !.glyphs = g].mappings = server.mappings
    BY <1>1, SetGlyphs
  <2>4. EditIs(f)
    BY <1>4, <2>1, <2>2, <2>3 DEF EditGlyphs, EditIs
  <2>5. QED
    BY <1>4, <2>4 DEF EditGlyphs
<1>5. ASSUME NEW k \in MappingIds \cup {NoCycle}, EditCycle(k)
      PROVE  Edited /\ \E f : EditIs(f)
  <2> DEFINE f == [kind |-> "cycle", cycle |-> k]
  <2>1. f \in Frame /\ f.kind = "cycle" /\ f.cycle = k
    BY DEF Frame
  <2>2. After(server, f) = [server EXCEPT !.cycle = k] /\ After(server, f) \in Config
    BY <1>1, <2>1, AfterIs
  <2>3. [server EXCEPT !.cycle = k].mappings = server.mappings
    BY <1>1, SetCycle
  <2>4. EditIs(f)
    BY <1>5, <2>1, <2>2, <2>3 DEF EditCycle, EditIs
  <2>5. QED
    BY <1>5, <2>4 DEF EditCycle
<1>6. ASSUME NEW id \in MappingIds, EditActive(id)
      PROVE  Edited /\ \E f : EditIs(f)
  <2> DEFINE f == [kind |-> "switch", id |-> id, own |-> FALSE]
  <2>1. f \in Frame /\ f.kind = "switch" /\ f.id = id
    BY DEF Frame
  <2>2. server.cycle # NoCycle
    BY <1>6 DEF EditActive
  <2>3. After(server, f) = [server EXCEPT !.cycle = id] /\ After(server, f) \in Config
    BY <1>1, <2>1, <2>2, AfterIs
  <2>4. [server EXCEPT !.cycle = id].mappings = server.mappings
    BY <1>1, SetCycle
  <2>5. EditIs(f)
    BY <1>6, <2>1, <2>3, <2>4 DEF EditActive, EditIs
  <2>6. QED
    BY <1>6, <2>5 DEF EditActive
<1>7. QED
  BY <1>2, <1>3, <1>4, <1>5, <1>6 DEF Edit

\* The server's echo of a switch, if it has a cycle.
LEMMA EchoHasFrame ==
  ASSUME TypeOK, server.mappings \in served, ServerReceive, server.cycle # NoCycle
  PROVE  \E f : EditIs(f) /\ f.kind = "switch"
<1> DEFINE id == Head(toServer)
           f == [kind |-> "switch", id |-> id, own |-> TRUE]
<1>1. server \in Config /\ id \in MappingIds
  BY HeadTailProperties DEF TypeOK, ServerReceive
<1>2. f \in Frame /\ f.kind = "switch" /\ f.id = id
  BY <1>1 DEF Frame
<1>3. After(server, f) = [server EXCEPT !.cycle = id] /\ After(server, f) \in Config
  BY <1>1, <1>2, AfterIs
<1>4. server' = [server EXCEPT !.cycle = id] /\ Announce(f) /\ served' = served
  BY DEF ServerReceive
<1>5. server'.mappings = server.mappings
  BY <1>1, <1>4, SetCycle
<1>6. EditIs(f)
  BY <1>2, <1>3, <1>4, <1>5 DEF EditIs
<1>7. QED
  BY <1>2, <1>6

\* The server's table is one it has had.
ServerServed == server.mappings \in served

LEMMA TypeStep == TypeOK /\ ServerServed /\ [Next]_vars => TypeOK' /\ ServerServed'
<1> SUFFICES ASSUME TypeOK, ServerServed, [Next]_vars PROVE TypeOK' /\ ServerServed'
  OBVIOUS
<1>0. /\ server \in Config /\ held \in Config /\ image \in Config
      /\ toEdge \in Seq(Frame) /\ toServer \in Seq(MappingIds) /\ outbox \in Seq(MappingIds)
      /\ phase \in {"idle", "refresh", "write", "writing"}
      /\ file \in Config \cup {NoFile, Torn} /\ gesture \in MappingIds \cup {NoGesture}
      /\ edits \in 0..MaxEdits /\ gestures \in 0..MaxGestures
      /\ drops \in 0..MaxDrops /\ crashes \in 0..MaxCrashes
      /\ served \subseteq Table /\ server.mappings \in Table
  BY ConfigIs DEF TypeOK
<1>b. connected \in BOOLEAN /\ running \in BOOLEAN
  BY DEF TypeOK
<1>1. CASE UNCHANGED vars
  BY <1>1 DEF TypeOK, ServerServed, vars, edge, counters
<1>2. ASSUME NEW f, EditIs(f),
             UNCHANGED <<connected, toServer, edge, gestures, drops, crashes>>,
             edits' \in 0..MaxEdits
      PROVE  TypeOK' /\ ServerServed'
  <2>1. toEdge' \in Seq(Frame) /\ server' \in Config
    BY <1>2, AnnounceIs DEF EditIs
  <2>2. served' \subseteq Table /\ ServerServed'
    BY <1>0, <1>2, <2>1, ConfigIs DEF EditIs, ServerServed
  <2>3. QED
    BY <1>0, <1>b, <1>2, <2>1, <2>2 DEF TypeOK, edge
<1>3. CASE Edit
  <2>1. Edited /\ \E f : EditIs(f)
    BY <1>3, EditHasFrame DEF ServerServed
  <2>2. edits' \in 0..MaxEdits
    BY <1>0, <2>1, Bounds DEF Edited
  <2>3. QED
    BY <1>2, <2>1, <2>2 DEF Edited
<1>4. CASE ServerReceive
  <2>1. toServer' \in Seq(MappingIds)
    BY <1>0, <1>4, HeadTailProperties DEF ServerReceive
  <2>2. UNCHANGED <<connected, edge, edits, gestures, drops, crashes, served>>
    BY <1>4 DEF ServerReceive, counters
  <2>3. CASE server.cycle # NoCycle
    <3>1. PICK f : EditIs(f)
      BY <1>4, <2>3, EchoHasFrame DEF ServerServed
    <3>2. toEdge' \in Seq(Frame) /\ server' \in Config
      BY <3>1, AnnounceIs DEF EditIs
    <3>3. ServerServed'
      BY <3>1 DEF EditIs, ServerServed
    <3>4. QED
      BY <1>0, <1>b, <2>1, <2>2, <3>2, <3>3 DEF TypeOK, edge
  <2>4. CASE server.cycle = NoCycle
    <3>1. UNCHANGED <<server, toEdge>>
      BY <1>4, <2>4 DEF ServerReceive
    <3>2. QED
      BY <1>0, <1>b, <2>1, <2>2, <3>1 DEF TypeOK, edge, ServerServed
  <2>5. QED
    BY <2>3, <2>4
<1>5. CASE Connect
  <2> DEFINE f == [kind |-> "full", config |-> server]
  <2>1. f \in Frame
    BY <1>0 DEF Frame
  <2>2. toEdge' \in Seq(Frame)
    BY <1>5, <2>1 DEF Connect
  <2>3. connected' \in BOOLEAN
    BY <1>5 DEF Connect
  <2>4. QED
    BY <1>0, <1>b, <1>5, <2>2, <2>3 DEF Connect, TypeOK, ServerServed, edge, counters
<1>6. CASE Drop
  <2>1. toEdge' \in Seq(Frame) /\ toServer' \in Seq(MappingIds)
    BY <1>6 DEF Drop
  <2>2. drops' \in 0..MaxDrops
    BY <1>0, <1>6, Bounds DEF Drop
  <2>3. connected' \in BOOLEAN
    BY <1>6 DEF Drop
  <2>4. QED
    BY <1>0, <1>b, <1>6, <2>1, <2>2, <2>3 DEF Drop, TypeOK, ServerServed, edge
<1>7. CASE Handle
  <2>1. /\ held' \in Config /\ image' \in Config
        /\ phase' \in {"idle", "refresh", "write", "writing"}
    BY <1>7, HandleIs
  <2>2. PICK kind : Receive(kind)
    BY <1>7, HandleIs
  <2>3. toEdge' \in Seq(Frame)
    BY <2>2, ReceiveIs
  <2>4. QED
    BY <1>0, <1>b, <2>1, <2>2, <2>3 DEF Receive, TypeOK, ServerServed, counters
<1>8. CASE ReadSnapshots
  <2>1. image' \in Config
    BY <1>0, <1>8, SetGlyphs, ConfigIs DEF ReadSnapshots
  <2>2. QED
    BY <1>0, <1>b, <1>8, <2>1 DEF ReadSnapshots, TypeOK, ServerServed, counters
<1>9. CASE Truncate \/ Fill
  <2>1. file' \in Config \cup {NoFile, Torn} /\ phase' \in {"idle", "refresh", "write", "writing"}
    BY <1>0, <1>9 DEF Truncate, Fill, Saving
  <2>2. QED
    BY <1>0, <1>b, <1>9, <2>1 DEF Truncate, Fill, Saving, TypeOK, ServerServed, counters
<1>10. CASE DecideSwitch
  <2>1. held.cycle \in MappingIds
    BY <1>0, <1>10, ConfigIs DEF DecideSwitch
  <2>2. gesture' \in MappingIds \cup {NoGesture} /\ gestures' \in 0..MaxGestures
    BY <1>0, <1>10, <2>1, Bounds DEF DecideSwitch
  <2>3. QED
    BY <1>0, <1>b, <1>10, <2>2 DEF DecideSwitch, TypeOK, ServerServed
<1>11. CASE ApplySwitch
  <2>1. gesture \in MappingIds
    BY <1>0, <1>11 DEF ApplySwitch
  <2>2. outbox' \in Seq(MappingIds)
    BY <1>0, <1>11, <2>1, AppendProperties DEF ApplySwitch
  <2>3. held' \in Config
    BY <1>0, <1>11, <2>1, SetCycle DEF ApplySwitch
  <2>4. QED
    BY <1>0, <1>b, <1>11, <2>2, <2>3 DEF ApplySwitch, TypeOK, ServerServed, counters
<1>12. CASE SendOutbox
  <2>1. Head(outbox) \in MappingIds /\ outbox' \in Seq(MappingIds)
    BY <1>0, <1>12, HeadTailProperties DEF SendOutbox
  <2>2. toServer' \in Seq(MappingIds)
    BY <1>0, <1>12, <2>1, AppendProperties DEF SendOutbox
  <2>3. QED
    BY <1>0, <1>b, <1>12, <2>1, <2>2 DEF SendOutbox, TypeOK, ServerServed, counters
<1>13. CASE Crash
  <2>1. crashes' \in 0..MaxCrashes
    BY <1>0, <1>13, Bounds DEF Crash
  <2>2. /\ toEdge' \in Seq(Frame) /\ toServer' \in Seq(MappingIds) /\ outbox' \in Seq(MappingIds)
        /\ image' \in Config
    BY <1>13, EmptyIsConfig DEF Crash
  <2>3. connected' \in BOOLEAN /\ running' \in BOOLEAN
    BY <1>13 DEF Crash
  <2>4. QED
    BY <1>0, <1>13, <2>1, <2>2, <2>3 DEF Crash, TypeOK, ServerServed
<1>14. CASE Boot
  <2>1. held' \in Config /\ phase' \in {"idle", "refresh", "write", "writing"}
    BY <1>14, RestoredIs DEF Boot
  <2>2. running' \in BOOLEAN
    BY <1>14 DEF Boot
  <2>3. QED
    BY <1>0, <1>b, <1>14, <2>1, <2>2 DEF Boot, TypeOK, ServerServed, counters
<1>15. QED
  BY <1>1, <1>3, <1>4, <1>5, <1>6, <1>7, <1>8, <1>9, <1>10, <1>11, <1>12, <1>13, <1>14
  DEF Next, Save

LEMMA ServedInit == Init => ServerServed
  BY DEF Init, ServerServed

\* Every part of the edge's and the server's state has the shape its type
\* declares, and its counters stay within their bounds.
THEOREM SyncTyped == Spec => []TypeOK
  BY TypeInit, ServedInit, TypeStep, PTL DEF Spec

-----------------------------------------------------------------------------
(* The cache file. *)

\* What is about to be written has the mappings that are held, and an edge at
\* rest holds what the file would restore.
CacheInv ==
  running =>
    /\ phase \in {"write", "writing"} => image.mappings = held.mappings
    /\ phase = "idle" /\ file # NoFile => Restored.mappings = held.mappings

LEMMA CacheInit == Init => CacheInv
  BY DEF Init, CacheInv

LEMMA CacheStep == TypeOK /\ CacheInv /\ [Next]_vars => CacheInv'
<1> SUFFICES ASSUME TypeOK, CacheInv, [Next]_vars PROVE CacheInv'
  OBVIOUS
<1>0. held \in Config /\ image \in Config
  BY DEF TypeOK
<1>1. ASSUME UNCHANGED <<running, phase, image, file>>, held'.mappings = held.mappings
      PROVE  CacheInv'
  BY <1>1 DEF CacheInv, Restored
<1>2. CASE UNCHANGED vars \/ Edit \/ ServerReceive \/ Connect \/ Drop \/ DecideSwitch \/ SendOutbox
  BY <1>1, <1>2
  DEF vars, edge, Edit, EditMapping, EditTarget, EditGlyphs, EditCycle, EditActive, Edited,
      ServerReceive, Connect, Drop, DecideSwitch, SendOutbox
<1>3. CASE ApplySwitch
  <2>1. held'.mappings = held.mappings
    BY <1>0, <1>3, SetCycle DEF ApplySwitch, TypeOK
  <2>2. QED
    BY <1>1, <1>3, <2>1 DEF ApplySwitch
<1>4. CASE Handle
  <2>1. PICK kind : Receive(kind)
    BY <1>4, HandleIs
  <2>2. UNCHANGED <<running, file>> /\ phase = "idle"
    BY <2>1 DEF Receive
  <2>3. Restored' = Restored
    BY <2>2 DEF Restored
  <2>4. QED
    BY <1>4, <2>2, <2>3, HandleIs DEF CacheInv
<1>5. CASE ReadSnapshots
  <2>1. image'.mappings = held.mappings
    BY <1>0, <1>5, SetGlyphs, ConfigIs DEF ReadSnapshots
  <2>2. QED
    BY <1>5, <2>1 DEF ReadSnapshots, CacheInv
<1>6. CASE Truncate
  BY <1>6 DEF Truncate, Saving, CacheInv
<1>7. CASE Fill
  <2>1. file' \in Config /\ file' = image /\ phase = "writing" /\ UNCHANGED <<running, held>>
    BY <1>0, <1>7 DEF Fill, Saving
  <2>2. Restored'.mappings = image.mappings
    BY <2>1, SetCycle DEF Restored
  <2>3. QED
    BY <1>7, <2>1, <2>2 DEF Fill, Saving, CacheInv
<1>8. CASE Crash
  BY <1>8 DEF Crash, CacheInv
<1>9. CASE Boot
  BY <1>9 DEF Boot, CacheInv, Restored
<1>10. QED
  BY <1>2, <1>3, <1>4, <1>5, <1>6, <1>7, <1>8, <1>9 DEF Next, Save

\* Wherever a crash of the process or a torn write falls, the file an edge at
\* rest has written restores the mappings it holds.
THEOREM RestartRestores == Spec => []CacheFollows
<1>1. CacheInv => CacheFollows
  BY DEF CacheInv, CacheFollows
<1>2. QED
  BY TypeInit, ServedInit, TypeStep, CacheInit, CacheStep, <1>1, PTL DEF Spec

-----------------------------------------------------------------------------
(* What is on the wire. *)

\* p is what an edge that holds c will hold after each of the frames, and
\* every table among them is one of tables.
Path(p, c, frames, tables) ==
  /\ p \in [0..Len(frames) -> Config] /\ p[0] = c
  /\ \A i \in 1..Len(frames) : p[i] = After(p[i - 1], frames[i])
  /\ \A i \in 0..Len(frames) : p[i].mappings \in tables

\* Two configurations that differ in where the cycle is at most.
Near(c, d) ==
  /\ c.mappings = d.mappings /\ c.glyphs = d.glyphs
  /\ c.cycle = NoCycle <=> d.cycle = NoCycle

\* c is the end of such a path: the edge agrees with the server, or the
\* server has yet to hear of a switch.
Arrives(c) ==
  /\ c \in Config /\ Near(c, server)
  /\ outbox = <<>> /\ toServer = <<>> => c.cycle = server.cycle

Leads(c, frames) == \E p : Path(p, c, frames, served) /\ Arrives(p[Len(frames)])

\* The path p with the frame f added to its frames.
Onward(p, frames, f) ==
  [i \in 0..Len(frames) + 1 |-> IF i = Len(frames) + 1 THEN After(p[Len(frames)], f) ELSE p[i]]

\* A path goes on with the frame that is added,
LEMMA PathAppend ==
  ASSUME NEW p, NEW c, NEW frames \in Seq(Frame), NEW tables, NEW more, NEW f \in Frame,
         Path(p, c, frames, tables), tables \subseteq more,
         After(p[Len(frames)], f).mappings \in more
  PROVE  LET q == Onward(p, frames, f)
         IN  /\ Path(q, c, Append(frames, f), more)
             /\ q[Len(Append(frames, f))] = After(p[Len(frames)], f)
<1> DEFINE n == Len(frames)
           q == Onward(p, frames, f)
<1>1. /\ n \in Nat /\ Len(Append(frames, f)) = n + 1 /\ Append(frames, f)[n + 1] = f
      /\ \A i \in 1..n : Append(frames, f)[i] = frames[i]
  BY AppendProperties
<1>2. p \in [0..n -> Config] /\ p[0] = c
  BY DEF Path
<1>3. After(p[n], f) \in Config
  BY <1>1, <1>2, AfterIs
<1>4. q \in [0..n + 1 -> Config]
  BY <1>1, <1>2, <1>3 DEF Onward
<1>5. q[n + 1] = After(p[n], f) /\ \A i \in 0..n : q[i] = p[i]
  BY <1>1 DEF Onward
<1> HIDE DEF q
<1>6. ASSUME NEW i \in 1..n + 1
      PROVE  q[i] = After(q[i - 1], Append(frames, f)[i])
  <2>1. CASE i = n + 1
    BY <1>1, <1>5, <2>1
  <2>2. CASE i \in 1..n
    <3>1. p[i] = After(p[i - 1], frames[i])
      BY <2>2 DEF Path
    <3>2. q[i] = p[i] /\ q[i - 1] = p[i - 1]
      BY <1>1, <1>5, <2>2
    <3>3. QED
      BY <1>1, <2>2, <3>1, <3>2
  <2>3. QED
    BY <1>1, <2>1, <2>2
<1>7. \A i \in 0..n + 1 : q[i].mappings \in more
  <2>1. \A i \in 0..n : p[i].mappings \in more
    BY DEF Path
  <2>2. \A i \in 0..n + 1 : i = n + 1 \/ i \in 0..n
    BY <1>1
  <2>3. q[n + 1].mappings \in more
    BY <1>5
  <2>4. QED
    BY <1>5, <2>1, <2>2, <2>3
<1>8. q[0] = c
  BY <1>1, <1>2, <1>5
<1>9. Path(q, c, Append(frames, f), more)
  BY <1>1, <1>4, <1>6, <1>7, <1>8 DEF Path
<1>10. QED
  BY <1>1, <1>5, <1>9 DEF q

\* the first frame leads to the path of the others,
LEMMA PathTail ==
  ASSUME NEW p, NEW c, NEW frames \in Seq(Frame), NEW tables,
         Path(p, c, frames, tables), frames # <<>>
  PROVE  \E q : /\ Path(q, After(c, Head(frames)), Tail(frames), tables)
                /\ q[Len(Tail(frames))] = p[Len(frames)]
<1> DEFINE n == Len(frames)
           q == [i \in 0..n - 1 |-> p[i + 1]]
<1>1. /\ n \in Nat \ {0} /\ Len(Tail(frames)) = n - 1 /\ Head(frames) = frames[1]
      /\ \A i \in 1..n - 1 : Tail(frames)[i] = frames[i + 1]
  BY HeadTailProperties, EmptySeq
<1>2. p \in [0..n -> Config] /\ p[0] = c /\ \A i \in 1..n : p[i] = After(p[i - 1], frames[i])
  BY DEF Path
<1>3. q \in [0..n - 1 -> Config] /\ \A i \in 0..n - 1 : q[i] = p[i + 1]
  BY <1>1, <1>2
<1> HIDE DEF q
<1>4. q[0] = After(c, Head(frames))
  BY <1>1, <1>2, <1>3
<1>5. ASSUME NEW i \in 1..n - 1
      PROVE  q[i] = After(q[i - 1], Tail(frames)[i])
  BY <1>1, <1>2, <1>3
<1>6. \A i \in 0..n - 1 : q[i].mappings \in tables
  BY <1>1, <1>3 DEF Path
<1>7. Path(q, After(c, Head(frames)), Tail(frames), tables)
  BY <1>1, <1>3, <1>4, <1>5, <1>6 DEF Path
<1>8. QED
  BY <1>1, <1>3, <1>7

Says(f) == f.kind \in {"full", "cycle", "switch"}

\* A frame that says what the cycle is leaves nothing of the one before it,
LEMMA SaysForgets ==
  ASSUME NEW a \in Config, NEW f \in Frame, NEW id \in MappingIds, a.cycle # NoCycle, Says(f)
  PROVE  After([a EXCEPT !.cycle = id], f) = After(a, f)
<1> DEFINE b == [a EXCEPT !.cycle = id]
<1>1. b \in Config /\ b.cycle = id /\ b.mappings = a.mappings /\ b.glyphs = a.glyphs
  BY SetCycle
<1> SUFFICES After(b, f) = After(a, f)
  OBVIOUS
<1> HIDE DEF b
<1>2. CASE f.kind = "full"
  BY <1>2 DEF After
<1>3. ASSUME NEW k \in MappingIds \cup {NoCycle}
      PROVE  [b EXCEPT !.cycle = k] = [a EXCEPT !.cycle = k]
  <2>1. /\ [b EXCEPT !.cycle = k] \in Config /\ [b EXCEPT !.cycle = k].cycle = k
        /\ [b EXCEPT !.cycle = k].mappings = a.mappings /\ [b EXCEPT !.cycle = k].glyphs = a.glyphs
    BY <1>1, SetCycle
  <2>2. /\ [a EXCEPT !.cycle = k] \in Config /\ [a EXCEPT !.cycle = k].cycle = k
        /\ [a EXCEPT !.cycle = k].mappings = a.mappings /\ [a EXCEPT !.cycle = k].glyphs = a.glyphs
    BY SetCycle
  <2>3. QED
    BY <2>1, <2>2, ConfigsAgree
<1>4. CASE f.kind = "cycle"
  <2>1. f.cycle \in MappingIds \cup {NoCycle}
    BY <1>4, FrameIs
  <2>2. After(b, f) = [b EXCEPT !.cycle = f.cycle] /\ After(a, f) = [a EXCEPT !.cycle = f.cycle]
    BY <1>4 DEF After
  <2>3. QED
    BY <1>3, <2>1, <2>2
<1>5. CASE f.kind = "switch"
  <2>1. f.id \in MappingIds /\ b.cycle # NoCycle
    BY <1>1, <1>5, FrameIs, Bounds
  <2>2. After(b, f) = [b EXCEPT !.cycle = f.id] /\ After(a, f) = [a EXCEPT !.cycle = f.id]
    BY <1>5, <2>1 DEF After
  <2>3. QED
    BY <1>3, <2>1, <2>2
<1>6. QED
  BY <1>2, <1>4, <1>5 DEF Says

\* and any other leaves the cycle alone.
LEMMA OthersKeep ==
  ASSUME NEW a \in Config, NEW f \in Frame, NEW id \in MappingIds, ~Says(f)
  PROVE  /\ After(a, f).cycle = a.cycle
         /\ After([a EXCEPT !.cycle = id], f) = [After(a, f) EXCEPT !.cycle = id]
<1> DEFINE b == [a EXCEPT !.cycle = id]
<1>1. b \in Config /\ b.cycle = id /\ b.mappings = a.mappings /\ b.glyphs = a.glyphs
  BY SetCycle
<1> HIDE DEF b
<1>2. After(a, f) \in Config /\ After(b, f) \in Config
  BY <1>1, AfterIs
<1>3. /\ [After(a, f) EXCEPT !.cycle = id] \in Config
      /\ [After(a, f) EXCEPT !.cycle = id].cycle = id
      /\ [After(a, f) EXCEPT !.cycle = id].mappings = After(a, f).mappings
      /\ [After(a, f) EXCEPT !.cycle = id].glyphs = After(a, f).glyphs
  BY <1>2, SetCycle
<1>4. /\ After(a, f).cycle = a.cycle /\ After(b, f).cycle = b.cycle
      /\ After(b, f).mappings = After(a, f).mappings
      /\ After(b, f).glyphs = After(a, f).glyphs
  <2>1. ASSUME f.id \in MappingIds, f.value \in Values \cup {Absent},
               After(a, f) = [a EXCEPT !.mappings[f.id] = f.value],
               After(b, f) = [b EXCEPT !.mappings[f.id] = f.value]
        PROVE  /\ After(a, f).cycle = a.cycle /\ After(b, f).cycle = b.cycle
               /\ After(b, f).mappings = After(a, f).mappings
               /\ After(b, f).glyphs = After(a, f).glyphs
    <3>1. /\ After(a, f).mappings = [a.mappings EXCEPT ![f.id] = f.value]
          /\ After(a, f).cycle = a.cycle /\ After(a, f).glyphs = a.glyphs
      BY <2>1, SetMapping
    <3>2. /\ After(b, f).mappings = [b.mappings EXCEPT ![f.id] = f.value]
          /\ After(b, f).cycle = b.cycle /\ After(b, f).glyphs = b.glyphs
      BY <1>1, <2>1, SetMapping
    <3>3. QED
      BY <1>1, <3>1, <3>2
  <2>2. CASE f.kind = "mapping"
    <3>1. f.id \in MappingIds /\ f.value \in Values \cup {Absent}
      BY <2>2, FrameIs
    <3>2. /\ After(a, f) = [a EXCEPT !.mappings[f.id] = f.value]
          /\ After(b, f) = [b EXCEPT !.mappings[f.id] = f.value]
      BY <2>2 DEF After
    <3>3. QED
      BY <2>1, <3>1, <3>2
  <2>3. CASE f.kind = "target"
    <3>1. f.id \in MappingIds /\ f.value \in Values \cup {Absent}
      BY <2>3, FrameIs
    <3>2. /\ After(a, f) = IF a.mappings[f.id] = Absent THEN a
                           ELSE [a EXCEPT !.mappings[f.id] = f.value]
          /\ After(b, f) = IF b.mappings[f.id] = Absent THEN b
                           ELSE [b EXCEPT !.mappings[f.id] = f.value]
      BY <2>3 DEF After
    <3>3. CASE a.mappings[f.id] = Absent
      BY <1>1, <3>2, <3>3
    <3>4. CASE a.mappings[f.id] # Absent
      BY <1>1, <2>1, <3>1, <3>2, <3>4
    <3>5. QED
      BY <3>3, <3>4
  <2>4. CASE f.kind = "glyphs"
    <3>1. f.glyphs \in Glyphs \cup {Absent}
      BY <2>4, FrameIs
    <3>2. /\ After(a, f) = [a EXCEPT !.glyphs = f.glyphs]
          /\ After(b, f) = [b EXCEPT !.glyphs = f.glyphs]
      BY <2>4 DEF After
    <3>3. /\ After(a, f).glyphs = f.glyphs /\ After(a, f).cycle = a.cycle
          /\ After(a, f).mappings = a.mappings
      BY <3>1, <3>2, SetGlyphs
    <3>4. /\ After(b, f).glyphs = f.glyphs /\ After(b, f).cycle = b.cycle
          /\ After(b, f).mappings = b.mappings
      BY <1>1, <3>1, <3>2, SetGlyphs
    <3>5. QED
      BY <1>1, <3>3, <3>4
  <2>5. QED
    BY <2>2, <2>3, <2>4, FrameIs DEF Says
<1>5. After(b, f) = [After(a, f) EXCEPT !.cycle = id]
  <2>1. PICK x : x = After(b, f)
    OBVIOUS
  <2>2. PICK y : y = [After(a, f) EXCEPT !.cycle = id]
    OBVIOUS
  <2>3. x \in Config /\ y \in Config
    BY <1>2, <1>3, <2>1, <2>2
  <2>4. x.mappings = y.mappings /\ x.cycle = y.cycle /\ x.glyphs = y.glyphs
    <3>1. x.mappings = After(a, f).mappings /\ x.cycle = id /\ x.glyphs = After(a, f).glyphs
      BY Zenon, <1>1, <1>4, <2>1
    <3>2. y.mappings = After(a, f).mappings /\ y.cycle = id /\ y.glyphs = After(a, f).glyphs
      BY Zenon, <1>3, <2>2
    <3>3. QED
      BY <3>1, <3>2
  <2>5. x = y
    BY <2>3, <2>4, ConfigsAgree
  <2>6. QED
    BY Zenon, <2>1, <2>2, <2>5
<1>6. QED
  BY <1>4, <1>5 DEF b

\* A switch of the edge's own moves the path up to the first frame that says
\* what the cycle is.
LEMMA PathSwitch ==
  ASSUME NEW p, NEW c, NEW frames \in Seq(Frame), NEW tables, NEW id \in MappingIds,
         Path(p, c, frames, tables), c.cycle # NoCycle
  PROVE  \E q : /\ Path(q, [c EXCEPT !.cycle = id], frames, tables)
                /\ \A i \in 0..Len(frames) :
                     /\ q[i].mappings = p[i].mappings /\ q[i].glyphs = p[i].glyphs
                     /\ q[i].cycle = NoCycle <=> p[i].cycle = NoCycle
<1> DEFINE n == Len(frames)
           Moved(i) == p[i].cycle # NoCycle /\ \A j \in 1..i : ~Says(frames[j])
           q == [i \in 0..n |-> IF Moved(i) THEN [p[i] EXCEPT !.cycle = id] ELSE p[i]]
<1>1. n \in Nat /\ p \in [0..n -> Config] /\ p[0] = c
  BY DEF Path
<1>2. \A i \in 0..n : q[i] = IF Moved(i) THEN [p[i] EXCEPT !.cycle = id] ELSE p[i]
  OBVIOUS
<1>3. ASSUME NEW i \in 0..n
      PROVE  /\ q[i] \in Config
             /\ q[i].mappings = p[i].mappings /\ q[i].glyphs = p[i].glyphs
             /\ q[i].cycle = NoCycle <=> p[i].cycle = NoCycle
  <2>1. p[i] \in Config /\ q[i] = IF Moved(i) THEN [p[i] EXCEPT !.cycle = id] ELSE p[i]
    BY <1>1, <1>2
  <2>2. CASE Moved(i)
    <3>1. q[i] = [p[i] EXCEPT !.cycle = id] /\ p[i].cycle # NoCycle
      BY <2>1, <2>2
    <3>2. QED
      BY <2>1, <3>1, SetCycle, Bounds
  <2>3. CASE ~Moved(i)
    BY <2>1, <2>3
  <2>4. QED
    BY <2>2, <2>3
<1>4. q \in [0..n -> Config]
  BY <1>3
<1> HIDE DEF q
<1>5. ASSUME NEW i \in 1..n
      PROVE  q[i] = After(q[i - 1], frames[i])
  <2> DEFINE f == frames[i]
             a == p[i - 1]
  <2>1. f \in Frame /\ i - 1 \in 0..n /\ i \in 0..n /\ a \in Config
    BY <1>1
  <2>2. p[i] = After(a, f) /\ p[i] \in Config
    BY <1>1, <2>1 DEF Path
  <2>3. /\ q[i - 1] = IF Moved(i - 1) THEN [a EXCEPT !.cycle = id] ELSE a
        /\ q[i] = IF Moved(i) THEN [p[i] EXCEPT !.cycle = id] ELSE p[i]
    BY <1>2, <2>1
  <2>4. Moved(i - 1) => a.cycle # NoCycle
    OBVIOUS
  <2>5. CASE Says(f)
    <3>1. ~Moved(i)
      BY <1>1, <2>5
    <3>2. After(q[i - 1], f) = After(a, f)
      <4>1. CASE Moved(i - 1)
        <5>1. q[i - 1] = [a EXCEPT !.cycle = id]
          BY <2>3, <4>1
        <5>2. QED
          BY <2>1, <2>4, <2>5, <4>1, <5>1, SaysForgets
      <4>2. CASE ~Moved(i - 1)
        BY <2>3, <4>2
      <4>3. QED
        BY <4>1, <4>2
    <3>3. QED
      BY <2>2, <2>3, <3>1, <3>2
  <2>6. CASE ~Says(f)
    <3>1. /\ p[i].cycle = a.cycle
          /\ After([a EXCEPT !.cycle = id], f) = [p[i] EXCEPT !.cycle = id]
      BY <2>1, <2>2, <2>6, OthersKeep
    <3>2. (\A j \in 1..i : ~Says(frames[j])) <=> (\A j \in 1..i - 1 : ~Says(frames[j]))
      <4>1. \A j \in 1..i : j \in 1..i - 1 \/ j = i
        BY <1>1
      <4>2. 1..i - 1 \subseteq 1..i
        BY <1>1
      <4>3. QED
        BY <2>6, <4>1, <4>2
    <3>3. Moved(i) <=> Moved(i - 1)
      BY <3>1, <3>2
    <3> HIDE DEF Moved
    <3>4. CASE Moved(i)
      BY <2>3, <3>1, <3>3, <3>4
    <3>5. CASE ~Moved(i)
      BY <2>2, <2>3, <3>3, <3>5
    <3>6. QED
      BY <3>4, <3>5
  <2>7. QED
    BY <2>5, <2>6
<1>6. q[0] = [c EXCEPT !.cycle = id]
  BY <1>1, <1>2
<1>7. \A i \in 0..n : q[i].mappings \in tables
  BY <1>3 DEF Path
<1>8. Path(q, [c EXCEPT !.cycle = id], frames, tables)
  BY <1>4, <1>5, <1>6, <1>7 DEF Path
<1>9. QED
  BY <1>3, <1>8

-----------------------------------------------------------------------------
(* The edge and the server. *)

\* A frame keeps two configurations near each other, and a switch brings their
\* cycles together.
LEMMA AfterNear ==
  ASSUME NEW c \in Config, NEW d \in Config, NEW f \in Frame, Near(c, d)
  PROVE  /\ Near(After(c, f), After(d, f))
         /\ c.cycle = d.cycle => After(c, f).cycle = After(d, f).cycle
         /\ f.kind = "switch" /\ d.cycle # NoCycle => After(c, f).cycle = After(d, f).cycle
<1>1. /\ c.mappings = d.mappings /\ c.glyphs = d.glyphs
      /\ c.cycle = NoCycle <=> d.cycle = NoCycle
  BY DEF Near
<1>2. ASSUME f.id \in MappingIds, f.value \in Values \cup {Absent}, f.kind # "switch",
             After(c, f) = [c EXCEPT !.mappings[f.id] = f.value],
             After(d, f) = [d EXCEPT !.mappings[f.id] = f.value]
      PROVE  /\ Near(After(c, f), After(d, f)) /\ f.kind # "switch"
             /\ After(c, f).cycle = c.cycle /\ After(d, f).cycle = d.cycle
  <2>1. /\ After(c, f).mappings = [c.mappings EXCEPT ![f.id] = f.value]
        /\ After(c, f).cycle = c.cycle /\ After(c, f).glyphs = c.glyphs
    BY <1>2, SetMapping
  <2>2. /\ After(d, f).mappings = [d.mappings EXCEPT ![f.id] = f.value]
        /\ After(d, f).cycle = d.cycle /\ After(d, f).glyphs = d.glyphs
    BY <1>2, SetMapping
  <2>3. QED
    BY <1>1, <1>2, <2>1, <2>2 DEF Near
<1>3. CASE f.kind = "full"
  BY <1>3 DEF After, Near
<1>4. CASE f.kind = "mapping"
  <2>1. f.id \in MappingIds /\ f.value \in Values \cup {Absent}
    BY <1>4, FrameIs
  <2>2. /\ After(c, f) = [c EXCEPT !.mappings[f.id] = f.value]
        /\ After(d, f) = [d EXCEPT !.mappings[f.id] = f.value]
    BY <1>4 DEF After
  <2>3. QED
    BY <1>2, <1>4, <2>1, <2>2
<1>5. CASE f.kind = "target"
  <2>1. f.id \in MappingIds /\ f.value \in Values \cup {Absent}
    BY <1>5, FrameIs
  <2>2. /\ After(c, f) = IF c.mappings[f.id] = Absent THEN c
                         ELSE [c EXCEPT !.mappings[f.id] = f.value]
        /\ After(d, f) = IF d.mappings[f.id] = Absent THEN d
                         ELSE [d EXCEPT !.mappings[f.id] = f.value]
    BY <1>5 DEF After
  <2>3. CASE c.mappings[f.id] = Absent
    BY <1>1, <1>5, <2>2, <2>3 DEF Near
  <2>4. CASE c.mappings[f.id] # Absent
    BY <1>1, <1>2, <1>5, <2>1, <2>2, <2>4
  <2>5. QED
    BY <2>3, <2>4
<1>6. CASE f.kind = "glyphs"
  <2>1. f.glyphs \in Glyphs \cup {Absent}
    BY <1>6, FrameIs
  <2>2. /\ After(c, f) = [c EXCEPT !.glyphs = f.glyphs]
        /\ After(d, f) = [d EXCEPT !.glyphs = f.glyphs]
    BY <1>6 DEF After
  <2>3. /\ After(c, f).glyphs = f.glyphs /\ After(c, f).cycle = c.cycle
        /\ After(c, f).mappings = c.mappings
    BY <2>1, <2>2, SetGlyphs
  <2>4. /\ After(d, f).glyphs = f.glyphs /\ After(d, f).cycle = d.cycle
        /\ After(d, f).mappings = d.mappings
    BY <2>1, <2>2, SetGlyphs
  <2>5. QED
    BY <1>1, <1>6, <2>3, <2>4 DEF Near
<1>7. ASSUME NEW k \in MappingIds \cup {NoCycle},
             After(c, f) = [c EXCEPT !.cycle = k], After(d, f) = [d EXCEPT !.cycle = k]
      PROVE  Near(After(c, f), After(d, f)) /\ After(c, f).cycle = After(d, f).cycle
  <2>1. /\ After(c, f).cycle = k /\ After(c, f).mappings = c.mappings
        /\ After(c, f).glyphs = c.glyphs
    BY <1>7, SetCycle
  <2>2. /\ After(d, f).cycle = k /\ After(d, f).mappings = d.mappings
        /\ After(d, f).glyphs = d.glyphs
    BY <1>7, SetCycle
  <2>3. QED
    BY <1>1, <2>1, <2>2 DEF Near
<1>8. CASE f.kind = "cycle"
  <2>1. f.cycle \in MappingIds \cup {NoCycle}
    BY <1>8, FrameIs
  <2>2. After(c, f) = [c EXCEPT !.cycle = f.cycle] /\ After(d, f) = [d EXCEPT !.cycle = f.cycle]
    BY <1>8 DEF After
  <2>3. QED
    BY <1>7, <2>1, <2>2
<1>9. CASE f.kind = "switch"
  <2>1. f.id \in MappingIds \cup {NoCycle}
    BY <1>9, FrameIs
  <2>2. CASE d.cycle = NoCycle
    <3>1. After(c, f) = c /\ After(d, f) = d
      BY <1>1, <1>9, <2>2 DEF After
    <3>2. QED
      BY <1>1, <2>2, <3>1 DEF Near
  <2>3. CASE d.cycle # NoCycle
    <3>1. After(c, f) = [c EXCEPT !.cycle = f.id] /\ After(d, f) = [d EXCEPT !.cycle = f.id]
      BY <1>1, <1>9, <2>3 DEF After
    <3>2. QED
      BY <1>7, <2>1, <3>1
  <2>4. QED
    BY <2>2, <2>3
<1>10. QED
  BY <1>3, <1>4, <1>5, <1>6, <1>8, <1>9, FrameIs

\* Whatever an edge can come to hold or to restore is a table of the server's;
\* the frames on the wire lead from what it holds to what the server has.
TablesServed ==
  /\ ServerServed /\ Empty.mappings \in served
  /\ held.mappings \in served /\ image.mappings \in served
  /\ file \in Config => file.mappings \in served

WireLeads ==
  /\ ~running => ~connected
  /\ ~connected => toEdge = <<>>
  /\ connected => Leads(held, toEdge)

SyncInv == TypeOK /\ TablesServed /\ WireLeads

LEMMA SyncInit == Init => SyncInv
<1> SUFFICES ASSUME Init PROVE SyncInv
  OBVIOUS
<1>1. TablesServed
  <2>1. held = Empty /\ image = Empty /\ served = {Empty.mappings, server.mappings}
    BY DEF Init
  <2>2. file \in Config => file.mappings \in served
    BY StartIsConfig DEF Init
  <2>3. QED
    BY <2>1, <2>2 DEF TablesServed, ServerServed
<1>2. WireLeads
  BY DEF Init, WireLeads
<1>3. QED
  BY <1>1, <1>2, TypeInit DEF SyncInv

\* The tables stay those of the server,
LEMMA TablesStep == SyncInv /\ [Next]_vars => TablesServed'
<1> SUFFICES ASSUME SyncInv, [Next]_vars PROVE TablesServed'
  OBVIOUS
<1>0. /\ TypeOK /\ ServerServed /\ ServerServed'
      /\ held \in Config /\ image \in Config /\ Empty.mappings \in served
      /\ held.mappings \in served /\ image.mappings \in served
      /\ file \in Config => file.mappings \in served
  BY TypeStep DEF SyncInv, TablesServed, TypeOK
<1>1. ASSUME served \subseteq served', held'.mappings = held.mappings,
             image'.mappings \in {Empty.mappings, held.mappings, image.mappings}, file' = file
      PROVE  TablesServed'
  BY <1>0, <1>1 DEF TablesServed
<1>2. CASE \/ UNCHANGED vars \/ ServerReceive \/ Connect \/ Drop
           \/ DecideSwitch \/ SendOutbox \/ Crash
  BY <1>1, <1>2 DEF vars, edge, ServerReceive, Connect, Drop, DecideSwitch, SendOutbox, Crash
<1>3. CASE Edit
  <2>1. PICK f : EditIs(f)
    BY <1>0, <1>3, EditHasFrame DEF ServerServed
  <2>2. UNCHANGED <<held, image, file>>
    BY <1>0, <1>3, EditHasFrame DEF ServerServed, Edited, edge
  <2>3. served \subseteq served'
    BY <2>1 DEF EditIs
  <2>4. QED
    BY <1>1, <2>2, <2>3
<1>4. CASE ApplySwitch
  <2>1. held'.mappings = held.mappings
    BY <1>0, <1>4, SetCycle DEF ApplySwitch, TypeOK
  <2>2. QED
    BY <1>1, <1>4, <2>1 DEF ApplySwitch
<1>5. CASE Handle
  <2>1. PICK kind : Receive(kind)
    BY <1>0, <1>5, HandleIs
  <2>2. toEdge # <<>> /\ toEdge \in Seq(Frame) /\ UNCHANGED <<file, served>>
    BY <1>0, <2>1, ReceiveIs DEF Receive, TypeOK
  <2>3. PICK p : Path(p, held, toEdge, served)
    BY <2>2 DEF SyncInv, WireLeads, Leads
  <2>4. PICK q : Path(q, After(held, Head(toEdge)), Tail(toEdge), served)
    BY <2>2, <2>3, PathTail
  <2>5. q[0] = held' /\ q[0].mappings \in served
    <3>1. Tail(toEdge) \in Seq(Frame) /\ 0 \in 0..Len(Tail(toEdge))
      BY <2>2, HeadTailProperties
    <3>2. QED
      BY <1>0, <1>5, <2>4, <3>1, HandleIs DEF Path
  <2>6. image' = image \/ image' = held'
    BY <1>5 DEF Handle, HandleFull, HandleMapping, HandleTarget, HandleGlyphs, HandleCycle,
                HandleSwitch, Refresh
  <2>7. QED
    BY <1>0, <2>2, <2>5, <2>6 DEF TablesServed
<1>6. CASE ReadSnapshots
  <2>1. image'.mappings = held.mappings
    BY <1>0, <1>6, SetGlyphs, ConfigIs DEF ReadSnapshots
  <2>2. QED
    BY <1>1, <1>6, <2>1 DEF ReadSnapshots
<1>7. CASE Truncate \/ Fill
  <2>1. file' = Torn \/ file' = image
    BY <1>7 DEF Truncate, Fill, Saving
  <2>2. UNCHANGED <<held, image, served>>
    BY <1>7 DEF Truncate, Fill, Saving
  <2>3. QED
    BY <1>0, <2>1, <2>2, StartIsConfig DEF TablesServed
<1>8. CASE Boot
  <2>1. UNCHANGED <<image, file, served>> /\ held' = Restored
    BY <1>8 DEF Boot
  <2>2. Restored.mappings \in served
    BY <1>0, SetCycle DEF Restored
  <2>3. QED
    BY <1>0, <2>1, <2>2 DEF TablesServed
<1>9. QED
  BY <1>2, <1>3, <1>4, <1>5, <1>6, <1>7, <1>8 DEF Next, Save

\* and the frames keep leading to the server's configuration: one it announces,
LEMMA AnnounceLeads ==
  ASSUME TypeOK, NEW f, EditIs(f), connected, Leads(held, toEdge), held' = held,
         \/ UNCHANGED <<outbox, toServer>>
         \/ f.kind = "switch" /\ server.cycle # NoCycle
  PROVE  Leads(held, toEdge)'
<1>1. PICK p : Path(p, held, toEdge, served) /\ Arrives(p[Len(toEdge)])
  BY DEF Leads
<1>c. PICK c : c = p[Len(toEdge)]
  OBVIOUS
<1>2. /\ toEdge \in Seq(Frame) /\ toEdge' = Append(toEdge, f) /\ f \in Frame
      /\ server \in Config /\ server' = After(server, f) /\ server' \in Config
      /\ served' = served \cup {server'.mappings}
  BY DEF TypeOK, EditIs, Announce
<1>3. /\ c \in Config /\ Near(c, server)
      /\ outbox = <<>> /\ toServer = <<>> => c.cycle = server.cycle
  BY <1>1, <1>c DEF Arrives
<1>4. After(c, f) \in Config /\ Near(After(c, f), server')
  BY <1>2, <1>3, AfterNear, AfterIs
<1>5. (outbox = <<>> /\ toServer = <<>>)' => After(c, f).cycle = server'.cycle
  BY <1>2, <1>3, AfterNear
<1>6. Arrives(After(c, f))'
  BY <1>4, <1>5 DEF Arrives
<1>7. After(c, f).mappings \in served'
  BY <1>2, <1>4 DEF Near
<1>8. \E q : /\ Path(q, held, Append(toEdge, f), served')
             /\ q[Len(Append(toEdge, f))] = After(c, f)
  <2>1. Path(p, held, toEdge, served) /\ served \subseteq served'
    BY <1>1, <1>2
  <2>2. PICK frames : frames = toEdge
    OBVIOUS
  <2>3. PICK more : more = served'
    OBVIOUS
  <2>4. PICK start : start = held
    OBVIOUS
  <2>5. PICK tables : tables = served
    OBVIOUS
  <2>6. /\ Path(p, start, frames, tables) /\ tables \subseteq more
        /\ f \in Frame /\ frames \in Seq(Frame)
        /\ After(p[Len(frames)], f).mappings \in more
    BY Zenon, <1>2, <1>7, <1>c, <2>1, <2>2, <2>3, <2>4, <2>5
  <2>7. PICK q : q = Onward(p, frames, f)
    OBVIOUS
  <2>8. /\ Path(q, start, Append(frames, f), more)
        /\ q[Len(Append(frames, f))] = After(p[Len(frames)], f)
    <3>1. ASSUME frames \in Seq(Frame), f \in Frame, Path(p, start, frames, tables),
                 tables \subseteq more, After(p[Len(frames)], f).mappings \in more
          PROVE /\ Path(Onward(p, frames, f), start, Append(frames, f), more)
                /\ Onward(p, frames, f)[Len(Append(frames, f))] = After(p[Len(frames)], f)
      BY <3>1, PathAppend
    <3>2. frames \in Seq(Frame)
      BY <2>6
    <3>3. f \in Frame
      BY <2>6
    <3>4. Path(p, start, frames, tables)
      BY <2>6
    <3>5. tables \subseteq more
      BY <2>6
    <3>6. After(p[Len(frames)], f).mappings \in more
      BY <2>6
    <3>7. QED
      BY <2>7, <3>1, <3>2, <3>3, <3>4, <3>5, <3>6
  <2>9. QED
    BY Zenon, <1>c, <2>2, <2>3, <2>4, <2>8
<1>9. QED
  BY <1>2, <1>6, <1>8 DEF Leads

\* one it handles, and a switch of its own.
LEMMA WireStep == SyncInv /\ [Next]_vars => WireLeads'
<1> SUFFICES ASSUME SyncInv, [Next]_vars PROVE WireLeads'
  OBVIOUS
<1>0. /\ TypeOK /\ ServerServed /\ WireLeads
      /\ server \in Config /\ held \in Config /\ toEdge \in Seq(Frame)
      /\ toServer \in Seq(MappingIds) /\ outbox \in Seq(MappingIds)
  BY DEF SyncInv, TablesServed, TypeOK
<1>1. ASSUME UNCHANGED <<running, connected, toEdge, server, held, outbox, toServer, served>>
      PROVE  WireLeads'
  BY <1>0, <1>1 DEF WireLeads, Leads, Arrives
<1>2. CASE UNCHANGED vars \/ Save \/ DecideSwitch
  BY <1>1, <1>2 DEF vars, edge, Save, ReadSnapshots, Truncate, Fill, Saving, DecideSwitch
<1>3. ASSUME NEW f, EditIs(f), UNCHANGED <<running, connected, held>>,
             \/ UNCHANGED <<outbox, toServer>>
             \/ f.kind = "switch" /\ server.cycle # NoCycle
      PROVE  WireLeads'
  <2>1. CASE connected
    <3>1. Leads(held, toEdge)
      BY <1>0, <2>1 DEF WireLeads
    <3>2. Leads(held, toEdge)'
      BY <1>0, <1>3, <2>1, <3>1, AnnounceLeads
    <3>3. QED
      BY <1>0, <1>3, <2>1, <3>2 DEF WireLeads
  <2>2. CASE ~connected
    BY <1>0, <1>3, <2>2 DEF WireLeads, EditIs, Announce
  <2>3. QED
    BY <2>1, <2>2
<1>4. CASE Edit
  <2>1. PICK f : EditIs(f)
    BY <1>0, <1>4, EditHasFrame DEF ServerServed
  <2>2. UNCHANGED <<running, connected, held, outbox, toServer>>
    BY <1>0, <1>4, EditHasFrame DEF ServerServed, Edited, edge
  <2>3. QED
    BY <1>3, <2>1, <2>2
<1>5. CASE ServerReceive
  <2>1. UNCHANGED <<running, connected, held, outbox, served>> /\ toServer # <<>>
    BY <1>5 DEF ServerReceive, edge
  <2>2. CASE server.cycle # NoCycle
    <3>1. PICK f : EditIs(f) /\ f.kind = "switch"
      BY <1>0, <1>5, <2>2, EchoHasFrame DEF ServerServed
    <3>2. QED
      BY <1>3, <2>1, <2>2, <3>1
  <2>3. CASE server.cycle = NoCycle
    <3>1. UNCHANGED <<server, toEdge>>
      BY <1>5, <2>3 DEF ServerReceive
    <3>2. \A c : Arrives(c) => Arrives(c)'
      BY <2>1, <2>3, <3>1 DEF Arrives, Near
    <3>3. QED
      BY <1>0, <2>1, <3>1, <3>2 DEF WireLeads, Leads
  <2>4. QED
    BY <2>2, <2>3
<1>6. CASE Connect
  <2> DEFINE f == [kind |-> "full", config |-> server]
             p == [i \in 0..1 |-> IF i = 0 THEN held ELSE server]
  <2>1. /\ connected' /\ running' /\ toEdge' = <<f>>
        /\ UNCHANGED <<server, held, outbox, toServer, served>>
    BY <1>6 DEF Connect, edge
  <2>2. After(held, f) = server
    BY DEF After
  <2>3. Len(<<f>>) = 1 /\ <<f>>[1] = f /\ 0..1 = {0, 1} /\ 1..1 = {1} /\ 1 - 1 = 0
    OBVIOUS
  <2>4. p \in [0..1 -> Config] /\ p[0] = held /\ p[1] = server
    BY <1>0
  <2>5. held.mappings \in served /\ server.mappings \in served
    BY DEF SyncInv, TablesServed, ServerServed
  <2> HIDE DEF f, p
  <2>6. Path(p, held, <<f>>, served)
    BY <2>2, <2>3, <2>4, <2>5 DEF Path
  <2>7. Arrives(server)'
    BY <1>0, <2>1 DEF Arrives, Near
  <2>8. Leads(held, toEdge)'
    BY <2>1, <2>3, <2>4, <2>6, <2>7 DEF Leads
  <2>9. QED
    BY <2>1, <2>8 DEF WireLeads
<1>7. CASE Drop \/ Crash
  <2>1. ~connected' /\ toEdge' = <<>>
    BY <1>7 DEF Drop, Crash
  <2>2. QED
    BY <2>1 DEF WireLeads
<1>8. CASE Handle
  <2>1. PICK kind : Receive(kind)
    BY <1>0, <1>8, HandleIs
  <2>2. /\ toEdge # <<>> /\ toEdge' = Tail(toEdge) /\ held' = After(held, Head(toEdge))
        /\ UNCHANGED <<running, connected, server, outbox, toServer, served>>
    BY <1>0, <1>8, <2>1, HandleIs, ReceiveIs DEF Receive
  <2>3. connected /\ running
    BY <1>0, <2>2 DEF WireLeads
  <2>4. PICK p : Path(p, held, toEdge, served) /\ Arrives(p[Len(toEdge)])
    BY <1>0, <2>3 DEF WireLeads, Leads
  <2>5. \E q : /\ Path(q, After(held, Head(toEdge)), Tail(toEdge), served)
               /\ q[Len(Tail(toEdge))] = p[Len(toEdge)]
    BY <1>0, <2>2, <2>4, PathTail
  <2>6. Arrives(p[Len(toEdge)]) => \A c : c = p[Len(toEdge)] => Arrives(c)'
    BY <2>2 DEF Arrives
  <2>7. Leads(held, toEdge)'
    BY <2>2, <2>4, <2>5, <2>6 DEF Leads
  <2>8. QED
    BY <2>2, <2>3, <2>7 DEF WireLeads
<1>9. CASE ApplySwitch
  <2>1. /\ gesture \in MappingIds /\ outbox' = Append(outbox, gesture)
        /\ held' = IF held.cycle = NoCycle THEN held ELSE [held EXCEPT !.cycle = gesture]
        /\ UNCHANGED <<running, connected, server, toEdge, toServer, served>>
    BY <1>0, <1>9 DEF ApplySwitch, TypeOK
  <2>2. outbox' # <<>>
    BY <1>0, <2>1, AppendProperties
  <2>3. ASSUME connected PROVE Leads(held, toEdge)'
    <3>1. PICK p : Path(p, held, toEdge, served) /\ Arrives(p[Len(toEdge)])
      BY <1>0, <2>3 DEF WireLeads, Leads
    <3>2. Len(toEdge) \in 0..Len(toEdge)
      BY <1>0
    <3>3. CASE held.cycle = NoCycle
      <4>1. Arrives(p[Len(toEdge)])'
        BY <2>1, <2>2, <3>1 DEF Arrives
      <4>2. QED
        BY <2>1, <3>1, <3>3, <4>1 DEF Leads
    <3>4. CASE held.cycle # NoCycle
      <4>1. PICK q : /\ Path(q, [held EXCEPT !.cycle = gesture], toEdge, served)
                     /\ \A i \in 0..Len(toEdge) :
                          /\ q[i].mappings = p[i].mappings /\ q[i].glyphs = p[i].glyphs
                          /\ q[i].cycle = NoCycle <=> p[i].cycle = NoCycle
        BY <1>0, <2>1, <3>1, <3>4, PathSwitch
      <4>2. q[Len(toEdge)] \in Config
        BY <3>2, <4>1 DEF Path
      <4>3. Near(q[Len(toEdge)], server)
        BY <3>1, <3>2, <4>1 DEF Arrives, Near
      <4>4. Arrives(q[Len(toEdge)])'
        BY <2>1, <2>2, <4>2, <4>3 DEF Arrives
      <4>5. QED
        BY <2>1, <3>4, <4>1, <4>4 DEF Leads
    <3>5. QED
      BY <3>3, <3>4
  <2>4. QED
    BY <1>0, <2>1, <2>3 DEF WireLeads
<1>10. CASE SendOutbox
  <2>1. /\ toServer' = Append(toServer, Head(outbox)) /\ Head(outbox) \in MappingIds
        /\ UNCHANGED <<running, connected, server, toEdge, held, served>>
    BY <1>0, <1>10, HeadTailProperties DEF SendOutbox
  <2>2. toServer' # <<>>
    BY <1>0, <2>1, AppendProperties
  <2>3. \A c : Arrives(c) => Arrives(c)'
    BY <2>1, <2>2 DEF Arrives
  <2>4. QED
    BY <1>0, <2>1, <2>3 DEF WireLeads, Leads
<1>11. CASE Boot
  <2>1. ~connected /\ UNCHANGED <<connected, toEdge>>
    BY <1>0, <1>11 DEF Boot, WireLeads
  <2>2. QED
    BY <1>0, <2>1 DEF WireLeads
<1>12. QED
  BY <1>2, <1>4, <1>5, <1>6, <1>7, <1>8, <1>9, <1>10, <1>11 DEF Next

LEMMA SyncStep == SyncInv /\ [Next]_vars => SyncInv'
  BY TypeStep, TablesStep, WireStep DEF SyncInv, TablesServed

\* Patches, sessions, crashes and a file that was half written never leave the
\* edge with a mapping table the server has not had.
THEOREM TablesAreWhole == Spec => []NeverMixed
<1>1. SyncInv => NeverMixed
  BY DEF SyncInv, TablesServed, NeverMixed
<1>2. QED
  BY SyncInit, SyncStep, <1>1, PTL DEF Spec

\* When every frame and every switch has been handled the edge holds what the
\* server has, the cycle that both of them move included.
THEOREM QuietMeansEqual == Spec => []QuiescentSync
<1>1. SyncInv => QuiescentSync
  <2> SUFFICES ASSUME SyncInv, NothingInFlight PROVE held = server
    BY DEF QuiescentSync
  <2>1. /\ connected /\ toEdge = <<>> /\ outbox = <<>> /\ toServer = <<>>
        /\ held \in Config /\ server \in Config
    BY DEF SyncInv, TypeOK, NothingInFlight
  <2>2. PICK p : Path(p, held, toEdge, served) /\ Arrives(p[Len(toEdge)])
    BY <2>1 DEF SyncInv, WireLeads, Leads
  <2>3. Len(toEdge) = 0
    BY <2>1
  <2>4. p[Len(toEdge)] = held
    BY <2>2, <2>3 DEF Path
  <2>5. Arrives(held)
    BY <2>2, <2>4
  <2>6. QED
    BY <2>1, <2>5, ConfigsAgree DEF Arrives, Near
<1>2. QED
  BY SyncInit, SyncStep, <1>1, PTL DEF Spec

=============================================================================
