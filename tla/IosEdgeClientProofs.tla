------------------------- MODULE IosEdgeClientProofs -------------------------
(***************************************************************************)
(* Proofs about IosEdgeClient, for any tasks, capacity of the outbox,      *)
(* number of clients and of events.                                        *)
(***************************************************************************)
EXTENDS IosEdgeClient, SequenceTheorems, TLAPS

-----------------------------------------------------------------------------
(* The shape of the state. *)

TableNames == {"mappings", "cycles", "glyphs"}
Tables == [TableNames -> Nat]
Frame == UNION {[D -> Nat] : D \in SUBSET TableNames}
Names == Cached \cup {"relay"}
\* A value is published by an event, so none is the version 0 of an empty cache.
Value == Nat \ {0}
Command == [name : Names, value : Value]
Call ==
  [props : Seq(Names) \ {<<>>}, at : {"pick", "put"}, to : Clients \cup {NoClient}, value : Value]
Phases ==
  {"none", "connect", "hello", "replay", "steady", "mappings", "glyphs", "backoff", "ended"}

LEMMA Bounds ==
  /\ OutboxCap \in Nat \ {0} /\ MaxClients \in Nat /\ MaxEvents \in Nat
  /\ Edited \subseteq TableNames
  BY IosAssumption DEF TableNames

Shape ==
  /\ made \in 0..MaxClients /\ client \in 0..made /\ events \in Nat
  /\ phase \in [Clients -> Phases]
  /\ outbox \in [Clients -> Seq(Command)]
  /\ \A g \in Clients : Len(outbox[g]) <= OutboxCap
  /\ todo \in [Clients -> SUBSET Cached]
  /\ down \in [Clients -> Seq(Frame)]
  /\ held \in [Clients -> Tables] /\ config \in Tables /\ files \in [Files -> Nat]
  /\ task \in [Tasks -> {NoTask} \cup Call]

LEMMA NothingIsTables == NoTables \in Tables /\ Nothing \in [Cached -> Nat]
  BY DEF NoTables, Tables, TableNames, Nothing

LEMMA ShapeInit == Init => Shape
<1> SUFFICES ASSUME Init PROVE Shape
  OBVIOUS
<1>1. \A g \in Clients : outbox[g] = <<>>
  BY DEF Init
<1>2. \A g \in Clients : Len(outbox[g]) <= OutboxCap
  <2>1. Len(<<>>) = 0 /\ 0 <= OutboxCap
    BY Bounds
  <2>2. QED
    BY <1>1, <2>1
<1>3. config \in Tables /\ held \in [Clients -> Tables] /\ files \in [Files -> Nat]
  BY NothingIsTables DEF Init, Tables, TableNames
<1>4. made \in 0..MaxClients /\ client \in 0..made /\ events \in Nat
  BY Bounds DEF Init, NoClient
<1>5. /\ phase \in [Clients -> Phases] /\ outbox \in [Clients -> Seq(Command)]
      /\ todo \in [Clients -> SUBSET Cached] /\ down \in [Clients -> Seq(Frame)]
      /\ task \in [Tasks -> {NoTask} \cup Call]
  BY DEF Init, Phases
<1>6. QED
  BY <1>2, <1>3, <1>4, <1>5 DEF Shape

\* What a frame makes of the tables.
LEMMA UpdatedIs ==
  ASSUME NEW tables \in Tables, NEW frame \in Frame
  PROVE  /\ Updated(tables, frame) \in Tables
         /\ \A k \in TableNames \ DOMAIN frame : Updated(tables, frame)[k] = tables[k]
<1>1. PICK D \in SUBSET TableNames : frame \in [D -> Nat]
  BY DEF Frame
<1>2. DOMAIN tables = TableNames /\ DOMAIN frame = D
  BY <1>1 DEF Tables
<1>3. QED
  BY <1>1, <1>2 DEF Updated, Tables

\* The next call of a task, or none.
LEMMA NextCallIs ==
  ASSUME Shape, NEW t \in Tasks, task[t] # NoTask, NextCall(t)
  PROVE  task' \in [Tasks -> {NoTask} \cup Call]
<1>1. task \in [Tasks -> {NoTask} \cup Call] /\ task[t] \in Call
  BY DEF Shape
<1> DEFINE rest == Tail(task[t].props)
           c == CallsLeft(rest, task[t].value)
<1>2. task[t].props \in Seq(Names) /\ task[t].props # <<>> /\ task[t].value \in Value
  BY <1>1 DEF Call
<1>3. rest \in Seq(Names)
  BY <1>2, HeadTailProperties
<1>4. rest # <<>> => c \in Call
  BY <1>2, <1>3 DEF CallsLeft, Call
<1>5. task' = [task EXCEPT ![t] = IF rest = <<>> THEN NoTask ELSE c]
  BY <1>1 DEF NextCall
<1>6. QED
  BY <1>1, <1>4, <1>5

LEMMA BeginIs ==
  ASSUME Shape, NEW t \in Tasks, NEW props \in Seq(Names) \ {<<>>}, Begin(t, props)
  PROVE  task' \in [Tasks -> {NoTask} \cup Call] /\ events' \in Nat /\ made' = made
<1>1. task \in [Tasks -> {NoTask} \cup Call] /\ events \in Nat
  BY DEF Shape
<1> DEFINE c == CallsLeft(props, events + 1)
<1>2. c \in Call
  BY <1>1 DEF CallsLeft, Call, Value
<1>3. task' = [task EXCEPT ![t] = c] /\ events' = events + 1 /\ made' = made
  BY DEF Begin, Event
<1>4. QED
  BY <1>1, <1>2, <1>3

LEMMA PickIs ==
  ASSUME Shape, NEW t \in Tasks, Pick(t)
  PROVE  task' \in [Tasks -> {NoTask} \cup Call]
<1>1. /\ task \in [Tasks -> {NoTask} \cup Call] /\ task[t] # NoTask /\ client \in 0..made
      /\ made \in 0..MaxClients
  BY DEF Shape, Pick
<1>2. CASE client = NoClient /\ NextCall(t)
  BY <1>1, <1>2, NextCallIs
<1>3. CASE ~(client = NoClient /\ NextCall(t))
  <2> DEFINE c == [task[t] EXCEPT !.at = "put", !.to = client]
  <2>1. task' = [task EXCEPT ![t] = c] /\ client # NoClient
    BY <1>1, <1>3 DEF Pick
  <2>2. client \in Clients
    BY <1>1, <2>1, Bounds DEF Clients, NoClient
  <2>3. c \in Call
    BY <1>1, <2>2 DEF Call
  <2>4. QED
    BY <1>1, <2>1, <2>3
<1>4. QED
  BY <1>2, <1>3

LEMMA PutIs ==
  ASSUME Shape, NEW t \in Tasks, Put(t)
  PROVE  /\ task' \in [Tasks -> {NoTask} \cup Call] /\ outbox' \in [Clients -> Seq(Command)]
         /\ \A g \in Clients : Len(outbox'[g]) <= OutboxCap
<1> DEFINE g == task[t].to
           name == Head(task[t].props)
<1>1. /\ task \in [Tasks -> {NoTask} \cup Call]
      /\ outbox \in [Clients -> Seq(Command)] /\ \A h \in Clients : Len(outbox[h]) <= OutboxCap
  BY DEF Shape
<1>2. task[t] # NoTask
  BY DEF Put, NoTask, CallsLeft
<1>3. task[t].props \in Seq(Names) /\ task[t].props # <<>> /\ task[t].value \in Value
  BY <1>1, <1>2 DEF Call
<1>4. CASE Over(g)
  BY <1>1, <1>4 DEF Put
<1>5. CASE ~Over(g)
  <2> DEFINE c == [name |-> name, value |-> task[t].value]
  <2>1. /\ HasRoom(g) /\ outbox' = [outbox EXCEPT ![g] = Append(outbox[g], c)]
        /\ NextCall(t)
    BY <1>1, <1>5 DEF Put
  <2>2. c \in Command
    BY <1>3, HeadTailProperties DEF Command
  <2>3. \A q \in Seq(Command) :
          Append(q, c) \in Seq(Command) /\ Len(Append(q, c)) = Len(q) + 1 /\ Len(q) \in Nat
    BY <2>2, AppendProperties
  <2>4. outbox' \in [Clients -> Seq(Command)]
    BY <1>1, <2>1, <2>3
  <2>5. \A h \in Clients : Len(outbox'[h]) <= OutboxCap
    BY <1>1, <2>1, <2>3, Bounds DEF HasRoom
  <2>6. QED
    BY <1>2, <2>1, <2>4, <2>5, NextCallIs
<1>6. QED
  BY <1>4, <1>5

\* A loop that returns leaves nothing behind.
LEMMA ReturnsIs ==
  ASSUME Shape, NEW g \in Clients, Returns(g)
  PROVE  /\ phase' \in [Clients -> Phases] /\ phase' = [phase EXCEPT ![g] = "ended"]
         /\ outbox' \in [Clients -> Seq(Command)]
         /\ \A h \in Clients : Len(outbox'[h]) <= OutboxCap
         /\ down' \in [Clients -> Seq(Frame)] /\ held' \in [Clients -> Tables]
         /\ held' = [held EXCEPT ![g] = NoTables]
<1>1. /\ phase \in [Clients -> Phases] /\ down \in [Clients -> Seq(Frame)]
      /\ outbox \in [Clients -> Seq(Command)] /\ \A h \in Clients : Len(outbox[h]) <= OutboxCap
      /\ held \in [Clients -> Tables]
  BY DEF Shape
<1>2. /\ phase' = [phase EXCEPT ![g] = "ended"] /\ outbox' = [outbox EXCEPT ![g] = <<>>]
      /\ down' = [down EXCEPT ![g] = <<>>] /\ held' = [held EXCEPT ![g] = NoTables]
  BY DEF Returns
<1>3. Len(<<>>) = 0 /\ 0 <= OutboxCap
  BY Bounds
<1>4. outbox' \in [Clients -> Seq(Command)] /\ \A h \in Clients : Len(outbox'[h]) <= OutboxCap
  BY <1>1, <1>2, <1>3
<1>5. QED
  BY <1>1, <1>2, <1>4, NothingIsTables DEF Phases

LEMMA TablesAreFrames == Tables \subseteq Frame
  BY DEF Tables, Frame

\* What the steps of a loop do to the frames it has to read, and to its tables.
LEMMA HelloIs ==
  ASSUME Shape, NEW g \in Clients, Hello(g)
  PROVE  /\ phase' \in [Clients -> Phases] /\ todo' \in [Clients -> SUBSET Cached]
         /\ down' \in [Clients -> Seq(Frame)]
<1>1. /\ phase \in [Clients -> Phases] /\ todo \in [Clients -> SUBSET Cached]
      /\ down \in [Clients -> Seq(Frame)] /\ config \in Frame
  BY TablesAreFrames DEF Shape
<1>2. <<config>> \in Seq(Frame) /\ <<>> \in Seq(Frame)
  BY <1>1
<1>3. CASE Retries(g)
  BY <1>1, <1>2, <1>3 DEF Retries, SessionOver, Phases
<1>4. CASE ~Retries(g)
  <2>1. /\ phase' = [phase EXCEPT ![g] = "replay"]
        /\ todo' = [todo EXCEPT ![g] = {p \in Cached : sent[g][p] # 0}]
        /\ down' = [down EXCEPT ![g] = IF alive[g] THEN <<config>> ELSE <<>>]
    BY <1>4 DEF Hello
  <2>2. QED
    BY <1>1, <1>2, <2>1 DEF Phases
<1>5. QED
  BY <1>3, <1>4

LEMMA SessionOverIs ==
  ASSUME Shape, NEW g \in Clients, NEW next \in Phases, SessionOver(g, next)
  PROVE  /\ phase' \in [Clients -> Phases] /\ todo' \in [Clients -> SUBSET Cached]
         /\ down' \in [Clients -> Seq(Frame)]
<1>1. /\ phase \in [Clients -> Phases] /\ todo \in [Clients -> SUBSET Cached]
      /\ down \in [Clients -> Seq(Frame)] /\ <<>> \in Seq(Frame)
  BY DEF Shape
<1>2. QED
  BY <1>1 DEF SessionOver

LEMMA ApplyIs ==
  ASSUME Shape, NEW g \in Clients, Apply(g)
  PROVE  /\ down' \in [Clients -> Seq(Frame)] /\ held' \in [Clients -> Tables]
         /\ phase' \in [Clients -> Phases]
         /\ phase[g] = "steady" /\ \A h \in Clients : h # g => phase'[h] = phase[h]
         /\ \A h \in Clients : h # g => held'[h] = held[h]
         /\ phase'[g] = "mappings" \/ (phase'[g] = "steady" /\ \A f \in Files : held'[g][f] = held[g][f])
<1> DEFINE frame == Head(down[g])
<1>1. /\ phase \in [Clients -> Phases] /\ held \in [Clients -> Tables]
      /\ down \in [Clients -> Seq(Frame)] /\ phase[g] = "steady" /\ down[g] # <<>>
  BY DEF Shape, Apply
<1>2. frame \in Frame /\ Tail(down[g]) \in Seq(Frame)
  BY <1>1, HeadTailProperties
<1>3. /\ down' = [down EXCEPT ![g] = Tail(down[g])]
      /\ held' = [held EXCEPT ![g] = Updated(held[g], frame)]
      /\ phase' = IF Persists(frame) THEN [phase EXCEPT ![g] = "mappings"] ELSE phase
  BY <1>1 DEF Apply
<1> HIDE DEF frame
<1>4. /\ Updated(held[g], frame) \in Tables
      /\ \A k \in TableNames \ DOMAIN frame : Updated(held[g], frame)[k] = held[g][k]
  BY <1>1, <1>2, UpdatedIs
<1>5. Persists(frame) \/ \A f \in Files : held'[g][f] = held[g][f]
  BY <1>1, <1>3, <1>4 DEF Persists, Files, TableNames
<1>6. QED
  BY <1>1, <1>2, <1>3, <1>4, <1>5 DEF Phases

LEMMA EditIs ==
  ASSUME Shape, NEW table \in Edited, Edit(table)
  PROVE  /\ config' \in Tables /\ down' \in [Clients -> Seq(Frame)]
         /\ events' \in Nat /\ made' = made
<1>1. config \in Tables /\ down \in [Clients -> Seq(Frame)] /\ events \in Nat
      /\ table \in TableNames
  BY Bounds DEF Shape
<1> DEFINE frame == [k \in {table} |-> config[table] + 1]
<1>2. config[table] \in Nat /\ config' = [config EXCEPT ![table] = config[table] + 1]
  BY <1>1 DEF Edit, Tables
<1>3. config' \in Tables
  BY <1>1, <1>2 DEF Tables
<1>4. frame \in Frame
  <2>1. frame \in [{table} -> Nat] /\ {table} \in SUBSET TableNames
    BY <1>1, <1>2
  <2>2. QED
    BY <2>1 DEF Frame
<1> HIDE DEF frame
<1>5. \A g \in Clients : Append(down[g], frame) \in Seq(Frame)
  BY <1>1, <1>4, AppendProperties
<1>6. down' = [g \in Clients |->
        IF alive[g] /\ phase[g] \in {"replay", "steady", "mappings", "glyphs"}
        THEN Append(down[g], frame) ELSE down[g]]
  BY DEF Edit, frame
<1>7. QED
  BY <1>1, <1>3, <1>5, <1>6 DEF Edit, Event

LEMMA PersistIs ==
  ASSUME Shape, NEW g \in Clients, Persist(g)
  PROVE  /\ files' \in [Files -> Nat] /\ phase' \in [Clients -> Phases]
         /\ events' \in Nat /\ made' = made
<1>1. /\ phase \in [Clients -> Phases] /\ held \in [Clients -> Tables]
      /\ files \in [Files -> Nat] /\ phase[g] \in Files /\ events \in Nat
  BY DEF Shape, Persist
<1>2. held[g][phase[g]] \in Nat
  BY <1>1 DEF Files, Tables, TableNames
<1>3. files' = [files EXCEPT ![phase[g]] = held[g][phase[g]]] \/ files' = files
  BY DEF Persist
<1>4. phase' = [phase EXCEPT ![g] = IF phase[g] = "mappings" THEN "glyphs" ELSE "steady"]
  BY <1>1 DEF Persist
<1>5. events' \in Nat /\ made' = made
  BY <1>1 DEF Persist, Event, counters
<1>6. QED
  BY <1>1, <1>2, <1>3, <1>4, <1>5 DEF Phases

LEMMA ConnectIs ==
  ASSUME Shape, Connect
  PROVE  /\ made' \in 0..MaxClients /\ client' = made + 1 /\ made' = made + 1
         /\ made + 1 \in Clients /\ client = NoClient
         /\ phase' \in [Clients -> Phases] /\ phase' = [phase EXCEPT ![made + 1] = "connect"]
         /\ held' \in [Clients -> Tables] /\ events' = events
         /\ \A f \in Files : held'[made + 1][f] = files[f]
<1>1. /\ phase \in [Clients -> Phases] /\ held \in [Clients -> Tables]
      /\ files \in [Files -> Nat] /\ made \in 0..MaxClients
  BY DEF Shape
<1> DEFINE new == [mappings |-> files["mappings"], cycles |-> 0, glyphs |-> files["glyphs"]]
<1>2. new \in Tables
  BY <1>1 DEF Tables, TableNames, Files
<1>3. \A f \in Files : new[f] = files[f]
  BY DEF Files
<1>4. /\ made < MaxClients /\ made' = made + 1 /\ client' = made + 1 /\ client = NoClient
      /\ phase' = [phase EXCEPT ![made + 1] = "connect"]
      /\ held' = [held EXCEPT ![made + 1] = new] /\ events' = events
  BY DEF Connect
<1> HIDE DEF new
<1>5. made + 1 \in Clients /\ made + 1 \in 0..MaxClients
  BY <1>1, <1>4, Bounds DEF Clients
<1>6. QED
  BY <1>1, <1>2, <1>3, <1>4, <1>5 DEF Phases

LEMMA ShapeStep == Shape /\ [Next]_vars => Shape'
<1> SUFFICES ASSUME Shape, [Next]_vars PROVE Shape'
  OBVIOUS
<1>0. /\ made \in 0..MaxClients /\ client \in 0..made /\ events \in Nat
      /\ phase \in [Clients -> Phases]
      /\ outbox \in [Clients -> Seq(Command)]
      /\ \A g \in Clients : Len(outbox[g]) <= OutboxCap
      /\ todo \in [Clients -> SUBSET Cached]
      /\ down \in [Clients -> Seq(Frame)]
      /\ held \in [Clients -> Tables] /\ config \in Tables /\ files \in [Files -> Nat]
      /\ task \in [Tasks -> {NoTask} \cup Call]
  BY DEF Shape
<1>n. NoClient \in 0..made
  BY <1>0 DEF NoClient
<1>1. CASE UNCHANGED vars
  BY <1>0, <1>1 DEF Shape, vars, host, loop, disk, counters
<1>2. CASE Connect
  <2>1. client' \in 0..made'
    BY <1>0, <1>2, ConnectIs
  <2>2. QED
    BY <1>0, <1>2, <2>1, ConnectIs DEF Connect, Shape
<1>3. CASE Disconnect
  BY <1>0, <1>n, <1>3 DEF Disconnect, Shape, disk, counters
<1>4. CASE ApplyConnection
  BY <1>0, <1>4 DEF ApplyConnection, Shape, loop, disk, counters
<1>5. CASE Kill
  <2>1. phase' \in [Clients -> Phases]
    BY <1>0, <1>5 DEF Kill, Phases
  <2>2. /\ outbox' = [g \in Clients |-> <<>>] /\ down' = [g \in Clients |-> <<>>]
        /\ todo' = [g \in Clients |-> {}] /\ held' = [g \in Clients |-> NoTables]
        /\ task' = [t \in Tasks |-> NoTask]
    BY <1>5 DEF Kill
  <2>3. Len(<<>>) = 0 /\ 0 <= OutboxCap
    BY Bounds
  <2>4. outbox' \in [Clients -> Seq(Command)] /\ \A g \in Clients : Len(outbox'[g]) <= OutboxCap
    BY <2>2, <2>3
  <2>5. down' \in [Clients -> Seq(Frame)]
    BY <2>2
  <2>6. /\ todo' \in [Clients -> SUBSET Cached] /\ held' \in [Clients -> Tables]
        /\ task' \in [Tasks -> {NoTask} \cup Call]
    BY <2>2, NothingIsTables
  <2>7. events' \in Nat /\ made' = made /\ client' = NoClient /\ config' = config /\ files' = files
    BY <1>0, <1>5 DEF Kill, Event, disk
  <2>8. QED
    BY <1>0, <1>n, <2>1, <2>4, <2>5, <2>6, <2>7 DEF Shape
<1>6. ASSUME NEW t \in Tasks, Publish(t) \/ PublishDeviceState(t) \/ RouteNuimoEvent(t)
      PROVE  Shape'
  <2>1. PICK props \in Seq(Names) \ {<<>>} : Begin(t, props)
    <3>1. /\ <<"playback", "now_playing">> \in Seq(Names) \ {<<>>}
          /\ <<"device">> \in Seq(Names) \ {<<>>} /\ <<"relay">> \in Seq(Names) \ {<<>>}
      BY DEF Names, Cached
    <3>2. QED
      BY <1>6, <3>1 DEF Publish, PublishDeviceState, RouteNuimoEvent
  <2>2. task' \in [Tasks -> {NoTask} \cup Call] /\ events' \in Nat /\ made' = made
    BY <2>1, BeginIs
  <2>3. QED
    BY <1>0, <2>1, <2>2 DEF Begin, Shape, host, loop, disk
<1>7. ASSUME NEW t \in Tasks, Pick(t) PROVE Shape'
  <2>1. task' \in [Tasks -> {NoTask} \cup Call]
    BY <1>7, PickIs
  <2>2. QED
    BY <1>0, <1>7, <2>1 DEF Pick, Shape, host, loop, disk, counters
<1>8. ASSUME NEW t \in Tasks, Put(t) PROVE Shape'
  <2>1. /\ task' \in [Tasks -> {NoTask} \cup Call] /\ outbox' \in [Clients -> Seq(Command)]
        /\ \A g \in Clients : Len(outbox'[g]) <= OutboxCap
    BY <1>8, PutIs
  <2>2. UNCHANGED <<host, phase, todo, down, held, disk, config, counters>>
    BY <1>8 DEF Put
  <2>3. QED
    BY <1>0, <2>1, <2>2 DEF Shape, host, disk, counters
<1>9. ASSUME NEW g \in Clients, TakeStop(g) PROVE Shape'
  <2>1. Returns(g) /\ UNCHANGED <<host, todo, task, disk, config, counters>>
    BY <1>9 DEF TakeStop
  <2>2. QED
    BY <1>0, <2>1, ReturnsIs DEF Shape, host, disk, counters
<1>10. ASSUME NEW g \in Clients, Wake(g) PROVE Shape'
  BY <1>0, <1>10 DEF Wake, Shape, host, disk, counters, Phases
<1>11. ASSUME NEW g \in Clients, Dial(g) PROVE Shape'
  <2>1. phase' \in [Clients -> Phases]
    BY <1>0, <1>11 DEF Dial, Phases
  <2>2. events' \in Nat /\ made' = made
    BY <1>0, <1>11 DEF Dial, Event, counters
  <2>3. QED
    BY <1>0, <1>11, <2>1, <2>2 DEF Dial, Shape, host, disk
<1>12. ASSUME NEW g \in Clients, Hello(g) PROVE Shape'
  <2>1. /\ phase' \in [Clients -> Phases] /\ todo' \in [Clients -> SUBSET Cached]
        /\ down' \in [Clients -> Seq(Frame)]
    BY <1>12, HelloIs
  <2>2. QED
    BY <1>0, <1>12, <2>1 DEF Hello, Shape, host, disk, counters
<1>13. ASSUME NEW g \in Clients, Replay(g) PROVE Shape'
  <2>1. UNCHANGED <<host, outbox, held, task, disk, config, counters>>
    BY <1>13 DEF Replay
  <2>2. CASE Retries(g)
    <3>1. "connect" \in Phases
      BY DEF Phases
    <3>2. QED
      BY <1>0, <2>1, <2>2, <3>1, SessionOverIs DEF Retries, Shape, host, disk, counters
  <2>3. CASE ~Retries(g)
    <3>1. phase' \in [Clients -> Phases] /\ down' = down
      BY <1>0, <1>13, <2>3 DEF Replay, Phases
    <3>2. todo' \in [Clients -> SUBSET Cached]
      BY <1>0, <1>13, <2>3 DEF Replay
    <3>3. QED
      BY <1>0, <2>1, <3>1, <3>2 DEF Shape, host, disk, counters
  <2>4. QED
    BY <2>2, <2>3
<1>14. ASSUME NEW g \in Clients, Dequeue(g) PROVE Shape'
  <2>1. outbox[g] # <<>> /\ outbox' = [outbox EXCEPT ![g] = Tail(outbox[g])]
    BY <1>0, <1>14 DEF Dequeue
  <2>2. Tail(outbox[g]) \in Seq(Command) /\ Len(Tail(outbox[g])) = Len(outbox[g]) - 1
        /\ Len(outbox[g]) \in Nat
    BY <1>0, <2>1, HeadTailProperties
  <2>3. outbox' \in [Clients -> Seq(Command)] /\ \A h \in Clients : Len(outbox'[h]) <= OutboxCap
    BY <1>0, <2>1, <2>2, Bounds
  <2>4. UNCHANGED <<host, held, task, disk, config, counters>>
    BY <1>14 DEF Dequeue
  <2>5. "backoff" \in Phases
    BY DEF Phases
  <2>6. (phase' = phase /\ down' = down /\ todo' = todo) \/ SessionOver(g, "backoff")
    BY <1>14 DEF Dequeue
  <2>7. QED
    BY <1>0, <2>3, <2>4, <2>5, <2>6, SessionOverIs DEF Shape, host, disk, counters
<1>15. ASSUME NEW g \in Clients, ReadError(g) PROVE Shape'
  <2>1. "backoff" \in Phases
    BY DEF Phases
  <2>2. QED
    BY <1>0, <1>15, <2>1, SessionOverIs DEF ReadError, Shape, host, disk, counters
<1>16. ASSUME NEW g \in Clients, Apply(g) PROVE Shape'
  <2>1. UNCHANGED <<host, outbox, todo, task, disk, config, counters>>
    BY <1>16 DEF Apply
  <2>2. QED
    BY <1>0, <1>16, <2>1, ApplyIs DEF Shape, host, disk, counters
<1>17. ASSUME NEW g \in Clients, Persist(g) PROVE Shape'
  <2>1. UNCHANGED <<host, outbox, todo, down, held, task, config>>
    BY <1>17 DEF Persist
  <2>2. QED
    BY <1>0, <1>17, <2>1, PersistIs DEF Shape, host
<1>18. ASSUME NEW g \in Clients, Break(g) PROVE Shape'
  BY <1>0, <1>18 DEF Break, Event, Shape, host, disk
<1>19. ASSUME NEW table \in Edited, Edit(table) PROVE Shape'
  <2>1. UNCHANGED <<host, phase, outbox, todo, held, task, disk>>
    BY <1>19 DEF Edit
  <2>2. QED
    BY <1>0, <1>19, <2>1, EditIs DEF Shape, host, disk
<1>20. QED
  BY <1>1, <1>2, <1>3, <1>4, <1>5, <1>6, <1>7, <1>8, <1>9, <1>10, <1>11, <1>12, <1>13,
     <1>14, <1>15, <1>16, <1>17, <1>18, <1>19
  DEF Next, TaskStep, LoopStep

\* Every part of the state has its type; no outbox exceeds its capacity.
THEOREM ClientTyped == Spec => []TypeOK
<1>1. Shape => TypeOK
  <2> SUFFICES ASSUME Shape PROVE TypeOK
    OBVIOUS
  <2>1. client \in Clients \cup {NoClient}
    BY Bounds DEF Shape, Clients, NoClient
  <2>2. \A g \in Clients : DOMAIN held[g] = DOMAIN config
    BY DEF Shape, Tables
  <2>3. \A t \in Tasks : task[t].to \in Clients \cup {NoClient}
    BY DEF Shape, NoTask, CallsLeft, Call
  <2>4. \A g \in Clients : Len(outbox[g]) <= OutboxCap /\ todo[g] \subseteq Cached
    BY DEF Shape
  <2>5. phase \in [Clients -> {"none", "connect", "hello", "replay", "steady", "mappings",
                               "glyphs", "backoff", "ended"}]
    BY DEF Shape, Phases
  <2>6. QED
    BY <2>1, <2>2, <2>3, <2>4, <2>5 DEF TypeOK
<1>2. QED
  BY ShapeInit, ShapeStep, <1>1, PTL DEF Spec

-----------------------------------------------------------------------------
(* What the host shows. *)

\* A call that says TRUE, or an edge shown online, stands for some session.
ShownInv ==
  /\ calls \in {NoCall, "up", "down"} /\ shown \in BOOLEAN
  /\ \A g \in Clients : g > made => phase[g] = "none"
  /\ calls = "up" \/ (calls = NoCall /\ shown) => \E g \in Clients : Up(g)

LEMMA ShownInit == Init => ShownInv
<1> SUFFICES ASSUME Init PROVE ShownInv
  OBVIOUS
<1>1. calls = NoCall /\ shown = FALSE
  BY DEF Init
<1>2. calls # "up"
  BY <1>1 DEF NoCall
<1>3. \A g \in Clients : phase[g] = "none"
  BY DEF Init
<1>4. QED
  BY <1>1, <1>2, <1>3 DEF ShownInv

\* A step that ends no session and makes no call.
LEMMA SessionsLast ==
  ASSUME Shape, ShownInv, UNCHANGED <<calls, shown, made>>,
         \A g \in Clients : (Up(g) => Up(g)') /\ (phase[g] = "none" => phase'[g] = "none")
  PROVE  ShownInv'
<1>1. \A g \in Clients : g > made' => phase'[g] = "none"
  BY DEF ShownInv
<1>2. (calls = "up" \/ (calls = NoCall /\ shown)) => \E g \in Clients : Up(g)'
  BY DEF ShownInv
<1>3. QED
  BY <1>1, <1>2 DEF ShownInv, NoCall

\* A session that ends says so.
LEMMA SessionEndSays ==
  ASSUME ShownInv, NEW g \in Clients, NEW next, phase[g] # "none", phase \in [Clients -> Phases],
         calls' = "down", phase' = [phase EXCEPT ![g] = next], UNCHANGED <<shown, made>>
  PROVE  ShownInv'
<1>1. \A h \in Clients : h > made' => phase'[h] = "none"
  BY DEF ShownInv
<1>2. QED
  BY <1>1 DEF ShownInv, NoCall

LEMMA ShownStep == Shape /\ ShownInv /\ [Next]_vars => ShownInv'
<1> SUFFICES ASSUME Shape, ShownInv, [Next]_vars PROVE ShownInv'
  OBVIOUS
<1>0. phase \in [Clients -> Phases] /\ made \in 0..MaxClients
  BY DEF Shape
<1>a. /\ calls \in {NoCall, "up", "down"} /\ shown \in BOOLEAN
      /\ \A g \in Clients : g > made => phase[g] = "none"
      /\ calls = "up" \/ (calls = NoCall /\ shown) => \E g \in Clients : Up(g)
  BY DEF ShownInv
<1>1. CASE UNCHANGED <<calls, shown, made, phase>>
  BY <1>1, SessionsLast DEF Up
<1>2. CASE Connect
  <2>1. phase' = [phase EXCEPT ![made + 1] = "connect"] /\ made' = made + 1
        /\ UNCHANGED <<calls, shown>>
    BY <1>2 DEF Connect
  <2>2. made + 1 \in Clients /\ phase[made + 1] = "none"
    BY <1>0, <1>a, <1>2, ConnectIs DEF Clients
  <2>3. \A g \in Clients : g > made' => g > made /\ g # made + 1
    BY <1>0, <2>1 DEF Clients
  <2>4. \A g \in Clients : g > made' => phase'[g] = "none"
    BY <1>0, <1>a, <2>1, <2>3
  <2>5. \A g \in Clients : Up(g) => Up(g)'
    BY <1>0, <2>1, <2>2 DEF Up
  <2>6. calls' = "up" \/ (calls' = NoCall /\ shown') => \E g \in Clients : Up(g)'
    BY <1>a, <2>1, <2>5
  <2>7. QED
    BY <1>a, <2>1, <2>4, <2>6 DEF ShownInv
<1>3. CASE Disconnect
  BY <1>a, <1>3 DEF Disconnect, ShownInv, Up, counters
<1>4. CASE Kill
  <2>1. \A g \in Clients : g > made' => phase'[g] = "none"
    BY <1>0, <1>a, <1>4 DEF Kill, Event, Over
  <2>2. calls' = NoCall /\ shown' = FALSE
    BY <1>4 DEF Kill
  <2>3. QED
    BY <2>1, <2>2 DEF ShownInv, NoCall
<1>5. CASE ApplyConnection
  BY <1>a, <1>5 DEF ApplyConnection, ShownInv, NoCall, Up, loop, counters
<1>6. ASSUME NEW g \in Clients, TakeStop(g) PROVE ShownInv'
  <2>1. /\ phase[g] \in {"connect", "steady", "backoff"} /\ phase' = [phase EXCEPT ![g] = "ended"]
        /\ shown' = shown /\ made' = made
        /\ calls' = IF phase[g] = "steady" THEN "down" ELSE calls
    BY <1>6 DEF TakeStop, Returns, host, counters
  <2>2. CASE phase[g] = "steady"
    BY <1>0, <2>1, <2>2, SessionEndSays
  <2>3. CASE phase[g] # "steady"
    <3>1. \A h \in Clients : (Up(h) => Up(h)') /\ (phase[h] = "none" => phase'[h] = "none")
      BY <1>0, <2>1, <2>3 DEF Up
    <3>2. QED
      BY <2>1, <2>3, <3>1, SessionsLast
  <2>4. QED
    BY <2>2, <2>3
<1>7. ASSUME NEW g \in Clients, Wake(g) PROVE ShownInv'
  <2>1. /\ phase[g] = "backoff" /\ phase' = [phase EXCEPT ![g] = "connect"]
        /\ UNCHANGED <<calls, shown, made>>
    BY <1>7 DEF Wake, host, counters
  <2>2. \A h \in Clients : (Up(h) => Up(h)') /\ (phase[h] = "none" => phase'[h] = "none")
    BY <1>0, <2>1 DEF Up
  <2>3. QED
    BY <2>1, <2>2, SessionsLast
<1>8. ASSUME NEW g \in Clients, Dial(g) PROVE ShownInv'
  <2>1. phase[g] = "connect" /\ shown' = shown /\ made' = made
    BY <1>8 DEF Dial, Event, host, counters
  <2>2. CASE phase' = [phase EXCEPT ![g] = "hello"] /\ calls' = "up"
    <3>1. Up(g)'
      BY <1>0, <2>2 DEF Up
    <3>2. \A h \in Clients : h > made' => phase'[h] = "none"
      BY <1>0, <1>a, <2>1, <2>2
    <3>3. QED
      BY <1>a, <2>1, <2>2, <3>1, <3>2 DEF ShownInv
  <2>3. CASE phase' = [phase EXCEPT ![g] = "backoff"] /\ calls' = calls
    <3>1. \A h \in Clients : (Up(h) => Up(h)') /\ (phase[h] = "none" => phase'[h] = "none")
      BY <1>0, <2>1, <2>3 DEF Up
    <3>2. QED
      BY <2>1, <2>3, <3>1, SessionsLast
  <2>4. QED
    BY <1>8, <2>2, <2>3 DEF Dial
<1>9. ASSUME NEW g \in Clients, NEW next, SessionOver(g, next), phase[g] # "none",
             UNCHANGED <<host, counters>>
      PROVE  ShownInv'
  BY <1>0, <1>9, SessionEndSays DEF SessionOver, host, counters
<1>10. ASSUME NEW g \in Clients, Hello(g) PROVE ShownInv'
  <2>1. phase[g] = "hello" /\ UNCHANGED <<host, counters>>
    BY <1>10 DEF Hello
  <2>2. CASE Retries(g)
    BY <1>9, <2>1, <2>2 DEF Retries
  <2>3. CASE phase' = [phase EXCEPT ![g] = "replay"] /\ calls' = calls
    <3>1. \A h \in Clients : (Up(h) => Up(h)') /\ (phase[h] = "none" => phase'[h] = "none")
      BY <1>0, <2>1, <2>3 DEF Up
    <3>2. QED
      BY <2>1, <2>3, <3>1, SessionsLast DEF host, counters
  <2>4. QED
    BY <1>10, <2>2, <2>3 DEF Hello
<1>11. ASSUME NEW g \in Clients, Replay(g) PROVE ShownInv'
  <2>1. phase[g] = "replay" /\ UNCHANGED <<host, counters>>
    BY <1>11 DEF Replay
  <2>2. CASE Retries(g)
    BY <1>9, <2>1, <2>2 DEF Retries
  <2>3. CASE phase' \in {[phase EXCEPT ![g] = "steady"], phase} /\ calls' = calls
    <3>1. \A h \in Clients : (Up(h) => Up(h)') /\ (phase[h] = "none" => phase'[h] = "none")
      BY <1>0, <2>1, <2>3 DEF Up
    <3>2. QED
      BY <2>1, <2>3, <3>1, SessionsLast DEF host, counters
  <2>4. QED
    BY <1>11, <2>2, <2>3 DEF Replay
<1>12. ASSUME NEW g \in Clients, Dequeue(g) PROVE ShownInv'
  <2>1. phase[g] = "steady" /\ UNCHANGED <<host, counters>>
    BY <1>12 DEF Dequeue
  <2>2. SessionOver(g, "backoff") \/ UNCHANGED <<calls, phase>>
    BY <1>12 DEF Dequeue
  <2>3. QED
    BY <1>1, <1>9, <2>1, <2>2 DEF host, counters
<1>13. ASSUME NEW g \in Clients, ReadError(g) PROVE ShownInv'
  <2>1. phase[g] = "steady" /\ UNCHANGED <<host, counters>> /\ SessionOver(g, "backoff")
    BY <1>13 DEF ReadError
  <2>2. QED
    BY <1>9, <2>1
<1>14. ASSUME NEW g \in Clients, Apply(g) \/ Persist(g) PROVE ShownInv'
  <2>1. /\ phase[g] \in {"steady", "mappings", "glyphs"} /\ UNCHANGED <<calls, shown, made>>
        /\ phase' \in {phase, [phase EXCEPT ![g] = "mappings"], [phase EXCEPT ![g] = "glyphs"],
                       [phase EXCEPT ![g] = "steady"]}
    <3>1. CASE Apply(g)
      BY <3>1 DEF Apply, host, counters
    <3>2. CASE Persist(g)
      BY <1>0, <3>2 DEF Persist, host, counters, Event, Files
    <3>3. QED
      BY <1>14, <3>1, <3>2
  <2>2. \A h \in Clients : (Up(h) => Up(h)') /\ (phase[h] = "none" => phase'[h] = "none")
    BY <1>0, <2>1 DEF Up
  <2>3. QED
    BY <2>1, <2>2, SessionsLast
<1>15. ASSUME NEW t \in Tasks,
              Publish(t) \/ PublishDeviceState(t) \/ RouteNuimoEvent(t) \/ TaskStep(t)
       PROVE  ShownInv'
  <2>1. UNCHANGED <<calls, shown, made, phase>>
    BY <1>15 DEF Publish, PublishDeviceState, RouteNuimoEvent, TaskStep, Begin, Pick, Put,
         Event, host, loop, counters
  <2>2. QED
    BY <1>1, <2>1
<1>16. ASSUME NEW g \in Clients, Break(g) PROVE ShownInv'
  BY <1>1, <1>16 DEF Break, Event, host
<1>17. ASSUME NEW table \in Edited, Edit(table) PROVE ShownInv'
  BY <1>1, <1>17 DEF Edit, Event, host
<1>18. CASE UNCHANGED vars
  BY <1>1, <1>18 DEF vars, host, loop, counters
<1>19. QED
  BY <1>2, <1>3, <1>4, <1>5, <1>6, <1>7, <1>8, <1>10, <1>11, <1>12, <1>13, <1>14, <1>15,
     <1>16, <1>17, <1>18
  DEF Next, LoopStep

\* Once the replaced loops have ended and the calls have arrived, an edge the
\* host shows online has a session.
THEOREM ShownHasSession == Spec => []ShownOnlineIsOnline
<1>1. Shape /\ ShownInv => ShownOnlineIsOnline
  <2> SUFFICES ASSUME Shape, ShownInv, calls = NoCall, shown,
                      \A g \in Clients \ {client} : Over(g)
               PROVE  client # NoClient /\ Up(client)
    BY DEF ShownOnlineIsOnline
  <2>1. PICK g \in Clients : Up(g)
    BY DEF ShownInv
  <2>2. g = client
    BY <2>1 DEF Up, Over
  <2>3. QED
    BY <2>1, <2>2, Bounds DEF Clients, NoClient
<1>2. QED
  BY ShapeInit, ShapeStep, ShownInit, ShownStep, <1>1, PTL DEF Spec

-----------------------------------------------------------------------------
(* The files. *)

\* The running client's loop has not been told to end, and each file it keeps
\* up is its table, or is about to be.
FilesInv ==
  /\ \A g \in Clients : g > made => ~stop[g]
  /\ client # NoClient =>
       /\ ~stop[client]
       /\ \A f \in Files \ stale :
            \/ phase[client] = "mappings" \/ (phase[client] = "glyphs" /\ f = "glyphs")
            \/ files[f] = held[client][f]

LEMMA FilesInit == Init => FilesInv
  BY DEF Init, FilesInv

\* A step that leaves the files and the tables alone.
LEMMA FilesLast ==
  ASSUME Shape, FilesInv, UNCHANGED <<client, made, stop, files, stale>>,
         client # NoClient => held'[client] = held[client],
         client # NoClient /\ phase[client] \in Files => phase'[client] = phase[client]
  PROVE  FilesInv'
  BY DEF FilesInv, Files

LEMMA FilesStep == Shape /\ FilesInv /\ [Next]_vars => FilesInv'
<1> SUFFICES ASSUME Shape, FilesInv, [Next]_vars PROVE FilesInv'
  OBVIOUS
<1>0. /\ phase \in [Clients -> Phases] /\ made \in 0..MaxClients /\ client \in 0..made
      /\ held \in [Clients -> Tables]
  BY DEF Shape
<1>a. client # NoClient => client \in Clients
  BY <1>0, Bounds DEF Clients, NoClient
<1>b. /\ \A g \in Clients : g > made => ~stop[g]
      /\ client # NoClient =>
           /\ ~stop[client]
           /\ \A f \in Files \ stale :
                \/ phase[client] = "mappings" \/ (phase[client] = "glyphs" /\ f = "glyphs")
                \/ files[f] = held[client][f]
  BY DEF FilesInv
<1>1. CASE UNCHANGED <<client, made, stop, files, stale, held, phase>>
  BY <1>1, FilesLast
<1>2. CASE Connect
  <2>1. stop' = stop /\ files' = files
    BY <1>2 DEF Connect
  <2>2. /\ client' = made + 1 /\ made' = made + 1 /\ made + 1 \in Clients
        /\ \A f \in Files : held'[made + 1][f] = files[f]
    BY <1>2, ConnectIs
  <2>3. ~stop[made + 1] /\ \A g \in Clients : g > made + 1 => g > made
    BY <1>0, <1>b, <2>2 DEF Clients
  <2>4. QED
    BY <1>b, <2>1, <2>2, <2>3 DEF FilesInv
<1>3. CASE Disconnect
  <2>1. client \in Clients /\ stop' = [stop EXCEPT ![client] = TRUE] /\ client' = NoClient
        /\ made' = made
    BY <1>a, <1>3 DEF Disconnect, counters
  <2>2. \A g \in Clients : g > made => g # client
    BY <1>0 DEF Clients
  <2>3. \A g \in Clients : g > made' => ~stop'[g]
    BY <1>b, <2>1, <2>2
  <2>4. QED
    BY <2>1, <2>3 DEF FilesInv
<1>4. CASE Kill
  BY <1>4 DEF Kill, FilesInv
<1>5. CASE ApplyConnection
  BY <1>1, <1>5 DEF ApplyConnection, loop, disk, counters
<1>6. ASSUME NEW g \in Clients, TakeStop(g) PROVE FilesInv'
  <2>1. /\ stop[g] /\ stop' = [stop EXCEPT ![g] = FALSE]
        /\ held' = [held EXCEPT ![g] = NoTables] /\ phase' = [phase EXCEPT ![g] = "ended"]
        /\ client' = client /\ made' = made /\ files' = files /\ stale' = stale
    BY <1>6 DEF TakeStop, Returns, host, disk, counters
  <2>2. client # NoClient => g # client
    BY <1>b, <2>1
  <2>3. client # NoClient => held'[client] = held[client] /\ phase'[client] = phase[client]
                             /\ ~stop'[client]
    BY <1>0, <1>a, <1>b, <2>1, <2>2
  <2>4. \A h \in Clients : h > made' => ~stop'[h]
    BY <1>b, <2>1
  <2>5. QED
    BY <1>b, <2>1, <2>3, <2>4 DEF FilesInv
<1>7. ASSUME NEW g \in Clients, phase[g] \notin Files, NEW next,
             phase' \in {phase, [phase EXCEPT ![g] = next]},
             UNCHANGED <<client, made, stop, files, stale, held>>
      PROVE  FilesInv'
  <2>1. client # NoClient /\ phase[client] \in Files => phase'[client] = phase[client]
    BY <1>0, <1>a, <1>7
  <2>2. QED
    BY <1>7, <2>1, FilesLast
<1>8. ASSUME NEW g \in Clients, Wake(g) PROVE FilesInv'
  <2>1. /\ phase[g] \notin Files /\ UNCHANGED <<client, made, stop, files, stale, held>>
    BY <1>8 DEF Wake, host, disk, counters, Files
  <2>2. phase' \in {phase, [phase EXCEPT ![g] = "connect"]}
    BY <1>8 DEF Wake
  <2>3. QED
    BY <1>7, <2>1, <2>2
<1>9. ASSUME NEW g \in Clients, Dial(g) PROVE FilesInv'
  <2>1. phase[g] \notin Files /\ UNCHANGED <<client, made, stop, files, stale, held>>
    BY <1>9 DEF Dial, Event, host, disk, counters, Files
  <2>2. QED
    BY <1>7, <1>9, <2>1 DEF Dial
<1>10. ASSUME NEW g \in Clients, Hello(g) \/ Replay(g) \/ Dequeue(g) \/ ReadError(g)
       PROVE  FilesInv'
  <2>1. phase[g] \notin Files /\ UNCHANGED <<client, made, stop, files, stale, held>>
    BY <1>10 DEF Hello, Replay, Dequeue, ReadError, host, disk, counters, Files
  <2>2. \E next : phase' \in {phase, [phase EXCEPT ![g] = next]}
    BY <1>10 DEF Hello, Replay, Dequeue, ReadError, Retries, SessionOver
  <2>3. QED
    BY <1>7, <2>1, <2>2
<1>11. ASSUME NEW g \in Clients, Apply(g) PROVE FilesInv'
  <2>1. UNCHANGED <<client, made, stop, files, stale>>
    BY <1>11 DEF Apply, host, disk, counters
  <2>2. CASE g # client
    <3>1. client # NoClient => held'[client] = held[client] /\ phase'[client] = phase[client]
      BY <1>a, <1>11, <2>2, ApplyIs
    <3>2. QED
      BY <2>1, <3>1, FilesLast
  <2>3. CASE g = client
    <3>1. /\ phase[client] = "steady"
          /\ \/ phase'[client] = "mappings"
             \/ \A f \in Files : held'[client][f] = held[client][f]
      BY <1>11, <2>3, ApplyIs
    <3>2. QED
      BY <1>b, <2>1, <3>1 DEF FilesInv
  <2>4. QED
    BY <2>2, <2>3
<1>12. ASSUME NEW g \in Clients, Persist(g) PROVE FilesInv'
  <2>1. UNCHANGED <<client, made, stop, held>> /\ phase[g] \in Files
        /\ phase' = [phase EXCEPT ![g] = IF phase[g] = "mappings" THEN "glyphs" ELSE "steady"]
    BY <1>0, <1>12 DEF Persist, host, Event, counters
  <2>2. PICK f : f = phase[g]
    OBVIOUS
  <2>3. \/ /\ files' = [files EXCEPT ![f] = held[g][f]]
           /\ stale' = IF g = client THEN stale \ {f} ELSE stale \cup {f}
        \/ files' = files /\ stale' = stale \cup {f}
    BY <1>12, <2>2 DEF Persist
  <2>4. files \in [Files -> Nat]
    BY DEF Shape
  <2>5. \A h \in Files \ {f} : files'[h] = files[h]
    BY <2>3, <2>4
  <2>6. CASE g # client
    <3>1. stale' = stale \cup {f} /\ (client # NoClient => phase'[client] = phase[client])
      BY <1>0, <1>a, <2>1, <2>3, <2>6
    <3>2. QED
      BY <1>b, <2>1, <2>5, <3>1 DEF FilesInv
  <2>7. CASE g = client
    <3>1. f \in Files \ stale' => files'[f] = held[client][f]
      BY <2>1, <2>2, <2>3, <2>4, <2>7
    <3>2. phase'[client] = IF f = "mappings" THEN "glyphs" ELSE "steady"
      BY <1>0, <2>1, <2>2, <2>7
    <3>3. f \in {"mappings", "glyphs"} /\ stale \subseteq stale' \cup {f}
      BY <2>1, <2>2, <2>3 DEF Files
    <3>4. ASSUME NEW h \in Files \ stale'
          PROVE  (phase'[client] = "glyphs" /\ h = "glyphs") \/ files'[h] = held[client][h]
      <4>1. CASE h = f
        BY <3>1, <3>4, <4>1
      <4>2. CASE h # f
        <5>1. h \in Files \ stale /\ files'[h] = files[h]
          BY <2>5, <3>3, <3>4, <4>2
        <5>2. CASE f = "mappings"
          BY <3>2, <3>4, <4>2, <5>2 DEF Files
        <5>3. CASE f = "glyphs"
          BY <1>b, <2>2, <2>7, <3>4, <4>2, <5>1, <5>3, <1>a, <2>1, Bounds DEF NoClient, Clients
        <5>4. QED
          BY <3>3, <5>2, <5>3
      <4>3. QED
        BY <4>1, <4>2
    <3>5. QED
      BY <1>b, <2>1, <3>4 DEF FilesInv
  <2>8. QED
    BY <2>6, <2>7
<1>13. ASSUME NEW t \in Tasks,
              Publish(t) \/ PublishDeviceState(t) \/ RouteNuimoEvent(t) \/ TaskStep(t)
       PROVE  FilesInv'
  <2>1. UNCHANGED <<client, made, stop, files, stale, held, phase>>
    BY <1>13 DEF Publish, PublishDeviceState, RouteNuimoEvent, TaskStep, Begin, Pick, Put,
         Event, host, loop, disk, counters
  <2>2. QED
    BY <1>1, <2>1
<1>14. ASSUME NEW g \in Clients, Break(g) PROVE FilesInv'
  BY <1>1, <1>14 DEF Break, Event, host, disk
<1>15. ASSUME NEW table \in Edited, Edit(table) PROVE FilesInv'
  BY <1>1, <1>15 DEF Edit, Event, host, disk
<1>16. CASE UNCHANGED vars
  BY <1>1, <1>16 DEF vars, host, loop, disk, counters
<1>17. QED
  BY <1>2, <1>3, <1>4, <1>5, <1>6, <1>8, <1>9, <1>10, <1>11, <1>12, <1>13, <1>14, <1>15, <1>16
  DEF Next, LoopStep

\* Between two frames each file is the table of the running client, unless its
\* last write failed or a replaced client wrote it since.
THEOREM FilesAreTables == Spec => []FilesFollow
<1>1. FilesInv => FilesFollow
  BY DEF FilesInv, FilesFollow, Files
<1>2. QED
  BY ShapeInit, ShapeStep, FilesInit, FilesStep, <1>1, PTL DEF Spec

-----------------------------------------------------------------------------
(* What a session catches up with. *)

\* Read in order, the maps of q leave k at v: the last that has k gives it v,
\* or none has it and v was there before.
Ends(q, k, before, v) ==
  \/ (\A i \in 1..Len(q) : k \notin DOMAIN q[i]) /\ before = v
  \/ \E i \in 1..Len(q) :
       /\ k \in DOMAIN q[i] /\ q[i][k] = v
       /\ \A j \in 1..Len(q) : j > i => k \notin DOMAIN q[j]

LEMMA EndsEmpty == ASSUME NEW k, NEW v PROVE Ends(<<>>, k, v, v)
<1>1. Len(<<>>) = 0
  OBVIOUS
<1>2. QED
  BY <1>1 DEF Ends

LEMMA EmptyEnds ==
  ASSUME NEW k, NEW before, NEW v, Ends(<<>>, k, before, v)
  PROVE  before = v
<1>1. Len(<<>>) = 0
  OBVIOUS
<1>2. QED
  BY <1>1 DEF Ends

LEMMA EndsAppend ==
  ASSUME NEW S, NEW q \in Seq(S), NEW m \in S, NEW k, NEW before, NEW v, Ends(q, k, before, v)
  PROVE  Ends(Append(q, m), k, before, IF k \in DOMAIN m THEN m[k] ELSE v)
<1>1. PICK r : r = Append(q, m)
  OBVIOUS
<1>2. /\ Len(q) \in Nat /\ Len(r) = Len(q) + 1 /\ r[Len(q) + 1] = m
      /\ \A i \in 1..Len(q) : r[i] = q[i]
  BY <1>1, AppendProperties
<1>3. CASE k \in DOMAIN m
  <2>1. Len(q) + 1 \in 1..Len(r) /\ \A j \in 1..Len(r) : ~(j > Len(q) + 1)
    BY <1>2
  <2>2. k \in DOMAIN r[Len(q) + 1] /\ r[Len(q) + 1][k] = m[k]
    BY <1>2, <1>3
  <2>3. Ends(r, k, before, m[k])
    BY <2>1, <2>2 DEF Ends
  <2>4. QED
    BY <1>1, <1>3, <2>3
<1>4. CASE k \notin DOMAIN m
  <2>1. \A j \in 1..Len(r) : j \in 1..Len(q) \/ j = Len(q) + 1
    BY <1>2
  <2>2. \A j \in 1..Len(r) : k \in DOMAIN r[j] => j \in 1..Len(q) /\ r[j] = q[j]
    BY <1>2, <1>4, <2>1
  <2>3. CASE (\A i \in 1..Len(q) : k \notin DOMAIN q[i]) /\ before = v
    <3>1. \A j \in 1..Len(r) : k \notin DOMAIN r[j]
      BY <2>2, <2>3
    <3>2. Ends(r, k, before, v)
      BY <2>3, <3>1 DEF Ends
    <3>3. QED
      BY <1>1, <1>4, <3>2
  <2>4. CASE ~((\A i \in 1..Len(q) : k \notin DOMAIN q[i]) /\ before = v)
    <3>1. PICK i \in 1..Len(q) :
            /\ k \in DOMAIN q[i] /\ q[i][k] = v
            /\ \A j \in 1..Len(q) : j > i => k \notin DOMAIN q[j]
      BY <2>4 DEF Ends
    <3>2. i \in 1..Len(r) /\ r[i] = q[i]
      BY <1>2
    <3>3. \A j \in 1..Len(r) : j > i => k \notin DOMAIN r[j]
      BY <2>2, <3>1
    <3>4. Ends(r, k, before, v)
      BY <3>1, <3>2, <3>3 DEF Ends
    <3>5. QED
      BY <1>1, <1>4, <3>4
  <2>5. QED
    BY <2>3, <2>4
<1>5. QED
  BY <1>3, <1>4

LEMMA EndsTail ==
  ASSUME NEW S, NEW q \in Seq(S), q # <<>>, NEW k, NEW before, NEW v, Ends(q, k, before, v)
  PROVE  Ends(Tail(q), k, IF k \in DOMAIN Head(q) THEN Head(q)[k] ELSE before, v)
<1>1. PICK r, m : r = Tail(q) /\ m = Head(q)
  OBVIOUS
<1>2. /\ Len(q) \in Nat /\ Len(q) > 0 /\ Len(r) = Len(q) - 1 /\ m = q[1]
      /\ \A i \in 1..Len(r) : r[i] = q[i + 1]
  BY <1>1, HeadTailProperties, EmptySeq
<1>3. \A i \in 1..Len(r) : i + 1 \in 1..Len(q)
  BY <1>2
<1>4. CASE (\A i \in 1..Len(q) : k \notin DOMAIN q[i]) /\ before = v
  <2>1. k \notin DOMAIN m /\ \A i \in 1..Len(r) : k \notin DOMAIN r[i]
    BY <1>2, <1>3, <1>4
  <2>2. Ends(r, k, before, v)
    BY <1>4, <2>1 DEF Ends
  <2>3. QED
    BY <1>1, <2>1, <2>2
<1>5. CASE ~((\A i \in 1..Len(q) : k \notin DOMAIN q[i]) /\ before = v)
  <2>1. PICK i \in 1..Len(q) :
          /\ k \in DOMAIN q[i] /\ q[i][k] = v
          /\ \A j \in 1..Len(q) : j > i => k \notin DOMAIN q[j]
    BY <1>5 DEF Ends
  <2>2. CASE i = 1
    <3>1. \A j \in 1..Len(r) : j + 1 > i
      BY <1>2, <2>2
    <3>2. \A j \in 1..Len(r) : k \notin DOMAIN r[j]
      BY <1>2, <1>3, <2>1, <3>1
    <3>3. k \in DOMAIN m /\ m[k] = v
      BY <1>2, <2>1, <2>2
    <3>4. Ends(r, k, m[k], v)
      BY <3>2, <3>3 DEF Ends
    <3>5. QED
      BY <1>1, <3>3, <3>4
  <2>3. CASE i # 1
    <3>1. PICK h : h = i - 1
      OBVIOUS
    <3>2. h \in 1..Len(r) /\ h + 1 = i
      BY <1>2, <2>3, <3>1
    <3>3. \A j \in 1..Len(r) : j > h => j + 1 > i
      BY <1>2, <3>2
    <3>4. \A j \in 1..Len(r) : j > h => k \notin DOMAIN r[j]
      BY <1>2, <1>3, <2>1, <3>3
    <3>5. k \in DOMAIN r[h] /\ r[h][k] = v
      BY <1>2, <2>1, <3>2
    <3>6. \A b : Ends(r, k, b, v)
      BY <3>2, <3>4, <3>5 DEF Ends
    <3>7. QED
      BY <1>1, <3>6
  <2>4. QED
    BY <2>2, <2>3
<1>6. QED
  BY <1>4, <1>5

InSession(g) == alive[g] /\ phase[g] \in {"replay", "steady", "mappings", "glyphs"}

\* What a session has not read takes its tables to the server's.
TablesInv ==
  /\ alive \in [Clients -> BOOLEAN]
  /\ \A g \in Clients : InSession(g) =>
       \A k \in TableNames : Ends(down[g], k, held[g][k], config[k])

LEMMA TablesInit == Init => TablesInv
  BY DEF Init, TablesInv, InSession

\* A step that opens no session and leaves the frames and the tables of the
\* open ones alone.
LEMMA TablesLast ==
  ASSUME TablesInv, alive' \in [Clients -> BOOLEAN], config' = config,
         \A g \in Clients : InSession(g)' =>
           InSession(g) /\ down'[g] = down[g] /\ held'[g] = held[g]
  PROVE  TablesInv'
  BY DEF TablesInv

\* A step that takes a client out of its session.
LEMMA SessionLeft ==
  ASSUME Shape, TablesInv, NEW g \in Clients, NEW next,
         next \notin {"replay", "steady", "mappings", "glyphs"},
         phase' = [phase EXCEPT ![g] = next], alive' \in [Clients -> BOOLEAN], config' = config,
         \A h \in Clients \ {g} : down'[h] = down[h] /\ held'[h] = held[h] /\ alive'[h] = alive[h]
  PROVE  TablesInv'
<1>1. phase \in [Clients -> Phases]
  BY DEF Shape
<1>2. ~InSession(g)'
  BY <1>1 DEF InSession
<1>3. \A h \in Clients \ {g} : InSession(h)' => InSession(h)
  BY <1>1 DEF InSession
<1>4. QED
  BY <1>2, <1>3, TablesLast

\* A step that keeps a client in its session, or out of it, and reads nothing.
LEMMA SessionGoesOn ==
  ASSUME Shape, TablesInv, NEW g \in Clients, NEW next,
         InSession(g) \/ next \notin {"replay", "steady", "mappings", "glyphs"} \/ ~alive[g],
         phase' = [phase EXCEPT ![g] = next], UNCHANGED <<alive, config, down, held>>
  PROVE  TablesInv'
<1>1. phase \in [Clients -> Phases] /\ alive \in [Clients -> BOOLEAN]
  BY DEF Shape, TablesInv
<1>2. \A h \in Clients : InSession(h)' => InSession(h)
  BY <1>1 DEF InSession
<1>3. QED
  BY <1>1, <1>2, TablesLast

LEMMA TablesHello ==
  ASSUME Shape, TablesInv, NEW g \in Clients, Hello(g)
  PROVE  TablesInv'
<1>0. /\ phase \in [Clients -> Phases] /\ alive \in [Clients -> BOOLEAN]
      /\ down \in [Clients -> Seq(Frame)] /\ config \in Tables /\ held \in [Clients -> Tables]
  BY DEF Shape, TablesInv
<1>1. phase[g] = "hello" /\ UNCHANGED <<alive, config, held>>
  BY DEF Hello
<1>2. CASE Retries(g)
  <2>1. phase' = [phase EXCEPT ![g] = "connect"] /\ down' = [down EXCEPT ![g] = <<>>]
    BY <1>2 DEF Retries, SessionOver
  <2>2. \A h \in Clients \ {g} : down'[h] = down[h]
    BY <1>0, <2>1
  <2>3. QED
    BY <1>0, <1>1, <2>1, <2>2, SessionLeft
<1>3. CASE ~Retries(g)
  <2>1. phase' = [phase EXCEPT ![g] = "replay"]
        /\ down' = [down EXCEPT ![g] = IF alive[g] THEN <<config>> ELSE <<>>]
    BY <1>3 DEF Hello
  <2>2. \A h \in Clients \ {g} : down'[h] = down[h] /\ phase'[h] = phase[h]
    BY <1>0, <2>1
  <2>3. ASSUME alive[g], NEW k \in TableNames PROVE Ends(down'[g], k, held[g][k], config[k])
    <3>1. down'[g] = <<config>> /\ <<config>> = Append(<<>>, config)
      BY <1>0, <2>1, <2>3
    <3>2. <<>> \in Seq(Frame) /\ config \in Frame /\ k \in DOMAIN config
      BY <1>0, TablesAreFrames DEF Tables
    <3>3. Ends(<<>>, k, held[g][k], held[g][k])
      BY EndsEmpty
    <3>4. Ends(Append(<<>>, config), k, held[g][k], config[k])
      BY <3>2, <3>3, EndsAppend
    <3>5. QED
      BY <3>1, <3>4
  <2>4. ASSUME NEW h \in Clients, InSession(h)', NEW k \in TableNames
        PROVE  Ends(down'[h], k, held'[h][k], config'[k])
    <3>1. CASE h = g
      BY <1>1, <2>3, <2>4, <3>1 DEF InSession
    <3>2. CASE h # g
      BY <1>1, <2>2, <2>4, <3>2 DEF InSession, TablesInv
    <3>3. QED
      BY <3>1, <3>2
  <2>5. QED
    BY <1>0, <1>1, <2>4 DEF TablesInv
<1>4. QED
  BY <1>2, <1>3

LEMMA TablesApply ==
  ASSUME Shape, TablesInv, NEW g \in Clients, Apply(g)
  PROVE  TablesInv'
<1>0. /\ phase \in [Clients -> Phases] /\ alive \in [Clients -> BOOLEAN]
      /\ down \in [Clients -> Seq(Frame)] /\ held \in [Clients -> Tables]
  BY DEF Shape, TablesInv
<1>1. /\ phase[g] = "steady" /\ down[g] # <<>> /\ UNCHANGED <<alive, config>>
      /\ down' = [down EXCEPT ![g] = Tail(down[g])]
      /\ held' = [held EXCEPT ![g] = Updated(held[g], Head(down[g]))]
  BY <1>0 DEF Apply
<1>2. \A h \in Clients \ {g} : down'[h] = down[h] /\ held'[h] = held[h] /\ phase'[h] = phase[h]
  BY <1>0, <1>1, ApplyIs
<1>3. ASSUME InSession(g), NEW k \in TableNames PROVE Ends(down'[g], k, held'[g][k], config[k])
  <2>1. PICK m, q : m = Head(down[g]) /\ q = down[g]
    OBVIOUS
  <2>2. held'[g][k] = IF k \in DOMAIN m THEN m[k] ELSE held[g][k]
    BY <1>0, <1>1, <2>1 DEF Updated, Tables
  <2>3. Ends(q, k, held[g][k], config[k]) /\ q \in Seq(Frame) /\ q # <<>>
    BY <1>0, <1>1, <1>3, <2>1 DEF TablesInv
  <2>4. Ends(Tail(q), k, IF k \in DOMAIN Head(q) THEN Head(q)[k] ELSE held[g][k], config[k])
    BY <2>3, EndsTail
  <2>5. down'[g] = Tail(q) /\ m = Head(q)
    BY <1>0, <1>1, <2>1
  <2>6. QED
    BY <2>2, <2>4, <2>5
<1>4. ASSUME NEW h \in Clients, InSession(h)', NEW k \in TableNames
      PROVE  Ends(down'[h], k, held'[h][k], config'[k])
  <2>1. CASE h = g
    BY <1>1, <1>3, <1>4, <2>1 DEF InSession
  <2>2. CASE h # g
    BY <1>1, <1>2, <1>4, <2>2 DEF InSession, TablesInv
  <2>3. QED
    BY <2>1, <2>2
<1>5. QED
  BY <1>0, <1>1, <1>4 DEF TablesInv

LEMMA TablesEdit ==
  ASSUME Shape, TablesInv, NEW table \in Edited, Edit(table)
  PROVE  TablesInv'
<1>0. /\ phase \in [Clients -> Phases] /\ alive \in [Clients -> BOOLEAN]
      /\ down \in [Clients -> Seq(Frame)] /\ config \in Tables /\ table \in TableNames
  BY Bounds DEF Shape, TablesInv
<1> DEFINE frame == [k \in {table} |-> config[table] + 1]
<1>1. frame \in Frame
  <2>1. frame \in [{table} -> Nat] /\ {table} \in SUBSET TableNames
    BY <1>0 DEF Tables
  <2>2. QED
    BY <2>1 DEF Frame
<1>2. \A k \in TableNames : config'[k] = IF k \in DOMAIN frame THEN frame[k] ELSE config[k]
  BY <1>0 DEF Edit, Tables
<1>3. /\ UNCHANGED <<phase, alive, held>>
      /\ \A g \in Clients : InSession(g) => down'[g] = Append(down[g], frame)
  BY DEF Edit, InSession
<1> HIDE DEF frame
<1>4. ASSUME NEW g \in Clients, InSession(g), NEW k \in TableNames
      PROVE  Ends(down'[g], k, held'[g][k], config'[k])
  <2>1. Ends(down[g], k, held[g][k], config[k])
    BY <1>4 DEF TablesInv
  <2>2. Ends(Append(down[g], frame), k, held[g][k],
             IF k \in DOMAIN frame THEN frame[k] ELSE config[k])
    BY <1>0, <1>1, <2>1, EndsAppend
  <2>3. QED
    BY <1>2, <1>3, <1>4, <2>2
<1>5. QED
  BY <1>0, <1>3, <1>4 DEF TablesInv, InSession

LEMMA TablesStep == Shape /\ TablesInv /\ [Next]_vars => TablesInv'
<1> SUFFICES ASSUME Shape, TablesInv, [Next]_vars PROVE TablesInv'
  OBVIOUS
<1>0. /\ phase \in [Clients -> Phases] /\ made \in 0..MaxClients /\ alive \in [Clients -> BOOLEAN]
      /\ down \in [Clients -> Seq(Frame)] /\ held \in [Clients -> Tables]
  BY DEF Shape, TablesInv
<1>1. CASE UNCHANGED <<phase, alive, down, held, config>>
  BY <1>0, <1>1, TablesLast DEF InSession
<1>2. CASE Connect
  <2>1. made + 1 \in Clients /\ phase' = [phase EXCEPT ![made + 1] = "connect"]
        /\ UNCHANGED <<alive, config, down>>
    BY <1>2, ConnectIs DEF Connect
  <2>2. PICK g \in Clients : g = made + 1
    BY <2>1
  <2>3. \A h \in Clients \ {g} : held'[h] = held[h]
    BY <1>0, <1>2, <2>2 DEF Connect
  <2>4. QED
    BY <1>0, <2>1, <2>2, <2>3, SessionLeft
<1>3. CASE Disconnect
  BY <1>1, <1>3 DEF Disconnect
<1>4. CASE ApplyConnection
  BY <1>1, <1>4 DEF ApplyConnection, loop
<1>5. CASE Kill
  <2>1. alive' = [g \in Clients |-> FALSE] /\ config' = config
    BY <1>5 DEF Kill
  <2>2. alive' \in [Clients -> BOOLEAN] /\ \A g \in Clients : ~InSession(g)'
    BY <2>1 DEF InSession
  <2>3. QED
    BY <2>1, <2>2, TablesLast
<1>6. ASSUME NEW g \in Clients, TakeStop(g) PROVE TablesInv'
  <2>1. /\ phase' = [phase EXCEPT ![g] = "ended"] /\ config' = config
        /\ alive' = [alive EXCEPT ![g] = FALSE] /\ down' = [down EXCEPT ![g] = <<>>]
        /\ held' = [held EXCEPT ![g] = NoTables]
    BY <1>6 DEF TakeStop, Returns
  <2>2. alive' \in [Clients -> BOOLEAN]
        /\ \A h \in Clients \ {g} : down'[h] = down[h] /\ held'[h] = held[h] /\ alive'[h] = alive[h]
    BY <1>0, <2>1
  <2>3. QED
    BY <2>1, <2>2, SessionLeft
<1>7. ASSUME NEW g \in Clients, Wake(g) PROVE TablesInv'
  <2>1. phase' = [phase EXCEPT ![g] = "connect"] /\ UNCHANGED <<alive, config, down, held>>
    BY <1>7 DEF Wake
  <2>2. QED
    BY <2>1, SessionGoesOn
<1>8. ASSUME NEW g \in Clients, Dial(g) PROVE TablesInv'
  <2>1. UNCHANGED <<config, down, held>>
    BY <1>8 DEF Dial
  <2>2. PICK next \in {"hello", "backoff"} :
          phase' = [phase EXCEPT ![g] = next]
          /\ (alive' = [alive EXCEPT ![g] = TRUE] \/ alive' = alive)
    BY <1>8 DEF Dial
  <2>3. alive' \in [Clients -> BOOLEAN] /\ \A h \in Clients \ {g} : alive'[h] = alive[h]
    BY <1>0, <2>2
  <2>4. QED
    BY <2>1, <2>2, <2>3, SessionLeft
<1>9. ASSUME NEW g \in Clients, NEW next \in {"connect", "backoff"}, SessionOver(g, next),
             UNCHANGED <<alive, config, held>>
      PROVE  TablesInv'
  <2>1. phase' = [phase EXCEPT ![g] = next] /\ down' = [down EXCEPT ![g] = <<>>]
    BY <1>9 DEF SessionOver
  <2>2. \A h \in Clients \ {g} : down'[h] = down[h]
    BY <1>0, <2>1
  <2>3. QED
    BY <1>0, <1>9, <2>1, <2>2, SessionLeft
<1>10. ASSUME NEW g \in Clients, Hello(g) PROVE TablesInv'
  BY <1>10, TablesHello
<1>11. ASSUME NEW g \in Clients, Replay(g) PROVE TablesInv'
  <2>1. phase[g] = "replay" /\ UNCHANGED <<alive, config, held>>
    BY <1>11 DEF Replay
  <2>2. CASE Retries(g)
    BY <1>9, <2>1, <2>2 DEF Retries
  <2>3. CASE phase' = [phase EXCEPT ![g] = "steady"] /\ down' = down
    <3>1. InSession(g) \/ ~alive[g]
      BY <2>1 DEF InSession
    <3>2. QED
      BY <2>1, <2>3, <3>1, SessionGoesOn
  <2>4. CASE phase' = phase /\ down' = down
    BY <1>1, <2>1, <2>4
  <2>5. QED
    BY <1>11, <2>2, <2>3, <2>4 DEF Replay
<1>12. ASSUME NEW g \in Clients, Dequeue(g) PROVE TablesInv'
  <2>1. UNCHANGED <<alive, config, held>>
    BY <1>12 DEF Dequeue
  <2>2. SessionOver(g, "backoff") \/ UNCHANGED <<phase, down>>
    BY <1>12 DEF Dequeue
  <2>3. QED
    BY <1>1, <1>9, <2>1, <2>2
<1>13. ASSUME NEW g \in Clients, ReadError(g) PROVE TablesInv'
  BY <1>9, <1>13 DEF ReadError
<1>14. ASSUME NEW g \in Clients, Apply(g) PROVE TablesInv'
  BY <1>14, TablesApply
<1>15. ASSUME NEW g \in Clients, Persist(g) PROVE TablesInv'
  <2>1. /\ phase[g] \in Files /\ UNCHANGED <<alive, config, down, held>>
        /\ phase' = [phase EXCEPT ![g] = IF phase[g] = "mappings" THEN "glyphs" ELSE "steady"]
    BY <1>0, <1>15 DEF Persist
  <2>2. InSession(g) \/ ~alive[g]
    BY <2>1 DEF InSession, Files
  <2>3. QED
    BY <2>1, <2>2, SessionGoesOn
<1>16. ASSUME NEW t \in Tasks,
              Publish(t) \/ PublishDeviceState(t) \/ RouteNuimoEvent(t) \/ TaskStep(t)
       PROVE  TablesInv'
  <2>1. UNCHANGED <<phase, alive, down, held, config>>
    BY <1>16 DEF Publish, PublishDeviceState, RouteNuimoEvent, TaskStep, Begin, Pick, Put, loop
  <2>2. QED
    BY <1>1, <2>1
<1>17. ASSUME NEW g \in Clients, Break(g) PROVE TablesInv'
  <2>1. alive' = [alive EXCEPT ![g] = FALSE] /\ UNCHANGED <<phase, down, held, config>>
    BY <1>17 DEF Break
  <2>2. alive' \in [Clients -> BOOLEAN] /\ \A h \in Clients : alive'[h] => alive[h]
    BY <1>0, <2>1
  <2>3. QED
    BY <2>1, <2>2, TablesLast DEF InSession
<1>18. ASSUME NEW table \in Edited, Edit(table) PROVE TablesInv'
  BY <1>18, TablesEdit
<1>19. CASE UNCHANGED vars
  BY <1>1, <1>19 DEF vars, loop
<1>20. QED
  BY <1>2, <1>3, <1>4, <1>5, <1>6, <1>7, <1>8, <1>10, <1>11, <1>12, <1>13, <1>14, <1>15, <1>16,
     <1>17, <1>18, <1>19
  DEF Next, LoopStep

\* What a command says of the cached properties, as a map like a frame's.
Said(command) == [p \in {command.name} |-> command.value]
SaidIn(q) == [i \in 1..Len(q) |-> Said(q[i])]
Saying == {Said(command) : command \in Command}

LEMMA SaidInIs ==
  ASSUME NEW q \in Seq(Command)
  PROVE  /\ SaidIn(q) \in Seq(Saying)
         /\ \A c \in Command : SaidIn(Append(q, c)) = Append(SaidIn(q), Said(c))
         /\ q # <<>> => /\ SaidIn(q) # <<>> /\ Head(SaidIn(q)) = Said(Head(q))
                        /\ SaidIn(Tail(q)) = Tail(SaidIn(q))
<1>1. PICK n \in Nat : n = Len(q)
  OBVIOUS
<1>2. \A i \in 1..n : q[i] \in Command /\ Said(q[i]) \in Saying
  BY <1>1 DEF Saying
<1>3. PICK s : s = SaidIn(q)
  OBVIOUS
<1>4. s \in Seq(Saying) /\ Len(s) = n /\ \A i \in 1..n : s[i] = Said(q[i])
  BY <1>1, <1>2, <1>3 DEF SaidIn
<1>5. ASSUME NEW c \in Command PROVE SaidIn(Append(q, c)) = Append(s, Said(c))
  <2>1. PICK r, m : r = Append(q, c) /\ m = Said(c)
    OBVIOUS
  <2>2. /\ r \in Seq(Command) /\ Len(r) = n + 1 /\ r[n + 1] = c
        /\ \A i \in 1..n : r[i] = q[i]
    BY <1>1, <2>1, AppendProperties
  <2>3. m \in Saying
    BY <2>1 DEF Saying
  <2>4. PICK a : a = Append(s, m)
    OBVIOUS
  <2>5. /\ a \in Seq(Saying) /\ Len(a) = n + 1 /\ a[n + 1] = m
        /\ \A i \in 1..n : a[i] = s[i]
    BY <1>4, <2>3, <2>4, AppendProperties
  <2>6. \A i \in 1..(n + 1) : a[i] = Said(r[i])
    <3>1. \A i \in 1..(n + 1) : i \in 1..n \/ i = n + 1
      OBVIOUS
    <3>2. QED
      BY <1>4, <2>1, <2>2, <2>5, <3>1
  <2>7. a = [i \in 1..(n + 1) |-> a[i]]
    BY <2>5
  <2>8. SaidIn(r) = [i \in 1..(n + 1) |-> Said(r[i])]
    BY <2>2 DEF SaidIn
  <2>9. SaidIn(r) = a
    BY <2>6, <2>7, <2>8
  <2>10. QED
    BY <2>1, <2>4, <2>9
<1>6. ASSUME q # <<>>
      PROVE  s # <<>> /\ Head(s) = Said(Head(q)) /\ SaidIn(Tail(q)) = Tail(s)
  <2>1. PICK r, h : r = Tail(q) /\ h = Head(q)
    OBVIOUS
  <2>2. /\ r \in Seq(Command) /\ Len(r) = n - 1 /\ n > 0 /\ h = q[1]
        /\ \A i \in 1..Len(r) : r[i] = q[i + 1]
    BY <1>1, <1>6, <2>1, HeadTailProperties, EmptySeq
  <2>3. s # <<>> /\ 1 \in 1..n
    BY <1>4, <2>2, EmptySeq
  <2>4. PICK a : a = Tail(s)
    OBVIOUS
  <2>5. /\ a \in Seq(Saying) /\ Len(a) = n - 1 /\ Head(s) = s[1]
        /\ \A i \in 1..Len(a) : a[i] = s[i + 1]
    BY <1>4, <2>3, <2>4, HeadTailProperties
  <2>6. Head(s) = Said(h)
    BY <1>4, <2>2, <2>3, <2>5
  <2>7. \A i \in 1..(n - 1) : a[i] = Said(r[i])
    <3>1. \A i \in 1..(n - 1) : i + 1 \in 1..n
      OBVIOUS
    <3>2. QED
      BY <1>4, <2>2, <2>5, <3>1
  <2>8. a = [i \in 1..(n - 1) |-> a[i]]
    BY <2>5
  <2>9. SaidIn(r) = [i \in 1..(n - 1) |-> Said(r[i])]
    BY <2>2 DEF SaidIn
  <2>10. SaidIn(r) = a
    BY <2>7, <2>8, <2>9
  <2>11. QED
    BY <2>1, <2>3, <2>4, <2>6, <2>10
<1>7. QED
  BY <1>3, <1>4, <1>5, <1>6

Values == [Clients -> [Cached -> Nat]]

\* What is in the outbox takes a replay cache to what was last queued.
QueuedInv ==
  /\ sent \in Values /\ queued \in Values
  /\ \A g \in Clients : \A p \in Cached : Ends(SaidIn(outbox[g]), p, sent[g][p], queued[g][p])

LEMMA EmptyIs ==
  ASSUME NEW q, q = <<>>, NEW p, NEW v PROVE Ends(SaidIn(q), p, v, v)
<1>1. SaidIn(q) = <<>>
  <2>1. Len(<<>>) = 0
    OBVIOUS
  <2>2. QED
    BY <2>1 DEF SaidIn
<1>2. QED
  BY <1>1, EndsEmpty

LEMMA QueuedInit == Init => QueuedInv
<1> SUFFICES ASSUME Init PROVE QueuedInv
  OBVIOUS
<1>1. sent \in Values /\ queued \in Values /\ sent = queued
  BY NothingIsTables DEF Init, Values
<1>2. \A g \in Clients : outbox[g] = <<>>
  BY DEF Init
<1>3. QED
  BY <1>1, <1>2, EmptyIs DEF QueuedInv

LEMMA QueuedPut ==
  ASSUME Shape, QueuedInv, NEW t \in Tasks, Put(t)
  PROVE  QueuedInv'
<1>0. /\ sent \in Values /\ queued \in Values /\ sent' = sent
      /\ outbox \in [Clients -> Seq(Command)] /\ task \in [Tasks -> {NoTask} \cup Call]
  BY DEF QueuedInv, Shape, Put
<1>1. PICK o, name, c :
        o = task[t].to /\ name = Head(task[t].props) /\ c = [name |-> name, value |-> task[t].value]
  OBVIOUS
<1>2. task[t] # NoTask
  BY DEF Put, NoTask, CallsLeft
<1>3. task[t].props \in Seq(Names) /\ task[t].props # <<>> /\ task[t].value \in Value
  BY <1>0, <1>2 DEF Call
<1>4. c \in Command
  BY <1>1, <1>3, HeadTailProperties DEF Command
<1>5. CASE UNCHANGED <<outbox, queued>>
  BY <1>0, <1>5 DEF QueuedInv
<1>6. CASE ~UNCHANGED <<outbox, queued>>
  <2>1. /\ outbox' = [outbox EXCEPT ![o] = Append(outbox[o], c)]
        /\ queued' = IF name \in Cached THEN [queued EXCEPT ![o][name] = task[t].value] ELSE queued
    BY <1>0, <1>1, <1>6 DEF Put
  <2>2. queued' \in Values
    BY <1>0, <1>3, <2>1 DEF Values, Value
  <2>3. ASSUME NEW g \in Clients, NEW p \in Cached
        PROVE  Ends(SaidIn(outbox'[g]), p, sent[g][p], queued'[g][p])
    <3>1. Ends(SaidIn(outbox[g]), p, sent[g][p], queued[g][p])
      BY DEF QueuedInv
    <3>2. CASE g # o
      BY <1>0, <2>1, <3>1, <3>2 DEF Values
    <3>3. CASE g = o
      <4>1. PICK q : q = outbox[g]
        OBVIOUS
      <4>2. outbox'[g] = Append(q, c) /\ q \in Seq(Command)
        BY <1>0, <2>1, <3>3, <4>1
      <4>3. Said(c) \in Saying /\ SaidIn(q) \in Seq(Saying)
            /\ SaidIn(outbox'[g]) = Append(SaidIn(q), Said(c))
        BY <1>4, <4>2, SaidInIs DEF Saying
      <4>4. Ends(Append(SaidIn(q), Said(c)), p, sent[g][p],
                 IF p \in DOMAIN Said(c) THEN Said(c)[p] ELSE queued[g][p])
        BY <3>1, <4>1, <4>3, EndsAppend
      <4>5. queued'[g][p] = IF p = name THEN task[t].value ELSE queued[g][p]
        BY <1>0, <2>1, <3>3 DEF Values
      <4>6. queued'[g][p] = IF p \in DOMAIN Said(c) THEN Said(c)[p] ELSE queued[g][p]
        BY <1>1, <4>5 DEF Said
      <4>7. QED
        BY <4>3, <4>4, <4>6
    <3>4. QED
      BY <3>2, <3>3
  <2>4. QED
    BY <1>0, <2>2, <2>3 DEF QueuedInv
<1>7. QED
  BY <1>5, <1>6

LEMMA DequeueIs ==
  ASSUME Shape, NEW g \in Clients, Dequeue(g), sent \in Values
  PROVE  /\ sent' \in Values /\ Head(outbox[g]) \in Command
         /\ \A h \in Clients \ {g} : sent'[h] = sent[h]
         /\ \A p \in Cached : sent'[g][p] = IF p = Head(outbox[g]).name THEN Head(outbox[g]).value
                                            ELSE sent[g][p]
<1>1. outbox[g] \in Seq(Command) /\ outbox[g] # <<>>
  BY DEF Shape, Dequeue
<1>2. PICK c : c = Head(outbox[g])
  OBVIOUS
<1>3. c \in Command
  BY <1>1, <1>2, HeadTailProperties
<1>4. sent' = IF c.name \in Cached THEN [sent EXCEPT ![g][c.name] = c.value] ELSE sent
  BY <1>2 DEF Dequeue, Remembered
<1>5. c.value \in Nat
  BY <1>3 DEF Command, Value
<1>6. sent' \in Values
  BY <1>4, <1>5 DEF Values
<1>7. /\ \A h \in Clients \ {g} : sent'[h] = sent[h]
      /\ \A p \in Cached : sent'[g][p] = IF p = c.name THEN c.value ELSE sent[g][p]
  BY <1>4 DEF Values
<1>8. QED
  BY <1>2, <1>3, <1>6, <1>7

LEMMA QueuedDequeue ==
  ASSUME Shape, QueuedInv, NEW g \in Clients, Dequeue(g)
  PROVE  QueuedInv'
<1>0. /\ sent \in Values /\ queued \in Values /\ queued' = queued
      /\ outbox \in [Clients -> Seq(Command)] /\ outbox[g] # <<>>
      /\ outbox' = [outbox EXCEPT ![g] = Tail(outbox[g])]
  BY DEF QueuedInv, Shape, Dequeue
<1>1. /\ sent' \in Values
      /\ \A h \in Clients \ {g} : sent'[h] = sent[h]
  BY <1>0, DequeueIs
<1>2. ASSUME NEW p \in Cached PROVE Ends(SaidIn(outbox'[g]), p, sent'[g][p], queued[g][p])
  <2>1. PICK q, c : q = outbox[g] /\ c = Head(q)
    OBVIOUS
  <2>2. sent'[g][p] = IF p = c.name THEN c.value ELSE sent[g][p]
    BY <1>0, <2>1, DequeueIs
  <2>3. q \in Seq(Command) /\ q # <<>> /\ outbox'[g] = Tail(q)
    BY <1>0, <2>1
  <2>4. /\ SaidIn(q) \in Seq(Saying) /\ SaidIn(q) # <<>> /\ Head(SaidIn(q)) = Said(c)
        /\ SaidIn(outbox'[g]) = Tail(SaidIn(q))
    BY <2>1, <2>3, SaidInIs
  <2>5. Ends(SaidIn(q), p, sent[g][p], queued[g][p])
    BY <2>1 DEF QueuedInv
  <2>6. PICK s : s = SaidIn(q)
    OBVIOUS
  <2>7. Ends(Tail(s), p, IF p \in DOMAIN Head(s) THEN Head(s)[p] ELSE sent[g][p], queued[g][p])
    BY <2>4, <2>5, <2>6, EndsTail
  <2>8. sent'[g][p] = IF p \in DOMAIN Said(c) THEN Said(c)[p] ELSE sent[g][p]
    BY <2>2 DEF Said
  <2>9. QED
    BY <2>4, <2>6, <2>7, <2>8
<1>3. ASSUME NEW h \in Clients \ {g}, NEW p \in Cached
      PROVE  Ends(SaidIn(outbox'[h]), p, sent'[h][p], queued[h][p])
  BY <1>0, <1>1 DEF QueuedInv
<1>4. QED
  BY <1>0, <1>1, <1>2, <1>3 DEF QueuedInv

LEMMA QueuedStep == Shape /\ QueuedInv /\ [Next]_vars => QueuedInv'
<1> SUFFICES ASSUME Shape, QueuedInv, [Next]_vars PROVE QueuedInv'
  OBVIOUS
<1>0. sent \in Values /\ queued \in Values /\ outbox \in [Clients -> Seq(Command)]
  BY DEF QueuedInv, Shape
<1>1. CASE UNCHANGED <<outbox, sent, queued>>
  BY <1>1 DEF QueuedInv
<1>2. CASE Kill
  <2>1. /\ \A g \in Clients : outbox'[g] = <<>>
        /\ sent' \in Values /\ queued' \in Values /\ sent' = queued'
    BY <1>2, NothingIsTables DEF Kill, Values
  <2>2. QED
    BY <2>1, EmptyIs DEF QueuedInv
<1>3. ASSUME NEW g \in Clients, TakeStop(g) PROVE QueuedInv'
  <2>1. /\ outbox' = [outbox EXCEPT ![g] = <<>>] /\ sent' = [sent EXCEPT ![g] = Nothing]
        /\ queued' = [queued EXCEPT ![g] = Nothing]
    BY <1>3 DEF TakeStop, Returns
  <2>2. sent' \in Values /\ queued' \in Values
    BY <1>0, <2>1, NothingIsTables DEF Values
  <2>3. ASSUME NEW h \in Clients, NEW p \in Cached
        PROVE  Ends(SaidIn(outbox'[h]), p, sent'[h][p], queued'[h][p])
    <3>1. CASE h = g
      <4>1. outbox'[h] = <<>> /\ sent'[h][p] = queued'[h][p]
        BY <1>0, <2>1, <3>1 DEF Values
      <4>2. QED
        BY <4>1, EmptyIs
    <3>2. CASE h # g
      BY <1>0, <2>1, <3>2 DEF QueuedInv, Values
    <3>3. QED
      BY <3>1, <3>2
  <2>4. QED
    BY <2>2, <2>3 DEF QueuedInv
<1>4. ASSUME NEW t \in Tasks, Put(t) PROVE QueuedInv'
  BY <1>4, QueuedPut
<1>5. ASSUME NEW g \in Clients, Dequeue(g) PROVE QueuedInv'
  BY <1>5, QueuedDequeue
<1>6. CASE Connect \/ Disconnect \/ ApplyConnection
  BY <1>1, <1>6 DEF Connect, Disconnect, ApplyConnection, loop
<1>7. ASSUME NEW t \in Tasks, Publish(t) \/ PublishDeviceState(t) \/ RouteNuimoEvent(t) \/ Pick(t)
      PROVE  QueuedInv'
  <2>1. UNCHANGED <<outbox, sent, queued>>
    BY <1>7 DEF Publish, PublishDeviceState, RouteNuimoEvent, Begin, Pick, loop
  <2>2. QED
    BY <1>1, <2>1
<1>8. ASSUME NEW g \in Clients, Wake(g) \/ Dial(g) \/ Hello(g) \/ Replay(g) \/ ReadError(g)
      PROVE  QueuedInv'
  <2>1. UNCHANGED <<outbox, sent, queued>>
    BY <1>8 DEF Wake, Dial, Hello, Replay, ReadError
  <2>2. QED
    BY <1>1, <2>1
<1>9. ASSUME NEW g \in Clients, Apply(g) \/ Persist(g) \/ Break(g) PROVE QueuedInv'
  <2>1. UNCHANGED <<outbox, sent, queued>>
    BY <1>9 DEF Apply, Persist, Break
  <2>2. QED
    BY <1>1, <2>1
<1>10. ASSUME NEW table \in Edited, Edit(table) PROVE QueuedInv'
  BY <1>1, <1>10 DEF Edit
<1>11. CASE UNCHANGED vars
  BY <1>1, <1>11 DEF vars, loop
<1>12. QED
  BY <1>2, <1>3, <1>4, <1>5, <1>6, <1>7, <1>8, <1>9, <1>10, <1>11 DEF Next, LoopStep, TaskStep

\* What the server knows of a session is what its replay caches hold, but for
\* what is left of the replay; what no cache holds it was never told.
HeardInv ==
  /\ known \in Values
  /\ \A g \in Clients : phase[g] \in {"steady", "mappings", "glyphs"} => todo[g] = {}
  /\ \A g \in Clients : \A p \in Cached :
       /\ sent[g][p] = 0 => known[g][p] = 0
       /\ InSession(g) /\ p \notin todo[g] => known[g][p] = sent[g][p]

LEMMA HeardInit == Init => HeardInv
<1> SUFFICES ASSUME Init PROVE HeardInv
  OBVIOUS
<1>1. known \in Values
  BY NothingIsTables DEF Init, Values
<1>2. \A g \in Clients : /\ phase[g] = "none" /\ known[g] = Nothing /\ sent[g] = Nothing
                         /\ ~InSession(g)
  BY DEF Init, InSession
<1>3. \A g \in Clients : \A p \in Cached : known[g][p] = 0
  BY <1>2 DEF Nothing
<1>4. QED
  BY <1>1, <1>2, <1>3 DEF HeardInv

\* A step that leaves the values alone and opens no session.
LEMMA HeardLast ==
  ASSUME HeardInv, UNCHANGED <<sent, known>>,
         \A g \in Clients :
           /\ InSession(g)' => InSession(g) /\ todo'[g] = todo[g]
           /\ phase'[g] \in {"steady", "mappings", "glyphs"} => todo'[g] = {}
  PROVE  HeardInv'
  BY DEF HeardInv

\* The client that steps, and the others.
LEMMA HeardBut ==
  ASSUME Shape, HeardInv, NEW g \in Clients, NEW next, phase' = [phase EXCEPT ![g] = next],
         known' \in Values,
         \A h \in Clients \ {g} : /\ sent'[h] = sent[h] /\ known'[h] = known[h]
                                  /\ todo'[h] = todo[h] /\ (alive'[h] => alive[h]),
         next \in {"steady", "mappings", "glyphs"} => todo'[g] = {},
         \A p \in Cached :
           /\ sent'[g][p] = 0 => known'[g][p] = 0
           /\ InSession(g)' /\ p \notin todo'[g] => known'[g][p] = sent'[g][p]
  PROVE  HeardInv'
<1>1. phase \in [Clients -> Phases]
  BY DEF Shape
<1>2. \A h \in Clients \ {g} : phase'[h] = phase[h] /\ (InSession(h)' => InSession(h))
  BY <1>1 DEF InSession
<1>3. phase'[g] = next
  BY <1>1
<1>4. \A h \in Clients : phase'[h] \in {"steady", "mappings", "glyphs"} => todo'[h] = {}
  BY <1>2, <1>3 DEF HeardInv
<1>5. \A h \in Clients \ {g} : \A p \in Cached :
        /\ sent'[h][p] = 0 => known'[h][p] = 0
        /\ InSession(h)' /\ p \notin todo'[h] => known'[h][p] = sent'[h][p]
  BY <1>2 DEF HeardInv
<1>6. QED
  BY <1>4, <1>5 DEF HeardInv

LEMMA HeardOver ==
  ASSUME Shape, HeardInv, NEW g \in Clients, NEW next \in {"connect", "backoff"},
         SessionOver(g, next), UNCHANGED <<alive, known>>, sent' \in Values,
         \A h \in Clients \ {g} : sent'[h] = sent[h],
         \A p \in Cached : sent'[g][p] = 0 => sent[g][p] = 0
  PROVE  HeardInv'
<1>1. /\ phase' = [phase EXCEPT ![g] = next] /\ todo' = [todo EXCEPT ![g] = {}]
      /\ phase \in [Clients -> Phases] /\ todo \in [Clients -> SUBSET Cached]
  BY DEF SessionOver, Shape
<1>2. ~InSession(g)' /\ todo'[g] = {} /\ \A h \in Clients \ {g} : todo'[h] = todo[h]
  BY <1>1 DEF InSession
<1>3. known' \in Values /\ \A p \in Cached : sent'[g][p] = 0 => known'[g][p] = 0
  BY DEF HeardInv
<1>4. QED
  BY <1>1, <1>2, <1>3, HeardBut

LEMMA HeardHello ==
  ASSUME Shape, HeardInv, sent \in Values, NEW g \in Clients, Hello(g)
  PROVE  HeardInv'
<1>0. todo \in [Clients -> SUBSET Cached] /\ UNCHANGED <<alive, sent, known>> /\ known \in Values
  BY DEF Shape, HeardInv, Hello
<1>1. CASE Retries(g)
  BY <1>0, <1>1, HeardOver DEF Retries
<1>2. CASE ~Retries(g)
  <2>1. phase' = [phase EXCEPT ![g] = "replay"]
        /\ todo' = [todo EXCEPT ![g] = {p \in Cached : sent[g][p] # 0}]
    BY <1>2 DEF Hello
  <2>2. todo'[g] = {p \in Cached : sent[g][p] # 0} /\ \A h \in Clients \ {g} : todo'[h] = todo[h]
    BY <1>0, <2>1
  <2>3. \A p \in Cached : p \notin todo'[g] => known[g][p] = sent[g][p]
    BY <2>2 DEF HeardInv
  <2>4. \A p \in Cached : sent[g][p] = 0 => known[g][p] = 0
    BY DEF HeardInv
  <2>5. QED
    BY <1>0, <2>1, <2>2, <2>3, <2>4, HeardBut
<1>3. QED
  BY <1>1, <1>2

LEMMA HeardReplay ==
  ASSUME Shape, HeardInv, sent \in Values, NEW g \in Clients, Replay(g)
  PROVE  HeardInv'
<1>0. /\ todo \in [Clients -> SUBSET Cached] /\ UNCHANGED <<alive, sent>> /\ known \in Values
      /\ phase \in [Clients -> Phases] /\ phase[g] = "replay"
  BY DEF Shape, HeardInv, Replay
<1>a. \A p \in Cached : /\ sent[g][p] = 0 => known[g][p] = 0
                        /\ InSession(g) /\ p \notin todo[g] => known[g][p] = sent[g][p]
  BY DEF HeardInv
<1>1. CASE Retries(g) /\ UNCHANGED known
  BY <1>0, <1>1, HeardOver DEF Retries
<1>2. CASE todo[g] = {} /\ phase' = [phase EXCEPT ![g] = "steady"] /\ UNCHANGED <<todo, known>>
  <2>1. InSession(g)' => InSession(g)
    BY <1>0 DEF InSession
  <2>2. QED
    BY <1>0, <1>a, <1>2, <2>1, HeardBut
<1>3. ASSUME NEW p \in NextUp(g), todo' = [todo EXCEPT ![g] = todo[g] \ {p}],
             Hears(g, p, sent[g][p]), UNCHANGED phase
      PROVE  HeardInv'
  <2>1. p \in Cached /\ sent[g][p] \in Nat
    BY <1>0, <1>3 DEF NextUp, Cached, Values
  <2>2. known' = IF alive[g] THEN [known EXCEPT ![g][p] = sent[g][p]] ELSE known
    BY <1>3, <2>1 DEF Hears
  <2>3. known' \in Values /\ \A h \in Clients \ {g} : known'[h] = known[h] /\ todo'[h] = todo[h]
    BY <1>0, <1>3, <2>1, <2>2 DEF Values
  <2>4. \A r \in Cached : r # p => known'[g][r] = known[g][r]
    BY <1>0, <2>2 DEF Values
  <2>5. alive[g] => known'[g][p] = sent[g][p]
    BY <1>0, <2>1, <2>2 DEF Values
  <2>6. ~alive[g] => known' = known
    BY <2>2
  <2>7. InSession(g)' => InSession(g) /\ alive[g]
    BY <1>0, <1>3 DEF InSession
  <2>8. todo'[g] = todo[g] \ {p}
    BY <1>0, <1>3
  <2>9. ASSUME NEW r \in Cached
        PROVE  /\ sent[g][r] = 0 => known'[g][r] = 0
               /\ InSession(g)' /\ r \notin todo'[g] => known'[g][r] = sent[g][r]
    BY <1>a, <2>4, <2>5, <2>6, <2>7, <2>8
  <2>10. phase' = [phase EXCEPT ![g] = "replay"]
    BY <1>0, <1>3
  <2>11. QED
    BY <1>0, <2>3, <2>9, <2>10, HeardBut
<1>4. QED
  BY <1>1, <1>2, <1>3 DEF Replay

LEMMA HeardDequeue ==
  ASSUME Shape, HeardInv, sent \in Values, NEW g \in Clients, Dequeue(g)
  PROVE  HeardInv'
<1>0. /\ todo \in [Clients -> SUBSET Cached] /\ UNCHANGED alive /\ known \in Values
      /\ phase \in [Clients -> Phases] /\ phase[g] = "steady" /\ todo[g] = {}
  BY DEF Shape, HeardInv, Dequeue
<1>a. \A p \in Cached : /\ sent[g][p] = 0 => known[g][p] = 0
                        /\ InSession(g) => known[g][p] = sent[g][p]
  BY <1>0 DEF HeardInv
<1>1. PICK c : c = Head(outbox[g])
  OBVIOUS
<1>2. /\ sent' \in Values /\ c \in Command /\ \A h \in Clients \ {g} : sent'[h] = sent[h]
      /\ \A p \in Cached : sent'[g][p] = IF p = c.name THEN c.value ELSE sent[g][p]
  BY <1>1, DequeueIs
<1>3. c.value \in Nat /\ c.value # 0
  BY <1>2 DEF Command, Value
<1>4. \A p \in Cached : sent'[g][p] = 0 => sent[g][p] = 0
  BY <1>2, <1>3
<1>5. CASE SessionOver(g, "backoff") /\ UNCHANGED known
  BY <1>0, <1>2, <1>4, <1>5, HeardOver
<1>6. CASE Hears(g, c.name, c.value) /\ UNCHANGED <<phase, todo>>
  <2>1. known' = IF alive[g] /\ c.name \in Cached THEN [known EXCEPT ![g][c.name] = c.value]
                 ELSE known
    BY <1>6 DEF Hears
  <2>2. known' \in Values /\ \A h \in Clients \ {g} : known'[h] = known[h]
    BY <1>0, <1>3, <2>1 DEF Values
  <2>3. ASSUME NEW p \in Cached
        PROVE  known'[g][p] = IF alive[g] /\ p = c.name THEN c.value ELSE known[g][p]
    BY <1>0, <2>1 DEF Values
  <2>4. InSession(g)' => InSession(g) /\ alive[g]
    BY <1>0, <1>6 DEF InSession
  <2>5. \A p \in Cached :
          /\ sent'[g][p] = 0 => known'[g][p] = 0
          /\ InSession(g)' => known'[g][p] = sent'[g][p]
    BY <1>a, <1>2, <1>3, <2>3, <2>4
  <2>6. phase' = [phase EXCEPT ![g] = "steady"]
    BY <1>0, <1>6
  <2>7. \A h \in Clients \ {g} : /\ sent'[h] = sent[h] /\ known'[h] = known[h]
                                   /\ todo'[h] = todo[h] /\ (alive'[h] => alive[h])
    BY <1>0, <1>2, <1>6, <2>2
  <2>8. todo'[g] = {}
    BY <1>0, <1>6
  <2>9. QED
    BY <2>2, <2>5, <2>6, <2>7, <2>8, HeardBut
<1>7. QED
  BY <1>1, <1>5, <1>6 DEF Dequeue

LEMMA HeardStep == Shape /\ QueuedInv /\ HeardInv /\ TablesInv /\ [Next]_vars => HeardInv'
<1> SUFFICES ASSUME Shape, QueuedInv, HeardInv, TablesInv, [Next]_vars PROVE HeardInv'
  OBVIOUS
<1>0. /\ sent \in Values /\ known \in Values /\ phase \in [Clients -> Phases]
      /\ todo \in [Clients -> SUBSET Cached] /\ made \in 0..MaxClients
      /\ alive \in [Clients -> BOOLEAN]
  BY DEF QueuedInv, HeardInv, Shape, TablesInv
<1>1. CASE UNCHANGED <<phase, alive, sent, todo, known>>
  BY <1>1, HeardLast DEF InSession, HeardInv
<1>2. CASE Kill
  <2>1. \A g \in Clients : sent'[g] = Nothing /\ known'[g] = Nothing /\ todo'[g] = {} /\ ~InSession(g)'
    BY <1>2 DEF Kill, InSession
  <2>2. known' \in Values
    BY <1>2, NothingIsTables DEF Kill, Values
  <2>3. \A g \in Clients : \A p \in Cached : known'[g][p] = 0
    BY <2>1 DEF Nothing
  <2>4. QED
    BY <2>1, <2>2, <2>3 DEF HeardInv
\* A client that takes up a phase outside a session.
<1>3. ASSUME NEW g \in Clients, NEW next \in {"connect", "hello", "backoff"},
             phase' = [phase EXCEPT ![g] = next], UNCHANGED <<sent, todo, known>>,
             \A h \in Clients \ {g} : alive'[h] => alive[h]
      PROVE  HeardInv'
  <2>1. ~InSession(g)'
    BY <1>0, <1>3 DEF InSession
  <2>2. \A p \in Cached : sent[g][p] = 0 => known[g][p] = 0
    BY DEF HeardInv
  <2>3. QED
    BY <1>0, <1>3, <2>1, <2>2, HeardBut
<1>4. CASE Connect
  <2>1. made + 1 \in Clients /\ phase' = [phase EXCEPT ![made + 1] = "connect"]
        /\ UNCHANGED <<alive, sent, todo, known>>
    BY <1>4, ConnectIs DEF Connect
  <2>2. QED
    BY <1>3, <2>1
<1>5. CASE Disconnect \/ ApplyConnection
  BY <1>1, <1>5 DEF Disconnect, ApplyConnection, loop
<1>6. ASSUME NEW g \in Clients, TakeStop(g) PROVE HeardInv'
  <2>1. /\ phase' = [phase EXCEPT ![g] = "ended"] /\ todo' = todo
        /\ alive' = [alive EXCEPT ![g] = FALSE]
        /\ sent' = [sent EXCEPT ![g] = Nothing] /\ known' = [known EXCEPT ![g] = Nothing]
    BY <1>6 DEF TakeStop, Returns
  <2>2. known' \in Values
        /\ \A h \in Clients \ {g} : sent'[h] = sent[h] /\ known'[h] = known[h] /\ alive'[h] = alive[h]
    BY <1>0, <2>1, NothingIsTables DEF Values
  <2>3. known'[g] = Nothing /\ \A p \in Cached : known'[g][p] = 0
    BY <1>0, <2>1 DEF Values, Nothing
  <2>4. ~InSession(g)'
    BY <1>0, <2>1 DEF InSession
  <2>5. QED
    BY <2>1, <2>2, <2>3, <2>4, HeardBut
<1>7. ASSUME NEW g \in Clients, Wake(g) PROVE HeardInv'
  BY <1>3, <1>7 DEF Wake
<1>8. ASSUME NEW g \in Clients, Dial(g) PROVE HeardInv'
  <2>1. UNCHANGED <<sent, todo, known>>
    BY <1>8 DEF Dial
  <2>2. PICK next \in {"hello", "backoff"} :
          phase' = [phase EXCEPT ![g] = next]
          /\ (alive' = [alive EXCEPT ![g] = TRUE] \/ alive' = alive)
    BY <1>8 DEF Dial
  <2>3. \A h \in Clients \ {g} : alive'[h] = alive[h]
    BY <1>0, <2>2
  <2>4. QED
    BY <1>3, <2>1, <2>2, <2>3
<1>9. ASSUME NEW g \in Clients, Hello(g) PROVE HeardInv'
  BY <1>0, <1>9, HeardHello
<1>10. ASSUME NEW g \in Clients, Replay(g) PROVE HeardInv'
  BY <1>0, <1>10, HeardReplay
<1>11. ASSUME NEW g \in Clients, Dequeue(g) PROVE HeardInv'
  BY <1>0, <1>11, HeardDequeue
<1>12. ASSUME NEW g \in Clients, ReadError(g) PROVE HeardInv'
  BY <1>0, <1>12, HeardOver DEF ReadError
<1>13. ASSUME NEW g \in Clients, Apply(g) \/ Persist(g) PROVE HeardInv'
  <2>1. UNCHANGED <<alive, sent, todo, known>> /\ phase[g] \in {"steady", "mappings", "glyphs"}
    BY <1>13 DEF Apply, Persist, Files
  <2>2. PICK next \in {"steady", "mappings", "glyphs"} : phase' = [phase EXCEPT ![g] = next]
    <3>1. CASE Apply(g)
      <4>1. phase' = [phase EXCEPT ![g] = "mappings"] \/ phase' = phase
        BY <3>1 DEF Apply
      <4>2. phase[g] = "steady"
        BY <3>1 DEF Apply
      <4>3. phase' = phase => phase' = [phase EXCEPT ![g] = "steady"]
        BY <1>0, <4>2
      <4>4. QED
        BY <4>1, <4>3
    <3>2. CASE Persist(g)
      <4>1. phase' = [phase EXCEPT ![g] = IF phase[g] = "mappings" THEN "glyphs" ELSE "steady"]
        BY <1>0, <3>2 DEF Persist
      <4>2. QED
        BY <4>1
    <3>3. QED
      BY <1>13, <3>1, <3>2
  <2>3. todo[g] = {} /\ InSession(g)' => InSession(g)
    BY <1>0, <2>1, <2>2 DEF InSession
  <2>4. /\ todo[g] = {}
        /\ \A p \in Cached : /\ sent[g][p] = 0 => known[g][p] = 0
                             /\ InSession(g) => known[g][p] = sent[g][p]
    BY <2>1 DEF HeardInv
  <2>5. QED
    BY <1>0, <2>1, <2>2, <2>3, <2>4, HeardBut
<1>14. ASSUME NEW t \in Tasks,
              Publish(t) \/ PublishDeviceState(t) \/ RouteNuimoEvent(t) \/ TaskStep(t)
       PROVE  HeardInv'
  <2>1. UNCHANGED <<phase, alive, sent, todo, known>>
    BY <1>14 DEF Publish, PublishDeviceState, RouteNuimoEvent, TaskStep, Begin, Pick, Put, loop
  <2>2. QED
    BY <1>1, <2>1
<1>15. ASSUME NEW g \in Clients, Break(g) PROVE HeardInv'
  <2>1. alive' = [alive EXCEPT ![g] = FALSE] /\ UNCHANGED <<phase, sent, todo, known>>
    BY <1>15 DEF Break
  <2>2. \A h \in Clients : alive'[h] => alive[h]
    BY <1>0, <2>1
  <2>3. QED
    BY <2>1, <2>2, HeardLast DEF InSession, HeardInv
<1>16. ASSUME NEW table \in Edited, Edit(table) PROVE HeardInv'
  BY <1>1, <1>16 DEF Edit
<1>17. CASE UNCHANGED vars
  BY <1>1, <1>17 DEF vars, loop
<1>18. QED
  BY <1>2, <1>4, <1>5, <1>6, <1>7, <1>8, <1>9, <1>10, <1>11, <1>12, <1>13, <1>14, <1>15, <1>16,
     <1>17
  DEF Next, LoopStep

\* A session that is on and has read all it was sent holds the server's
\* configuration; with its outbox empty, the server knows the last value the
\* client was given of every cached property.
THEOREM SessionsInStep == Spec => []SessionsCatchUp
<1>1. Shape /\ TablesInv /\ QueuedInv /\ HeardInv => SessionsCatchUp
  <2> SUFFICES ASSUME Shape, TablesInv, QueuedInv, HeardInv, NEW g \in Clients,
                      phase[g] = "steady", alive[g]
               PROVE  /\ down[g] = <<>> => held[g] = config
                      /\ outbox[g] = <<>> => known[g] = queued[g]
    BY DEF SessionsCatchUp
  <2>1. InSession(g) /\ todo[g] = {}
    BY DEF InSession, HeardInv
  <2>2. ASSUME down[g] = <<>> PROVE held[g] = config
    <3>1. \A k \in TableNames : Ends(<<>>, k, held[g][k], config[k])
      BY <2>1, <2>2 DEF TablesInv
    <3>2. \A k \in TableNames : held[g][k] = config[k]
      BY <3>1, EmptyEnds
    <3>3. held[g] \in Tables /\ config \in Tables
      BY DEF Shape
    <3>4. QED
      BY <3>2, <3>3 DEF Tables
  <2>3. ASSUME outbox[g] = <<>> PROVE known[g] = queued[g]
    <3>1. SaidIn(outbox[g]) = <<>>
      <4>1. Len(<<>>) = 0
        OBVIOUS
      <4>2. QED
        BY <2>3, <4>1 DEF SaidIn
    <3>2. \A p \in Cached : Ends(<<>>, p, sent[g][p], queued[g][p])
      BY <3>1 DEF QueuedInv
    <3>3. \A p \in Cached : sent[g][p] = queued[g][p]
      BY <3>2, EmptyEnds
    <3>4. \A p \in Cached : known[g][p] = sent[g][p]
      BY <2>1 DEF HeardInv
    <3>5. known[g] \in [Cached -> Nat] /\ queued[g] \in [Cached -> Nat]
      BY DEF HeardInv, QueuedInv, Values
    <3>6. QED
      BY <3>3, <3>4, <3>5
  <2>4. QED
    BY <2>2, <2>3
<1>2. QED
  BY ShapeInit, ShapeStep, TablesInit, TablesStep, QueuedInit, QueuedStep, HeardInit, HeardStep,
     <1>1, PTL DEF Spec

=============================================================================
