--------------------------- MODULE AdapterProofs ---------------------------
(***************************************************************************)
(* Proofs about the adapters: HueAdapter, for any lights, scale of         *)
(* brightness, capacity of the broadcast and number of changes, intents,   *)
(* faults and breaks; HueTapDials, for any dials, hosts, bridges and       *)
(* tokens; MacosBridge, for any capacities and number of intents, changes  *)
(* and connections lost.                                                   *)
(***************************************************************************)
EXTENDS HueAdapter, SequenceTheorems, FunctionTheorems, FiniteSetTheorems,
  WellFoundedInduction, TLAPS

-----------------------------------------------------------------------------
(* The shape of the state. *)

Of(f) == IF f = "on" THEN BOOLEAN ELSE 0..Full
Vals == BOOLEAN \cup 0..Full
\* An event tells some fields of one light.
Notice == [id : Lights, data : UNION {[D -> Vals] : D \in SUBSET Fields}]
LightEvents == {e \in Notice : \A f \in DOMAIN e.data : e.data[f] \in Of(f)}
Update == Lights \X Fields \X Vals
Requests == ({"on"} \X BOOLEAN) \cup ({"change"} \X {1, -1}) \cup ({"set"} \X {Full})

LEMMA Bounds == Full \in Nat /\ RingCap \in Nat /\ Unknown \notin LightStates
  BY LightAssumption

Shape ==
  /\ stage \in {"list", "spawn", "subscribe", "online"}
  /\ light \in [Lights -> LightStates]
  /\ cache \in [Lights -> LightStates \cup {Unknown}]
  /\ stream \in {"off", "down", "replay", "up"}
  /\ wire \in Seq(LightEvents) /\ (~Listening => wire = <<>>)
  /\ replay \in SUBSET Lights /\ (stream # "replay" => replay = {})
  /\ ring \in Seq(Update) /\ Len(ring) <= RingCap
  /\ pump \in {"none", "early", "served", "lagged"}
  /\ reported \in [Lights -> [Fields -> Vals \cup {Unknown}]]
  /\ put \in [Lights -> Requests \cup {NoPut}]
  /\ missed \subseteq Lights \X Fields
  /\ stage \in {"list", "spawn"} => stream = "off"
  /\ stage # "list" => \A l \in Lights : cache[l] \in LightStates

\* What a light is.
LEMMA LightIs ==
  ASSUME NEW s \in LightStates
  PROVE  /\ s.on \in BOOLEAN /\ s.brightness \in 0..Full
         /\ s # Unknown
         /\ \A f \in Fields : Value(s, f) \in Of(f) /\ Value(s, f) \in Vals
<1>1. s.on \in BOOLEAN /\ s.brightness \in 0..Full
  BY DEF LightStates
<1>2. ASSUME NEW f \in Fields PROVE Value(s, f) \in Of(f) /\ Value(s, f) \in Vals
  <2>1. CASE f = "on"
    BY <1>1, <2>1 DEF Value, Of, Vals
  <2>2. CASE f # "on"
    BY <1>1, <2>2 DEF Value, Of, Vals
  <2>3. QED
    BY <2>1, <2>2
<1>3. QED
  BY <1>1, <1>2, Bounds

\* What an event makes of a light: the fields it tells, and the others as
\* they were.
LEMMA MergeIs ==
  ASSUME NEW e \in LightEvents, cache[e.id] \in LightStates
  PROVE  /\ MergePartial(e) \in LightStates
         /\ \A f \in Fields : Value(MergePartial(e), f) =
              IF f \in DOMAIN e.data THEN e.data[f] ELSE Value(cache[e.id], f)
<1>1. \A f \in DOMAIN e.data : e.data[f] \in Of(f)
  BY DEF LightEvents
<1>2. cache[e.id].on \in BOOLEAN /\ cache[e.id].brightness \in 0..Full
  BY LightIs
<1>3. Told(e, "on", cache[e.id].on) \in BOOLEAN
  BY <1>1, <1>2 DEF Told, Of
<1>4. Told(e, "brightness", cache[e.id].brightness) \in 0..Full
  BY <1>1, <1>2 DEF Told, Of
<1>5. MergePartial(e) \in LightStates
  BY <1>3, <1>4 DEF MergePartial, LightStates
<1>6. ASSUME NEW f \in Fields
      PROVE  Value(MergePartial(e), f) =
               IF f \in DOMAIN e.data THEN e.data[f] ELSE Value(cache[e.id], f)
  BY DEF Value, MergePartial, Told, Fields
<1>7. QED
  BY <1>5, <1>6

\* What a request asks for is a light again.
LEMMA RequestedIs ==
  ASSUME NEW s \in LightStates, NEW r \in Requests
  PROVE  Requested(s, r) \in LightStates
<1>1. s.on \in BOOLEAN /\ s.brightness \in 0..Full /\ Full \in Nat
  BY LightIs, Bounds
<1>2. CASE r \in {"on"} \X BOOLEAN
  <2>1. r[1] = "on" /\ r[2] \in BOOLEAN
    BY <1>2
  <2>2. Requested(s, r) = [s EXCEPT !.on = r[2]]
    BY <2>1 DEF Requested
  <2>3. QED
    BY <1>1, <2>1, <2>2 DEF LightStates
<1>3. \A x \in Int : Clamped(x) \in 0..Full
  BY <1>1 DEF Clamped
<1>4. CASE r \in {"change"} \X {1, -1}
  <2>1. r[1] = "change" /\ r[2] \in {1, -1}
    BY <1>4
  <2>2. Requested(s, r) = [s EXCEPT !.brightness = Clamped(s.brightness + r[2])]
    BY <2>1 DEF Requested
  <2>3. s.brightness + r[2] \in Int
    BY <1>1, <2>1
  <2>4. Clamped(s.brightness + r[2]) \in 0..Full
    BY <1>3, <2>3
  <2>5. QED
    BY <2>2, <2>4 DEF LightStates
<1>5. CASE r \in {"set"} \X {Full}
  <2>1. r[1] = "set" /\ r[2] \in Int
    BY <1>1, <1>5
  <2>2. Requested(s, r) = [s EXCEPT !.brightness = Clamped(r[2])]
    BY <2>1 DEF Requested
  <2>3. Clamped(r[2]) \in 0..Full
    BY <1>3, <2>1
  <2>4. QED
    BY <2>2, <2>3 DEF LightStates
<1>6. QED
  BY <1>2, <1>4, <1>5 DEF Requests

\* A change at the bridge: what the stream is told, and what is missed.
LEMMA BecomesIs ==
  ASSUME Shape, NEW l \in Lights, NEW now \in LightStates, Becomes(l, now)
  PROVE  /\ light' = [light EXCEPT ![l] = now] /\ light' \in [Lights -> LightStates]
         /\ wire' \in Seq(LightEvents) /\ (~Listening => wire' = wire)
         /\ missed' \subseteq Lights \X Fields
         /\ ~Listening => \A f \in Fields :
              <<l, f>> \notin missed' => Value(now, f) = Value(light[l], f)
         /\ \A m \in Lights, f \in Fields : m # l => (<<m, f>> \in missed' <=> <<m, f>> \in missed)
         /\ \A f \in Fields : Value(now, f) = Value(light[l], f) =>
              (<<l, f>> \in missed' <=> <<l, f>> \in missed)
         /\ Listening =>
              \/ wire' = wire /\ \A f \in Fields : Value(now, f) = Value(light[l], f)
              \/ \E e \in LightEvents :
                   /\ wire' = Append(wire, e) /\ e.id = l
                   /\ \A f \in Fields :
                        IF f \in DOMAIN e.data THEN e.data[f] = Value(now, f)
                        ELSE Value(now, f) = Value(light[l], f)
<1>1. /\ light \in [Lights -> LightStates] /\ wire \in Seq(LightEvents)
      /\ missed \subseteq Lights \X Fields
  BY DEF Shape
<1> DEFINE changed == {f \in Fields : Value(now, f) # Value(light[l], f)}
           keys == {<<l, f>> : f \in changed}
           e == [id |-> l, data |-> [f \in changed |-> Value(now, f)]]
<1>2. /\ light' = [light EXCEPT ![l] = now]
      /\ wire' = IF Listening /\ changed # {} THEN Append(wire, e) ELSE wire
      /\ missed' = IF Listening THEN missed \ keys ELSE missed \cup keys
  BY DEF Becomes
<1>3. \A f \in Fields : f \notin changed <=> Value(now, f) = Value(light[l], f)
  OBVIOUS
<1>4. /\ \A f \in Fields : <<l, f>> \in keys <=> f \in changed
      /\ \A m \in Lights, f \in Fields : m # l => <<m, f>> \notin keys
      /\ keys \subseteq Lights \X Fields
  OBVIOUS
<1>5. /\ e \in LightEvents /\ e.id = l /\ DOMAIN e.data = changed
      /\ \A f \in changed : e.data[f] = Value(now, f)
  <2>1. /\ e.id = l /\ e.data = [f \in changed |-> Value(now, f)] /\ DOMAIN e.data = changed
        /\ changed \in SUBSET Fields
    OBVIOUS
  <2>2. \A f \in changed : e.data[f] = Value(now, f) /\ e.data[f] \in Of(f) /\ e.data[f] \in Vals
    BY LightIs
  <2>3. e.data \in [changed -> Vals]
    BY <2>1, <2>2
  <2>4. e \in Notice
    BY <2>1, <2>3 DEF Notice
  <2>5. QED
    BY <2>1, <2>2, <2>4 DEF LightEvents
<1> HIDE DEF keys, changed, e
<1>6. Append(wire, e) \in Seq(LightEvents)
  BY <1>1, <1>5, AppendProperties
<1>7. light' \in [Lights -> LightStates] /\ wire' \in Seq(LightEvents)
      /\ missed' \subseteq Lights \X Fields
  BY <1>1, <1>2, <1>4, <1>6
<1>8. \A m \in Lights, f \in Fields : m # l => (<<m, f>> \in missed' <=> <<m, f>> \in missed)
  BY <1>2, <1>4
<1>9. \A f \in Fields : Value(now, f) = Value(light[l], f) =>
        (<<l, f>> \in missed' <=> <<l, f>> \in missed)
  BY <1>2, <1>3, <1>4
<1>10. ~Listening => \A f \in Fields :
         <<l, f>> \notin missed' => Value(now, f) = Value(light[l], f)
  BY <1>2, <1>3, <1>4
<1>11. Listening =>
         \/ wire' = wire /\ \A f \in Fields : Value(now, f) = Value(light[l], f)
         \/ /\ wire' = Append(wire, e)
            /\ \A f \in Fields : IF f \in DOMAIN e.data THEN e.data[f] = Value(now, f)
                                 ELSE Value(now, f) = Value(light[l], f)
  <2>1. \A f \in Fields : IF f \in DOMAIN e.data THEN e.data[f] = Value(now, f)
                                 ELSE Value(now, f) = Value(light[l], f)
    BY <1>3, <1>5
  <2>2. CASE changed = {}
    BY <1>2, <1>3, <2>2
  <2>3. CASE changed # {}
    BY <1>2, <2>1, <2>3
  <2>4. QED
    BY <2>2, <2>3
<1>12. QED
  BY <1>2, <1>5, <1>7, <1>8, <1>9, <1>10, <1>11

\* A broadcast that overwrites nothing adds the two fields of the light.
LEMMA BroadcastIs ==
  ASSUME Shape, NEW l \in Lights, NEW now \in LightStates, Broadcast(l, now)
  PROVE  /\ ring' \in Seq(Update) /\ Len(ring') <= RingCap
         /\ pump' \in {"none", "early", "served", "lagged"}
         /\ pump' = "served" => pump = "served" /\ ring' = ring \o <<<<l, "on", now.on>>,
                                                      <<l, "brightness", now.brightness>>>>
         /\ pump = "none" <=> pump' = "none"
<1>1. ring \in Seq(Update) /\ Len(ring) \in Nat /\ Len(ring) <= RingCap /\ RingCap \in Nat
      /\ pump \in {"none", "early", "served", "lagged"}
  BY Bounds DEF Shape
<1>2. CASE pump = "none"
  BY <1>1, <1>2 DEF Broadcast
<1>3. CASE pump # "none"
  <2> DEFINE two == <<<<l, "on", now.on>>, <<l, "brightness", now.brightness>>>>
             all == ring \o two
             over == IF Len(all) > RingCap THEN Len(all) - RingCap ELSE 0
  <2>1. two \in Seq(Update)
    <3>1. now.on \in Vals /\ now.brightness \in Vals
      BY LightIs DEF Vals
    <3>2. <<l, "on", now.on>> \in Update /\ <<l, "brightness", now.brightness>> \in Update
      BY <3>1 DEF Update, Fields
    <3>3. QED
      BY <3>2
  <2>2. all \in Seq(Update) /\ Len(all) \in Nat
    BY <1>1, <2>1, ConcatProperties
  <2>3. /\ ring' = SubSeq(all, over + 1, Len(all))
        /\ pump' = IF over > 0 THEN "lagged" ELSE pump
    BY <1>3 DEF Broadcast
  <2> HIDE DEF two
  <2> HIDE DEF all
  <2>4. /\ over \in Nat /\ over <= Len(all) /\ Len(all) - over <= RingCap
        /\ ~(over > 0) => over = 0
    BY <1>1, <2>2
  <2> HIDE DEF over
  <2>5. \A i \in over + 1 .. Len(all) : all[i] \in Update
    BY <2>2, <2>4
  <2>6. /\ SubSeq(all, over + 1, Len(all)) \in Seq(Update)
        /\ Len(SubSeq(all, over + 1, Len(all))) = IF over + 1 <= Len(all)
                                                   THEN Len(all) - (over + 1) + 1 ELSE 0
    <3>1. over + 1 \in Int /\ Len(all) \in Int
      BY <2>2, <2>4
    <3>2. QED
      BY <2>5, <3>1, SubSeqProperties
  <2>7. Len(ring') <= RingCap
    BY <1>1, <2>2, <2>3, <2>4, <2>6
  <2>8. over = 0 => ring' = all
    BY <2>2, <2>3, SubSeqFull
  <2>9. pump' = "served" => pump = "served" /\ ring' = all
    BY <2>3, <2>4, <2>8
  <2>10. QED
    BY <1>1, <1>3, <2>3, <2>6, <2>7, <2>9 DEF all, two
<1>4. QED
  BY <1>2, <1>3

LEMMA ShapeInit == Init => Shape
<1> SUFFICES ASSUME Init PROVE Shape
  OBVIOUS
<1>1. Len(<<>>) = 0 /\ 0 <= RingCap
  BY Bounds
<1>2. ring = <<>> /\ wire = <<>> /\ <<>> \in Seq(Update) /\ <<>> \in Seq(LightEvents)
  BY DEF Init
<1>3. /\ reported \in [Lights -> [Fields -> Vals \cup {Unknown}]]
      /\ put \in [Lights -> Requests \cup {NoPut}]
      /\ cache \in [Lights -> LightStates \cup {Unknown}] /\ light \in [Lights -> LightStates]
  BY DEF Init
<1>4. /\ stage = "list" /\ stream = "off" /\ replay = {} /\ pump = "none" /\ missed = {}
  BY DEF Init
<1>5. QED
  BY <1>1, <1>2, <1>3, <1>4 DEF Shape

\* What is taken from the front of the ring and of the wire leaves the rest.
LEMMA PumpTakeIs ==
  ASSUME Shape, PumpTake
  PROVE  /\ ring' \in Seq(Update) /\ Len(ring') <= RingCap
         /\ Len(ring) \in Nat /\ Len(ring) > 0 /\ Len(ring') = Len(ring) - 1
         /\ \A i \in 1..Len(ring') : ring'[i] = ring[i + 1]
         /\ ring[1] \in Update
         /\ reported' \in [Lights -> [Fields -> Vals \cup {Unknown}]]
         /\ reported'[ring[1][1]][ring[1][2]] = ring[1][3]
         /\ \A l \in Lights, f \in Fields :
              l # ring[1][1] \/ f # ring[1][2] => reported'[l][f] = reported[l][f]
<1>1. /\ ring \in Seq(Update) /\ Len(ring) <= RingCap /\ RingCap \in Nat
      /\ reported \in [Lights -> [Fields -> Vals \cup {Unknown}]]
      /\ ring # <<>> /\ ring' = Tail(ring)
  BY Bounds DEF Shape, PumpTake
<1>2. /\ Tail(ring) \in Seq(Update) /\ Len(Tail(ring)) = Len(ring) - 1
      /\ \A i \in 1..Len(Tail(ring)) : Tail(ring)[i] = ring[i + 1]
      /\ Head(ring) \in Update /\ Head(ring) = ring[1] /\ Len(ring) \in Nat /\ Len(ring) > 0
  BY <1>1, HeadTailProperties, EmptySeq
<1>3. PICK l \in Lights, f \in Fields, v \in Vals : ring[1] = <<l, f, v>>
  BY <1>2 DEF Update
<1>4. ring[1][1] = l /\ ring[1][2] = f /\ ring[1][3] = v
  BY <1>3
<1>5. reported' = [reported EXCEPT ![l][f] = v]
  BY <1>2, <1>4 DEF PumpTake
<1>6. /\ reported' \in [Lights -> [Fields -> Vals \cup {Unknown}]]
      /\ reported'[l][f] = v
      /\ \A m \in Lights, h \in Fields : m # l \/ h # f => reported'[m][h] = reported[m][h]
  BY <1>1, <1>5
<1>7. QED
  BY <1>1, <1>2, <1>4, <1>6

LEMMA LightEventIs ==
  ASSUME Shape, LightEvent
  PROVE  /\ wire[1] \in LightEvents /\ wire[1].id \in Lights /\ stage # "list"
         /\ wire' \in Seq(LightEvents) /\ Len(wire) \in Nat /\ Len(wire) > 0
         /\ Len(wire') = Len(wire) - 1 /\ \A i \in 1..Len(wire') : wire'[i] = wire[i + 1]
         /\ cache' = [cache EXCEPT ![wire[1].id] = MergePartial(wire[1])]
         /\ MergePartial(wire[1]) \in LightStates
         /\ Broadcast(wire[1].id, MergePartial(wire[1]))
         /\ \A f \in Fields : Value(MergePartial(wire[1]), f) =
              IF f \in DOMAIN wire[1].data THEN wire[1].data[f] ELSE Value(cache[wire[1].id], f)
<1>1. /\ wire \in Seq(LightEvents) /\ wire # <<>> /\ wire' = Tail(wire) /\ stage # "list"
      /\ \A l \in Lights : cache[l] \in LightStates
  BY DEF Shape, LightEvent
<1>2. /\ Tail(wire) \in Seq(LightEvents) /\ Len(Tail(wire)) = Len(wire) - 1
      /\ \A i \in 1..Len(Tail(wire)) : Tail(wire)[i] = wire[i + 1]
      /\ Head(wire) \in LightEvents /\ Head(wire) = wire[1] /\ Len(wire) \in Nat /\ Len(wire) > 0
  BY <1>1, HeadTailProperties, EmptySeq
<1>3. PICK e : e = wire[1]
  OBVIOUS
<1>4. e \in LightEvents /\ e.id \in Lights
  BY <1>2, <1>3 DEF LightEvents, Notice
<1>5. cache[e.id] \in LightStates /\ cache[e.id] # Unknown
  BY <1>1, <1>4, Bounds
<1>6. cache' = [cache EXCEPT ![e.id] = MergePartial(e)] /\ Broadcast(e.id, MergePartial(e))
  BY <1>2, <1>3, <1>5 DEF LightEvent
<1>7. /\ MergePartial(e) \in LightStates
      /\ \A f \in Fields : Value(MergePartial(e), f) =
           IF f \in DOMAIN e.data THEN e.data[f] ELSE Value(cache[e.id], f)
  BY <1>4, <1>5, MergeIs
<1>8. QED
  BY <1>1, <1>2, <1>3, <1>4, <1>6, <1>7

LEMMA ShapeStep == Shape /\ [Next]_vars => Shape'
<1> SUFFICES ASSUME Shape, [Next]_vars PROVE Shape'
  OBVIOUS
<1>0. /\ stage \in {"list", "spawn", "subscribe", "online"}
      /\ light \in [Lights -> LightStates]
      /\ cache \in [Lights -> LightStates \cup {Unknown}]
      /\ stream \in {"off", "down", "replay", "up"}
      /\ wire \in Seq(LightEvents) /\ (~Listening => wire = <<>>)
      /\ replay \in SUBSET Lights /\ (stream # "replay" => replay = {})
      /\ ring \in Seq(Update) /\ Len(ring) <= RingCap
      /\ pump \in {"none", "early", "served", "lagged"}
      /\ reported \in [Lights -> [Fields -> Vals \cup {Unknown}]]
      /\ put \in [Lights -> Requests \cup {NoPut}]
      /\ missed \subseteq Lights \X Fields
      /\ stage \in {"list", "spawn"} => stream = "off"
      /\ stage # "list" => \A l \in Lights : cache[l] \in LightStates
  BY DEF Shape
<1>1. CASE UNCHANGED vars
  BY <1>0, <1>1 DEF Shape, vars, Listening
<1>2. CASE ListLights
  BY <1>0, <1>2 DEF ListLights, Fault, Shape, Listening
<1>3. CASE SpawnStream
  BY <1>0, <1>3 DEF SpawnStream, Shape, Listening
<1>4. CASE Subscribe
  BY <1>0, <1>4 DEF Subscribe, Shape, Listening
<1>5. CASE Open
  <2>1. replay' \subseteq Lights /\ stream' = "replay" /\ stage # "list"
    BY <1>0, <1>5 DEF Open
  <2>2. pump' \in {"none", "early", "served", "lagged"}
    BY <1>5 DEF Open, Served
  <2>3. QED
    BY <1>0, <1>5, <2>1, <2>2 DEF Open, Shape, Listening
<1>6. CASE ReplayOne
  <2>1. PICK l \in replay : replay' = replay \ {l} /\ Broadcast(l, cache[l])
    BY <1>6 DEF ReplayOne
  <2>2. stage # "list" /\ stream = "replay"
    BY <1>0, <1>6 DEF ReplayOne
  <2>3. l \in Lights /\ cache[l] \in LightStates
    BY <1>0, <2>1, <2>2
  <2>4. /\ ring' \in Seq(Update) /\ Len(ring') <= RingCap
        /\ pump' \in {"none", "early", "served", "lagged"}
    BY <2>1, <2>3, BroadcastIs
  <2>5. QED
    BY <1>0, <1>6, <2>1, <2>2, <2>4 DEF ReplayOne, Shape, Listening
<1>7. CASE ReplayDone
  BY <1>0, <1>7 DEF ReplayDone, Shape, Listening
<1>8. CASE LightEvent
  <2>1. /\ wire[1].id \in Lights /\ MergePartial(wire[1]) \in LightStates
        /\ wire' \in Seq(LightEvents) /\ stage # "list"
        /\ cache' = [cache EXCEPT ![wire[1].id] = MergePartial(wire[1])]
        /\ Broadcast(wire[1].id, MergePartial(wire[1]))
    BY <1>8, LightEventIs
  <2>2. /\ ring' \in Seq(Update) /\ Len(ring') <= RingCap
        /\ pump' \in {"none", "early", "served", "lagged"}
    BY <2>1, BroadcastIs
  <2>3. /\ cache' \in [Lights -> LightStates \cup {Unknown}]
        /\ \A l \in Lights : cache'[l] \in LightStates
    BY <1>0, <2>1
  <2>4. /\ stream = "up"
        /\ UNCHANGED <<light, stage, stream, replay, reported, put, missed>>
    BY <1>8 DEF LightEvent
  <2>5. QED
    BY <1>0, <2>1, <2>2, <2>3, <2>4 DEF Shape, Listening
<1>9. CASE Break
  <2>1. missed' \subseteq Lights \X Fields
    <3>1. ASSUME NEW i \in DOMAIN wire, NEW f \in DOMAIN wire[i].data
          PROVE  wire[i].id \in Lights /\ f \in Fields
      <4>1. wire[i] \in Notice
        BY <1>0, <3>1 DEF LightEvents
      <4>2. QED
        BY <3>1, <4>1 DEF Notice
    <3>2. missed' = missed \cup UNION {{<<wire[i].id, f>> : f \in DOMAIN wire[i].data} :
                                         i \in DOMAIN wire}
      BY <1>9 DEF Break
    <3>3. QED
      BY <1>0, <3>1, <3>2
  <2>2. wire' \in Seq(LightEvents) /\ wire' = <<>>
    BY <1>9 DEF Break
  <2>3. /\ stream' = "down" /\ replay' = {} /\ pump' \in {"none", "early", "served", "lagged"}
        /\ stage \notin {"list", "spawn"} /\ UNCHANGED <<light, stage, cache, ring, reported, put>>
    BY <1>0, <1>9 DEF Break, Listening
  <2>4. QED
    BY <1>0, <2>1, <2>2, <2>3 DEF Shape
<1>10. CASE PumpTake
  <2>1. UNCHANGED <<light, stage, cache, stream, wire, replay, pump, put, missed>>
    BY <1>10 DEF PumpTake
  <2>2. /\ ring' \in Seq(Update) /\ Len(ring') <= RingCap
        /\ reported' \in [Lights -> [Fields -> Vals \cup {Unknown}]]
    BY <1>10, PumpTakeIs
  <2>3. QED
    BY <1>0, <2>1, <2>2 DEF Shape, Listening
<1>11. ASSUME NEW l \in Lights, NEW now \in LightStates, Becomes(l, now),
              put' \in [Lights -> Requests \cup {NoPut}],
              UNCHANGED <<stage, cache, stream, replay, ring, pump, reported>>
       PROVE  Shape'
  <2>1. /\ light' \in [Lights -> LightStates] /\ missed' \subseteq Lights \X Fields
        /\ wire' \in Seq(LightEvents) /\ (~Listening => wire' = wire)
    BY <1>11, BecomesIs
  <2>2. QED
    BY <1>0, <1>11, <2>1 DEF Shape, Listening
<1>12. ASSUME NEW l \in Lights, Touch(l) PROVE Shape'
  <2>1. PICK now \in LightStates : Becomes(l, now)
    BY <1>12 DEF Touch
  <2>2. QED
    BY <1>0, <1>11, <1>12, <2>1 DEF Touch
<1>13. ASSUME NEW l \in Lights, Submit(l) PROVE Shape'
  <2>1. Toggled(l) \in BOOLEAN
    BY <1>0, LightIs DEF Toggled
  <2>2. PICK request \in {<<"on", TRUE>>, <<"on", FALSE>>, <<"on", Toggled(l)>>,
                          <<"change", 1>>, <<"change", -1>>, <<"set", Full>>} :
          put' = [put EXCEPT ![l] = request]
    BY <1>13 DEF Submit
  <2>3. <<"on", TRUE>> \in Requests /\ <<"on", FALSE>> \in Requests
        /\ <<"on", Toggled(l)>> \in Requests
    BY <2>1 DEF Requests
  <2>4. <<"change", 1>> \in Requests /\ <<"change", -1>> \in Requests /\ <<"set", Full>> \in Requests
    BY DEF Requests
  <2>5. put' \in [Lights -> Requests \cup {NoPut}]
    BY <1>0, <2>2, <2>3, <2>4
  <2>6. UNCHANGED <<light, stage, cache, stream, wire, replay, ring, pump, reported, missed>>
    BY <1>13 DEF Submit
  <2>7. QED
    BY <1>0, <2>5, <2>6 DEF Shape, Listening
<1>14. ASSUME NEW l \in Lights, Put(l) PROVE Shape'
  <2>1. put[l] \in Requests /\ put' \in [Lights -> Requests \cup {NoPut}]
    BY <1>0, <1>14 DEF Put
  <2>2. UNCHANGED <<stage, cache, stream, replay, ring, pump, reported>>
    BY <1>14 DEF Put
  <2>3. CASE Becomes(l, Requested(light[l], put[l]))
    <3>1. light[l] \in LightStates
      BY <1>0
    <3>2. Requested(light[l], put[l]) \in LightStates
      BY <2>1, <3>1, RequestedIs
    <3>3. QED
      BY <1>11, <2>1, <2>2, <2>3, <3>2
  <2>4. CASE UNCHANGED <<light, wire, missed>>
    BY <1>0, <2>1, <2>2, <2>4 DEF Shape, Listening
  <2>5. QED
    BY <1>14, <2>3, <2>4 DEF Put
<1>15. QED
  BY <1>1, <1>2, <1>3, <1>4, <1>5, <1>6, <1>7, <1>8, <1>9, <1>10, <1>12, <1>13, <1>14
  DEF Next, Start, Stream

\* Every table holds what it may hold, and the pump's receiver is within its
\* capacity.
THEOREM LightsTyped == Spec => []TypeOK
<1>1. Shape => TypeOK
  BY DEF Shape, TypeOK
<1>2. QED
  BY ShapeInit, ShapeStep, <1>1, PTL DEF Spec

-----------------------------------------------------------------------------
(* The cache follows the lights. *)

Tells(event, l, f) == event.id = l /\ f \in DOMAIN event.data

\* The last event on the wire about a field carries its value, and without
\* one the cache has it.
Agrees(l, f) ==
  \/ /\ \A i \in 1..Len(wire) : ~Tells(wire[i], l, f)
     /\ Value(cache[l], f) = Value(light[l], f)
  \/ \E i \in 1..Len(wire) :
       /\ Tells(wire[i], l, f) /\ wire[i].data[f] = Value(light[l], f)
       /\ \A j \in 1..Len(wire) : j > i => ~Tells(wire[j], l, f)

CacheInv ==
  stage # "list" => \A l \in Lights, f \in Fields : <<l, f>> \in missed \/ Agrees(l, f)

LEMMA CacheInit == Init => CacheInv
  BY DEF Init, CacheInv

LEMMA CacheLasts ==
  ASSUME CacheInv, UNCHANGED <<light, wire, cache, missed>>, stage' # "list" => stage # "list"
  PROVE  CacheInv'
<1>1. ASSUME NEW l, NEW f, Agrees(l, f) PROVE Agrees(l, f)'
  BY <1>1, Zenon DEF Agrees, Tells
<1>2. missed' = missed
  OBVIOUS
<1>3. QED
  BY <1>1, <1>2 DEF CacheInv

\* A change of a light is on the wire, last, or is missed.
LEMMA AgreesBecomes ==
  ASSUME Shape, CacheInv, NEW l \in Lights, NEW now \in LightStates, Becomes(l, now),
         UNCHANGED <<stage, cache, stream>>
  PROVE  CacheInv'
<1> SUFFICES ASSUME stage # "list", NEW m \in Lights, NEW f \in Fields, <<m, f>> \notin missed'
             PROVE  Agrees(m, f)'
  BY DEF CacheInv
<1>1. /\ light' = [light EXCEPT ![l] = now] /\ light \in [Lights -> LightStates]
      /\ wire \in Seq(LightEvents) /\ Len(wire) \in Nat
  BY BecomesIs DEF Shape
<1>2. /\ light'[l] = now /\ (m # l => light'[m] = light[m])
  BY <1>1
\* Nothing is said of the field: its value stays.
<1>3. CASE wire' = wire /\ Value(light'[m], f) = Value(light[m], f) /\ <<m, f>> \notin missed
  <2>1. Agrees(m, f)
    BY <1>3 DEF CacheInv
  <2>2. QED
    BY <1>3, <2>1 DEF Agrees, Tells
\* The stream is told.
<1>4. ASSUME NEW e \in LightEvents, wire' = Append(wire, e), e.id = l,
             \A h \in Fields : IF h \in DOMAIN e.data THEN e.data[h] = Value(now, h)
                               ELSE Value(now, h) = Value(light[l], h)
      PROVE  Agrees(m, f)'
  <2>1. /\ Len(wire') = Len(wire) + 1 /\ wire'[Len(wire) + 1] = e
        /\ \A i \in 1..Len(wire) : wire'[i] = wire[i]
    BY <1>1, <1>4, AppendProperties
  <2>2. CASE Tells(e, m, f)
    <3>1. e.data[f] = Value(light'[m], f)
      BY <1>2, <1>4, <2>2 DEF Tells
    <3>2. \A j \in 1..Len(wire') : ~(j > Len(wire) + 1)
      BY <1>1, <2>1
    <3>3. Len(wire) + 1 \in 1..Len(wire')
      BY <1>1, <2>1
    <3>4. Tells(wire'[Len(wire) + 1], m, f) /\ wire'[Len(wire) + 1].data[f] = Value(light'[m], f)
      BY <2>1, <2>2, <3>1
    <3>5. QED
      BY <3>2, <3>3, <3>4 DEF Agrees, Tells
  <2>3. CASE ~Tells(e, m, f)
    <3>1. Value(light'[m], f) = Value(light[m], f)
      BY <1>2, <1>4, <2>3 DEF Tells
    <3>2. <<m, f>> \notin missed
      BY <1>2, <1>4, <2>3, <3>1, BecomesIs
    <3>3. Agrees(m, f)
      BY <3>2 DEF CacheInv
    <3>4. \A i \in 1..Len(wire') : i \in 1..Len(wire) \/ (i = Len(wire) + 1 /\ ~Tells(wire'[i], m, f))
      BY <1>1, <2>1, <2>3
    <3>5. CASE \A i \in 1..Len(wire) : ~Tells(wire[i], m, f)
      <4>1. Value(cache'[m], f) = Value(light'[m], f)
        BY <3>1, <3>3, <3>5 DEF Agrees
      <4>2. \A i \in 1..Len(wire') : ~Tells(wire'[i], m, f)
        BY <2>1, <3>4, <3>5
      <4>3. QED
        BY <4>1, <4>2 DEF Agrees, Tells
    <3>6. CASE ~\A i \in 1..Len(wire) : ~Tells(wire[i], m, f)
      <4>1. PICK i \in 1..Len(wire) :
              /\ Tells(wire[i], m, f) /\ wire[i].data[f] = Value(light[m], f)
              /\ \A j \in 1..Len(wire) : j > i => ~Tells(wire[j], m, f)
        BY <3>3, <3>6 DEF Agrees
      <4>2. i \in 1..Len(wire') /\ wire'[i] = wire[i]
        BY <1>1, <2>1
      <4>3. \A j \in 1..Len(wire') : j > i => ~Tells(wire'[j], m, f)
        BY <2>1, <3>4, <4>1
      <4>4. Tells(wire'[i], m, f) /\ wire'[i].data[f] = Value(light'[m], f)
        BY <3>1, <4>1, <4>2
      <4>5. QED
        BY <4>2, <4>3, <4>4 DEF Agrees, Tells
    <3>7. QED
      BY <3>5, <3>6
  <2>4. QED
    BY <2>2, <2>3
<1>5. CASE Listening
  <2>1. CASE wire' = wire /\ \A h \in Fields : Value(now, h) = Value(light[l], h)
    <3>1. Value(light'[m], f) = Value(light[m], f) /\ <<m, f>> \notin missed
      BY <1>2, <2>1, BecomesIs
    <3>2. QED
      BY <1>3, <2>1, <3>1
  <2>2. QED
    BY <1>4, <1>5, <2>1, BecomesIs
<1>6. CASE ~Listening
  <2>1. wire' = wire
    BY <1>6, BecomesIs
  <2>2. m = l => Value(now, f) = Value(light[l], f)
    BY <1>6, BecomesIs
  <2>3. Value(light'[m], f) = Value(light[m], f) /\ <<m, f>> \notin missed
    BY <1>2, <2>2, BecomesIs
  <2>4. QED
    BY <1>3, <2>1, <2>3
<1>7. QED
  BY <1>5, <1>6

\* An event that is applied hands its fields to the cache.
LEMMA AgreesApplied ==
  ASSUME Shape, CacheInv, LightEvent
  PROVE  CacheInv'
<1>0. UNCHANGED <<light, stage, missed>>
  BY DEF LightEvent
<1> SUFFICES ASSUME stage # "list", NEW l \in Lights, NEW f \in Fields, <<l, f>> \notin missed
             PROVE  Agrees(l, f)'
  BY <1>0 DEF CacheInv
<1>1. PICK e : e = wire[1]
  OBVIOUS
<1>2. /\ e \in LightEvents /\ e.id \in Lights /\ Len(wire) \in Nat /\ Len(wire) > 0
      /\ Len(wire') = Len(wire) - 1 /\ \A i \in 1..Len(wire') : wire'[i] = wire[i + 1]
      /\ cache' = [cache EXCEPT ![e.id] = MergePartial(e)]
      /\ \A h \in Fields : Value(MergePartial(e), h) =
           IF h \in DOMAIN e.data THEN e.data[h] ELSE Value(cache[e.id], h)
  BY <1>1, LightEventIs
<1>3. cache \in [Lights -> LightStates \cup {Unknown}]
  BY DEF Shape
<1>4. Value(cache'[l], f) = IF Tells(e, l, f) THEN e.data[f] ELSE Value(cache[l], f)
  <2>1. cache'[l] = IF e.id = l THEN MergePartial(e) ELSE cache[l]
    BY <1>2, <1>3
  <2>2. QED
    BY <1>2, <2>1 DEF Tells
<1>5. Agrees(l, f)
  BY DEF CacheInv
<1>6. CASE \A i \in 1..Len(wire) : ~Tells(wire[i], l, f)
  <2>1. ~Tells(e, l, f) /\ \A i \in 1..Len(wire') : ~Tells(wire'[i], l, f)
    BY <1>1, <1>2, <1>6
  <2>2. Value(cache'[l], f) = Value(light'[l], f)
    BY <1>0, <1>4, <1>5, <1>6, <2>1 DEF Agrees
  <2>3. QED
    BY <2>1, <2>2 DEF Agrees, Tells
<1>7. CASE ~\A i \in 1..Len(wire) : ~Tells(wire[i], l, f)
  <2>1. PICK i \in 1..Len(wire) :
          /\ Tells(wire[i], l, f) /\ wire[i].data[f] = Value(light[l], f)
          /\ \A j \in 1..Len(wire) : j > i => ~Tells(wire[j], l, f)
    BY <1>5, <1>7 DEF Agrees
  <2>2. CASE i = 1
    <3>1. \A j \in 1..Len(wire') : j + 1 \in 1..Len(wire) /\ j + 1 > i
      BY <1>2, <2>2
    <3>2. \A j \in 1..Len(wire') : ~Tells(wire'[j], l, f)
      BY <1>2, <2>1, <3>1
    <3>3. Value(cache'[l], f) = Value(light'[l], f)
      BY <1>0, <1>1, <1>4, <2>1, <2>2
    <3>4. QED
      BY <3>2, <3>3 DEF Agrees, Tells
  <2>3. CASE i # 1
    <3>1. i - 1 \in 1..Len(wire') /\ wire'[i - 1] = wire[i]
      <4>1. i - 1 \in 1..Len(wire')
        BY <1>2, <2>3
      <4>2. wire'[i - 1] = wire[(i - 1) + 1] /\ (i - 1) + 1 = i
        BY <1>2, <4>1
      <4>3. QED
        BY <4>1, <4>2
    <3>2. \A j \in 1..Len(wire') : j > i - 1 => ~Tells(wire'[j], l, f)
      <4>1. \A j \in 1..Len(wire') : j > i - 1 => j + 1 \in 1..Len(wire) /\ j + 1 > i
        BY <1>2
      <4>2. QED
        BY <1>2, <2>1, <4>1
    <3>3. Tells(wire'[i - 1], l, f) /\ wire'[i - 1].data[f] = Value(light'[l], f)
      BY <1>0, <2>1, <3>1
    <3>4. QED
      BY <3>1, <3>2, <3>3 DEF Agrees, Tells
  <2>4. QED
    BY <2>2, <2>3
<1>8. QED
  BY <1>6, <1>7

LEMMA CacheStep == Shape /\ CacheInv /\ [Next]_vars => CacheInv'
<1> SUFFICES ASSUME Shape, CacheInv, [Next]_vars PROVE CacheInv'
  OBVIOUS
<1>1. CASE UNCHANGED vars
  BY <1>1, CacheLasts DEF vars
<1>2. CASE ListLights
  <2>1. CASE stage' = "spawn" /\ cache' = light
    <3>1. wire = <<>> /\ wire' = wire /\ light' = light
      BY <1>2 DEF ListLights, Shape, Listening
    <3>2. \A i \in 1..Len(wire') : FALSE
      BY <3>1, EmptySeq
    <3>3. QED
      BY <2>1, <3>1, <3>2 DEF CacheInv, Agrees
  <2>2. CASE stage' = stage
    BY <1>2, <2>2 DEF ListLights, CacheInv
  <2>3. QED
    BY <1>2, <2>1, <2>2 DEF ListLights
<1>3. CASE SpawnStream
  BY <1>3, CacheLasts DEF SpawnStream
<1>4. CASE Subscribe
  BY <1>4, CacheLasts DEF Subscribe
<1>5. CASE Open \/ ReplayOne \/ ReplayDone \/ PumpTake
  BY <1>5, CacheLasts DEF Open, ReplayOne, ReplayDone, PumpTake
<1>6. CASE LightEvent
  BY <1>6, AgreesApplied
<1>7. CASE Break
  <2>1. /\ UNCHANGED <<light, stage, cache>> /\ wire' = <<>>
        /\ missed' = missed \cup UNION {{<<wire[i].id, f>> : f \in DOMAIN wire[i].data} :
                                          i \in DOMAIN wire}
    BY <1>7 DEF Break
  <2>2. DOMAIN wire = 1..Len(wire)
    BY DEF Shape
  <2>3. SUFFICES ASSUME stage # "list", NEW l \in Lights, NEW f \in Fields, <<l, f>> \notin missed'
                 PROVE  Agrees(l, f)'
    BY <2>1 DEF CacheInv
  <2>4. \A i \in 1..Len(wire) : ~Tells(wire[i], l, f)
    BY <2>1, <2>2, <2>3 DEF Tells
  <2>5. <<l, f>> \notin missed
    BY <2>1, <2>3
  <2>6. Value(cache'[l], f) = Value(light'[l], f)
    BY <2>1, <2>3, <2>4, <2>5 DEF CacheInv, Agrees
  <2>7. \A i \in 1..Len(wire') : FALSE
    BY <2>1, EmptySeq
  <2>8. QED
    BY <2>6, <2>7 DEF Agrees
<1>8. ASSUME NEW l \in Lights, Touch(l) PROVE CacheInv'
  BY <1>8, AgreesBecomes DEF Touch
<1>9. ASSUME NEW l \in Lights, Submit(l) PROVE CacheInv'
  BY <1>9, CacheLasts DEF Submit
<1>10. ASSUME NEW l \in Lights, Put(l) PROVE CacheInv'
  <2>1. put[l] \in Requests /\ light[l] \in LightStates
    BY <1>10 DEF Put, Shape
  <2>2. Requested(light[l], put[l]) \in LightStates
    BY <2>1, RequestedIs
  <2>3. UNCHANGED <<stage, cache, stream>>
    BY <1>10 DEF Put
  <2>4. CASE Becomes(l, Requested(light[l], put[l]))
    BY <2>2, <2>3, <2>4, AgreesBecomes
  <2>5. CASE UNCHANGED <<light, wire, missed>>
    BY <2>3, <2>5, CacheLasts
  <2>6. QED
    BY <1>10, <2>4, <2>5 DEF Put
<1>11. QED
  BY <1>1, <1>2, <1>3, <1>4, <1>5, <1>6, <1>7, <1>8, <1>9, <1>10 DEF Next, Start, Stream

\* With nothing on the way the cache is the light, field by field, but for
\* fields that changed while no stream was open and have not changed since.
THEOREM CacheIsFresh == Spec => []FreshUnlessMissed
<1>1. Shape /\ CacheInv => FreshUnlessMissed
  <2> SUFFICES ASSUME Shape, CacheInv, stream = "up", wire = <<>>,
                      NEW l \in Lights, NEW f \in Fields, <<l, f>> \notin missed
               PROVE  Value(cache[l], f) = Value(light[l], f)
    BY DEF FreshUnlessMissed
  <2>1. stage # "list"
    BY DEF Shape
  <2>2. \A i \in 1..Len(wire) : FALSE
    BY EmptySeq
  <2>3. QED
    BY <2>1, <2>2 DEF CacheInv, Agrees
<1>2. QED
  BY ShapeInit, ShapeStep, CacheInit, CacheStep, <1>1, PTL DEF Spec

-----------------------------------------------------------------------------
(* The pump follows the cache. *)

About(update, l, f) == update[1] = l /\ update[2] = f

\* The last update in the ring about a field carries the cache's value, and
\* without one the pump's table has it.
Holds(l, f) ==
  \/ /\ \A i \in 1..Len(ring) : ~About(ring[i], l, f)
     /\ reported[l][f] = Value(cache[l], f)
  \/ \E i \in 1..Len(ring) :
       /\ About(ring[i], l, f) /\ ring[i][3] = Value(cache[l], f)
       /\ \A j \in 1..Len(ring) : j > i => ~About(ring[j], l, f)

\* A pump a replay has served owes nothing but what is left of the replay.
PumpInv ==
  /\ pump = "served" => \A l \in Lights \ replay, f \in Fields : Holds(l, f)
  /\ stage # "online" => pump = "none"

LEMMA PumpInit == Init => PumpInv
  BY DEF Init, PumpInv

LEMMA PumpLasts ==
  ASSUME PumpInv, UNCHANGED <<cache, replay, ring, reported, pump, stage>>
  PROVE  PumpInv'
  BY DEF PumpInv, Holds, About

\* A broadcast of the light as the cache has it.
LEMMA HoldsBroadcast ==
  ASSUME Shape, PumpInv, NEW l \in Lights, NEW now \in LightStates, Broadcast(l, now),
         cache'[l] = now, \A m \in Lights : m # l => cache'[m] = cache[m],
         replay \subseteq replay' \cup {l}, UNCHANGED <<reported, stage>>
  PROVE  PumpInv'
<1>1. stage' # "online" => pump' = "none"
  BY BroadcastIs DEF PumpInv
<1> SUFFICES ASSUME pump' = "served", NEW m \in Lights \ replay', NEW f \in Fields
             PROVE  Holds(m, f)'
  BY <1>1 DEF PumpInv
<1> DEFINE a == <<l, "on", now.on>>
           b == <<l, "brightness", now.brightness>>
<1>2. pump = "served" /\ ring' = ring \o <<a, b>>
  BY BroadcastIs
<1>3. /\ a[1] = l /\ a[2] = "on" /\ a[3] = Value(now, "on")
      /\ b[1] = l /\ b[2] = "brightness" /\ b[3] = Value(now, "brightness")
  BY DEF Value
<1>4. a \in Update /\ b \in Update
  BY LightIs DEF Update, Fields, Vals
<1> HIDE DEF a, b
<1>5. /\ ring \in Seq(Update) /\ Len(ring) \in Nat
      /\ Len(ring') = Len(ring) + 2
      /\ \A i \in 1..Len(ring) : ring'[i] = ring[i]
      /\ ring'[Len(ring) + 1] = a /\ ring'[Len(ring) + 2] = b
  <2>1. ring \in Seq(Update) /\ Len(ring) \in Nat
    BY DEF Shape
  <2>2. <<a, b>> \in Seq(Update) /\ Len(<<a, b>>) = 2 /\ <<a, b>>[1] = a /\ <<a, b>>[2] = b
    BY <1>4
  <2>3. /\ Len(ring \o <<a, b>>) = Len(ring) + Len(<<a, b>>)
        /\ \A i \in 1 .. Len(ring) + Len(<<a, b>>) : (ring \o <<a, b>>)[i] =
             IF i <= Len(ring) THEN ring[i] ELSE <<a, b>>[i - Len(ring)]
    BY <2>1, <2>2, ConcatProperties
  <2>4. \A i \in 1 .. Len(ring) + 2 : ring'[i] =
          IF i <= Len(ring) THEN ring[i] ELSE <<a, b>>[i - Len(ring)]
    BY <1>2, <2>2, <2>3
  <2>5. \A i \in 1..Len(ring) : ring'[i] = ring[i]
    BY <2>1, <2>4
  <2>6. ring'[Len(ring) + 1] = <<a, b>>[(Len(ring) + 1) - Len(ring)]
    BY <2>1, <2>4
  <2>7. ring'[Len(ring) + 2] = <<a, b>>[(Len(ring) + 2) - Len(ring)]
    BY <2>1, <2>4
  <2>8. (Len(ring) + 1) - Len(ring) = 1 /\ (Len(ring) + 2) - Len(ring) = 2
    BY <2>1
  <2>9. Len(ring') = Len(ring) + 2
    BY <1>2, <2>2, <2>3
  <2>10. QED
    BY <2>1, <2>2, <2>5, <2>6, <2>7, <2>8, <2>9
<1>6. CASE m = l
  <2>1. \A j \in 1..Len(ring') : ~(j > Len(ring) + 2)
    BY <1>5
  <2>2. CASE f = "brightness"
    <3>1. /\ Len(ring) + 2 \in 1..Len(ring')
          /\ About(ring'[Len(ring) + 2], m, f) /\ ring'[Len(ring) + 2][3] = Value(cache'[m], f)
      BY <1>3, <1>5, <1>6, <2>2 DEF About
    <3>2. QED
      BY <2>1, <3>1 DEF Holds, About
  <2>3. CASE f = "on"
    <3>1. /\ Len(ring) + 1 \in 1..Len(ring')
          /\ About(ring'[Len(ring) + 1], m, f) /\ ring'[Len(ring) + 1][3] = Value(cache'[m], f)
      BY <1>3, <1>5, <1>6, <2>3 DEF About
    <3>2. ~About(ring'[Len(ring) + 2], m, f)
      BY <1>3, <1>5, <2>3 DEF About
    <3>3. \A j \in 1..Len(ring') : j > Len(ring) + 1 => j = Len(ring) + 2
      BY <1>5
    <3>4. \A j \in 1..Len(ring') : j > Len(ring) + 1 => ~About(ring'[j], m, f)
      BY <3>2, <3>3
    <3>5. QED
      BY <3>1, <3>4 DEF Holds, About
  <2>4. QED
    BY <2>2, <2>3 DEF Fields
<1>7. CASE m # l
  <2>1. Holds(m, f) /\ Value(cache'[m], f) = Value(cache[m], f)
    BY <1>2, <1>7 DEF PumpInv
  <2>2. \A i \in 1..Len(ring') : i \in 1..Len(ring) \/ ~About(ring'[i], m, f)
    <3>1. \A i \in 1..Len(ring') : i \in 1..Len(ring) \/ i = Len(ring) + 1 \/ i = Len(ring) + 2
      BY <1>5
    <3>2. ~About(ring'[Len(ring) + 1], m, f) /\ ~About(ring'[Len(ring) + 2], m, f)
      BY <1>3, <1>5, <1>7 DEF About
    <3>3. QED
      BY <3>1, <3>2
  <2>3. CASE \A i \in 1..Len(ring) : ~About(ring[i], m, f)
    <3>1. \A i \in 1..Len(ring') : ~About(ring'[i], m, f)
      BY <1>5, <2>2, <2>3
    <3>2. reported'[m][f] = Value(cache'[m], f)
      BY <2>1, <2>3 DEF Holds
    <3>3. QED
      BY <3>1, <3>2 DEF Holds, About
  <2>4. CASE ~\A i \in 1..Len(ring) : ~About(ring[i], m, f)
    <3>1. PICK i \in 1..Len(ring) :
            /\ About(ring[i], m, f) /\ ring[i][3] = Value(cache[m], f)
            /\ \A j \in 1..Len(ring) : j > i => ~About(ring[j], m, f)
      BY <2>1, <2>4 DEF Holds
    <3>2. i \in 1..Len(ring') /\ ring'[i] = ring[i]
      BY <1>5
    <3>3. \A j \in 1..Len(ring') : j > i => ~About(ring'[j], m, f)
      BY <1>5, <2>2, <3>1
    <3>4. About(ring'[i], m, f) /\ ring'[i][3] = Value(cache'[m], f)
      BY <2>1, <3>1, <3>2
    <3>5. QED
      BY <3>2, <3>3, <3>4 DEF Holds, About
  <2>5. QED
    BY <2>3, <2>4
<1>8. QED
  BY <1>6, <1>7

\* The pump takes an update.
LEMMA HoldsTaken ==
  ASSUME Shape, PumpInv, PumpTake
  PROVE  PumpInv'
<1>0. UNCHANGED <<cache, pump, replay, stage>>
  BY DEF PumpTake
<1> SUFFICES ASSUME pump = "served", NEW l \in Lights \ replay, NEW f \in Fields
             PROVE  Holds(l, f)'
  BY <1>0 DEF PumpInv
<1>1. PICK u : u = ring[1]
  OBVIOUS
<1>2. /\ Len(ring) \in Nat /\ Len(ring) > 0 /\ Len(ring') = Len(ring) - 1
      /\ \A i \in 1..Len(ring') : ring'[i] = ring[i + 1]
      /\ reported'[u[1]][u[2]] = u[3]
      /\ \A m \in Lights, h \in Fields :
           m # u[1] \/ h # u[2] => reported'[m][h] = reported[m][h]
  BY <1>1, PumpTakeIs
<1>3. reported'[l][f] = IF About(u, l, f) THEN u[3] ELSE reported[l][f]
  BY <1>2 DEF About
<1>4. Holds(l, f)
  BY DEF PumpInv
<1>5. CASE \A i \in 1..Len(ring) : ~About(ring[i], l, f)
  <2>1. ~About(u, l, f) /\ \A i \in 1..Len(ring') : ~About(ring'[i], l, f)
    <3>1. 1 \in 1..Len(ring) /\ \A i \in 1..Len(ring') : i + 1 \in 1..Len(ring)
      BY <1>2
    <3>2. QED
      BY <1>1, <1>2, <1>5, <3>1, Zenon
  <2>2. reported'[l][f] = Value(cache'[l], f)
    BY <1>0, <1>3, <1>4, <1>5, <2>1 DEF Holds
  <2>3. QED
    BY <2>1, <2>2 DEF Holds, About
<1>6. CASE ~\A i \in 1..Len(ring) : ~About(ring[i], l, f)
  <2>1. PICK i \in 1..Len(ring) :
          /\ About(ring[i], l, f) /\ ring[i][3] = Value(cache[l], f)
          /\ \A j \in 1..Len(ring) : j > i => ~About(ring[j], l, f)
    BY <1>4, <1>6 DEF Holds
  <2>2. CASE i = 1
    <3>1. \A j \in 1..Len(ring') : j + 1 \in 1..Len(ring) /\ j + 1 > i
      BY <1>2, <2>2
    <3>2. \A j \in 1..Len(ring') : ~About(ring'[j], l, f)
      BY <1>2, <2>1, <3>1
    <3>3. reported'[l][f] = Value(cache'[l], f)
      BY <1>0, <1>1, <1>3, <2>1, <2>2
    <3>4. QED
      BY <3>2, <3>3 DEF Holds, About
  <2>3. CASE i # 1
    <3>1. i - 1 \in 1..Len(ring') /\ ring'[i - 1] = ring[i]
      <4>1. i - 1 \in 1..Len(ring')
        BY <1>2, <2>3
      <4>2. ring'[i - 1] = ring[(i - 1) + 1] /\ (i - 1) + 1 = i
        BY <1>2, <4>1
      <4>3. QED
        BY <4>1, <4>2
    <3>2. \A j \in 1..Len(ring') : j > i - 1 => ~About(ring'[j], l, f)
      <4>1. \A j \in 1..Len(ring') : j > i - 1 => j + 1 \in 1..Len(ring) /\ j + 1 > i
        BY <1>2
      <4>2. QED
        BY <1>2, <2>1, <4>1
    <3>3. About(ring'[i - 1], l, f) /\ ring'[i - 1][3] = Value(cache'[l], f)
      BY <1>0, <2>1, <3>1
    <3>4. QED
      BY <3>1, <3>2, <3>3 DEF Holds, About
  <2>4. QED
    BY <2>2, <2>3
<1>7. QED
  BY <1>5, <1>6

LEMMA PumpStep == Shape /\ PumpInv /\ [Next]_vars => PumpInv'
<1> SUFFICES ASSUME Shape, PumpInv, [Next]_vars PROVE PumpInv'
  OBVIOUS
<1>1. CASE UNCHANGED vars
  BY <1>1, PumpLasts DEF vars
<1>2. CASE ListLights \/ SpawnStream \/ Subscribe
  <2>1. stage # "online" /\ pump = "none" /\ pump' # "served"
    BY <1>2 DEF ListLights, SpawnStream, Subscribe, PumpInv
  <2>2. stage' # "online" => pump' = "none"
    BY <1>2, <2>1 DEF ListLights, SpawnStream, Subscribe
  <2>3. QED
    BY <2>1, <2>2 DEF PumpInv
<1>3. CASE Open
  <2>1. stage # "list" /\ stage' = stage
    BY <1>3 DEF Open, Shape
  <2>2. \A l \in Lights : cache[l] \in LightStates /\ cache[l] # Unknown
    BY <2>1, Bounds DEF Shape
  <2>3. replay' = Lights
    BY <1>3, <2>2 DEF Open
  <2>4. stage' # "online" => pump' = "none"
    BY <1>3, <2>1 DEF Open, Served, PumpInv
  <2>5. QED
    BY <2>3, <2>4 DEF PumpInv
<1>4. CASE ReplayOne
  <2>1. PICK l \in replay : replay' = replay \ {l} /\ Broadcast(l, cache[l])
    BY <1>4 DEF ReplayOne
  <2>2. UNCHANGED <<cache, stage, reported>> /\ stage # "list" /\ l \in Lights
    BY <1>4 DEF ReplayOne, Shape
  <2>3. cache[l] \in LightStates
    BY <2>2 DEF Shape
  <2>4. replay \subseteq replay' \cup {l}
    BY <2>1
  <2>5. cache'[l] = cache[l] /\ \A m \in Lights : m # l => cache'[m] = cache[m]
    BY <2>2
  <2>6. QED
    BY <2>1, <2>2, <2>3, <2>4, <2>5, HoldsBroadcast
<1>5. CASE ReplayDone
  BY <1>5, PumpLasts DEF ReplayDone
<1>6. CASE LightEvent
  <2>1. PICK e : e = wire[1]
    OBVIOUS
  <2>2. /\ e.id \in Lights /\ MergePartial(e) \in LightStates
        /\ cache' = [cache EXCEPT ![e.id] = MergePartial(e)] /\ Broadcast(e.id, MergePartial(e))
    BY <1>6, <2>1, LightEventIs
  <2>3. cache \in [Lights -> LightStates \cup {Unknown}]
    BY DEF Shape
  <2>4. PICK now \in LightStates : now = MergePartial(e)
    BY <2>2
  <2>5. PICK l \in Lights : l = e.id
    BY <2>2
  <2>6. cache'[l] = now /\ \A m \in Lights : m # l => cache'[m] = cache[m]
    BY <2>2, <2>3, <2>4, <2>5
  <2>7. UNCHANGED <<stage, reported, replay>>
    BY <1>6 DEF LightEvent
  <2>8. Broadcast(l, now)
    BY <2>2, <2>4, <2>5
  <2>9. QED
    BY <2>6, <2>7, <2>8, HoldsBroadcast
<1>7. CASE Break
  <2>1. UNCHANGED <<cache, stage, ring, reported>> /\ replay' = {}
        /\ pump' = IF stream = "replay" /\ pump = "served" THEN "early" ELSE pump
    BY <1>7 DEF Break
  <2>2. pump' = "served" => replay = {} /\ pump = "served"
    BY <2>1 DEF Shape
  <2>3. stage' # "online" => pump' = "none"
    BY <2>1 DEF PumpInv
  <2>4. pump' = "served" => \A l \in Lights \ replay', f \in Fields : Holds(l, f)'
    BY <2>1, <2>2 DEF PumpInv, Holds, About
  <2>5. QED
    BY <2>3, <2>4 DEF PumpInv
<1>8. CASE PumpTake
  BY <1>8, HoldsTaken
<1>9. ASSUME NEW l \in Lights, Touch(l) \/ Submit(l) \/ Put(l) PROVE PumpInv'
  BY <1>9, PumpLasts DEF Touch, Submit, Put
<1>10. QED
  BY <1>1, <1>2, <1>3, <1>4, <1>5, <1>6, <1>7, <1>8, <1>9 DEF Next, Start, Stream

\* Once a replay has run to its end with the pump there, and unless the pump
\* lagged, it holds every field of every light whenever it has read all.
THEOREM PumpFollowsCache == Spec => []PumpHoldsCache
<1>1. Shape /\ PumpInv => PumpHoldsCache
  <2> SUFFICES ASSUME Shape, PumpInv, stream = "up", pump = "served", ring = <<>>,
                      NEW l \in Lights, NEW f \in Fields
               PROVE  reported[l][f] = Value(cache[l], f)
    BY DEF PumpHoldsCache
  <2>1. replay = {}
    BY DEF Shape
  <2>2. \A i \in 1..Len(ring) : FALSE
    BY EmptySeq
  <2>3. QED
    BY <2>1, <2>2 DEF PumpInv, Holds
<1>2. QED
  BY ShapeInit, ShapeStep, PumpInit, PumpStep, <1>1, PTL DEF Spec

-----------------------------------------------------------------------------
(* The Tap Dials, with variables and bounds of their own. *)

CONSTANTS Hosts, Bridges, Paired, NoId, Nobody, StartTokens, OutboxCap, MaxMoves,
          Dials, NoLevel, MaxDialEvents, MaxDialFaults, MaxDialBreaks

VARIABLES at, cloud, file, token, boot, queued, moves, dialFaults,
          dialStream, dialWire, queue, doing, routed, snapshot, battery, dialEvents, dialBreaks,
          heard

TapDials == INSTANCE HueTapDials WITH
  Unknown <- NoLevel, MaxFaults <- MaxDialFaults, MaxBreaks <- MaxDialBreaks,
  faults <- dialFaults, stream <- dialStream, wire <- dialWire, breaks <- dialBreaks

\* Induction, as a fact about sets of numbers.
LEMMA Induction ==
  ASSUME NEW T \in SUBSET Nat, 0 \in T, \A n \in T : n + 1 \in T
  PROVE  T = Nat
<1> SUFFICES ASSUME Nat \ T # {} PROVE FALSE
  OBVIOUS
<1>1. IsWellFoundedOn(OpToRel(<, Nat), Nat)
  BY NatLessThanWellFounded
<1>2. PICK n \in Nat \ T : \A m \in Nat \ T : ~(<<m, n>> \in OpToRel(<, Nat))
  BY <1>1, WFMin
<1>3. \A m \in Nat \ T : ~(m < n)
  BY <1>2 DEF OpToRel
<1>4. n \in Nat /\ n # 0
  BY <1>2
<1>5. n - 1 \in Nat /\ n - 1 < n /\ (n - 1) + 1 = n
  BY <1>4
<1>6. n - 1 \in T
  BY <1>3, <1>5
<1>7. QED
  BY <1>2, <1>5, <1>6

-----------------------------------------------------------------------------
(* The inputs of a dial among events. *)

DialEvents == {"input", "battery"} \X Dials \X Nat
Mine(d, e) == e[1] = "input" /\ e[2] = d
NextOwn(before, d, s, n) ==
  IF n = 0 THEN <<>>
  ELSE IF s[n][1] = "input" /\ s[n][2] = d THEN Append(before, s[n])
  ELSE before

OwnTo(f, d, s, n) == f = [k \in 0..n |-> NextOwn(f[k - 1], d, s, k)]

LEMMA OwnToExist ==
  ASSUME NEW d, NEW s, NEW n \in Nat
  PROVE  \E f : OwnTo(f, d, s, n)
<1> DEFINE T == {k \in Nat : \E f : OwnTo(f, d, s, k)}
<1>1. 0 \in T
  <2>1. OwnTo([k \in 0..0 |-> <<>>], d, s, 0)
    BY DEF OwnTo, NextOwn
  <2>2. QED
    BY <2>1
<1>2. ASSUME NEW k \in T PROVE k + 1 \in T
  <2>1. PICK f : OwnTo(f, d, s, k)
    OBVIOUS
  <2> DEFINE N == k + 1
             g == [j \in 0..N |-> IF j = N THEN NextOwn(f[k], d, s, N) ELSE f[j]]
  <2>2. k \in Nat /\ N \in Nat /\ N - 1 = k /\ k # N /\ N # 0
    OBVIOUS
  <2>3. ASSUME NEW j \in 0..N PROVE g[j] = NextOwn(g[j - 1], d, s, j)
    <3>1. CASE j = N
      BY <2>2, <3>1
    <3>2. CASE j # N /\ j # 0
      <4>1. j \in 0..k /\ j - 1 \in 0..N /\ j - 1 # N
        BY <2>2, <3>2
      <4>2. g[j] = f[j] /\ g[j - 1] = f[j - 1]
        BY <3>2, <4>1
      <4>3. f[j] = NextOwn(f[j - 1], d, s, j)
        BY <2>1, <4>1 DEF OwnTo
      <4>4. QED
        BY <4>2, <4>3
    <3>3. CASE j # N /\ j = 0
      <4>1. g[0] = f[0] /\ 0 \in 0..k
        BY <2>2, <3>3
      <4>2. f[0] = NextOwn(f[0 - 1], d, s, 0)
        BY <2>1, <4>1 DEF OwnTo
      <4>3. QED
        BY <3>3, <4>1, <4>2 DEF NextOwn
    <3>4. QED
      BY <3>1, <3>2, <3>3
  <2> HIDE DEF N
  <2>4. PICK h : h = g
    OBVIOUS
  <2>5. h = [j \in 0..N |-> h[j]]
    BY <2>4
  <2>6. \A j \in 0..N : h[j] = NextOwn(h[j - 1], d, s, j)
    BY <2>3, <2>4
  <2> HIDE DEF g
  <2>7. h = [j \in 0..N |-> NextOwn(h[j - 1], d, s, j)]
    BY <2>5, <2>6
  <2>8. OwnTo(h, d, s, N)
    BY <2>7 DEF OwnTo
  <2>9. QED
    BY <2>2, <2>8 DEF N
<1>3. T = Nat
  <2> HIDE DEF T
  <2>1. T \in SUBSET Nat
    BY DEF T
  <2>2. QED
    BY <1>1, <1>2, <2>1, Induction
<1>4. QED
  BY <1>3

\* The inputs kept of every prefix.
Keeps(f, d, s) ==
  /\ f[0] = <<>>
  /\ \A k \in 0..Len(s) : f[k] \in Seq(DialEvents)
  /\ \A k \in 1..Len(s) : f[k] = IF Mine(d, s[k]) THEN Append(f[k - 1], s[k]) ELSE f[k - 1]

LEMMA OwnIs ==
  ASSUME NEW d, NEW s \in Seq(DialEvents)
  PROVE  \E f : Keeps(f, d, s) /\ TapDials!Own(d, s) = f[Len(s)]
<1>1. Len(s) \in Nat /\ \A k \in 1..Len(s) : s[k] \in DialEvents
  OBVIOUS
<1> DEFINE f == CHOOSE g : OwnTo(g, d, s, Len(s))
<1>2. OwnTo(f, d, s, Len(s))
  BY <1>1, OwnToExist
<1>3. TapDials!Own(d, s) = f[Len(s)]
  BY Zenon DEF TapDials!Own, OwnTo, NextOwn
<1> HIDE DEF f
<1>4. f[0] = <<>>
  BY <1>1, <1>2 DEF OwnTo, NextOwn
<1>5. ASSUME NEW k \in 1..Len(s)
      PROVE  f[k] = IF Mine(d, s[k]) THEN Append(f[k - 1], s[k]) ELSE f[k - 1]
  <2>1. k \in 0..Len(s) /\ k # 0
    BY <1>1
  <2>2. f[k] = NextOwn(f[k - 1], d, s, k)
    BY <1>2, <2>1 DEF OwnTo
  <2>3. QED
    BY <2>1, <2>2 DEF NextOwn, Mine
<1> DEFINE T == {n \in Nat : n <= Len(s) => f[n] \in Seq(DialEvents)}
<1>6. 0 \in T
  <2>1. <<>> \in Seq(DialEvents)
    OBVIOUS
  <2>2. QED
    BY <1>4, <2>1
<1>7. ASSUME NEW n \in T PROVE n + 1 \in T
  <2>1. SUFFICES ASSUME n + 1 <= Len(s) PROVE f[n + 1] \in Seq(DialEvents)
    OBVIOUS
  <2>2. PICK k : k = n + 1
    OBVIOUS
  <2>3. k \in 1..Len(s) /\ k - 1 = n /\ n <= Len(s)
    BY <1>1, <2>1, <2>2
  <2>4. f[n] \in Seq(DialEvents)
    BY <2>3
  <2>5. Append(f[n], s[k]) \in Seq(DialEvents)
    BY <1>1, <2>3, <2>4, AppendProperties
  <2>6. f[k] \in Seq(DialEvents)
    BY <1>5, <2>3, <2>4, <2>5
  <2>7. QED
    BY <2>2, <2>6
<1>8. T = Nat
  <2> HIDE DEF T
  <2>1. T \in SUBSET Nat
    BY DEF T
  <2>2. QED
    BY <1>6, <1>7, <2>1, Induction
<1>9. \A k \in 0..Len(s) : f[k] \in Seq(DialEvents)
  BY <1>1, <1>8
<1>10. QED
  BY <1>3, <1>4, <1>5, <1>9 DEF Keeps

LEMMA OwnTyped ==
  ASSUME NEW d, NEW s \in Seq(DialEvents)
  PROVE  TapDials!Own(d, s) \in Seq(DialEvents)
<1>1. PICK f : Keeps(f, d, s) /\ TapDials!Own(d, s) = f[Len(s)]
  BY OwnIs
<1>2. Len(s) \in 0..Len(s)
  OBVIOUS
<1>3. QED
  BY <1>1, <1>2 DEF Keeps

LEMMA OwnAppend ==
  ASSUME NEW d, NEW s \in Seq(DialEvents), NEW e \in DialEvents
  PROVE  TapDials!Own(d, Append(s, e)) =
           IF Mine(d, e) THEN Append(TapDials!Own(d, s), e) ELSE TapDials!Own(d, s)
<1>1. PICK r : r = Append(s, e)
  OBVIOUS
<1>2. PICK N : N = Len(s)
  OBVIOUS
<1>3. /\ r \in Seq(DialEvents) /\ N \in Nat /\ Len(r) = N + 1 /\ r[N + 1] = e
      /\ \A k \in 1..N : r[k] = s[k]
  BY <1>1, <1>2, AppendProperties
<1>4. PICK f : Keeps(f, d, s) /\ TapDials!Own(d, s) = f[N]
  BY <1>2, OwnIs
<1>5. PICK g : Keeps(g, d, r) /\ TapDials!Own(d, r) = g[N + 1]
  BY <1>3, OwnIs
<1> DEFINE T == {n \in Nat : n <= N => g[n] = f[n]}
<1>6. 0 \in T
  BY <1>4, <1>5 DEF Keeps
<1>7. ASSUME NEW n \in T PROVE n + 1 \in T
  <2>1. SUFFICES ASSUME n + 1 <= N PROVE g[n + 1] = f[n + 1]
    OBVIOUS
  <2>2. PICK k : k = n + 1
    OBVIOUS
  <2>3. k \in 1..N /\ k \in 1..Len(r) /\ k - 1 = n /\ n <= N
    BY <1>3, <2>1, <2>2
  <2>4. g[n] = f[n] /\ r[k] = s[k]
    BY <1>3, <2>3
  <2>5. g[k] = IF Mine(d, r[k]) THEN Append(g[n], r[k]) ELSE g[n]
    BY <1>5, <2>3 DEF Keeps
  <2>6. f[k] = IF Mine(d, s[k]) THEN Append(f[n], s[k]) ELSE f[n]
    BY <1>2, <1>4, <2>3 DEF Keeps
  <2>7. QED
    BY <2>2, <2>4, <2>5, <2>6
<1>8. T = Nat
  <2> HIDE DEF T
  <2>1. T \in SUBSET Nat
    BY DEF T
  <2>2. QED
    BY <1>6, <1>7, <2>1, Induction
<1>9. g[N] = f[N]
  BY <1>3, <1>8
<1>10. N + 1 \in 1..Len(r) /\ (N + 1) - 1 = N
  BY <1>3
<1>11. g[N + 1] = IF Mine(d, e) THEN Append(g[N], e) ELSE g[N]
  BY <1>3, <1>5, <1>10 DEF Keeps
<1>12. QED
  BY <1>1, <1>4, <1>5, <1>9, <1>11

LEMMA ConcatAppend ==
  ASSUME NEW S, NEW s \in Seq(S), NEW t \in Seq(S), NEW x \in S
  PROVE  s \o Append(t, x) = Append(s \o t, x)
<1>1. <<x>> \in Seq(S) /\ s \o t \in Seq(S)
  BY ConcatProperties
<1>2. Append(t, x) = t \o <<x>> /\ Append(s \o t, x) = (s \o t) \o <<x>>
  BY <1>1, AppendIsConcat
<1>3. (s \o t) \o <<x>> = s \o (t \o <<x>>)
  BY <1>1, ConcatAssociative
<1>4. QED
  BY <1>2, <1>3

LEMMA OwnHead ==
  ASSUME NEW d, NEW q \in Seq(DialEvents), q # <<>>
  PROVE  TapDials!Own(d, q) =
           IF Mine(d, Head(q)) THEN <<Head(q)>> \o TapDials!Own(d, Tail(q))
           ELSE TapDials!Own(d, Tail(q))
<1>1. PICK h, t : h = Head(q) /\ t = Tail(q)
  OBVIOUS
<1>2. PICK N : N = Len(t)
  OBVIOUS
<1>3. /\ h \in DialEvents /\ h = q[1] /\ t \in Seq(DialEvents) /\ N \in Nat /\ Len(q) = N + 1
      /\ \A k \in 1..N : t[k] = q[k + 1]
  BY <1>1, <1>2, HeadTailProperties, EmptySeq
<1>4. PICK f : Keeps(f, d, q) /\ TapDials!Own(d, q) = f[N + 1]
  BY <1>3, OwnIs
<1>5. PICK g : Keeps(g, d, t) /\ TapDials!Own(d, t) = g[N]
  BY <1>2, <1>3, OwnIs
<1>6. PICK first : first = IF Mine(d, h) THEN <<h>> ELSE <<>>
  OBVIOUS
<1>7. first \in Seq(DialEvents)
  <2>1. <<h>> \in Seq(DialEvents) /\ <<>> \in Seq(DialEvents)
    BY <1>3
  <2>2. QED
    BY <1>6, <2>1
<1> DEFINE T == {n \in Nat : n <= N => f[n + 1] = first \o g[n]}
<1>8. 0 \in T
  <2>1. f[1] = IF Mine(d, q[1]) THEN Append(f[0], q[1]) ELSE f[0]
    <3>1. 1 \in 1..Len(q) /\ 1 - 1 = 0
      BY <1>3
    <3>2. f[1] = IF Mine(d, q[1]) THEN Append(f[1 - 1], q[1]) ELSE f[1 - 1]
      BY <1>4, <3>1 DEF Keeps
    <3>3. QED
      BY <3>1, <3>2
  <2>2. f[0] = <<>> /\ g[0] = <<>> /\ Append(<<>>, h) = <<h>>
    BY <1>3, <1>4, <1>5 DEF Keeps
  <2>3. f[1] = first
    BY <1>3, <1>6, <2>1, <2>2
  <2>4. first \o <<>> = first
    BY <1>7, ConcatEmptySeq
  <2>5. f[1] = first \o g[0] /\ 0 + 1 = 1
    BY <2>2, <2>3, <2>4
  <2>6. f[0 + 1] = first \o g[0]
    BY <2>5
  <2>7. QED
    BY <2>6
<1>9. ASSUME NEW n \in T PROVE n + 1 \in T
  <2>1. SUFFICES ASSUME n + 1 <= N PROVE f[(n + 1) + 1] = first \o g[n + 1]
    OBVIOUS
  <2>2. PICK k, l : k = n + 1 /\ l = k + 1
    OBVIOUS
  <2>3. k \in 1..N /\ k - 1 = n /\ n <= N /\ l \in 1..Len(q) /\ l - 1 = k /\ k - 1 \in 0..N
    BY <1>3, <2>1, <2>2
  <2>4. f[k] = first \o g[n] /\ q[l] = t[k]
    BY <1>3, <2>2, <2>3
  <2>5. f[l] = IF Mine(d, q[l]) THEN Append(f[k], q[l]) ELSE f[k]
    BY <1>4, <2>3 DEF Keeps
  <2>6. g[k] = IF Mine(d, t[k]) THEN Append(g[n], t[k]) ELSE g[n]
    BY <1>2, <1>5, <2>3 DEF Keeps
  <2>7. g[n] \in Seq(DialEvents) /\ t[k] \in DialEvents
    BY <1>2, <1>3, <1>5, <2>3 DEF Keeps
  <2>8. first \o Append(g[n], t[k]) = Append(first \o g[n], t[k])
    <3> PICK a, b : a = g[n] /\ b = t[k]
      OBVIOUS
    <3>1. a \in Seq(DialEvents) /\ b \in DialEvents
      BY <2>7
    <3>2. first \o Append(a, b) = Append(first \o a, b)
      BY <1>7, <3>1, ConcatAppend
    <3>3. QED
      BY <3>2
  <2>9. f[l] = first \o g[k]
    BY <2>4, <2>5, <2>6, <2>8
  <2>10. QED
    BY <2>2, <2>9
<1>10. T = Nat
  <2> HIDE DEF T
  <2>1. T \in SUBSET Nat
    BY DEF T
  <2>2. QED
    BY <1>8, <1>9, <2>1, Induction
<1>11. f[N + 1] = first \o g[N]
  <2>1. N \in Nat /\ N <= N
    BY <1>3
  <2>2. N \in T
    <3> HIDE DEF T
    <3>1. QED
      BY <1>10, <2>1
  <2>3. N <= N => f[N + 1] = first \o g[N]
    BY <2>2, Zenon DEF T
  <2>4. QED
    BY <2>1, <2>3
<1>12. g[N] \in Seq(DialEvents)
  BY <1>2, <1>3, <1>5 DEF Keeps
<1>13. <<>> \o g[N] = g[N]
  BY <1>12, ConcatEmptySeq
<1>14. QED
  BY <1>1, <1>4, <1>5, <1>6, <1>11, <1>13

-----------------------------------------------------------------------------
(* The loops of the dials. *)

DialShape ==
  /\ dialEvents \in Nat /\ dialWire \in Seq(DialEvents)
  /\ queue \in [Dials -> Seq(DialEvents)] /\ routed \in [Dials -> Seq(DialEvents)]
  /\ heard \in [Dials -> Seq(DialEvents)]

DialInv == DialShape /\ TapDials!RoutesItsOwn

LEMMA DialInit == TapDials!Init => DialInv
<1> SUFFICES ASSUME TapDials!Init PROVE DialInv
  OBVIOUS
<1>1. DialShape
  BY DEF TapDials!Init, DialShape
<1>2. ASSUME NEW d \in Dials
      PROVE  routed[d] \o TapDials!Own(d, queue[d]) = TapDials!Own(d, heard[d])
  <2>1. routed[d] = <<>> /\ queue[d] = heard[d] /\ heard[d] \in Seq(DialEvents)
    BY <1>1 DEF TapDials!Init, DialShape
  <2>2. TapDials!Own(d, heard[d]) \in Seq(DialEvents)
    BY <2>1, OwnTyped
  <2>3. QED
    BY <2>1, <2>2, ConcatEmptySeq
<1>3. QED
  BY <1>1, <1>2 DEF DialInv, TapDials!RoutesItsOwn

\* What a loop takes leaves its queue; an input of its dial joins what it has
\* routed, and what it skips is no such input.
LEMMA TakenIs ==
  ASSUME DialShape, NEW d \in Dials, TapDials!TakeEvent(d), TapDials!RoutesItsOwn
  PROVE  DialInv'
<1>0. /\ queue \in [Dials -> Seq(DialEvents)] /\ routed \in [Dials -> Seq(DialEvents)]
      /\ heard \in [Dials -> Seq(DialEvents)]
  BY DEF DialShape
<1>1. PICK q, e, r : q = queue[d] /\ e = Head(q) /\ r = routed[d]
  OBVIOUS
<1>2. /\ q # <<>> /\ queue' = [queue EXCEPT ![d] = Tail(q)]
      /\ UNCHANGED <<heard, dialWire, dialEvents>>
  BY <1>0, <1>1 DEF TapDials!TakeEvent, TapDials!streamVars
<1>3. /\ q \in Seq(DialEvents) /\ r \in Seq(DialEvents) /\ e \in DialEvents
      /\ Tail(q) \in Seq(DialEvents)
  BY <1>0, <1>1, <1>2, HeadTailProperties
<1>4. IF Mine(d, e) THEN routed' = [routed EXCEPT ![d] = Append(r, e)] ELSE routed' = routed
  BY <1>0, <1>1 DEF TapDials!TakeEvent, Mine
<1>5. Append(r, e) \in Seq(DialEvents)
  BY <1>3, AppendProperties
<1>6. DialShape'
  BY <1>0, <1>2, <1>3, <1>4, <1>5 DEF DialShape
<1>7. PICK o : o = TapDials!Own(d, Tail(q))
  OBVIOUS
<1>8. o \in Seq(DialEvents) /\ TapDials!Own(d, q) = IF Mine(d, e) THEN <<e>> \o o ELSE o
  BY <1>1, <1>2, <1>3, <1>7, OwnTyped, OwnHead
<1>9. Append(r, e) \o o = r \o (<<e>> \o o)
  <2>1. <<e>> \in Seq(DialEvents) /\ Append(r, e) = r \o <<e>>
    BY <1>3, AppendIsConcat
  <2>2. QED
    BY <1>3, <1>8, <2>1, ConcatAssociative
<1>10. r \o TapDials!Own(d, q) = TapDials!Own(d, heard[d])
  BY <1>1 DEF TapDials!RoutesItsOwn
<1>11. routed'[d] \o o = TapDials!Own(d, heard[d])
  BY <1>0, <1>1, <1>4, <1>8, <1>9, <1>10
<1>12. ASSUME NEW c \in Dials
       PROVE  routed'[c] \o TapDials!Own(c, queue'[c]) = TapDials!Own(c, heard'[c])
  <2>1. CASE c = d
    BY <1>0, <1>2, <1>7, <1>11, <2>1
  <2>2. CASE c # d
    <3>1. queue'[c] = queue[c] /\ routed'[c] = routed[c] /\ heard'[c] = heard[c]
      BY <1>0, <1>2, <1>4, <2>2
    <3>2. QED
      BY <3>1 DEF TapDials!RoutesItsOwn
  <2>3. QED
    BY <2>1, <2>2
<1>13. TapDials!RoutesItsOwn'
  BY <1>12 DEF TapDials!RoutesItsOwn
<1>14. QED
  BY <1>6, <1>13 DEF DialInv

\* A broadcast goes to the end of the queue of every loop that has subscribed.
LEMMA EventReaches ==
  ASSUME DialShape, TapDials!StreamEvent, TapDials!RoutesItsOwn
  PROVE  DialInv'
<1>0. /\ queue \in [Dials -> Seq(DialEvents)] /\ routed \in [Dials -> Seq(DialEvents)]
      /\ heard \in [Dials -> Seq(DialEvents)] /\ dialWire \in Seq(DialEvents)
      /\ dialEvents \in Nat
  BY DEF DialShape
<1>1. PICK e, on : e = Head(dialWire) /\ on = {d \in Dials : doing[d] # "off"}
  OBVIOUS
<1>2. /\ dialWire # <<>> /\ dialWire' = Tail(dialWire) /\ UNCHANGED <<dialEvents, routed>>
      /\ queue' = [d \in Dials |-> IF d \in on THEN Append(queue[d], e) ELSE queue[d]]
      /\ heard' = [d \in Dials |-> IF d \in on THEN Append(heard[d], e) ELSE heard[d]]
  BY <1>1 DEF TapDials!StreamEvent
<1>3. e \in DialEvents /\ dialWire' \in Seq(DialEvents)
  BY <1>0, <1>1, <1>2, HeadTailProperties
<1>4. \A d \in Dials : /\ Append(queue[d], e) \in Seq(DialEvents)
                       /\ Append(heard[d], e) \in Seq(DialEvents)
  BY <1>0, <1>3, AppendProperties
<1>5. DialShape'
  BY <1>0, <1>2, <1>3, <1>4 DEF DialShape
<1>6. ASSUME NEW d \in Dials
      PROVE  routed'[d] \o TapDials!Own(d, queue'[d]) = TapDials!Own(d, heard'[d])
  <2>1. PICK r, q, h : r = routed[d] /\ q = queue[d] /\ h = heard[d]
    OBVIOUS
  <2>2. r \in Seq(DialEvents) /\ q \in Seq(DialEvents) /\ h \in Seq(DialEvents)
    BY <1>0, <2>1
  <2>3. r \o TapDials!Own(d, q) = TapDials!Own(d, h)
    BY <2>1 DEF TapDials!RoutesItsOwn
  <2>4. CASE d \notin on
    BY <1>2, <2>1, <2>3, <2>4
  <2>5. CASE d \in on
    <3>1. routed'[d] = r /\ queue'[d] = Append(q, e) /\ heard'[d] = Append(h, e)
      BY <1>2, <2>1, <2>5
    <3>2. PICK o : o = TapDials!Own(d, q)
      OBVIOUS
    <3>3. o \in Seq(DialEvents)
      BY <2>2, <3>2, OwnTyped
    <3>4. r \o Append(o, e) = Append(r \o o, e)
      BY <1>3, <2>2, <3>3, ConcatAppend
    <3>5. /\ TapDials!Own(d, Append(q, e)) = IF Mine(d, e) THEN Append(o, e) ELSE o
          /\ TapDials!Own(d, Append(h, e)) = IF Mine(d, e) THEN Append(r \o o, e) ELSE r \o o
      BY <1>3, <2>2, <2>3, <3>2, OwnAppend
    <3>6. QED
      BY <3>1, <3>4, <3>5
  <2>6. QED
    BY <2>4, <2>5
<1>7. TapDials!RoutesItsOwn'
  BY <1>6 DEF TapDials!RoutesItsOwn
<1>8. QED
  BY <1>5, <1>7 DEF DialInv

LEMMA DialStep == DialInv /\ [TapDials!Next]_TapDials!vars => DialInv'
<1> SUFFICES ASSUME DialInv, [TapDials!Next]_TapDials!vars PROVE DialInv'
  OBVIOUS
<1>0. DialShape /\ TapDials!RoutesItsOwn
  BY DEF DialInv
<1>1. ASSUME UNCHANGED <<queue, routed, heard>>, dialWire' \in Seq(DialEvents), dialEvents' \in Nat
      PROVE  DialInv'
  <2>1. DialShape'
    BY <1>0, <1>1 DEF DialShape
  <2>2. TapDials!RoutesItsOwn'
    BY <1>0, <1>1 DEF TapDials!RoutesItsOwn
  <2>3. QED
    BY <2>1, <2>2 DEF DialInv
<1>2. CASE UNCHANGED <<queue, routed, heard, dialWire, dialEvents>>
  BY <1>0, <1>1, <1>2 DEF DialShape
<1>3. CASE TapDials!Bootstrap
  <2>1. UNCHANGED <<queue, routed, heard, dialWire, dialEvents>>
    BY <1>3 DEF TapDials!Bootstrap, TapDials!Attempt, TapDials!ListLights, TapDials!ListDials,
         TapDials!Supervise, TapDials!dialVars, TapDials!loopVars, TapDials!streamVars
  <2>2. QED
    BY <1>2, <2>1
<1>4. CASE TapDials!Network \/ TapDials!Session
  <2>1. UNCHANGED <<queue, routed, heard, dialWire, dialEvents>>
    BY <1>4 DEF TapDials!Network, TapDials!Session, TapDials!dialVars, TapDials!loopVars,
         TapDials!streamVars
  <2>2. QED
    BY <1>2, <2>1
<1>5. CASE TapDials!Open
  BY <1>2, <1>5 DEF TapDials!Open, TapDials!loopVars
<1>6. CASE TapDials!Break
  <2>1. UNCHANGED <<queue, routed, heard, dialEvents>> /\ dialWire' = <<>>
    BY <1>6 DEF TapDials!Break, TapDials!loopVars
  <2>2. <<>> \in Seq(DialEvents)
    OBVIOUS
  <2>3. QED
    BY <1>0, <1>1, <2>1, <2>2 DEF DialShape
<1>7. CASE TapDials!StreamEvent
  BY <1>0, <1>7, EventReaches
<1>8. ASSUME NEW d \in Dials, TapDials!DialEvent(d) PROVE DialInv'
  <2>1. UNCHANGED <<queue, routed, heard>> /\ dialEvents' = dialEvents + 1
    BY <1>8 DEF TapDials!DialEvent, TapDials!loopVars
  <2>2. PICK kind \in {"input", "battery"} : dialWire' = Append(dialWire, <<kind, d, dialEvents'>>)
    BY <1>8 DEF TapDials!DialEvent
  <2>3. PICK e : e = <<kind, d, dialEvents'>>
    OBVIOUS
  <2>4. e \in DialEvents /\ dialWire \in Seq(DialEvents) /\ dialEvents' \in Nat
    BY <1>0, <2>1, <2>3 DEF DialShape, DialEvents
  <2>5. dialWire' \in Seq(DialEvents)
    BY <2>2, <2>3, <2>4, AppendProperties
  <2>6. QED
    BY <1>1, <2>1, <2>4, <2>5
<1>9. ASSUME NEW d \in Dials, TapDials!TakeEvent(d) PROVE DialInv'
  BY <1>0, <1>9, TakenIs
<1>10. ASSUME NEW d \in Dials, TapDials!EmitInput(d) \/ TapDials!SendSnapshot(d) PROVE DialInv'
  <2>1. UNCHANGED <<queue, routed, heard, dialWire, dialEvents>>
    BY <1>10 DEF TapDials!EmitInput, TapDials!SendSnapshot, TapDials!loopVars, TapDials!streamVars
  <2>2. QED
    BY <1>2, <2>1
<1>11. CASE UNCHANGED TapDials!vars
  BY <1>2, <1>11 DEF TapDials!vars, TapDials!dialVars, TapDials!loopVars, TapDials!streamVars
<1>12. QED
  BY <1>3, <1>4, <1>5, <1>6, <1>7, <1>8, <1>9, <1>10, <1>11 DEF TapDials!Next

\* A loop routes the inputs of its dial, all of those it was sent and no
\* other's, in the order they were made, whatever breaks and however the loops
\* take turns.
THEOREM LoopsRouteTheirOwn == TapDials!Spec => []TapDials!RoutesItsOwn
<1>1. DialInv => TapDials!RoutesItsOwn
  BY DEF DialInv
<1>2. QED
  BY DialInit, DialStep, <1>1, PTL DEF TapDials!Spec

-----------------------------------------------------------------------------
(* The bridge of the token. *)

\* While an attempt resolves its bridge, its token is the file's, and only a
\* token that names no bridge is migrated.
TokenInv ==
  /\ DOMAIN file = {"host", "id"}
  /\ boot \in {"probe", "mdns", "cloud", "migrate"} => token = file
  /\ boot = "migrate" => token.id = NoId

\* The bridge a token names is never exchanged for another.
BridgeKept == file.id # NoId => file'.id = file.id

LEMMA TokenInit == ASSUME TapDials!BridgeAssumption PROVE TapDials!Init => TokenInv
<1> SUFFICES ASSUME TapDials!Init PROVE TokenInv
  OBVIOUS
<1>1. file \in [host : Hosts, id : Bridges \cup {NoId}] /\ boot = "load"
  BY DEF TapDials!BridgeAssumption, TapDials!Init, TapDials!BootInit
<1>2. QED
  BY <1>1 DEF TokenInv

\* Writing the token down ends the resolution, whether it succeeds or not.
LEMMA AdoptIs ==
  ASSUME NEW t, TapDials!Adopt(t)
  PROVE  (file' = t \/ file' = file) /\ boot' \in {"list", "report"}
  BY DEF TapDials!Adopt, TapDials!Save, TapDials!GoOn

\* A new address for the bridge the token names.
LEMMA MovedIs ==
  ASSUME TokenInv, token = file, NEW h, TapDials!Adopt([token EXCEPT !.host = h])
  PROVE  TokenInv' /\ BridgeKept
<1>1. PICK t : t = [token EXCEPT !.host = h]
  OBVIOUS
<1>2. DOMAIN t = {"host", "id"} /\ t.id = file.id /\ DOMAIN file = {"host", "id"}
  BY <1>1 DEF TokenInv
<1>3. (file' = t \/ file' = file) /\ boot' \in {"list", "report"}
  BY <1>1, AdoptIs
<1>4. QED
  BY <1>2, <1>3 DEF TokenInv, BridgeKept

LEMMA TokenStep == TokenInv /\ [TapDials!Next]_TapDials!vars => TokenInv' /\ BridgeKept
<1> SUFFICES ASSUME TokenInv, [TapDials!Next]_TapDials!vars PROVE TokenInv' /\ BridgeKept
  OBVIOUS
<1>0. /\ DOMAIN file = {"host", "id"}
      /\ boot \in {"probe", "mdns", "cloud", "migrate"} => token = file
      /\ boot = "migrate" => token.id = NoId
  BY DEF TokenInv
<1>1. CASE UNCHANGED <<file, token, boot>>
  BY <1>0, <1>1 DEF TokenInv, BridgeKept
<1>2. ASSUME file' = file, boot' \notin {"probe", "mdns", "cloud", "migrate"}
      PROVE  TokenInv' /\ BridgeKept
  BY <1>0, <1>2 DEF TokenInv, BridgeKept
<1>3. CASE TapDials!Load
  BY <1>0, <1>3 DEF TapDials!Load, TapDials!GoOn, TokenInv, BridgeKept
<1>4. CASE TapDials!Probe
  <2>1. boot = "probe" /\ token = file
    BY <1>0, <1>4 DEF TapDials!Probe
  <2>2. CASE /\ UNCHANGED <<file, token>>
             /\ boot' = TapDials!AfterProbe
    BY <1>0, <2>1, <2>2 DEF TapDials!AfterProbe, TokenInv, BridgeKept
  <2>3. CASE UNCHANGED <<file, token>> /\ boot' = "list"
    BY <1>2, <2>3
  <2>4. CASE token.id = NoId /\ \E b : TapDials!Adopt([token EXCEPT !.id = b])
    <3>1. PICK t : DOMAIN t = {"host", "id"} /\ TapDials!Adopt(t)
      BY <1>0, <2>1, <2>4
    <3>2. (file' = t \/ file' = file) /\ boot' \in {"list", "report"}
      BY <3>1, AdoptIs
    <3>3. QED
      BY <1>0, <2>1, <2>4, <3>1, <3>2 DEF TokenInv, BridgeKept
  <2>5. QED
    BY <1>4, <2>2, <2>3, <2>4 DEF TapDials!Probe, TapDials!GoOn
<1>5. CASE TapDials!Browse
  <2>1. boot = "mdns" /\ token = file
    BY <1>0, <1>5 DEF TapDials!Browse
  <2>2. CASE boot' = "cloud" /\ UNCHANGED <<file, token>>
    BY <1>0, <2>1, <2>2 DEF TokenInv, BridgeKept
  <2>3. CASE \E h : TapDials!Adopt([token EXCEPT !.host = h])
    BY <2>1, <2>3, MovedIs
  <2>4. QED
    BY <1>5, <2>2, <2>3 DEF TapDials!Browse, TapDials!GoOn
<1>6. CASE TapDials!AskCloud
  <2>1. boot = "cloud" /\ token = file
    BY <1>0, <1>6 DEF TapDials!AskCloud
  <2>2. CASE boot' = "report" /\ UNCHANGED <<file, token>>
    BY <1>2, <2>2
  <2>3. CASE \E h : TapDials!Adopt([token EXCEPT !.host = h])
    BY <2>1, <2>3, MovedIs
  <2>4. QED
    BY <1>6, <2>2, <2>3 DEF TapDials!AskCloud, TapDials!Fail, TapDials!GoOn
<1>7. CASE TapDials!Migrate
  <2>1. boot = "migrate" /\ token = file /\ file.id = NoId
    BY <1>0, <1>7 DEF TapDials!Migrate
  <2>2. CASE boot' = "report" /\ UNCHANGED <<file, token>>
    BY <1>2, <2>2
  <2>3. CASE \E h, b : TapDials!Adopt([host |-> h, id |-> b])
    <3>1. PICK t : DOMAIN t = {"host", "id"} /\ TapDials!Adopt(t)
      BY <2>3
    <3>2. (file' = t \/ file' = file) /\ boot' \in {"list", "report"}
      BY <3>1, AdoptIs
    <3>3. QED
      BY <1>0, <2>1, <3>1, <3>2 DEF TokenInv, BridgeKept
  <2>4. QED
    BY <1>7, <2>2, <2>3 DEF TapDials!Migrate, TapDials!Fail, TapDials!GoOn
<1>8. CASE TapDials!Report
  BY <1>2, <1>8 DEF TapDials!Report
<1>9. CASE TapDials!Bootstrap
  <2>1. CASE TapDials!Attempt
    BY <1>3, <1>4, <1>5, <1>6, <1>7, <1>8, <2>1 DEF TapDials!Attempt, TapDials!Resolve
  <2>2. CASE TapDials!ListLights \/ TapDials!ListDials \/ TapDials!Supervise
    <3>1. file' = file /\ boot' \in {"report", "dials", "supervise", "online"}
      BY <2>2 DEF TapDials!ListLights, TapDials!ListDials, TapDials!Supervise, TapDials!GoOn,
           TapDials!Fail
    <3>2. QED
      BY <1>2, <3>1
  <2>3. QED
    BY <1>9, <2>1, <2>2 DEF TapDials!Bootstrap
<1>10. CASE TapDials!Network \/ TapDials!Session
  <2>1. UNCHANGED <<file, token, boot>>
    BY <1>10 DEF TapDials!Network, TapDials!Session, TapDials!Readdress, TapDials!CloudLearns,
         TapDials!Drain
  <2>2. QED
    BY <1>1, <2>1
<1>11. CASE TapDials!Open \/ TapDials!Break \/ TapDials!StreamEvent
  <2>1. UNCHANGED <<file, token, boot>>
    BY <1>11 DEF TapDials!Open, TapDials!Break, TapDials!StreamEvent, TapDials!bootVars
  <2>2. QED
    BY <1>1, <2>1
<1>12. ASSUME NEW d \in Dials,
              \/ TapDials!DialEvent(d) \/ TapDials!TakeEvent(d) \/ TapDials!EmitInput(d)
              \/ TapDials!SendSnapshot(d)
       PROVE  TokenInv' /\ BridgeKept
  <2>1. UNCHANGED <<file, token, boot>>
    BY <1>12 DEF TapDials!DialEvent, TapDials!TakeEvent, TapDials!EmitInput, TapDials!SendSnapshot,
         TapDials!bootVars
  <2>2. QED
    BY <1>1, <2>1
<1>13. CASE UNCHANGED TapDials!vars
  BY <1>1, <1>13 DEF TapDials!vars, TapDials!bootVars
<1>14. QED
  BY <1>9, <1>10, <1>11, <1>12, <1>13 DEF TapDials!Next

\* No attempt adopts another bridge than the one its token names, whatever
\* answers at the stored address, whatever the cloud lists and whatever fails.
THEOREM BridgeIsKept ==
  ASSUME TapDials!BridgeAssumption
  PROVE  TapDials!Spec => [][BridgeKept]_TapDials!vars
<1>1. TapDials!Init => TokenInv
  BY TokenInit
<1>2. TokenInv /\ [TapDials!Next]_TapDials!vars => TokenInv' /\ BridgeKept
  BY TokenStep
<1>3. QED
  BY <1>1, <1>2, PTL DEF TapDials!Spec

-----------------------------------------------------------------------------
(* The Mac, with variables and bounds of its own. *)

CONSTANTS MacFull, Unmuted, NoVolume, None, QueueCap, MaxInbox, MaxMacIntents, MaxEvents

VARIABLES volume, restore, conn, macQueue, flying, wired, subscribed, inbox, retained,
          commands, job, seen, macIntents, macTouches, macBreaks, ran, macMissed

Mac == INSTANCE MacosBridge WITH
  Full <- MacFull, Unknown <- NoVolume, MaxIntents <- MaxMacIntents, queue <- macQueue,
  intents <- macIntents, touches <- macTouches, breaks <- macBreaks, missed <- macMissed

\* The places of a channel that hold commands, and how many they are.
Held(q) == {i \in DOMAIN q : q[i] # Mac!Subscribe}
Holding(q) == Cardinality(Held(q))

LEMMA HoldingIs ==
  ASSUME NEW S, NEW q \in Seq(S)
  PROVE  /\ IsFiniteSet(Held(q)) /\ Holding(q) \in Nat
         /\ DOMAIN q = 1..Len(q) /\ Len(q) \in Nat /\ Held(q) \subseteq 1..Len(q)
<1>1. DOMAIN q = 1..Len(q) /\ Len(q) \in Nat
  BY LenProperties
<1>2. IsFiniteSet(1..Len(q))
  BY <1>1, FS_Interval
<1>3. Held(q) \in SUBSET (1..Len(q))
  BY <1>1 DEF Held
<1>4. IsFiniteSet(Held(q))
  BY <1>2, <1>3, FS_Subset
<1>5. Holding(q) \in Nat
  BY <1>4, FS_CardinalityType DEF Holding
<1>6. QED
  BY <1>1, <1>3, <1>4, <1>5

LEMMA HoldingEmpty == Holding(<<>>) = 0
<1>1. Held(<<>>) = {}
  BY DEF Held
<1>2. QED
  BY <1>1, FS_EmptySet DEF Holding

LEMMA HoldingAppend ==
  ASSUME NEW S, NEW q \in Seq(S), NEW e \in S
  PROVE  Holding(Append(q, e)) = IF e = Mac!Subscribe THEN Holding(q) ELSE Holding(q) + 1
<1>1. /\ DOMAIN q = 1..Len(q) /\ Len(q) \in Nat /\ Held(q) \subseteq 1..Len(q)
      /\ IsFiniteSet(Held(q))
  BY HoldingIs
<1> DEFINE n == Len(q) + 1
<1>2. Append(q, e) \in Seq(S) /\ Len(Append(q, e)) = n
  BY <1>1
<1>3. DOMAIN Append(q, e) = 1..n
  BY <1>2, LenProperties
<1>4. \A i \in 1..n : Append(q, e)[i] = IF i = n THEN e ELSE q[i]
  BY <1>1
<1>5. n \notin Held(q) /\ 1..n = (1..Len(q)) \cup {n}
  BY <1>1
<1>6. CASE e = Mac!Subscribe
  <2>1. Held(Append(q, e)) = Held(q)
    BY <1>1, <1>3, <1>4, <1>5, <1>6 DEF Held
  <2>2. QED
    BY <1>6, <2>1 DEF Holding
<1>7. CASE e # Mac!Subscribe
  <2>1. Held(Append(q, e)) = Held(q) \cup {n}
    BY <1>1, <1>3, <1>4, <1>5, <1>7 DEF Held
  <2>2. Cardinality(Held(q) \cup {n}) = Cardinality(Held(q)) + 1
    BY <1>1, <1>5, FS_AddElement
  <2>3. QED
    BY <1>7, <2>1, <2>2 DEF Holding
<1>8. QED
  BY <1>6, <1>7

LEMMA HoldingTail ==
  ASSUME NEW S, NEW q \in Seq(S), q # <<>>
  PROVE  Holding(q) = IF Head(q) = Mac!Subscribe THEN Holding(Tail(q)) ELSE Holding(Tail(q)) + 1
<1>1. /\ DOMAIN q = 1..Len(q) /\ Len(q) \in Nat /\ Held(q) \subseteq 1..Len(q)
      /\ IsFiniteSet(Held(q))
  BY HoldingIs
<1>2. Len(q) # 0 /\ Head(q) = q[1]
  BY EmptySeq
<1>3. Tail(q) \in Seq(S) /\ Len(Tail(q)) = Len(q) - 1
  BY <1>2
<1>4. DOMAIN Tail(q) = 1..(Len(q) - 1) /\ IsFiniteSet(Held(Tail(q)))
  BY <1>3, HoldingIs
<1>5. \A i \in 1..(Len(q) - 1) : Tail(q)[i] = q[i + 1]
  BY <1>1, <1>2
<1> DEFINE A == Held(Tail(q))
           B == Held(q) \ {1}
           f == [i \in A |-> i + 1]
<1>6. \A i \in A : i \in 1..(Len(q) - 1) /\ i + 1 \in B
  BY <1>1, <1>2, <1>4, <1>5 DEF Held
<1>7. f \in [A -> B] /\ \A a, b \in A : f[a] = f[b] => a = b
  <2>1. f \in [A -> B]
    BY <1>6
  <2>2. \A a, b \in A : f[a] = f[b] => a = b
    <3>1. A \subseteq Int
      BY <1>6
    <3>2. QED
      BY <3>1
  <2>3. QED
    BY <2>1, <2>2
<1>8. \A b \in B : \E a \in A : f[a] = b
  <2> TAKE b \in B
  <2>1. b \in 1..Len(q) /\ b # 1 /\ q[b] # Mac!Subscribe
    BY <1>1 DEF Held
  <2>2. b - 1 \in 1..(Len(q) - 1) /\ (b - 1) + 1 = b
    BY <1>1, <2>1
  <2>3. Tail(q)[b - 1] = q[b]
    BY <1>5, <2>2
  <2>4. b - 1 \in A
    BY <1>4, <2>1, <2>2, <2>3 DEF Held
  <2>5. f[b - 1] = b
    BY <2>2, <2>4
  <2>6. QED
    BY <2>4, <2>5
<1> HIDE DEF f
<1>9. f \in Bijection(A, B)
  BY <1>7, <1>8, Fun_IsBij
<1>10. Cardinality(B) = Cardinality(A)
  BY <1>4, <1>9, FS_Bijection DEF ExistsBijection
<1>11. Cardinality(B) = IF 1 \in Held(q) THEN Cardinality(Held(q)) - 1 ELSE Cardinality(Held(q))
  BY <1>1, FS_RemoveElement
<1>12. 1 \in Held(q) <=> Head(q) # Mac!Subscribe
  BY <1>1, <1>2 DEF Held
<1>13. Cardinality(A) \in Nat /\ Cardinality(Held(q)) \in Nat
  BY <1>1, <1>4, FS_CardinalityType
<1>14. QED
  BY <1>10, <1>11, <1>12, <1>13 DEF Holding

-----------------------------------------------------------------------------
(* The commands and the reports, and where they may be. *)

Commands == {<<"absolute", MacFull>>, <<"relative", -1>>, <<"mute", "toggle">>, <<"mute", "unmute">>}
Reports == {"volume"} \X (0..MacFull)

MacShape ==
  /\ volume \in 0..MacFull /\ restore \in (0..MacFull) \cup {None}
  /\ conn \in [Mac!Sides -> {"down", "ack", "up"}] /\ wired \in [Mac!Sides -> BOOLEAN]
  /\ DOMAIN macQueue = Mac!Sides /\ DOMAIN flying = Mac!Sides /\ DOMAIN inbox = Mac!Sides
  /\ macQueue["edge"] \in Seq(Commands \cup {Mac!Subscribe})
  /\ macQueue["hub"] \in Seq(Reports \cup {Mac!Subscribe})
  /\ flying["edge"] \in Commands \cup {Mac!Subscribe, Mac!NoRequest}
  /\ flying["hub"] \in Reports \cup {Mac!Subscribe, Mac!NoRequest}
  /\ inbox["hub"] \in Seq(Commands) /\ commands \in Seq(Commands)
  /\ job \in [Mac!Tasks -> Reports \cup {Mac!Idle, Mac!Read}]
  /\ ran \in Nat /\ macIntents \in Nat

\* What is on its way to the broker is a request, and after a reconnect every
\* request without an answer is on its way again.
OnItsWay ==
  /\ \A s \in Mac!Sides : wired[s] => flying[s] # Mac!NoRequest
  /\ \A s \in Mac!Sides : conn[s] = "ack" => (wired[s] <=> flying[s] # Mac!NoRequest)

LEMMA MacBounds ==
  ASSUME Mac!MacosAssumption
  PROVE  {QueueCap, MaxInbox, MacFull, Unmuted} \subseteq Nat \ {0} /\ Unmuted <= MacFull
  BY DEF Mac!MacosAssumption

\* A command, a report, a subscription and no request are told apart by their tag.
LEMMA TagsDiffer ==
  /\ \A c \in Commands : /\ c[1] \in {"absolute", "relative", "mute"}
                         /\ c # Mac!Subscribe /\ c # Mac!NoRequest
  /\ \A r \in Reports : /\ r[1] = "volume" /\ r # Mac!Subscribe /\ r # Mac!NoRequest
                        /\ r # Mac!Idle /\ r # Mac!Read
  /\ Mac!Subscribe # Mac!NoRequest /\ Mac!Idle # Mac!Read
<1>1. \A c \in Commands : c[1] \in {"absolute", "relative", "mute"}
  BY DEF Commands
<1>2. \A r \in Reports : r[1] = "volume"
  BY DEF Reports
<1>3. /\ Mac!Subscribe[1] = "subscribe" /\ Mac!NoRequest[1] = "none"
      /\ Mac!Idle[1] = "idle" /\ Mac!Read[1] = "read"
  BY DEF Mac!Subscribe, Mac!NoRequest, Mac!Idle, Mac!Read
<1>4. QED
  BY <1>1, <1>2, <1>3

\* The channel of the adapter is counted like any other.
LEMMA InChannelIs == /\ Mac!InChannel = Holding(macQueue["edge"])
                     /\ Mac!InChannel' = Holding(macQueue'["edge"])
  BY Zenon DEF Mac!InChannel, Holding, Held, Cardinality, Mac!Cardinality

\* Nothing is on its way at the start.
LEMMA MacInit ==
  ASSUME Mac!MacosAssumption, Mac!Init
  PROVE  MacShape /\ OnItsWay /\ Mac!NoIntentLost
<1>1. MacFull \in Nat
  BY MacBounds
<1>2. volume \in 0..MacFull /\ restore = None /\ ran = 0 /\ macIntents = 0 /\ commands = <<>>
  BY <1>1 DEF Mac!Init
<1>3. conn = [s \in Mac!Sides |-> "down"] /\ wired = [s \in Mac!Sides |-> FALSE]
  BY DEF Mac!Init
<1>4. /\ DOMAIN macQueue = Mac!Sides /\ DOMAIN flying = Mac!Sides /\ DOMAIN inbox = Mac!Sides
      /\ macQueue["edge"] = <<>> /\ macQueue["hub"] = <<Mac!Subscribe>>
      /\ flying["edge"] = Mac!NoRequest /\ flying["hub"] = Mac!NoRequest
      /\ inbox["hub"] = <<>>
  BY DEF Mac!Init, Mac!Sides
<1>5. /\ <<>> \in Seq(Commands \cup {Mac!Subscribe}) /\ <<>> \in Seq(Commands)
      /\ Len(<<>>) = 0
  BY EmptySeq
<1>6. <<Mac!Subscribe>> \in Seq(Reports \cup {Mac!Subscribe})
  OBVIOUS
<1>7. job \in [Mac!Tasks -> Reports \cup {Mac!Idle, Mac!Read}]
  BY DEF Mac!Init, Mac!Tasks
<1>8. MacShape
  BY <1>2, <1>3, <1>4, <1>5, <1>6, <1>7 DEF MacShape
<1>9. OnItsWay
  BY <1>3 DEF OnItsWay
<1>10. Mac!InChannel = 0
  BY <1>4, HoldingEmpty, InChannelIs
<1>11. Mac!InFlight = 0
  BY <1>4 DEF Mac!InFlight
<1>12. Mac!NoIntentLost
  BY <1>2, <1>4, <1>5, <1>10, <1>11 DEF Mac!NoIntentLost
<1>13. QED
  BY <1>8, <1>9, <1>12

\* The volume stays a percentage, and every place holds what belongs there.
LEMMA MacShapeStep ==
  ASSUME Mac!MacosAssumption, MacShape, OnItsWay, [Mac!Next]_Mac!vars
  PROVE  MacShape'
<1>0. /\ MacFull \in Nat /\ Unmuted \in 0..MacFull
      /\ Mac!Sides = {"edge", "hub"} /\ Mac!Tasks = {"main", "tick"}
  <2>1. MacFull \in Nat /\ Unmuted \in Nat /\ Unmuted <= MacFull
    BY MacBounds
  <2>2. QED
    BY <2>1 DEF Mac!Sides, Mac!Tasks
<1> USE DEF MacShape
<1>1. ASSUME NEW s \in Mac!Sides, Mac!ConnAck(s) PROVE MacShape'
  <2>1. conn' \in [Mac!Sides -> {"down", "ack", "up"}] /\ wired' \in [Mac!Sides -> BOOLEAN]
    <3>1. (flying[s] # Mac!NoRequest) \in BOOLEAN
      OBVIOUS
    <3>2. QED
      BY <1>1, <3>1 DEF Mac!ConnAck
  <2>2. QED
    BY <1>1, <2>1 DEF Mac!ConnAck, Mac!counters
<1>2. ASSUME NEW s \in Mac!Sides, Mac!Send(s) PROVE MacShape'
  <2>1. /\ DOMAIN macQueue' = Mac!Sides /\ DOMAIN flying' = Mac!Sides
        /\ wired' \in [Mac!Sides -> BOOLEAN]
    BY <1>2 DEF Mac!Send
  <2>2. ASSUME NEW S, macQueue[s] \in Seq(S)
        PROVE  macQueue'[s] \in Seq(S) /\ flying'[s] \in S
    <3> PICK q : q = macQueue[s]
      OBVIOUS
    <3>1. q # <<>> /\ macQueue'[s] = Tail(q) /\ flying'[s] = Head(q)
      BY <1>2 DEF Mac!Send
    <3>2. q \in Seq(S)
      BY <2>2
    <3>3. Tail(q) \in Seq(S) /\ Head(q) \in S
      BY <3>1, <3>2
    <3>4. QED
      BY <3>1, <3>3
  <2>3. \A t \in Mac!Sides : t # s => macQueue'[t] = macQueue[t] /\ flying'[t] = flying[t]
    BY <1>2 DEF Mac!Send
  <2>4. /\ macQueue'["edge"] \in Seq(Commands \cup {Mac!Subscribe})
        /\ flying'["edge"] \in Commands \cup {Mac!Subscribe, Mac!NoRequest}
    BY <1>0, <2>2, <2>3
  <2>5. /\ macQueue'["hub"] \in Seq(Reports \cup {Mac!Subscribe})
        /\ flying'["hub"] \in Reports \cup {Mac!Subscribe, Mac!NoRequest}
    BY <1>0, <2>2, <2>3
  <2>6. QED
    BY <1>2, <2>1, <2>4, <2>5 DEF Mac!Send, Mac!counters
<1>3. ASSUME NEW s \in Mac!Sides, Mac!Arrive(s) PROVE MacShape'
  <2>1. /\ DOMAIN flying' = Mac!Sides /\ wired' \in [Mac!Sides -> BOOLEAN]
        /\ flying'["edge"] \in Commands \cup {Mac!Subscribe, Mac!NoRequest}
        /\ flying'["hub"] \in Reports \cup {Mac!Subscribe, Mac!NoRequest}
    BY <1>0, <1>3 DEF Mac!Arrive
  <2>2. flying[s] # Mac!NoRequest /\ wired[s]
    BY <1>3 DEF Mac!Arrive, OnItsWay
  <2>3. DOMAIN inbox' = Mac!Sides /\ inbox'["hub"] \in Seq(Commands)
    <3>1. CASE flying[s] = Mac!Subscribe \/ flying[s][1] = "volume"
      <4>1. \/ inbox' = inbox
            \/ \E e : inbox' = [inbox EXCEPT !["edge"] = Append(@, e)]
        BY <1>3, <3>1 DEF Mac!Arrive, Mac!Broker
      <4>2. DOMAIN inbox' = DOMAIN inbox /\ inbox'["hub"] = inbox["hub"]
        BY <1>0, <4>1
      <4>3. QED
        BY <4>2
    <3>2. CASE flying[s] # Mac!Subscribe /\ flying[s][1] # "volume"
      <4>1. \/ inbox' = inbox
            \/ inbox' = [inbox EXCEPT !["hub"] = Append(@, flying[s])]
        BY <1>3, <3>2 DEF Mac!Arrive, Mac!Broker
      <4>2. flying[s] \in Commands
        BY <1>0, <2>2, <3>2, TagsDiffer
      <4>3. Append(inbox["hub"], flying[s]) \in Seq(Commands)
        BY <4>2
      <4>4. QED
        BY <1>0, <4>1, <4>3
    <3>3. QED
      BY <3>1, <3>2
  <2>4. QED
    BY <1>3, <2>1, <2>3 DEF Mac!Arrive, Mac!counters
<1>4. ASSUME NEW s \in Mac!Sides, Mac!PubAck(s) PROVE MacShape'
  <2>1. /\ DOMAIN flying' = Mac!Sides
        /\ flying'["edge"] \in Commands \cup {Mac!Subscribe, Mac!NoRequest}
        /\ flying'["hub"] \in Reports \cup {Mac!Subscribe, Mac!NoRequest}
    BY <1>0, <1>4 DEF Mac!PubAck
  <2>2. QED
    BY <1>4, <2>1 DEF Mac!PubAck, Mac!counters
<1>5. ASSUME NEW s \in Mac!Sides, Mac!Break(s) PROVE MacShape'
  <2>1. /\ DOMAIN flying' = Mac!Sides /\ wired' \in [Mac!Sides -> BOOLEAN]
        /\ conn' \in [Mac!Sides -> {"down", "ack", "up"}]
        /\ flying'["edge"] \in Commands \cup {Mac!Subscribe, Mac!NoRequest}
        /\ flying'["hub"] \in Reports \cup {Mac!Subscribe, Mac!NoRequest}
    BY <1>0, <1>5 DEF Mac!Break, Mac!Unacked
  <2>2. DOMAIN inbox' = Mac!Sides /\ inbox'["hub"] \in Seq(Commands)
    <3>1. <<>> \in Seq(Commands)
      BY EmptySeq
    <3>2. QED
      BY <1>0, <1>5, <3>1 DEF Mac!Break
  <2>3. QED
    BY <1>5, <2>1, <2>2 DEF Mac!Break
<1>6. CASE Mac!EdgeAccepts
  <2>1. conn' \in [Mac!Sides -> {"down", "ack", "up"}]
    BY <1>6 DEF Mac!EdgeAccepts
  <2>2. /\ DOMAIN macQueue' = Mac!Sides
        /\ macQueue'["edge"] \in Seq(Commands \cup {Mac!Subscribe})
        /\ macQueue'["hub"] = macQueue["hub"]
    BY <1>0, <1>6 DEF Mac!EdgeAccepts, Mac!Enqueue
  <2>3. QED
    BY <1>6, <2>1, <2>2 DEF Mac!EdgeAccepts, Mac!counters
<1>7. CASE Mac!HubAccepts
  <2>1. conn' \in [Mac!Sides -> {"down", "ack", "up"}]
    BY <1>7 DEF Mac!HubAccepts
  <2>2. QED
    BY <1>7, <2>1 DEF Mac!HubAccepts, Mac!counters
<1>8. CASE Mac!SendIntent
  <2>1. PICK c \in Commands : Mac!Enqueue("edge", c)
    BY <1>8 DEF Mac!SendIntent, Commands
  <2>2. /\ DOMAIN macQueue' = Mac!Sides
        /\ macQueue'["edge"] \in Seq(Commands \cup {Mac!Subscribe})
        /\ macQueue'["hub"] = macQueue["hub"]
    BY <1>0, <2>1 DEF Mac!Enqueue
  <2>3. /\ macIntents' \in Nat
        /\ UNCHANGED <<volume, restore, conn, flying, wired, inbox, commands, job, ran>>
    BY <1>8 DEF Mac!SendIntent
  <2>4. QED
    BY <2>2, <2>3
<1>9. CASE Mac!HandlePublish
  <2>1. DOMAIN inbox' = Mac!Sides /\ inbox'["hub"] = inbox["hub"]
    BY <1>0, <1>9 DEF Mac!HandlePublish
  <2>2. QED
    BY <1>9, <2>1 DEF Mac!HandlePublish, Mac!counters
<1>10. CASE Mac!Forward
  <2>1. DOMAIN inbox' = Mac!Sides /\ inbox'["hub"] = Tail(inbox["hub"])
    BY <1>0, <1>10 DEF Mac!Forward
  <2>2. inbox["hub"] # <<>> /\ commands' = Append(commands, Head(inbox["hub"]))
    BY <1>10 DEF Mac!Forward
  <2>3. inbox'["hub"] \in Seq(Commands) /\ commands' \in Seq(Commands)
    BY <2>1, <2>2
  <2>4. QED
    BY <1>10, <2>1, <2>3 DEF Mac!Forward, Mac!counters
<1>11. CASE Mac!HandleCommand
  <2> DEFINE request == Head(commands)
  <2>1. request \in Commands /\ commands' \in Seq(Commands)
    BY <1>11 DEF Mac!HandleCommand
  <2>2. volume' \in 0..MacFull /\ restore' \in (0..MacFull) \cup {None}
    <3>1. CASE request[1] # "mute" /\ volume' = Mac!ApplyVolumeCommand(request) /\ UNCHANGED restore
      <4>1. request = <<"absolute", MacFull>> \/ request = <<"relative", -1>>
        <5>1. /\ <<"mute", "toggle">>[1] = "mute" /\ <<"mute", "unmute">>[1] = "mute"
          OBVIOUS
        <5>2. QED
          BY <2>1, <3>1, <5>1, Zenon DEF Commands
      <4>2. request[2] \in Int
        BY <1>0, <4>1
      <4>3. PICK next \in Int : next = IF request[1] = "absolute" THEN request[2]
                                                                 ELSE volume + request[2]
        BY <4>2
      <4>4. (IF next < 0 THEN 0 ELSE IF next > MacFull THEN MacFull ELSE next) \in 0..MacFull
        BY <1>0
      <4>5. Mac!ApplyVolumeCommand(request) \in 0..MacFull
        BY <4>3, <4>4 DEF Mac!ApplyVolumeCommand
      <4>6. QED
        BY <3>1, <4>5
    <3>2. CASE restore' = volume /\ volume' = 0
      BY <1>0, <3>2
    <3>3. CASE restore' = None /\ volume' = IF restore = None THEN Unmuted ELSE restore
      BY <1>0, <3>3
    <3>4. QED
      BY <1>11, <3>1, <3>2, <3>3 DEF Mac!HandleCommand
  <2>3. job' \in [Mac!Tasks -> Reports \cup {Mac!Idle, Mac!Read}] /\ ran' \in Nat
    <3>1. job' = [job EXCEPT !["main"] = Mac!Read] /\ ran' = ran + 1
      BY <1>11 DEF Mac!HandleCommand
    <3>2. job' \in [Mac!Tasks -> Reports \cup {Mac!Idle, Mac!Read}]
      BY <3>1
    <3>3. ran' \in Nat
      BY <3>1
    <3>4. QED
      BY <3>2, <3>3
  <2>4. QED
    BY <1>11, <2>1, <2>2, <2>3 DEF Mac!HandleCommand, Mac!net, Mac!counters
<1>12. CASE Mac!ReadVolume \/ Mac!Tick
  <2>1. <<"volume", volume>> \in Reports
    BY DEF Reports
  <2>2. job' \in [Mac!Tasks -> Reports \cup {Mac!Idle, Mac!Read}]
    BY <1>12, <2>1 DEF Mac!ReadVolume, Mac!Tick
  <2>3. QED
    BY <1>12, <2>2 DEF Mac!ReadVolume, Mac!Tick, Mac!net, Mac!counters
<1>13. ASSUME NEW k \in Mac!Tasks, Mac!PublishVolume(k) PROVE MacShape'
  <2>1. job[k] \in Reports
    BY <1>13 DEF Mac!PublishVolume
  <2>2. /\ DOMAIN macQueue' = Mac!Sides
        /\ macQueue'["hub"] \in Seq(Reports \cup {Mac!Subscribe})
        /\ macQueue'["edge"] = macQueue["edge"]
    BY <1>0, <1>13, <2>1 DEF Mac!PublishVolume, Mac!Enqueue
  <2>3. job' \in [Mac!Tasks -> Reports \cup {Mac!Idle, Mac!Read}]
    BY <1>13 DEF Mac!PublishVolume
  <2>4. QED
    BY <1>13, <2>2, <2>3 DEF Mac!PublishVolume, Mac!counters
<1>14. CASE Mac!TouchVolume
  <2>1. volume' \in 0..MacFull
    BY <1>14 DEF Mac!TouchVolume, Mac!Volumes
  <2>2. QED
    BY <1>14, <2>1 DEF Mac!TouchVolume, Mac!net
<1>15. CASE UNCHANGED Mac!vars
  BY <1>15 DEF Mac!vars, Mac!net, Mac!counters
<1>16. QED
  <2>1. CASE Mac!EventLoops
    BY <1>1, <1>2, <1>3, <1>4, <1>6, <1>7, <1>9, <1>10, <2>1 DEF Mac!EventLoops
  <2>2. CASE Mac!HubTask \/ Mac!Tick \/ Mac!PublishVolume("tick")
    BY <1>0, <1>11, <1>12, <1>13, <2>2 DEF Mac!HubTask
  <2>3. CASE Mac!SendIntent \/ Mac!TouchVolume \/ (\E s \in Mac!Sides : Mac!Break(s))
    BY <1>5, <1>8, <1>14, <2>3
  <2>4. QED
    BY <1>15, <2>1, <2>2, <2>3 DEF Mac!Next

\* Requests stay on their way until they arrive or their connection breaks.
LEMMA OnItsWayStep ==
  ASSUME MacShape, OnItsWay, [Mac!Next]_Mac!vars
  PROVE  OnItsWay'
<1>0. DOMAIN conn = Mac!Sides /\ DOMAIN wired = Mac!Sides /\ DOMAIN flying = Mac!Sides
  BY DEF MacShape
<1>1. ASSUME UNCHANGED <<conn, flying, wired>> PROVE OnItsWay'
  BY <1>1 DEF OnItsWay
<1>2. ASSUME NEW s \in Mac!Sides, Mac!ConnAck(s) PROVE OnItsWay'
  BY <1>0, <1>2 DEF Mac!ConnAck, OnItsWay
<1>3. ASSUME NEW s \in Mac!Sides, Mac!Send(s) PROVE OnItsWay'
  <2>1. Head(macQueue[s]) # Mac!NoRequest
    <3>1. ASSUME NEW S, NEW q \in Seq(S), q # <<>> PROVE Head(q) \in S
      BY <3>1
    <3>2. s \in {"edge", "hub"}
      BY DEF Mac!Sides
    <3>3. macQueue[s] # <<>>
      BY <1>3 DEF Mac!Send
    <3>4. CASE s = "edge"
      <4>1. Head(macQueue[s]) \in Commands \cup {Mac!Subscribe}
        BY <3>1, <3>3, <3>4 DEF MacShape
      <4>2. QED
        BY <4>1, TagsDiffer
    <3>5. CASE s = "hub"
      <4>1. Head(macQueue[s]) \in Reports \cup {Mac!Subscribe}
        BY <3>1, <3>3, <3>5 DEF MacShape
      <4>2. QED
        BY <4>1, TagsDiffer
    <3>6. QED
      BY <3>2, <3>4, <3>5
  <2>2. QED
    BY <1>0, <1>3, <2>1 DEF Mac!Send, OnItsWay
<1>4. ASSUME NEW s \in Mac!Sides, Mac!Arrive(s) PROVE OnItsWay'
  BY <1>0, <1>4 DEF Mac!Arrive, OnItsWay
<1>5. ASSUME NEW s \in Mac!Sides, Mac!PubAck(s) PROVE OnItsWay'
  BY <1>0, <1>5 DEF Mac!PubAck, OnItsWay
<1>6. ASSUME NEW s \in Mac!Sides, Mac!Break(s) PROVE OnItsWay'
  BY <1>0, <1>6 DEF Mac!Break, OnItsWay
<1>7. CASE Mac!EdgeAccepts \/ Mac!HubAccepts
  BY <1>0, <1>7 DEF Mac!EdgeAccepts, Mac!HubAccepts, OnItsWay
<1>8. CASE Mac!HandlePublish \/ Mac!Forward \/ Mac!SendIntent
  BY <1>1, <1>8 DEF Mac!HandlePublish, Mac!Forward, Mac!SendIntent
<1>9. CASE Mac!HandleCommand \/ Mac!ReadVolume \/ Mac!Tick \/ Mac!TouchVolume
  BY <1>1, <1>9 DEF Mac!HandleCommand, Mac!ReadVolume, Mac!Tick, Mac!TouchVolume, Mac!net
<1>10. ASSUME NEW k, Mac!PublishVolume(k) PROVE OnItsWay'
  BY <1>1, <1>10 DEF Mac!PublishVolume
<1>11. CASE UNCHANGED Mac!vars
  BY <1>1, <1>11 DEF Mac!vars, Mac!net
<1>12. QED
  <2>1. CASE Mac!EventLoops
    BY <1>2, <1>3, <1>4, <1>5, <1>7, <1>8, <2>1 DEF Mac!EventLoops
  <2>2. CASE Mac!HubTask \/ Mac!Tick \/ Mac!PublishVolume("tick")
    BY <1>9, <1>10, <2>2 DEF Mac!HubTask
  <2>3. CASE Mac!SendIntent \/ Mac!TouchVolume \/ (\E s \in Mac!Sides : Mac!Break(s))
    BY <1>6, <1>8, <1>9, <2>3
  <2>4. QED
    BY <1>11, <2>1, <2>2, <2>3 DEF Mac!Next

-----------------------------------------------------------------------------
(* Where an intent may be. *)

AtHub == ran + Len(commands) + Len(inbox["hub"])
Kept == AtHub + Mac!InFlight + Mac!InChannel

\* The sum is made of numbers.
Counted ==
  /\ Len(commands) \in Nat /\ Len(inbox["hub"]) \in Nat /\ ran \in Nat /\ macIntents \in Nat
  /\ AtHub \in Nat /\ Mac!InFlight \in {0, 1} /\ Mac!InChannel \in Nat /\ Kept \in Nat

LEMMA Sum ==
  ASSUME NEW a \in Nat, NEW b \in Nat, NEW c \in Nat
  PROVE  a + b + c \in Nat
  OBVIOUS

\* What a step does to the sum: a command is taken up, arrives, is sent again,
\* is counted where it arrives, is forwarded and is executed.
LEMMA SumTaken == \A h, k \in Nat : h + 1 + k = h + 0 + (k + 1)
  OBVIOUS
LEMMA SumArrived == \A h, k \in Nat : \A f, g \in {0, 1} : (h + 1) + f + k >= h + g + k
  OBVIOUS
LEMMA SumResent == \A h, k \in Nat : \A f, g \in {0, 1} : f >= g => h + f + k >= h + g + k
  OBVIOUS
LEMMA SumCounted == \A r, c, i \in Nat : r + c + (i + 1) = (r + c + i) + 1
  OBVIOUS
LEMMA SumForwarded == \A r, c, i \in Nat : r + (c + 1) + i = r + c + (i + 1)
  OBVIOUS
LEMMA SumExecuted == \A r, c, i \in Nat : (r + 1) + c + i = r + (c + 1) + i
  OBVIOUS

\* Before a step and after it.
LEMMA KeptIs == (MacShape => Counted) /\ (MacShape' => Counted')
<1>1. ASSUME MacShape PROVE Counted
  <2>1. /\ Len(commands) \in Nat /\ Len(inbox["hub"]) \in Nat /\ ran \in Nat
        /\ macIntents \in Nat
    BY <1>1 DEF MacShape
  <2>2. Mac!InFlight \in {0, 1}
    BY DEF Mac!InFlight
  <2>3. Mac!InChannel \in Nat
    BY <1>1, InChannelIs, HoldingIs DEF MacShape
  <2>4. AtHub \in Nat
    BY <2>1, Sum, Zenon DEF AtHub
  <2>5. Mac!InFlight \in Nat
    BY <2>2
  <2>6. Kept \in Nat
    BY <2>3, <2>4, <2>5, Sum, Zenon DEF Kept
  <2>7. QED
    BY <2>1, <2>2, <2>3, <2>4, <2>6 DEF Counted
<1>2. ASSUME MacShape' PROVE Counted'
  <2>1. /\ Len(commands') \in Nat /\ Len(inbox'["hub"]) \in Nat /\ ran' \in Nat
        /\ macIntents' \in Nat
    BY <1>2 DEF MacShape
  <2>2. Mac!InFlight' \in {0, 1}
    BY DEF Mac!InFlight
  <2>3. Mac!InChannel' \in Nat
    BY <1>2, InChannelIs, HoldingIs DEF MacShape
  <2>4. AtHub' \in Nat
    BY <2>1, Sum, Zenon DEF AtHub
  <2>5. Mac!InFlight' \in Nat
    BY <2>2
  <2>6. Kept' \in Nat
    BY <2>3, <2>4, <2>5, Sum, Zenon DEF Kept
  <2>7. QED
    BY <2>1, <2>2, <2>3, <2>4, <2>6 DEF Counted
<1>3. QED
  BY <1>1, <1>2

\* A step loses no intent unless one is missed: what leaves one place of the
\* way comes to the next.
NoneLost ==
  /\ macMissed => macMissed'
  /\ \/ macMissed'
     \/ macIntents' = macIntents /\ Kept' >= Kept
     \/ macIntents' = macIntents + 1 /\ Kept' = Kept + 1

LEMMA KeptStep ==
  ASSUME MacShape, OnItsWay, MacShape', [Mac!Next]_Mac!vars
  PROVE  NoneLost
<1> DEFINE Edge == <<flying["edge"], wired["edge"], conn["edge"]>>
           Hub == <<ran, commands, inbox["hub"]>>
<1> USE DEF NoneLost
<1>0. DOMAIN conn = Mac!Sides /\ DOMAIN wired = Mac!Sides /\ Mac!Sides = {"edge", "hub"}
  BY DEF MacShape, Mac!Sides
<1>00. DOMAIN flying = Mac!Sides /\ DOMAIN macQueue = Mac!Sides /\ DOMAIN inbox = Mac!Sides
  BY DEF MacShape
<1>a. AtHub \in Nat /\ Mac!InFlight \in {0, 1} /\ Mac!InChannel \in Nat
  BY KeptIs DEF Counted
<1>b. AtHub' \in Nat /\ Mac!InFlight' \in {0, 1} /\ Mac!InChannel' \in Nat
  BY KeptIs DEF Counted
<1>c. ASSUME UNCHANGED Hub PROVE AtHub' = AtHub
  BY <1>c DEF AtHub
<1>d. ASSUME UNCHANGED Edge PROVE Mac!InFlight' = Mac!InFlight
  BY <1>d DEF Mac!InFlight
<1>e. ASSUME UNCHANGED macQueue["edge"] PROVE Mac!InChannel' = Mac!InChannel
  BY <1>e, InChannelIs
<1>f. ASSUME macIntents' = macIntents, macMissed' = macMissed,
             AtHub' = AtHub, Mac!InFlight' = Mac!InFlight, Mac!InChannel' = Mac!InChannel
      PROVE  NoneLost
  BY <1>a, <1>f DEF Kept
<1>1. ASSUME NEW s \in Mac!Sides, Mac!ConnAck(s) PROVE NoneLost
  <2>1. /\ UNCHANGED Hub /\ UNCHANGED macQueue["edge"] /\ UNCHANGED flying["edge"]
        /\ macIntents' = macIntents /\ macMissed' = macMissed
    BY <1>1 DEF Mac!ConnAck, Mac!counters
  <2>2. \/ UNCHANGED Edge
        \/ conn["edge"] = "down" /\ conn'["edge"] = "ack"
    BY <1>0, <1>1 DEF Mac!ConnAck
  <2>3. Mac!InFlight' = Mac!InFlight
    BY <1>d, <2>1, <2>2 DEF Mac!InFlight
  <2>4. QED
    BY <1>c, <1>e, <1>f, <2>1, <2>3
<1>2. ASSUME NEW s \in Mac!Sides, Mac!Send(s) PROVE NoneLost
  <2>1. UNCHANGED Hub /\ macIntents' = macIntents /\ macMissed' = macMissed /\ conn' = conn
    BY <1>2 DEF Mac!Send, Mac!counters
  <2>2. CASE s = "hub"
    <3>1. UNCHANGED Edge /\ UNCHANGED macQueue["edge"]
      BY <1>0, <1>00, <1>2, <2>2 DEF Mac!Send
    <3>2. QED
      BY <1>c, <1>d, <1>e, <1>f, <2>1, <3>1
  <2>3. CASE s = "edge"
    <3> PICK q : q = macQueue["edge"]
      OBVIOUS
    <3>1. /\ conn["edge"] = "up" /\ flying["edge"] = Mac!NoRequest /\ q # <<>>
          /\ macQueue'["edge"] = Tail(q) /\ flying'["edge"] = Head(q) /\ wired'["edge"] = TRUE
      BY <1>0, <1>00, <1>2, <2>3 DEF Mac!Send
    <3>2. q \in Seq(Commands \cup {Mac!Subscribe})
      BY DEF MacShape
    <3>3. Head(q) \in Commands \cup {Mac!Subscribe}
      BY <3>1, <3>2
    <3>4. Head(q) # Mac!NoRequest
      BY <3>3, TagsDiffer
    <3>5. Mac!InFlight = 0
      BY <3>1 DEF Mac!InFlight
    <3>6. Mac!InFlight' = IF Head(q) = Mac!Subscribe THEN 0 ELSE 1
      BY <3>1, <3>4 DEF Mac!InFlight
    <3>7. Mac!InChannel = IF Head(q) = Mac!Subscribe THEN Mac!InChannel' ELSE Mac!InChannel' + 1
      BY <3>1, <3>2, HoldingTail, InChannelIs
    <3>8. AtHub' = AtHub
      BY <1>c, <2>1
    <3>9. CASE Head(q) = Mac!Subscribe
      BY <1>f, <2>1, <3>5, <3>6, <3>7, <3>8, <3>9
    <3>10. CASE Head(q) # Mac!Subscribe
      <4>1. Kept' = AtHub + 1 + Mac!InChannel' /\ Kept = AtHub + 0 + (Mac!InChannel' + 1)
        BY <3>5, <3>6, <3>7, <3>8, <3>10, Zenon DEF Kept
      <4>2. Kept' = Kept
        BY <1>a, <1>b, <4>1, SumTaken, Zenon
      <4>3. Kept \in Nat
        BY KeptIs DEF Counted
      <4>4. Kept' >= Kept
        BY <4>2, <4>3
      <4>5. QED
        BY <2>1, <4>4
    <3>11. QED
      BY <3>9, <3>10
  <2>4. QED
    BY <1>0, <2>2, <2>3
<1>3. ASSUME NEW s \in Mac!Sides, Mac!Arrive(s) PROVE NoneLost
  <2>1. /\ ran' = ran /\ commands' = commands /\ UNCHANGED macQueue["edge"]
        /\ macIntents' = macIntents /\ conn' = conn
        /\ conn[s] = "up" /\ wired[s] /\ wired' = [wired EXCEPT ![s] = FALSE]
        /\ Mac!Broker(s, flying[s])
    BY <1>3 DEF Mac!Arrive, Mac!counters
  <2>2. flying[s] # Mac!NoRequest
    BY <2>1 DEF OnItsWay
  <2>3. macMissed => macMissed'
    BY <2>1 DEF Mac!Broker
  <2>4. Mac!InChannel' = Mac!InChannel
    BY <1>e, <2>1
  <2>5. CASE s = "hub"
    <3>1. UNCHANGED Edge
      BY <1>0, <1>00, <1>3, <2>5 DEF Mac!Arrive
    <3>2. flying[s] = Mac!Subscribe \/ flying[s][1] = "volume"
      BY <2>2, <2>5, TagsDiffer DEF MacShape
    <3>3. /\ \/ inbox' = inbox
             \/ \E e : inbox' = [inbox EXCEPT !["edge"] = Append(@, e)]
          /\ macMissed' = macMissed
      BY <2>1, <3>2 DEF Mac!Broker
    <3>4. UNCHANGED Hub
      BY <1>0, <1>00, <2>1, <3>3
    <3>5. QED
      BY <1>c, <1>d, <1>f, <2>1, <2>4, <3>1, <3>3, <3>4
  <2>6. CASE s = "edge" /\ flying[s] = Mac!Subscribe
    <3>1. inbox'["hub"] = inbox["hub"] /\ macMissed' = macMissed
      BY <1>0, <1>00, <2>1, <2>6 DEF Mac!Broker
    <3>2. flying'["edge"] = Mac!NoRequest
      BY <1>00, <1>3, <2>6 DEF Mac!Arrive
    <3>3. Mac!InFlight' = 0 /\ Mac!InFlight = 0
      BY <2>6, <3>2 DEF Mac!InFlight
    <3>4. QED
      BY <1>c, <1>f, <2>1, <2>4, <3>1, <3>3
  <2>7. CASE s = "edge" /\ flying[s] # Mac!Subscribe
    <3>1. flying[s] \in Commands /\ flying[s][1] # "volume"
      BY <2>2, <2>7, TagsDiffer DEF MacShape
    <3>2. \/ macMissed'
          \/ inbox' = [inbox EXCEPT !["hub"] = Append(@, flying[s])]
      BY <2>1, <2>7, <3>1 DEF Mac!Broker
    <3>3. CASE macMissed'
      BY <3>3
    <3>4. CASE inbox' = [inbox EXCEPT !["hub"] = Append(@, flying[s])]
      <4>1. inbox'["hub"] = Append(inbox["hub"], flying[s])
        BY <1>0, <1>00, <3>4
      <4>2. Len(inbox'["hub"]) = Len(inbox["hub"]) + 1
        <5>1. inbox["hub"] \in Seq(Commands)
          BY DEF MacShape
        <5>2. QED
          BY <3>1, <4>1, <5>1
      <4>3. AtHub' = AtHub + 1
        <5>1. Len(inbox["hub"]) \in Nat /\ Len(commands) \in Nat /\ ran \in Nat
          BY DEF MacShape
        <5>2. /\ AtHub' = ran + Len(commands) + (Len(inbox["hub"]) + 1)
              /\ AtHub = ran + Len(commands) + Len(inbox["hub"])
          BY <2>1, <4>2, Zenon DEF AtHub
        <5>3. QED
          BY <5>1, <5>2, SumCounted, Zenon
      <4>4. Kept' = (AtHub + 1) + Mac!InFlight' + Mac!InChannel
        BY <2>4, <4>3, Zenon DEF Kept
      <4>5. Kept = AtHub + Mac!InFlight + Mac!InChannel
        BY DEF Kept
      <4>6. Kept' >= Kept
        BY <1>a, <1>b, <4>4, <4>5, SumArrived, Zenon
      <4>7. QED
        BY <2>1, <2>3, <4>6
    <3>5. QED
      BY <3>2, <3>3, <3>4
  <2>8. QED
    BY <1>0, <2>5, <2>6, <2>7
<1>4. ASSUME NEW s \in Mac!Sides, Mac!PubAck(s) PROVE NoneLost
  <2>1. /\ UNCHANGED Hub /\ UNCHANGED macQueue["edge"]
        /\ macIntents' = macIntents /\ macMissed' = macMissed
    BY <1>4 DEF Mac!PubAck, Mac!counters
  <2>2. \/ UNCHANGED Edge
        \/ /\ conn["edge"] = "up" /\ ~wired["edge"] /\ flying'["edge"] = Mac!NoRequest
    BY <1>0, <1>00, <1>4 DEF Mac!PubAck
  <2>3. Mac!InFlight' = Mac!InFlight
    BY <1>d, <2>2 DEF Mac!InFlight
  <2>4. QED
    BY <1>c, <1>e, <1>f, <2>1, <2>3
<1>5. ASSUME NEW s \in Mac!Sides, Mac!Break(s) PROVE NoneLost
  <2>1. /\ ran' = ran /\ commands' = commands /\ UNCHANGED macQueue["edge"]
        /\ macIntents' = macIntents
    BY <1>5 DEF Mac!Break
  <2>2. /\ macMissed => macMissed'
        /\ macMissed' \/ inbox'["hub"] = inbox["hub"]
    BY <1>0, <1>00, <1>5 DEF Mac!Break
  <2>3. \/ UNCHANGED Edge
        \/ /\ conn'["edge"] = "down"
           /\ flying'["edge"] = IF flying["edge"] = Mac!Subscribe THEN Mac!NoRequest
                                                                ELSE flying["edge"]
    BY <1>0, <1>00, <1>5 DEF Mac!Break, Mac!Unacked
  <2>4. Mac!InFlight' >= Mac!InFlight
    <3>1. CASE UNCHANGED Edge
      BY <1>a, <1>d, <3>1
    <3>2. CASE ~UNCHANGED Edge
      BY <1>a, <2>3, <3>2 DEF Mac!InFlight
    <3>3. QED
      BY <3>1, <3>2
  <2>5. CASE macMissed'
    BY <2>5
  <2>6. CASE inbox'["hub"] = inbox["hub"]
    <3>1. AtHub' = AtHub /\ Mac!InChannel' = Mac!InChannel
      BY <1>c, <1>e, <2>1, <2>6
    <3>2. /\ Kept' = AtHub + Mac!InFlight' + Mac!InChannel
          /\ Kept = AtHub + Mac!InFlight + Mac!InChannel
      BY <3>1, Zenon DEF Kept
    <3>3. Kept' >= Kept
      BY <1>a, <1>b, <2>4, <3>2, SumResent, Zenon
    <3>4. QED
      BY <2>1, <2>2, <3>3
  <2>7. QED
    BY <2>2, <2>5, <2>6
<1>6. CASE Mac!EdgeAccepts
  <2>1. /\ UNCHANGED Hub /\ UNCHANGED flying /\ UNCHANGED wired
        /\ macIntents' = macIntents /\ macMissed' = macMissed
        /\ conn["edge"] = "ack" /\ conn'["edge"] = "up"
        /\ macQueue'["edge"] = Append(macQueue["edge"], Mac!Subscribe)
    BY <1>0, <1>00, <1>6 DEF Mac!EdgeAccepts, Mac!Enqueue, Mac!counters
  <2>2. wired["edge"] <=> flying["edge"] # Mac!NoRequest
    BY <1>0, <2>1 DEF OnItsWay
  <2>3. Mac!InFlight' = Mac!InFlight
    BY <2>1, <2>2 DEF Mac!InFlight
  <2>4. Mac!InChannel' = Mac!InChannel
    <3>1. macQueue["edge"] \in Seq(Commands \cup {Mac!Subscribe})
      BY DEF MacShape
    <3>2. Mac!Subscribe \in Commands \cup {Mac!Subscribe}
      OBVIOUS
    <3>3. Holding(Append(macQueue["edge"], Mac!Subscribe)) = Holding(macQueue["edge"])
      BY <3>1, <3>2, HoldingAppend
    <3>4. QED
      BY <2>1, <3>3, InChannelIs
  <2>5. QED
    BY <1>c, <1>f, <2>1, <2>3, <2>4
<1>7. CASE Mac!HubAccepts
  <2>1. /\ UNCHANGED Hub /\ UNCHANGED Edge /\ UNCHANGED macQueue["edge"]
        /\ macIntents' = macIntents /\ macMissed' = macMissed
    BY <1>0, <1>7 DEF Mac!HubAccepts, Mac!counters
  <2>2. QED
    BY <1>c, <1>d, <1>e, <1>f, <2>1
<1>8. CASE Mac!SendIntent
  <2>1. PICK c \in Commands : Mac!Enqueue("edge", c)
    BY <1>8 DEF Mac!SendIntent, Commands
  <2>2. macQueue'["edge"] = Append(macQueue["edge"], c)
    BY <1>0, <1>00, <2>1 DEF Mac!Enqueue
  <2>3. UNCHANGED Hub /\ UNCHANGED Edge /\ macIntents' = macIntents + 1 /\ macMissed' = macMissed
    BY <1>8 DEF Mac!SendIntent
  <2>4. Mac!InChannel' = Mac!InChannel + 1
    <3>1. macQueue["edge"] \in Seq(Commands \cup {Mac!Subscribe}) /\ c # Mac!Subscribe
      BY TagsDiffer DEF MacShape
    <3>2. c \in Commands \cup {Mac!Subscribe}
      OBVIOUS
    <3>3. Holding(Append(macQueue["edge"], c)) = Holding(macQueue["edge"]) + 1
      BY <3>1, <3>2, HoldingAppend
    <3>4. QED
      BY <2>2, <3>3, InChannelIs
  <2>5. AtHub' = AtHub /\ Mac!InFlight' = Mac!InFlight
    BY <1>c, <1>d, <2>3
  <2>6. Kept' = Kept + 1
    BY <1>a, <2>4, <2>5 DEF Kept
  <2>7. QED
    BY <2>3, <2>6
<1>9. CASE Mac!HandlePublish
  <2>1. /\ UNCHANGED Hub /\ UNCHANGED Edge /\ UNCHANGED macQueue["edge"]
        /\ macIntents' = macIntents /\ macMissed' = macMissed
    BY <1>0, <1>00, <1>9 DEF Mac!HandlePublish, Mac!counters
  <2>2. QED
    BY <1>c, <1>d, <1>e, <1>f, <2>1
<1>10. CASE Mac!Forward
  <2>1. /\ UNCHANGED ran /\ UNCHANGED Edge /\ UNCHANGED macQueue["edge"]
        /\ macIntents' = macIntents /\ macMissed' = macMissed
    BY <1>10 DEF Mac!Forward, Mac!counters
  <2> PICK q : q = inbox["hub"]
    OBVIOUS
  <2>2. q # <<>> /\ inbox'["hub"] = Tail(q) /\ commands' = Append(commands, Head(q))
    BY <1>0, <1>00, <1>10 DEF Mac!Forward
  <2>3. q \in Seq(Commands) /\ commands \in Seq(Commands)
    BY DEF MacShape
  <2>4. Len(q) = Len(Tail(q)) + 1
    BY <2>2, <2>3
  <2>5. Head(q) \in Commands
    BY <2>2, <2>3
  <2>6. Len(commands') = Len(commands) + 1 /\ Len(commands) \in Nat
    BY <2>2, <2>3, <2>5
  <2>7. AtHub' = AtHub
    <3>1. ran \in Nat /\ Len(Tail(q)) \in Nat
      <4>1. Tail(q) \in Seq(Commands)
        BY <2>2, <2>3
      <4>2. QED
        BY <4>1 DEF MacShape
    <3>2. /\ AtHub' = ran + (Len(commands) + 1) + Len(Tail(q))
          /\ AtHub = ran + Len(commands) + (Len(Tail(q)) + 1)
      BY <2>1, <2>2, <2>4, <2>6, Zenon DEF AtHub
    <3>3. QED
      BY <2>6, <3>1, <3>2, SumForwarded, Zenon
  <2>8. QED
    BY <1>d, <1>e, <1>f, <2>1, <2>7
<1>11. CASE Mac!HandleCommand
  <2>1. /\ UNCHANGED inbox /\ UNCHANGED Edge /\ UNCHANGED macQueue["edge"]
        /\ macIntents' = macIntents /\ macMissed' = macMissed
        /\ commands # <<>> /\ commands' = Tail(commands) /\ ran' = ran + 1
    BY <1>11 DEF Mac!HandleCommand, Mac!net, Mac!counters
  <2>2. AtHub' = AtHub
    <3>1. commands \in Seq(Commands) /\ inbox["hub"] \in Seq(Commands) /\ ran \in Nat
      BY DEF MacShape
    <3>2. Len(commands) \in Nat /\ Len(inbox["hub"]) \in Nat
      BY <3>1
    <3>3. Len(commands) = Len(Tail(commands)) + 1
      BY <2>1, <3>1
    <3>4. Len(Tail(commands)) \in Nat
      <4>1. Tail(commands) \in Seq(Commands)
        BY <2>1, <3>1
      <4>2. QED
        BY <4>1
    <3>5. /\ AtHub' = (ran + 1) + Len(Tail(commands)) + Len(inbox["hub"])
          /\ AtHub = ran + (Len(Tail(commands)) + 1) + Len(inbox["hub"])
      BY <2>1, <3>3, Zenon DEF AtHub
    <3>6. QED
      BY <3>1, <3>2, <3>4, <3>5, SumExecuted, Zenon
  <2>3. QED
    BY <1>d, <1>e, <1>f, <2>1, <2>2
<1>12. CASE Mac!ReadVolume \/ Mac!Tick \/ Mac!TouchVolume
  <2>1. /\ UNCHANGED Hub /\ UNCHANGED Edge /\ UNCHANGED macQueue["edge"]
        /\ macIntents' = macIntents /\ macMissed' = macMissed
    BY <1>12 DEF Mac!ReadVolume, Mac!Tick, Mac!TouchVolume, Mac!net, Mac!counters
  <2>2. QED
    BY <1>c, <1>d, <1>e, <1>f, <2>1
<1>13. ASSUME NEW k, Mac!PublishVolume(k) PROVE NoneLost
  <2>1. /\ UNCHANGED Hub /\ UNCHANGED Edge /\ UNCHANGED macQueue["edge"]
        /\ macIntents' = macIntents /\ macMissed' = macMissed
    BY <1>0, <1>00, <1>13 DEF Mac!PublishVolume, Mac!Enqueue, Mac!counters
  <2>2. QED
    BY <1>c, <1>d, <1>e, <1>f, <2>1
<1>14. CASE UNCHANGED Mac!vars
  <2>1. /\ UNCHANGED Hub /\ UNCHANGED Edge /\ UNCHANGED macQueue["edge"]
        /\ macIntents' = macIntents /\ macMissed' = macMissed
    BY <1>14 DEF Mac!vars, Mac!net, Mac!counters
  <2>2. QED
    BY <1>c, <1>d, <1>e, <1>f, <2>1
<1> HIDE DEF NoneLost
<1>15. QED
  <2>1. CASE Mac!EventLoops
    BY <1>1, <1>2, <1>3, <1>4, <1>6, <1>7, <1>9, <1>10, <2>1 DEF Mac!EventLoops
  <2>2. CASE Mac!HubTask \/ Mac!Tick \/ Mac!PublishVolume("tick")
    BY <1>11, <1>12, <1>13, <2>2 DEF Mac!HubTask
  <2>3. CASE Mac!SendIntent \/ Mac!TouchVolume \/ (\E s \in Mac!Sides : Mac!Break(s))
    BY <1>5, <1>8, <1>12, <2>3
  <2>4. QED
    BY <1>14, <2>1, <2>2, <2>3 DEF Mac!Next

\* However connections are lost on either side of the broker, an intent the
\* adapter took is executed or still on its way, unless one came to the broker,
\* or lay there, while the hub had no subscription.
THEOREM IntentsAreKept ==
  ASSUME Mac!MacosAssumption
  PROVE  Mac!Spec => []Mac!NoIntentLost
<1> DEFINE Inv == MacShape /\ OnItsWay /\ Mac!NoIntentLost
<1>1. Mac!Init => Inv
  BY MacInit
<1>2. Inv /\ [Mac!Next]_Mac!vars => Inv'
  <2> SUFFICES ASSUME Inv, [Mac!Next]_Mac!vars PROVE Inv'
    OBVIOUS
  <2>1. MacShape' /\ OnItsWay'
    BY MacShapeStep, OnItsWayStep
  <2>2. NoneLost
    BY <2>1, KeptStep
  <2>3. macMissed \/ Kept >= macIntents
    BY DEF Mac!NoIntentLost, Kept, AtHub
  <2>4. Kept \in Nat /\ Kept' \in Nat /\ macIntents \in Nat /\ macIntents' \in Nat
    <3>1. Kept \in Nat /\ macIntents \in Nat
      BY KeptIs DEF Counted
    <3>2. Kept' \in Nat /\ macIntents' \in Nat
      BY <2>1, KeptIs DEF Counted
    <3>3. QED
      BY <3>1, <3>2
  <2>5. macMissed' \/ Kept' >= macIntents'
    BY <2>2, <2>3, <2>4 DEF NoneLost
  <2>6. Mac!NoIntentLost'
    BY <2>5 DEF Mac!NoIntentLost, Kept, AtHub
  <2>7. QED
    BY <2>1, <2>6
<1>3. QED
  BY <1>1, <1>2, PTL DEF Mac!Spec
=============================================================================
