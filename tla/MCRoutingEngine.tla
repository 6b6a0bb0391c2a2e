-------------------------- MODULE MCRoutingEngine --------------------------
(* Instances of RoutingEngine for TLC.  d1 is the device under test: it has *)
(* a mapping with target candidates, mappings in and out of its cycles, and *)
(* m1 can be reassigned to d2.                                              *)
EXTENDS RoutingEngine

CONSTANTS d1, d2, c1, c2, m1, m2, m3, t1, t2

MCKinds == {"rotate", "press", "swipe_up", "long_press"}
MCDeltas == {-1, 3}

Play == <<[input |-> "press", intent |-> "play"],
          [input |-> "rotate", intent |-> "volume_change"]>>
\* The first route matches a press but cannot be built from it.
Volume == <<[input |-> "press", intent |-> "volume_change"],
            [input |-> "press", intent |-> "next"]>>

Browsing == [id |-> m1, device |-> d1, target |-> t1, active |-> TRUE,
             routes |-> Play, switchOn |-> "long_press",
             candidates |-> <<[target |-> t1, routes |-> Inherit],
                              [target |-> t2, routes |-> Volume]>>]
Plain(id, routes) == [id |-> id, device |-> d1, target |-> t1, active |-> TRUE,
                      routes |-> routes, switchOn |-> NoKind, candidates |-> <<>>]
Moved1 == [Browsing EXCEPT !.device = d2]

Pair(a, b) == [ids |-> <<a, b>>, active |-> a, gesture |-> "swipe_up"]
Empty == [ids |-> <<>>, active |-> NoId, gesture |-> NoKind]

MCMappingPool == {Browsing, Moved1, Plain(m2, Play)}
MCCyclePool == [d \in {d1, d2} |->
                  IF d = d1 THEN {Pair(m1, m2), Pair(m2, m3)} ELSE {}]
MCDeviceOfLoops == [c \in {c1} |-> d1]

\* The iOS host: two input tasks of one device, a cycle of three.
IosKinds == {"rotate", "press", "swipe_up"}
IosDeltas == {}
Triple == [ids |-> <<m1, m2, m3>>, active |-> m1, gesture |-> "swipe_up"]
IosMappingPool == {Plain(m1, Play), Plain(m2, Volume)}
IosCyclePool == [d \in {d1} |-> {Triple, Empty}]
IosDeviceOf == [c \in {c1, c2} |-> d1]
=============================================================================
