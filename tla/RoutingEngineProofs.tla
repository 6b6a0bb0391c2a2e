------------------------ MODULE RoutingEngineProofs ------------------------
(***************************************************************************)
(* Proofs about RoutingEngine, for every set of devices, mappings, cycles, *)
(* callers and inputs.                                                     *)
(***************************************************************************)
EXTENDS RoutingEngine, FiniteSetTheorems, WellFoundedInduction, TLAPS

-----------------------------------------------------------------------------
(* The operators of RoutingOps. *)

\* The first of a non-empty set of positions is one of them.
LEMMA FirstIndexMember ==
  ASSUME NEW S \in SUBSET Nat, S # {}
  PROVE  FirstIndex(S) \in S /\ \A j \in S : FirstIndex(S) <= j
<1> DEFINE R == OpToRel(<, Nat)
<1>1. IsWellFoundedOn(R, S)
  BY NatLessThanWellFounded, IsWellFoundedOnSubset
<1>2. \A i, j \in S : j < i => <<j, i>> \in R
  BY DEF OpToRel
<1>3. \E i \in S : \A j \in S : <<j, i>> \notin R
  <2> HIDE DEF R
  <2>1. QED
    BY <1>1, WFMin
<1>4. \E i \in S : \A j \in S : ~ (j < i)
  <2> HIDE DEF R
  <2>1. QED
    BY <1>2, <1>3
<1>5. \E i \in S : \A j \in S : i <= j
  BY <1>4
<1>6. QED
  BY <1>5 DEF FirstIndex

\* The two facts about division the wrapped positions rest on.
LEMMA ModRange ==
  ASSUME NEW x \in Int, NEW n \in Nat \ {0}
  PROVE  (x % n) + 1 \in 1..n
  OBVIOUS

LEMMA Remainder ==
  ASSUME NEW x \in Nat, NEW s \in Nat \ {0}
  PROVE  /\ x \div s \in Nat
         /\ 0 <= x - (x \div s) * s /\ x - (x \div s) * s < s
<1>1. x \div s \in Int /\ x % s \in Int /\ 0 <= x % s /\ x % s < s
  OBVIOUS
<1>2. x = s * (x \div s) + (x % s)
  OBVIOUS
<1>3. x \div s \in Nat
  OBVIOUS
<1>4. QED
  BY <1>1, <1>2, <1>3

\* A choice among the positions of a sequence, and its cyclic successor,
\* are positions of the sequence.
LEMMA FirstPosition ==
  ASSUME NEW T, NEW s \in Seq(T), NEW at \in SUBSET (DOMAIN s), at # {}
  PROVE  /\ FirstIndex(at) \in at
         /\ s[FirstIndex(at)] \in T
         /\ Len(s) \in Nat \ {0}
         /\ (FirstIndex(at) % Len(s)) + 1 \in 1..Len(s)
         /\ s[(FirstIndex(at) % Len(s)) + 1] \in T
<1>1. DOMAIN s = 1..Len(s) /\ Len(s) \in Nat /\ \A i \in 1..Len(s) : s[i] \in T
  OBVIOUS
<1>2. at \in SUBSET Nat
  BY <1>1
<1>3. FirstIndex(at) \in at
  BY <1>2, FirstIndexMember
<1>4. FirstIndex(at) \in 1..Len(s) /\ Len(s) \in Nat \ {0}
  BY <1>1, <1>3
<1>5. (FirstIndex(at) % Len(s)) + 1 \in 1..Len(s)
  BY <1>4, ModRange
<1>6. QED
  BY <1>1, <1>3, <1>4, <1>5

\* next_active returns a member of the cycle or nothing.
LEMMA NextActiveMember ==
  ASSUME NEW k \in Cycle, NextActive(k) # NoId
  PROVE  NextActive(k) \in Members(k) /\ NextActive(k) \in MappingIds
<1> DEFINE at == {i \in DOMAIN k.ids : k.ids[i] = k.active}
           next == (FirstIndex(at) % Len(k.ids)) + 1
<1>1. k.ids \in Seq(MappingIds)
  BY DEF Cycle
<1>2. at \in SUBSET (DOMAIN k.ids) /\ at # {}
  BY DEF NextActive
<1>3. NextActive(k) = k.ids[next]
  BY <1>2 DEF NextActive
<1> HIDE DEF at
<1>4. next \in 1..Len(k.ids) /\ k.ids[next] \in MappingIds
  BY <1>1, <1>2, FirstPosition
<1> HIDE DEF next
<1>5. next \in DOMAIN k.ids
  BY <1>1, <1>4
<1>6. QED
  BY <1>3, <1>4, <1>5 DEF Members

\* The routes a mapping applies are its own or its candidate's.
LEMMA EffectiveRoutesType ==
  ASSUME NEW m \in Mapping
  PROVE  EffectiveRoutes(m) \in Seq(Route)
<1> DEFINE at == {i \in DOMAIN m.candidates : m.candidates[i].target = m.target}
           first == m.candidates[FirstIndex(at)]
<1>1. m.routes \in Seq(Route) /\ m.candidates \in Seq(Candidate)
  BY DEF Mapping
<1>2. CASE at = {}
  BY <1>1, <1>2 DEF EffectiveRoutes
<1>3. CASE at # {}
  <2>1. at \in SUBSET (DOMAIN m.candidates)
    OBVIOUS
  <2>2. EffectiveRoutes(m) = IF first.routes = Inherit THEN m.routes ELSE first.routes
    BY <1>3 DEF EffectiveRoutes
  <2> HIDE DEF at
  <2>3. first \in Candidate
    BY <1>1, <1>3, <2>1, FirstPosition
  <2> HIDE DEF first
  <2>4. first.routes \in Seq(Route) \cup {Inherit}
    BY <2>3 DEF Candidate
  <2>5. QED
    BY <1>1, <2>2, <2>4
<1>4. QED
  BY <1>2, <1>3

\* route_mappings returns intents of mappings it was given.
LEMMA RouteMappingsType ==
  ASSUME NEW ms \in SUBSET Mapping, NEW input, NEW filter
  PROVE  RouteMappings(ms, input, filter) \in SUBSET RoutedIntent
<1>1. SUFFICES ASSUME NEW m \in Mapping
               PROVE  FirstRoute(m, input) \subseteq RoutedIntent
  BY DEF RouteMappings
<1> DEFINE routes == EffectiveRoutes(m)
           fit == {i \in DOMAIN routes : /\ routes[i].input = input.kind
                                         /\ Buildable(routes[i].intent, input)}
           intent == routes[FirstIndex(fit)].intent
<1>2. m.id \in MappingIds /\ m.target \in Targets
  BY <1>1 DEF Mapping
<1>3. routes \in Seq(Route)
  BY EffectiveRoutesType
<1>4. CASE fit = {}
  BY <1>4 DEF FirstRoute
<1>5. CASE fit # {}
  <2>1. FirstRoute(m, input) = {[mapping |-> m.id, target |-> m.target, intent |-> intent]}
    BY <1>5 DEF FirstRoute
  <2>2. fit \in SUBSET (DOMAIN routes)
    OBVIOUS
  <2> HIDE DEF fit, routes
  <2>3. routes[FirstIndex(fit)] \in Route
    BY <1>3, <1>5, <2>2, FirstPosition
  <2>4. intent \in PlainIntents \cup ScaledIntents
    BY <2>3 DEF Route
  <2>5. QED
    BY <1>2, <2>1, <2>4 DEF RoutedIntent
<1>6. QED
  BY <1>4, <1>5

\* SelectionMode::advance keeps the cursor in range and the remainder small.
LEMMA AdvanceInRange ==
  ASSUME NEW mode \in SelectionMode, ModeInRange(mode), NEW delta \in Int
  PROVE  Advance(mode, delta) \in SelectionMode /\ ModeInRange(Advance(mode, delta))
<1> DEFINE total == mode.acc + delta
           steps == IF total >= 0 THEN total \div Step ELSE -((-total) \div Step)
           n == Len(mode.candidates)
           cursor == ((mode.cursor - 1 + steps) % n) + 1
<1>1. mode.candidates \in Seq(Candidate) /\ mode.cursor \in Nat /\ mode.acc \in Int
  BY DEF SelectionMode
<1>2. n \in Nat \ {0} /\ mode.cursor \in 1..n /\ Step \in Nat \ {0} /\ total \in Int
  BY <1>1, StepAssumption DEF ModeInRange
<1>3. Advance(mode, delta) = [mode EXCEPT !.cursor = cursor, !.acc = total - steps * Step]
  BY DEF Advance
<1> HIDE DEF total
<1>4. steps \in Int /\ -Step < total - steps * Step /\ total - steps * Step < Step
  <2>1. CASE total >= 0
    <3>1. total \in Nat /\ steps = total \div Step
      BY <1>2, <2>1
    <3> HIDE DEF steps
    <3>2. QED
      BY <1>2, <3>1, Remainder
  <2>2. CASE total < 0
    <3> DEFINE q == (-total) \div Step
    <3>1. -total \in Nat /\ steps = -q
      BY <1>2, <2>2
    <3>2. q \in Nat /\ 0 <= (-total) - q * Step /\ (-total) - q * Step < Step
      BY <1>2, <3>1, Remainder
    <3> HIDE DEF q, steps
    <3>3. (-q) * Step = -(q * Step) /\ q * Step \in Nat
      BY <1>2, <3>2
    <3>4. QED
      BY <1>2, <3>1, <3>2, <3>3
  <2>3. QED
    BY <1>2, <2>1, <2>2
<1> HIDE DEF steps
<1>5. cursor \in 1..n
  <2>1. mode.cursor - 1 + steps \in Int
    BY <1>1, <1>4
  <2>2. QED
    BY <1>2, <2>1, ModRange
<1>6. total - steps * Step \in Int
  BY <1>2, <1>4
<1> HIDE DEF cursor
<1> DEFINE acc == total - steps * Step
<1>7. cursor \in Nat /\ acc \in Int /\ -Step < acc /\ acc < Step
  BY <1>2, <1>4, <1>5, <1>6
<1> HIDE DEF acc
<1>8. Advance(mode, delta) = [mode EXCEPT !.cursor = cursor, !.acc = acc]
  BY <1>3 DEF acc
<1>9. /\ Advance(mode, delta) \in SelectionMode
      /\ Advance(mode, delta).cursor = cursor
      /\ Advance(mode, delta).acc = acc
      /\ Advance(mode, delta).candidates = mode.candidates
  BY <1>7, <1>8 DEF SelectionMode
<1>10. QED
  BY <1>5, <1>7, <1>9 DEF ModeInRange

\* A mapping with candidates yields a mode in range.
LEMMA NewModeInRange ==
  ASSUME NEW m \in Mapping, m.candidates # <<>>
  PROVE  NewMode(m) \in SelectionMode /\ ModeInRange(NewMode(m))
<1> DEFINE at == {i \in DOMAIN m.candidates : m.candidates[i].target = m.target}
           n == Len(m.candidates)
           cursor == IF at = {} THEN 1 ELSE (FirstIndex(at) % n) + 1
<1>1. m.id \in MappingIds /\ m.candidates \in Seq(Candidate) /\ n \in Nat \ {0}
  BY DEF Mapping
<1>2. at \in SUBSET (DOMAIN m.candidates)
  OBVIOUS
<1>3. NewMode(m) = [mapping |-> m.id, candidates |-> m.candidates,
                    cursor |-> cursor, acc |-> 0]
  BY DEF NewMode
<1> HIDE DEF at
<1>4. cursor \in 1..n
  <2>1. CASE at = {}
    BY <1>1, <2>1
  <2>2. CASE at # {}
    BY <1>1, <1>2, <2>2, FirstPosition
  <2>3. QED
    BY <2>1, <2>2
<1> HIDE DEF cursor
<1>5. QED
  BY <1>1, <1>3, <1>4, StepAssumption DEF SelectionMode, ModeInRange

-----------------------------------------------------------------------------
(* The inductive invariant: the types, the stored selections, and what the  *)
(* calls in progress carry from one lock to the next.                       *)

CallsOK ==
  \A c \in Callers :
    /\ pc[c] # "idle" => local[c].input \in Input
    /\ pc[c] = "write" => Switches(local[c].cycle, local[c].input)
    /\ pc[c] = "enter" => local[c].mode \in SelectionMode /\ ModeInRange(local[c].mode)

TypeInv == TypeOK /\ SelectionInRange /\ CallsOK

\* Goto and Return keep the program counters and the locals typed.
LEMMA GotoType ==
  ASSUME TypeOK, NEW c \in Callers, NEW l \in Local,
         NEW label \in {"idle", "write", "reread", "route", "select", "entry", "enter"},
         Goto(c, label, l)
  PROVE  /\ pc' \in [Callers -> {"idle", "write", "reread", "route", "select", "entry", "enter"}]
         /\ local' \in [Callers -> Local]
         /\ pc'[c] = label /\ local'[c] = l
         /\ \A x \in Callers \ {c} : pc'[x] = pc[x] /\ local'[x] = local[x]
  BY DEF TypeOK, Goto

LEMMA NoLocalType == NoLocal \in Local
  BY DEF NoLocal, Local

LEMMA ReturnType ==
  ASSUME TypeOK, NEW c \in Callers, NEW out \in Outcome, Return(c, out)
  PROVE  /\ pc' \in [Callers -> {"idle", "write", "reread", "route", "select", "entry", "enter"}]
         /\ local' \in [Callers -> Local]
         /\ outcome' \in [Callers -> Outcome]
         /\ pc'[c] = "idle" /\ local'[c] = NoLocal /\ outcome'[c] = out
         /\ \A x \in Callers \ {c} : /\ pc'[x] = pc[x] /\ local'[x] = local[x]
                                     /\ outcome'[x] = outcome[x]
<1>1. Goto(c, "idle", NoLocal) /\ outcome' = [outcome EXCEPT ![c] = out]
  BY DEF Return
<1>2. outcome \in [Callers -> Outcome]
  BY DEF TypeOK
<1>3. QED
  BY <1>1, <1>2, NoLocalType, GotoType

\* What Selecting returns for a mode in range.
LEMMA SelectingType ==
  ASSUME NEW mode \in SelectionMode, ModeInRange(mode),
         NEW kind \in {"enter", "update", "commit", "cancel"}
  PROVE  Selecting(kind, mode) \in Outcome
<1>1. mode.mapping \in MappingIds /\ mode.candidates \in Seq(Candidate)
  BY DEF SelectionMode
<1>2. mode.candidates[mode.cursor] \in Candidate
  BY <1>1 DEF ModeInRange
<1>3. mode.candidates[mode.cursor].target \in Targets
  BY <1>2 DEF Candidate
<1>4. QED
  BY <1>1, <1>3 DEF Selecting, Outcome

LEMMA NormalType ==
  ASSUME NEW intents \in SUBSET RoutedIntent, NEW k \in Cycle \cup {NoCycle}
  PROVE  Normal(intents, k) \in Outcome
  BY DEF Normal, Outcome

-----------------------------------------------------------------------------
LEMMA TypeInvInit == Init => TypeInv
  BY NoLocalType DEF Init, TypeInv, TypeOK, SelectionInRange, CallsOK, Outcome

\* The steps of the callers, one lemma per group of actions.
LEMMA TypeInvCycleSteps ==
  ASSUME TypeInv, NEW c \in Callers,
         \/ \E input \in Input : ReadCycle(c, input)
         \/ WriteActive(c) \/ RereadCycle(c)
  PROVE  TypeInv'
<1> DEFINE d == DeviceOf[c]
<1>1. TypeOK /\ SelectionInRange /\ CallsOK /\ d \in Devices
  BY PoolAssumption DEF TypeInv
<1>2. cycles[d] \in Cycle \cup {NoCycle} /\ local[c] \in Local
  BY <1>1 DEF TypeOK
<1>3. ASSUME NEW input \in Input, ReadCycle(c, input)
      PROVE  TypeInv'
  <2> DEFINE l == [NoLocal EXCEPT !.input = input, !.cycle = cycles[d]]
  <2>1. l \in Local /\ l.input = input /\ l.cycle = cycles[d]
    BY <1>2, NoLocalType DEF Local
  <2>2. PICK label \in {"write", "reread", "select", "route"} :
          Goto(c, label, l) /\ (label = "write" => Switches(cycles[d], input))
    BY <1>3 DEF ReadCycle
  <2> HIDE DEF l
  <2>3. /\ pc' \in [Callers -> {"idle", "write", "reread", "route", "select", "entry", "enter"}]
        /\ local' \in [Callers -> Local]
        /\ pc'[c] = label /\ local'[c] = l
        /\ \A x \in Callers \ {c} : pc'[x] = pc[x] /\ local'[x] = local[x]
    BY <1>1, <2>1, <2>2, GotoType
  <2>4. Quiet \in Outcome
    BY DEF Outcome
  <2>5. TypeOK'
    BY <1>1, <1>3, <2>3, <2>4 DEF TypeOK, ReadCycle
  <2>6. CallsOK'
    BY <1>1, <2>1, <2>2, <2>3 DEF CallsOK
  <2>7. QED
    BY <1>1, <1>3, <2>5, <2>6 DEF TypeInv, SelectionInRange, ReadCycle
<1>4. CASE WriteActive(c)
  <2> DEFINE next == NextActive(local[c].cycle)
  <2>1. Switches(local[c].cycle, local[c].input) /\ local[c].cycle \in Cycle
    BY <1>1, <1>2, <1>4 DEF WriteActive, CallsOK, Switches, Local
  <2>2. next \in MappingIds
    BY <2>1, NextActiveMember DEF Switches
  <2> HIDE DEF next
  <2>3. Moved(c) \in Cycle \cup {NoCycle}
    BY <1>2, <2>2 DEF Moved, Cycle, next
  <2>4. CycleSwitch(next) \in Outcome
    BY <2>2 DEF CycleSwitch, Outcome
  <2>5. Return(c, CycleSwitch(next))
    BY <1>4 DEF WriteActive, next
  <2>6. /\ pc' \in [Callers -> {"idle", "write", "reread", "route", "select", "entry", "enter"}]
        /\ local' \in [Callers -> Local]
        /\ outcome' \in [Callers -> Outcome]
        /\ pc'[c] = "idle"
        /\ \A x \in Callers \ {c} : pc'[x] = pc[x] /\ local'[x] = local[x]
    BY <1>1, <2>4, <2>5, ReturnType
  <2>7. TypeOK'
    BY <1>1, <1>4, <2>2, <2>3, <2>6 DEF TypeOK, WriteActive, next
  <2>8. CallsOK'
    BY <1>1, <2>6 DEF CallsOK
  <2>9. QED
    BY <1>1, <1>4, <2>7, <2>8 DEF TypeInv, SelectionInRange, WriteActive
<1>5. CASE RereadCycle(c)
  <2> DEFINE l == [local[c] EXCEPT !.cycle = cycles[d]]
  <2>1. l \in Local /\ l.input = local[c].input
    BY <1>2 DEF Local
  <2>2. Goto(c, "route", l)
    BY <1>5 DEF RereadCycle
  <2> HIDE DEF l
  <2>3. /\ pc' \in [Callers -> {"idle", "write", "reread", "route", "select", "entry", "enter"}]
        /\ local' \in [Callers -> Local]
        /\ pc'[c] = "route" /\ local'[c] = l
        /\ \A x \in Callers \ {c} : pc'[x] = pc[x] /\ local'[x] = local[x]
    BY <1>1, <2>1, <2>2, GotoType
  <2>4. TypeOK'
    BY <1>1, <1>5, <2>3 DEF TypeOK, RereadCycle
  <2>5. CallsOK'
    BY <1>1, <1>5, <2>1, <2>3 DEF CallsOK, RereadCycle
  <2>6. QED
    BY <1>1, <1>5, <2>4, <2>5 DEF TypeInv, SelectionInRange, RereadCycle
<1>6. QED
  BY <1>3, <1>4, <1>5

LEMMA TypeInvRouteSteps ==
  ASSUME TypeInv, NEW c \in Callers, RouteNow(c) \/ Entry(c) \/ StoreMode(c)
  PROVE  TypeInv'
<1> DEFINE d == DeviceOf[c]
           mine == MappingsOf(mappings, d)
<1>1. TypeOK /\ SelectionInRange /\ CallsOK /\ d \in Devices
  BY PoolAssumption DEF TypeInv
<1>2. local[c] \in Local /\ mine \in SUBSET Mapping
  BY <1>1 DEF TypeOK, MappingsOf
<1>3. ASSUME NEW out \in Outcome, Return(c, out),
             selection' \in [Devices -> SelectionMode \cup {NoMode}], SelectionInRange',
             UNCHANGED <<mappings, cycles, pendingCycles, touched, chosen>>
      PROVE  TypeInv'
  <2>1. /\ pc' \in [Callers -> {"idle", "write", "reread", "route", "select", "entry", "enter"}]
        /\ local' \in [Callers -> Local]
        /\ outcome' \in [Callers -> Outcome]
        /\ pc'[c] = "idle"
        /\ \A x \in Callers \ {c} : pc'[x] = pc[x] /\ local'[x] = local[x]
    BY <1>1, <1>3, ReturnType
  <2>2. TypeOK'
    BY <1>1, <1>3, <2>1 DEF TypeOK
  <2>3. CallsOK'
    BY <1>1, <2>1 DEF CallsOK
  <2>4. QED
    BY <1>3, <2>2, <2>3 DEF TypeInv
<1>4. ASSUME selection' = selection
      PROVE  selection' \in [Devices -> SelectionMode \cup {NoMode}] /\ SelectionInRange'
  BY <1>1, <1>4 DEF TypeOK, SelectionInRange
<1>5. CASE RouteNow(c)
  <2>1. Fired(c) \in SUBSET RoutedIntent
    BY <1>2, RouteMappingsType DEF Fired
  <2>2. Normal(Fired(c), local[c].cycle) \in Outcome
    BY <1>2, <2>1, NormalType DEF Local
  <2>3. QED
    BY <1>3, <1>4, <1>5, <2>2 DEF RouteNow
<1>6. CASE Entry(c)
  <2>1. ASSUME NEW m \in mine, EntersSelection(m, local[c].input),
               Goto(c, "enter", [local[c] EXCEPT !.mode = NewMode(m)]), UNCHANGED outcome
        PROVE  TypeInv'
    <3> DEFINE l == [local[c] EXCEPT !.mode = NewMode(m)]
    <3>1. NewMode(m) \in SelectionMode /\ ModeInRange(NewMode(m))
      BY <1>2, <2>1, NewModeInRange DEF EntersSelection
    <3>2. l \in Local /\ l.mode = NewMode(m) /\ l.input = local[c].input
      BY <1>2, <3>1 DEF Local
    <3>3. Goto(c, "enter", l)
      BY <2>1
    <3> HIDE DEF l
    <3>4. /\ pc' \in [Callers -> {"idle", "write", "reread", "route", "select", "entry", "enter"}]
          /\ local' \in [Callers -> Local]
          /\ pc'[c] = "enter" /\ local'[c] = l
          /\ \A x \in Callers \ {c} : pc'[x] = pc[x] /\ local'[x] = local[x]
      BY <1>1, <3>2, <3>3, GotoType
    <3>5. TypeOK'
      BY <1>1, <1>6, <2>1, <3>4 DEF TypeOK, Entry
    <3>6. CallsOK'
      BY <1>1, <1>6, <3>1, <3>2, <3>4 DEF CallsOK, Entry
    <3>7. QED
      BY <1>4, <1>6, <3>5, <3>6 DEF TypeInv, Entry
  <2>2. CASE Return(c, Normal(RouteMappings(mine, local[c].input, NoId), NoCycle))
    <3>1. Normal(RouteMappings(mine, local[c].input, NoId), NoCycle) \in Outcome
      BY <1>2, RouteMappingsType, NormalType
    <3>2. QED
      BY <1>3, <1>4, <1>6, <2>2, <3>1 DEF Entry
  <2>3. QED
    BY <1>6, <2>1, <2>2 DEF Entry
<1>7. CASE StoreMode(c)
  <2>1. local[c].mode \in SelectionMode /\ ModeInRange(local[c].mode)
    BY <1>1, <1>7 DEF CallsOK, StoreMode
  <2>2. Selecting("enter", local[c].mode) \in Outcome
    BY <2>1, SelectingType
  <2>3. selection' \in [Devices -> SelectionMode \cup {NoMode}]
    BY <1>1, <1>7, <2>1 DEF TypeOK, StoreMode
  <2>4. SelectionInRange'
    BY <1>1, <1>7, <2>1 DEF TypeOK, StoreMode, SelectionInRange, ModeInRange
  <2>5. QED
    BY <1>3, <1>7, <2>2, <2>3, <2>4 DEF StoreMode
<1>8. QED
  BY <1>5, <1>6, <1>7

LEMMA TypeInvSelect ==
  ASSUME TypeInv, NEW c \in Callers, Select(c)
  PROVE  TypeInv'
<1> DEFINE d == DeviceOf[c]
           mode == selection[d]
           moved == Advance(mode, local[c].input.delta)
<1>1. TypeOK /\ SelectionInRange /\ CallsOK /\ d \in Devices
  BY PoolAssumption DEF TypeInv
<1>2. local[c] \in Local /\ local[c].input \in Input /\ pc[c] = "select"
  BY <1>1 DEF TypeOK, CallsOK, Select
<1>3. ASSUME NEW out \in Outcome, Return(c, out),
             NEW new \in SelectionMode \cup {NoMode}, new # NoMode => ModeInRange(new),
             selection' = [selection EXCEPT ![d] = new]
      PROVE  TypeInv'
  <2>1. /\ pc' \in [Callers -> {"idle", "write", "reread", "route", "select", "entry", "enter"}]
        /\ local' \in [Callers -> Local]
        /\ outcome' \in [Callers -> Outcome]
        /\ pc'[c] = "idle"
        /\ \A x \in Callers \ {c} : pc'[x] = pc[x] /\ local'[x] = local[x]
    BY <1>1, <1>3, ReturnType
  <2>2. selection' \in [Devices -> SelectionMode \cup {NoMode}]
    BY <1>1, <1>3 DEF TypeOK
  <2>3. TypeOK'
    BY <1>1, <2>1, <2>2 DEF TypeOK, Select
  <2>4. \A x \in Devices : selection'[x] = IF x = d THEN new ELSE selection[x]
    BY <1>1, <1>3 DEF TypeOK
  <2>5. SelectionInRange'
    BY <1>1, <1>3, <2>4 DEF SelectionInRange, ModeInRange
  <2>6. CallsOK'
    BY <1>1, <2>1 DEF CallsOK
  <2>7. QED
    BY <2>3, <2>5, <2>6 DEF TypeInv
<1>4. ASSUME mode # NoMode
      PROVE  mode \in SelectionMode /\ ModeInRange(mode)
  BY <1>1, <1>4 DEF TypeOK, SelectionInRange
<1>5. CASE mode # NoMode /\ BrowseRotate(c, mode)
  <2>1. local[c].input.delta \in Int
    BY <1>2, <1>5, StepAssumption DEF BrowseRotate, Input
  <2>2. moved \in SelectionMode /\ ModeInRange(moved)
    BY <1>4, <1>5, <2>1, AdvanceInRange
  <2>3. Normal({}, NoCycle) \in Outcome /\ Selecting("update", moved) \in Outcome
    BY <2>2, NormalType, SelectingType
  <2>4. /\ selection' = [selection EXCEPT ![d] = moved]
        /\ \E out \in Outcome : Return(c, out)
    BY <1>5, <2>3 DEF BrowseRotate
  <2> HIDE DEF moved
  <2>5. QED
    BY <1>3, <2>2, <2>4
<1>6. CASE mode # NoMode /\ BrowseEnd(c, mode)
  <2>1. \E out \in Outcome : Return(c, out)
    BY <1>4, <1>6, SelectingType DEF BrowseEnd
  <2>2. QED
    BY <1>3, <1>6, <2>1 DEF BrowseEnd
<1>7. CASE Goto(c, "entry", local[c]) /\ UNCHANGED <<selection, outcome>>
  <2>1. /\ pc' \in [Callers -> {"idle", "write", "reread", "route", "select", "entry", "enter"}]
        /\ local' \in [Callers -> Local]
        /\ pc'[c] = "entry" /\ local'[c] = local[c]
        /\ \A x \in Callers \ {c} : pc'[x] = pc[x] /\ local'[x] = local[x]
    BY <1>1, <1>2, <1>7, GotoType
  <2>2. TypeOK'
    BY <1>1, <1>7, <2>1 DEF TypeOK, Select
  <2>3. CallsOK'
    BY <1>1, <1>2, <2>1 DEF CallsOK
  <2>4. SelectionInRange'
    BY <1>1, <1>7 DEF SelectionInRange
  <2>5. QED
    BY <2>2, <2>3, <2>4 DEF TypeInv
<1>8. QED
  BY <1>5, <1>6, <1>7 DEF Select

\* The server's frames leave the calls and the selections alone.
LEMMA TypeInvServerFrame ==
  ASSUME TypeInv, ServerFrame
  PROVE  TypeInv'
<1>1. TypeOK /\ SelectionInRange /\ CallsOK
  BY DEF TypeInv
<1>2. UNCHANGED <<selection, pc, local, outcome>>
  BY DEF ServerFrame, FullMappings, FullCycles, PatchMapping, DeleteMapping,
         TargetSwitch, PatchCycle, SetCycleActive, FrameMayStart
<1>3. SelectionInRange' /\ CallsOK'
  BY <1>1, <1>2 DEF SelectionInRange, CallsOK
<1>4. ASSUME NEW D, Touch(D)
      PROVE  touched' \in [Callers -> BOOLEAN] /\ chosen' \in [Callers -> MappingIds \cup {NoId}]
  BY <1>1, <1>4 DEF TypeOK, Touch
<1>5. TypeOK'
  <2>1. ASSUME NEW ms \in MappingSets, NEW t \in CycleTables, FullMappings(ms, t)
        PROVE  TypeOK'
    <3>1. ms \subseteq Mapping /\ t \in [Devices -> Cycle \cup {NoCycle}]
      BY PoolAssumption DEF MappingSets, CycleTables
    <3>2. QED
      BY <1>1, <1>2, <2>1, <3>1 DEF TypeOK, FullMappings
  <2>2. CASE FullCycles
    BY <1>1, <1>2, <1>4, <2>2 DEF TypeOK, FullCycles
  <2>3. ASSUME NEW m \in MappingPool, PatchMapping(m)
        PROVE  TypeOK'
    BY <1>1, <1>2, <2>3, PoolAssumption DEF TypeOK, PatchMapping, WithMapping
  <2>4. ASSUME NEW id \in MappingIds, DeleteMapping(id)
        PROVE  TypeOK'
    BY <1>1, <1>2, <2>4 DEF TypeOK, DeleteMapping, WithoutMapping
  <2>5. ASSUME NEW id \in MappingIds, NEW t \in Targets, TargetSwitch(id, t)
        PROVE  TypeOK'
    <3>1. PICK m \in mappings : mappings' = WithMapping(mappings, [m EXCEPT !.target = t])
      BY <2>5 DEF TargetSwitch
    <3>2. [m EXCEPT !.target = t] \in Mapping
      BY <1>1 DEF TypeOK, Mapping
    <3>3. mappings' \subseteq Mapping
      BY <1>1, <3>1, <3>2 DEF TypeOK, WithMapping
    <3>4. QED
      BY <1>1, <1>2, <2>5, <3>3 DEF TypeOK, TargetSwitch
  <2>6. ASSUME NEW d \in Devices, NEW k \in CyclePool[d] \cup {NoCycle}, PatchCycle(d, k)
        PROVE  TypeOK'
    <3>1. k \in Cycle \cup {NoCycle}
      BY PoolAssumption
    <3>2. QED
      BY <1>1, <1>2, <1>4, <2>6, <3>1 DEF TypeOK, PatchCycle
  <2>7. ASSUME NEW d \in Devices, NEW id \in MappingIds, SetCycleActive(d, id)
        PROVE  TypeOK'
    <3>1. [cycles[d] EXCEPT !.active = id] \in Cycle
      BY <1>1, <2>7 DEF TypeOK, Cycle, SetCycleActive
    <3>2. cycles' = [cycles EXCEPT ![d] = [cycles[d] EXCEPT !.active = id]]
      BY <2>7 DEF SetCycleActive
    <3>3. cycles' \in [Devices -> Cycle \cup {NoCycle}]
      BY <1>1, <3>1, <3>2 DEF TypeOK
    <3>4. QED
      BY <1>1, <1>2, <1>4, <2>7, <3>3 DEF TypeOK, SetCycleActive
  <2>8. QED
    BY <2>1, <2>2, <2>3, <2>4, <2>5, <2>6, <2>7 DEF ServerFrame
<1>6. QED
  BY <1>3, <1>5 DEF TypeInv

LEMMA TypeInvInductive == TypeInv /\ [Next]_vars => TypeInv'
<1> SUFFICES ASSUME TypeInv, [Next]_vars
             PROVE  TypeInv'
  OBVIOUS
<1>1. CASE ServerFrame
  BY <1>1, TypeInvServerFrame
<1>2. ASSUME NEW c \in Callers, CallerStep(c)
      PROVE  TypeInv'
  BY <1>2, TypeInvCycleSteps, TypeInvRouteSteps, TypeInvSelect DEF CallerStep
<1>3. CASE UNCHANGED vars
  BY <1>3 DEF vars, TypeInv, TypeOK, SelectionInRange, CallsOK
<1>4. QED
  BY <1>1, <1>2, <1>3 DEF Next

\* Every reachable state is well typed.
THEOREM TypeCorrect == Spec => []TypeOK
<1>1. TypeInv => TypeOK
  BY DEF TypeInv
<1>2. QED
  BY TypeInvInit, TypeInvInductive, <1>1, PTL DEF Spec

\* A stored selection never indexes outside its candidates.
THEOREM SelectionSafe == Spec => []SelectionInRange
<1>1. TypeInv => SelectionInRange
  BY DEF TypeInv
<1>2. QED
  BY TypeInvInit, TypeInvInductive, <1>1, PTL DEF Spec

-----------------------------------------------------------------------------
(* Mapping ids stay unique. *)

LEMMA WithMappingUnique ==
  ASSUME NEW ms, \A m, n \in ms : m.id = n.id => m = n, NEW new
  PROVE  \A m, n \in WithMapping(ms, new) : m.id = n.id => m = n
  BY DEF WithMapping

LEMMA UniqueInductive == UniqueMappingIds /\ [Next]_vars => UniqueMappingIds'
<1> SUFFICES ASSUME UniqueMappingIds, [Next]_vars
             PROVE  UniqueMappingIds'
  OBVIOUS
<1> USE DEF UniqueMappingIds
<1>1. ASSUME NEW ms \in MappingSets, NEW t \in CycleTables, FullMappings(ms, t)
      PROVE  UniqueMappingIds'
  BY <1>1 DEF FullMappings, MappingSets
<1>2. ASSUME NEW m \in MappingPool, PatchMapping(m)
      PROVE  UniqueMappingIds'
  BY <1>2, WithMappingUnique DEF PatchMapping
<1>3. ASSUME NEW id \in MappingIds, DeleteMapping(id)
      PROVE  UniqueMappingIds'
  BY <1>3 DEF DeleteMapping, WithoutMapping
<1>4. ASSUME NEW id \in MappingIds, NEW t \in Targets, TargetSwitch(id, t)
      PROVE  UniqueMappingIds'
  BY <1>4, WithMappingUnique DEF TargetSwitch
<1>5. CASE \/ FullCycles
           \/ \E d \in Devices : \E k \in CyclePool[d] \cup {NoCycle} : PatchCycle(d, k)
           \/ \E d \in Devices, id \in MappingIds : SetCycleActive(d, id)
           \/ \E c \in Callers : CallerStep(c)
           \/ UNCHANGED vars
  BY <1>5 DEF FullCycles, PatchCycle, SetCycleActive, CallerStep, ReadCycle, WriteActive,
              RereadCycle, RouteNow, Select, Entry, StoreMode, vars
<1>6. QED
  BY <1>1, <1>2, <1>3, <1>4, <1>5 DEF Next, ServerFrame

\* No sequence of frames leaves a mapping filed twice.
THEOREM MappingIdsUnique == Spec => []UniqueMappingIds
<1>1. Init => UniqueMappingIds
  BY DEF Init, UniqueMappingIds
<1>2. QED
  BY <1>1, UniqueInductive, PTL DEF Spec

\* The two tables together: ids filed once, selections within their candidates.
THEOREM TablesAreSafe == Spec => []TablesSafe
<1>1. UniqueMappingIds /\ SelectionInRange => TablesSafe
  BY DEF TablesSafe
<1>2. QED
  BY <1>1, MappingIdsUnique, SelectionSafe, PTL

-----------------------------------------------------------------------------
(* edge-agent's callers: what a loop's clone is worth, and what follows for *)
(* the mapping it chose.                                                    *)

OneLoopPerDevice == \A a, b \in Callers : DeviceOf[a] = DeviceOf[b] => a = b

\* Until a frame touches the cycle, a call's clone is the cycle; a call that
\* looks for a selection has seen no cycle; a loop's choice is forgotten as
\* soon as a frame touches the cycle.
ClonesCurrent ==
  \A c \in Callers :
    /\ pc[c] # "idle" /\ ~touched[c] => local[c].cycle = cycles[DeviceOf[c]]
    /\ pc[c] \in {"select", "entry", "enter"} => local[c].cycle = NoCycle
    /\ chosen[c] # NoId => ~touched[c]

LoopInv == TypeInv /\ ClonesCurrent /\ LocalSwitchHolds /\ OnlyChosenFires

\* With a filter route_mappings returns only what the filtered mapping fires.
LEMMA FilteredMappings ==
  ASSUME NEW ms, NEW input, NEW filter, filter # NoId,
         NEW r \in RouteMappings(ms, input, filter)
  PROVE  r.mapping = filter
<1>1. PICK m \in ms : m.id = filter /\ r \in FirstRoute(m, input)
  BY DEF RouteMappings
<1>2. \A x, t, i : [mapping |-> x, target |-> t, intent |-> i].mapping = x
  OBVIOUS
<1>3. r.mapping = m.id
  BY <1>1, <1>2 DEF FirstRoute
<1>4. QED
  BY <1>1, <1>3

LEMMA LoopInvServerFrame ==
  ASSUME LoopInv, ServerFrame
  PROVE  LoopInv'
<1>1. TypeInv'
  BY TypeInvServerFrame DEF LoopInv
<1>2. TypeOK /\ ClonesCurrent /\ LocalSwitchHolds /\ OnlyChosenFires
  BY DEF LoopInv, TypeInv
<1>3. UNCHANGED <<pc, local, outcome>>
  BY DEF ServerFrame, FullMappings, FullCycles, PatchMapping, DeleteMapping,
         TargetSwitch, PatchCycle, SetCycleActive, FrameMayStart
<1>4. ASSUME NEW D \in SUBSET Devices, Touch(D),
             \A d \in Devices \ D : cycles'[d] = cycles[d]
      PROVE  ClonesCurrent' /\ LocalSwitchHolds' /\ OnlyChosenFires'
  <2>1. \A c \in Callers : DeviceOf[c] \in Devices
    BY PoolAssumption
  <2>2. \A c \in Callers : DeviceOf[c] \in D => touched'[c] = TRUE /\ chosen'[c] = NoId
    BY <1>4 DEF Touch
  <2>3. \A c \in Callers : DeviceOf[c] \notin D =>
           /\ touched'[c] = touched[c] /\ chosen'[c] = chosen[c]
           /\ cycles'[DeviceOf[c]] = cycles[DeviceOf[c]]
    BY <1>2, <1>4, <2>1 DEF Touch, TypeOK
  <2>4. ClonesCurrent'
    BY <1>2, <1>3, <2>2, <2>3 DEF ClonesCurrent
  <2>5. LocalSwitchHolds'
    BY <1>2, <2>2, <2>3 DEF LocalSwitchHolds
  <2>6. OnlyChosenFires'
    BY <1>2, <1>3, <2>2, <2>3 DEF OnlyChosenFires
  <2>7. QED
    BY <2>4, <2>5, <2>6
<1>5. ASSUME UNCHANGED <<cycles, touched, chosen>>
      PROVE  ClonesCurrent' /\ LocalSwitchHolds' /\ OnlyChosenFires'
  BY <1>2, <1>3, <1>5 DEF ClonesCurrent, LocalSwitchHolds, OnlyChosenFires
<1>6. ClonesCurrent' /\ LocalSwitchHolds' /\ OnlyChosenFires'
  <2>1. CASE FullCycles
    BY <1>4, <2>1 DEF FullCycles
  <2>2. ASSUME NEW d \in Devices, Touch({d}),
               \E k : cycles' = [cycles EXCEPT ![d] = k]
        PROVE  ClonesCurrent' /\ LocalSwitchHolds' /\ OnlyChosenFires'
    <3>1. \A x \in Devices \ {d} : cycles'[x] = cycles[x]
      BY <1>2, <2>2 DEF TypeOK
    <3>2. QED
      BY <1>4, <2>2, <3>1
  <2>3. CASE \/ \E ms \in MappingSets, t \in CycleTables : FullMappings(ms, t)
             \/ \E m \in MappingPool : PatchMapping(m)
             \/ \E id \in MappingIds : DeleteMapping(id)
             \/ \E id \in MappingIds, t \in Targets : TargetSwitch(id, t)
    BY <1>5, <2>3 DEF FullMappings, PatchMapping, DeleteMapping, TargetSwitch
  <2>4. QED
    BY <2>1, <2>2, <2>3 DEF ServerFrame, PatchCycle, SetCycleActive
<1>7. QED
  BY <1>1, <1>6 DEF LoopInv

\* A call's step leaves the other loops' devices and calls alone.
LEMMA LoopInvOthers ==
  ASSUME OneLoopPerDevice, LoopInv, NEW c \in Callers, CallerStep(c),
         NEW x \in Callers \ {c}
  PROVE  /\ pc'[x] = pc[x] /\ local'[x] = local[x] /\ outcome'[x] = outcome[x]
         /\ touched'[x] = touched[x] /\ chosen'[x] = chosen[x]
         /\ cycles'[DeviceOf[x]] = cycles[DeviceOf[x]]
<1>1. TypeOK
  BY DEF LoopInv, TypeInv
<1>2. DeviceOf[x] # DeviceOf[c] /\ DeviceOf[x] \in Devices
  BY PoolAssumption DEF OneLoopPerDevice
<1>3. CASE (\E input \in Input : ReadCycle(c, input)) \/ RereadCycle(c)
  BY <1>1, <1>2, <1>3 DEF TypeOK, ReadCycle, RereadCycle, Goto
<1>4. CASE WriteActive(c)
  BY <1>1, <1>2, <1>4 DEF TypeOK, WriteActive, Return, Goto
<1>5. CASE RouteNow(c) \/ Entry(c) \/ StoreMode(c)
  BY <1>1, <1>2, <1>5 DEF TypeOK, RouteNow, Entry, StoreMode, Return, Goto
<1>6. CASE Select(c)
  BY <1>1, <1>2, <1>6 DEF TypeOK, Select, BrowseRotate, BrowseEnd, Return, Goto
<1>7. QED
  BY <1>3, <1>4, <1>5, <1>6 DEF CallerStep

\* The three properties for the loop that takes the step: the clone it decides
\* on is the cycle, unless a frame has touched it.
LEMMA LoopInvReadsAndWrite ==
  ASSUME LoopInv, NEW c \in Callers,
         \/ \E input \in Input : ReadCycle(c, input)
         \/ WriteActive(c) \/ RereadCycle(c)
  PROVE  /\ pc'[c] # "idle" /\ ~touched'[c] => local'[c].cycle = cycles'[DeviceOf[c]]
         /\ pc'[c] \in {"select", "entry", "enter"} => local'[c].cycle = NoCycle
         /\ chosen'[c] # NoId =>
              /\ ~touched'[c]
              /\ cycles'[DeviceOf[c]] # NoCycle /\ cycles'[DeviceOf[c]].active = chosen'[c]
              /\ outcome'[c] # Quiet => outcome'[c].kind # "normal" \/ outcome'[c] = outcome[c]
<1> DEFINE d == DeviceOf[c]
<1>1. TypeOK /\ CallsOK /\ ClonesCurrent /\ LocalSwitchHolds /\ d \in Devices
  BY PoolAssumption DEF LoopInv, TypeInv
<1>2. ASSUME NEW input \in Input, ReadCycle(c, input)
      PROVE  /\ local'[c].cycle = cycles'[d] /\ outcome'[c] = Quiet /\ ~touched'[c]
             /\ pc'[c] \in {"select", "entry", "enter"} => local'[c].cycle = NoCycle
             /\ chosen' = chosen /\ cycles' = cycles
  <2>1. /\ pc \in [Callers -> {"idle", "write", "reread", "route", "select", "entry", "enter"}]
        /\ local \in [Callers -> Local] /\ outcome \in [Callers -> Outcome]
        /\ touched \in [Callers -> BOOLEAN]
    BY <1>1 DEF TypeOK
  <2>2. local'[c] = [NoLocal EXCEPT !.input = input, !.cycle = cycles[DeviceOf[c]]]
    BY <1>2, <2>1 DEF ReadCycle, Goto
  <2>3. local'[c].cycle = cycles[d]
    BY <2>2 DEF NoLocal
  <2>4. pc'[c] \in {"select", "entry", "enter"} => cycles[d] = NoCycle
    BY <1>2, <2>1 DEF ReadCycle, Goto
  <2>5. /\ outcome'[c] = Quiet /\ ~touched'[c]
        /\ chosen' = chosen /\ cycles' = cycles
    BY <1>2, <2>1 DEF ReadCycle
  <2>6. QED
    BY <2>3, <2>4, <2>5
<1>3. CASE RereadCycle(c)
  <2>1. local[c] \in Local
    BY <1>1 DEF TypeOK
  <2>2. local'[c].cycle = cycles[d]
    BY <1>1, <1>3, <2>1 DEF TypeOK, RereadCycle, Goto, Local
  <2>3. /\ pc'[c] = "route" /\ ~touched'[c] /\ cycles' = cycles
        /\ chosen' = chosen /\ outcome' = outcome
    BY <1>1, <1>3 DEF TypeOK, RereadCycle, Goto
  <2>4. QED
    BY <1>1, <2>2, <2>3 DEF LocalSwitchHolds
<1>4. CASE WriteActive(c)
  <2>1. /\ pc'[c] = "idle" /\ touched' = touched /\ pc[c] = "write"
        /\ outcome'[c] = CycleSwitch(NextActive(local[c].cycle))
        /\ cycles'[d] = Moved(c)
        /\ chosen'[c] = IF touched[c] THEN NoId ELSE NextActive(local[c].cycle)
    BY <1>1, <1>4 DEF TypeOK, WriteActive, Return, Goto
  <2>2. outcome'[c].kind = "switch"
    BY <2>1 DEF CycleSwitch
  <2>3. ASSUME ~touched[c]
        PROVE  cycles'[d] # NoCycle /\ cycles'[d].active = NextActive(local[c].cycle)
    <3>1. local[c].cycle = cycles[d] /\ cycles[d] # NoCycle
      BY <1>1, <2>1, <2>3 DEF ClonesCurrent, CallsOK, Switches
    <3>2. cycles[d] \in Cycle
      BY <1>1, <3>1 DEF TypeOK
    <3>3. NextActive(local[c].cycle) \in MappingIds \cup {NoId}
      BY <3>1, <3>2, NextActiveMember
    <3>4. Moved(c) = [cycles[d] EXCEPT !.active = NextActive(local[c].cycle)]
      BY <3>1 DEF Moved
    <3>5. Moved(c).active = NextActive(local[c].cycle) /\ Moved(c) \in Cycle
      BY <3>2, <3>3, <3>4 DEF Cycle
    <3>6. QED
      BY <2>1, <3>5, MarkerAssumption
  <2>4. QED
    BY <2>1, <2>2, <2>3
<1>5. QED
  BY <1>1, <1>2, <1>3, <1>4 DEF LocalSwitchHolds, ClonesCurrent

LEMMA LoopInvRoutes ==
  ASSUME LoopInv, NEW c \in Callers,
         RouteNow(c) \/ Select(c) \/ Entry(c) \/ StoreMode(c)
  PROVE  /\ cycles' = cycles /\ chosen' = chosen /\ touched' = touched
         /\ pc'[c] # "idle" => local'[c].cycle = local[c].cycle /\ pc[c] \in {"select", "entry", "enter"}
         /\ chosen[c] # NoId /\ outcome'[c] # Quiet /\ outcome'[c].kind = "normal"
              => \A r \in outcome'[c].intents : r.mapping = chosen[c]
<1> DEFINE d == DeviceOf[c]
<1>1. /\ TypeOK /\ ClonesCurrent /\ LocalSwitchHolds /\ OnlyChosenFires
      /\ d \in Devices /\ local[c] \in Local
  BY PoolAssumption DEF LoopInv, TypeInv, TypeOK
\* A loop that looks for a selection has seen no cycle, so it has no choice.
<1>2. pc[c] \in {"select", "entry", "enter"} => chosen[c] = NoId
  BY <1>1 DEF ClonesCurrent, LocalSwitchHolds
<1>3. CASE RouteNow(c)
  <2>1. /\ cycles' = cycles /\ chosen' = chosen /\ touched' = touched
        /\ pc'[c] = "idle" /\ pc[c] = "route"
        /\ outcome'[c] = Normal(Fired(c), local[c].cycle)
    BY <1>1, <1>3 DEF TypeOK, RouteNow, Return, Goto
  <2>2. chosen[c] # NoId => ActiveFilter(local[c].cycle) = chosen[c]
    BY <1>1, <2>1 DEF ClonesCurrent, LocalSwitchHolds, ActiveFilter
  <2>3. outcome'[c].intents = Fired(c)
    BY <2>1 DEF Normal
  <2>4. chosen[c] # NoId => \A r \in Fired(c) : r.mapping = chosen[c]
    BY <2>2, FilteredMappings DEF Fired
  <2>5. QED
    BY <2>1, <2>3, <2>4
<1>4. CASE Select(c) \/ Entry(c) \/ StoreMode(c)
  <2>1. pc[c] \in {"select", "entry", "enter"}
    BY <1>4 DEF Select, Entry, StoreMode
  <2>2. cycles' = cycles /\ chosen' = chosen /\ touched' = touched
    BY <1>4 DEF Select, Entry, StoreMode
  <2>3. CASE Select(c)
    <3>1. pc'[c] = "idle" \/ local'[c] = local[c]
      BY <1>1, <2>3 DEF TypeOK, Select, BrowseRotate, BrowseEnd, Return, Goto
    <3>2. QED
      BY <1>2, <2>1, <2>2, <3>1
  <2>4. CASE Entry(c)
    <3>1. pc'[c] = "idle" \/ \E m : local'[c] = [local[c] EXCEPT !.mode = m]
      BY <1>1, <2>4 DEF TypeOK, Entry, Return, Goto
    <3>2. pc'[c] # "idle" => local'[c].cycle = local[c].cycle
      BY <1>1, <3>1 DEF Local
    <3>3. QED
      BY <1>2, <2>1, <2>2, <3>2
  <2>5. CASE StoreMode(c)
    <3>1. pc'[c] = "idle"
      BY <1>1, <2>5 DEF TypeOK, StoreMode, Return, Goto
    <3>2. QED
      BY <1>2, <2>1, <2>2, <3>1
  <2>6. QED
    BY <1>4, <2>3, <2>4, <2>5
<1>5. QED
  BY <1>3, <1>4

LEMMA LoopInvInit == Init => LoopInv
  BY TypeInvInit DEF Init, LoopInv, ClonesCurrent, LocalSwitchHolds, OnlyChosenFires

LEMMA LoopInvInductive ==
  ASSUME OneLoopPerDevice
  PROVE  LoopInv /\ [Next]_vars => LoopInv'
<1> SUFFICES ASSUME LoopInv, [Next]_vars
             PROVE  LoopInv'
  OBVIOUS
<1>1. CASE ServerFrame
  BY <1>1, LoopInvServerFrame
<1>2. ASSUME NEW c \in Callers, CallerStep(c)
      PROVE  LoopInv'
  <2>1. TypeInv'
    BY <1>2, TypeInvInductive DEF LoopInv, Next
  <2>2. ClonesCurrent /\ LocalSwitchHolds /\ OnlyChosenFires
    BY DEF LoopInv
  <2>3. CASE (\E input \in Input : ReadCycle(c, input)) \/ WriteActive(c) \/ RereadCycle(c)
    <3>1. ClonesCurrent'
      BY <1>2, <2>2, <2>3, LoopInvOthers, LoopInvReadsAndWrite DEF ClonesCurrent
    <3>2. LocalSwitchHolds'
      BY <1>2, <2>2, <2>3, LoopInvOthers, LoopInvReadsAndWrite DEF LocalSwitchHolds
    <3>3. OnlyChosenFires'
      <4>1. SUFFICES ASSUME NEW x \in Callers, chosen'[x] # NoId,
                            outcome'[x] # Quiet, outcome'[x].kind = "normal"
                     PROVE  \A r \in outcome'[x].intents : r.mapping = chosen'[x]
        BY DEF OnlyChosenFires
      <4>2. CASE x = c
        <5>1. outcome'[c] = outcome[c]
          BY <2>3, <4>1, <4>2, LoopInvReadsAndWrite
        <5>2. ~WriteActive(c)
          <6>1. WriteActive(c) => outcome'[c].kind = "switch"
            BY DEF WriteActive, Return, CycleSwitch, LoopInv, TypeInv, TypeOK
          <6>2. QED
            BY <4>1, <4>2, <6>1
        <5>3. chosen' = chosen
          BY <2>3, <5>2 DEF ReadCycle, RereadCycle
        <5>4. QED
          BY <2>2, <4>1, <4>2, <5>1, <5>3 DEF OnlyChosenFires
      <4>3. CASE x # c
        BY <1>2, <2>2, <4>1, <4>3, LoopInvOthers DEF OnlyChosenFires
      <4>4. QED
        BY <4>2, <4>3
    <3>4. QED
      BY <2>1, <3>1, <3>2, <3>3 DEF LoopInv
  <2>4. CASE RouteNow(c) \/ Select(c) \/ Entry(c) \/ StoreMode(c)
    <3>1. ClonesCurrent'
      BY <1>2, <2>2, <2>4, LoopInvOthers, LoopInvRoutes DEF ClonesCurrent
    <3>2. LocalSwitchHolds'
      BY <2>2, <2>4, LoopInvRoutes DEF LocalSwitchHolds
    <3>3. OnlyChosenFires'
      BY <1>2, <2>2, <2>4, LoopInvOthers, LoopInvRoutes DEF OnlyChosenFires
    <3>4. QED
      BY <2>1, <3>1, <3>2, <3>3 DEF LoopInv
  <2>5. QED
    BY <1>2, <2>3, <2>4 DEF CallerStep
<1>3. CASE UNCHANGED vars
  <2>1. TypeInv'
    BY <1>3, TypeInvInductive DEF LoopInv
  <2>2. QED
    BY <1>3, <2>1 DEF vars, LoopInv, ClonesCurrent, LocalSwitchHolds, OnlyChosenFires
<1>4. QED
  BY <1>1, <1>2, <1>3 DEF Next

\* With one loop per device, what edge-agent runs, a gesture holds until the
\* server says otherwise,
THEOREM SwitchHolds ==
  ASSUME OneLoopPerDevice
  PROVE  Spec => []LocalSwitchHolds
<1>1. LoopInv => LocalSwitchHolds
  BY DEF LoopInv
<1>2. QED
  BY LoopInvInit, LoopInvInductive, <1>1, PTL DEF Spec

\* and the mappings it left stay silent.
THEOREM ChosenAloneFires ==
  ASSUME OneLoopPerDevice
  PROVE  Spec => []OnlyChosenFires
<1>1. LoopInv => OnlyChosenFires
  BY DEF LoopInv
<1>2. QED
  BY LoopInvInit, LoopInvInductive, <1>1, PTL DEF Spec

\* With one loop per device no gesture is lost: it advances the pointer it
\* finds. The iOS host breaks the assumption, and the property with it.
THEOREM GesturesAdvance ==
  ASSUME OneLoopPerDevice
  PROVE  Spec => EachGestureAdvances
<1>1. ASSUME LoopInv, NEW c \in Callers, WriteActive(c), ~touched[c]
      PROVE  cycles'[DeviceOf[c]].active = NextActive(cycles[DeviceOf[c]])
  <2>1. /\ pc[c] = "write" /\ DeviceOf[c] \in Devices
        /\ cycles \in [Devices -> Cycle \cup {NoCycle}]
        /\ chosen \in [Callers -> MappingIds \cup {NoId}]
    BY <1>1, PoolAssumption DEF WriteActive, LoopInv, TypeInv, TypeOK
  <2>2. local[c].cycle = cycles[DeviceOf[c]] /\ Switches(cycles[DeviceOf[c]], local[c].input)
    BY <1>1, <2>1 DEF LoopInv, TypeInv, ClonesCurrent, CallsOK
  <2>3. chosen'[c] = NextActive(cycles[DeviceOf[c]]) /\ chosen'[c] # NoId
    BY <1>1, <2>1, <2>2 DEF WriteActive, Switches
  <2>4. QED
    BY <1>1, <2>3, LoopInvReadsAndWrite
<1>2. LoopInv /\ [Next]_vars =>
        [\A c \in Callers : WriteActive(c) /\ ~touched[c] =>
           cycles'[DeviceOf[c]].active = NextActive(cycles[DeviceOf[c]])]_vars
  BY <1>1
<1>3. QED
  BY LoopInvInit, LoopInvInductive, <1>2, PTL DEF Spec, EachGestureAdvances

\* A loop that looks for a selection or enters one is mode aware and its device
\* has none; a loop that is not mode aware leaves its device without.
BrowseOK(c) ==
  /\ pc[c] \in {"select", "entry", "enter"} => c \in ModeAware
  /\ pc[c] = "reread" => c \notin ModeAware
  /\ pc[c] = "route" /\ local[c].cycle = NoCycle => c \notin ModeAware
  /\ c \notin ModeAware \/ pc[c] \in {"entry", "enter"} => selection[DeviceOf[c]] = NoMode
  /\ outcome[c] # Quiet /\ outcome[c].kind = "normal"
       /\ outcome[c].cycle = NoCycle /\ selection[DeviceOf[c]] # NoMode
       => outcome[c].intents = {}

BrowseInv == TypeInv /\ \A c \in Callers : BrowseOK(c)

\* The loop that takes the step,
LEMMA BrowseOwnStep ==
  ASSUME BrowseInv, NEW c \in Callers, CallerStep(c)
  PROVE  BrowseOK(c)'
<1>1. /\ TypeOK /\ BrowseOK(c) /\ DeviceOf[c] \in Devices
      /\ pc \in [Callers -> {"idle", "write", "reread", "route", "select", "entry", "enter"}]
      /\ local \in [Callers -> Local] /\ outcome \in [Callers -> Outcome]
      /\ selection \in [Devices -> SelectionMode \cup {NoMode}]
  BY PoolAssumption DEF BrowseInv, TypeInv, TypeOK
<1>2. CASE \E input \in Input : ReadCycle(c, input)
  <2>1. PICK input \in Input : ReadCycle(c, input)
    BY <1>2
  <2>2. /\ outcome'[c] = Quiet /\ selection' = selection
        /\ pc'[c] \in {"write", "reread", "route", "select"}
    BY <1>1, <2>1 DEF ReadCycle, Goto
  <2>3. /\ pc'[c] = "reread" => c \notin ModeAware
        /\ pc'[c] = "select" => c \in ModeAware
    BY <1>1, <2>1 DEF ReadCycle, Goto
  <2>4. pc'[c] = "route" => local'[c].cycle # NoCycle
    <3>1. local'[c] = [NoLocal EXCEPT !.input = input, !.cycle = cycles[DeviceOf[c]]]
      BY <1>1, <2>1 DEF ReadCycle, Goto
    <3>2. local'[c].cycle = cycles[DeviceOf[c]]
      BY <3>1 DEF NoLocal
    <3>3. pc'[c] = "route" => cycles[DeviceOf[c]] # NoCycle
      BY <1>1, <2>1 DEF ReadCycle, Goto
    <3>4. QED
      BY <3>2, <3>3
  <2>5. QED
    BY <1>1, <2>2, <2>3, <2>4 DEF BrowseOK
<1>3. CASE RereadCycle(c)
  <2>1. /\ pc[c] = "reread" /\ pc'[c] = "route"
        /\ outcome' = outcome /\ selection' = selection
    BY <1>1, <1>3 DEF RereadCycle, Goto
  <2>2. QED
    BY <1>1, <2>1 DEF BrowseOK
<1>4. CASE WriteActive(c)
  <2>1. /\ pc'[c] = "idle" /\ selection' = selection
        /\ outcome'[c] = CycleSwitch(NextActive(local[c].cycle))
    BY <1>1, <1>4 DEF WriteActive, Return, Goto
  <2>2. QED
    BY <1>1, <2>1 DEF BrowseOK, CycleSwitch
<1>5. CASE RouteNow(c)
  <2>1. /\ pc[c] = "route" /\ pc'[c] = "idle" /\ selection' = selection
        /\ outcome'[c] = Normal(Fired(c), local[c].cycle)
    BY <1>1, <1>5 DEF RouteNow, Return, Goto
  <2>2. outcome'[c].cycle = local[c].cycle
    BY <2>1 DEF Normal
  <2>3. QED
    BY <1>1, <2>1, <2>2 DEF BrowseOK
<1>6. CASE Select(c)
  <2> DEFINE mode == selection[DeviceOf[c]]
  <2>1. pc[c] = "select" /\ c \in ModeAware
    BY <1>1, <1>6 DEF Select, BrowseOK
  <2>2. CASE mode # NoMode /\ BrowseRotate(c, mode)
    <3>1. /\ pc'[c] = "idle"
          /\ \/ outcome'[c] = Normal({}, NoCycle)
             \/ outcome'[c] = Selecting("update", Advance(mode, local[c].input.delta))
      BY <1>1, <2>2 DEF BrowseRotate, Return, Goto
    <3>2. CASE outcome'[c] = Normal({}, NoCycle)
      <4>1. outcome'[c].intents = {}
        BY <3>2 DEF Normal
      <4>2. QED
        BY <2>1, <3>1, <4>1 DEF BrowseOK
    <3>3. CASE outcome'[c] = Selecting("update", Advance(mode, local[c].input.delta))
      <4>1. outcome'[c].kind # "normal"
        BY <3>3 DEF Selecting
      <4>2. QED
        BY <2>1, <3>1, <4>1 DEF BrowseOK
    <3>4. QED
      BY <3>1, <3>2, <3>3
  <2>3. CASE mode # NoMode /\ BrowseEnd(c, mode)
    <3>1. pc'[c] = "idle" /\ selection'[DeviceOf[c]] = NoMode
      BY <1>1, <2>3 DEF BrowseEnd, Return, Goto
    <3>2. QED
      BY <2>1, <3>1 DEF BrowseOK
  <2>4. CASE mode = NoMode
    <3>1. pc'[c] = "entry" /\ outcome' = outcome /\ selection' = selection
      BY <1>1, <1>6, <2>4 DEF Select, Goto
    <3>2. QED
      BY <1>1, <2>1, <2>4, <3>1 DEF BrowseOK
  <2>5. QED
    BY <1>6, <2>2, <2>3, <2>4 DEF Select
<1>7. CASE Entry(c)
  <2>1. /\ pc[c] = "entry" /\ selection' = selection /\ selection[DeviceOf[c]] = NoMode
        /\ pc'[c] \in {"enter", "idle"} /\ c \in ModeAware
    BY <1>1, <1>7 DEF Entry, Return, Goto, BrowseOK
  <2>2. QED
    BY <2>1 DEF BrowseOK
<1>8. CASE StoreMode(c)
  <2>1. /\ pc[c] = "enter" /\ pc'[c] = "idle" /\ c \in ModeAware
        /\ outcome'[c] = Selecting("enter", local[c].mode)
    BY <1>1, <1>8 DEF StoreMode, Return, Goto, BrowseOK
  <2>2. QED
    BY <2>1 DEF BrowseOK, Selecting
<1>9. QED
  BY <1>2, <1>3, <1>4, <1>5, <1>6, <1>7, <1>8 DEF CallerStep

\* and what it leaves alone: the calls and the selections of other devices.
LEMMA BrowseOthers ==
  ASSUME OneLoopPerDevice, BrowseInv, NEW c \in Callers, CallerStep(c),
         NEW x \in Callers \ {c}
  PROVE  BrowseOK(x)'
<1>1. /\ TypeOK /\ BrowseOK(x)
      /\ pc \in [Callers -> {"idle", "write", "reread", "route", "select", "entry", "enter"}]
      /\ local \in [Callers -> Local] /\ outcome \in [Callers -> Outcome]
      /\ selection \in [Devices -> SelectionMode \cup {NoMode}]
  BY DEF BrowseInv, TypeInv, TypeOK
<1>2. DeviceOf[x] # DeviceOf[c] /\ DeviceOf[x] \in Devices /\ DeviceOf[c] \in Devices
  BY PoolAssumption DEF OneLoopPerDevice
<1>3. pc'[x] = pc[x] /\ local'[x] = local[x] /\ outcome'[x] = outcome[x]
  <2>1. CASE (\E input \in Input : ReadCycle(c, input)) \/ RereadCycle(c)
    BY <1>1, <2>1 DEF ReadCycle, RereadCycle, Goto
  <2>2. CASE WriteActive(c) \/ RouteNow(c) \/ Entry(c) \/ StoreMode(c)
    BY <1>1, <2>2 DEF WriteActive, RouteNow, Entry, StoreMode, Return, Goto
  <2>3. CASE Select(c)
    BY <1>1, <2>3 DEF Select, BrowseRotate, BrowseEnd, Return, Goto
  <2>4. QED
    BY <2>1, <2>2, <2>3 DEF CallerStep
<1>4. selection'[DeviceOf[x]] = selection[DeviceOf[x]]
  BY <1>1, <1>2 DEF CallerStep, ReadCycle, WriteActive, RereadCycle, RouteNow, Select, BrowseRotate,
                    BrowseEnd, Entry, StoreMode
<1>5. QED
  BY <1>1, <1>3, <1>4 DEF BrowseOK

LEMMA BrowseInvInductive ==
  ASSUME OneLoopPerDevice
  PROVE  BrowseInv /\ [Next]_vars => BrowseInv'
<1> SUFFICES ASSUME BrowseInv, [Next]_vars
             PROVE  BrowseInv'
  OBVIOUS
<1>1. TypeInv'
  BY TypeInvInductive DEF BrowseInv
<1>2. ASSUME NEW c \in Callers, CallerStep(c)
      PROVE  \A x \in Callers : BrowseOK(x)'
  BY <1>2, BrowseOwnStep, BrowseOthers
<1>3. CASE ServerFrame \/ UNCHANGED vars
  <2>1. UNCHANGED <<selection, pc, local, outcome>>
    BY <1>3 DEF ServerFrame, FullMappings, FullCycles, PatchMapping, DeleteMapping,
       TargetSwitch, PatchCycle, SetCycleActive, FrameMayStart, vars
  <2>2. QED
    BY <1>1, <2>1 DEF BrowseInv, BrowseOK
<1>4. QED
  BY <1>1, <1>2, <1>3 DEF Next, BrowseInv

\* With one loop per device, an input the device turns while it browses
\* candidates reaches no mapping.
THEOREM BrowsingIsSilent ==
  ASSUME OneLoopPerDevice
  PROVE  Spec => []BrowsingFiresNothing
<1>1. ASSUME Init, NEW c \in Callers
      PROVE  BrowseOK(c)
  BY <1>1, PoolAssumption DEF Init, BrowseOK
<1>2. Init => BrowseInv
  BY <1>1, TypeInvInit DEF BrowseInv
<1>3. BrowseInv => BrowsingFiresNothing
  BY DEF BrowseInv, BrowseOK, BrowsingFiresNothing
<1>4. QED
  BY <1>2, <1>3, BrowseInvInductive, PTL DEF Spec

\* Together: what the user chose at a device of edge-agent holds.
THEOREM ChoiceHolds ==
  ASSUME OneLoopPerDevice
  PROVE  Spec => []ChoiceRespected
<1>1. Spec => []LocalSwitchHolds /\ []OnlyChosenFires /\ []BrowsingFiresNothing
  BY SwitchHolds, ChosenAloneFires, BrowsingIsSilent
<1>2. LocalSwitchHolds /\ OnlyChosenFires /\ BrowsingFiresNothing => ChoiceRespected
  BY DEF ChoiceRespected
<1>3. QED
  BY <1>1, <1>2, PTL

-----------------------------------------------------------------------------
(* Any callers, the concurrent tasks of the iOS host included. *)

\* No interleaving of gestures and frames brings a deleted cycle back or
\* undoes a change of its members or gesture.
THEOREM PointerOnly == Spec => GestureOnlyMovesPointer
<1>1. ASSUME TypeInv, NEW c \in Callers, CallerStep(c), NEW d \in Devices
      PROVE  /\ (cycles[d] = NoCycle) <=> (cycles'[d] = NoCycle)
             /\ cycles[d] # NoCycle => /\ cycles'[d].ids = cycles[d].ids
                                       /\ cycles'[d].gesture = cycles[d].gesture
  <2>1. TypeOK /\ cycles \in [Devices -> Cycle \cup {NoCycle}]
    BY <1>1 DEF TypeInv, TypeOK
  <2>2. cycles' = cycles \/ WriteActive(c)
    BY <1>1 DEF CallerStep, ReadCycle, RereadCycle, RouteNow, Select, Entry, StoreMode
  <2>3. CASE WriteActive(c) /\ d = DeviceOf[c] /\ cycles[d] # NoCycle
    <3>1. /\ pc[c] = "write" /\ local[c].cycle \in Cycle \cup {NoCycle}
          /\ cycles[d] \in Cycle /\ cycles'[d] = Moved(c)
      BY <2>1, <2>3 DEF TypeOK, WriteActive, Local
    <3>2. NextActive(local[c].cycle) \in MappingIds
      <4>1. Switches(local[c].cycle, local[c].input)
        BY <1>1, <3>1 DEF TypeInv, CallsOK
      <4>2. QED
        BY <3>1, <4>1, NextActiveMember DEF Switches
    <3>3. Moved(c) = [cycles[d] EXCEPT !.active = NextActive(local[c].cycle)]
      BY <2>3 DEF Moved
    <3>4. /\ Moved(c) \in Cycle /\ Moved(c).ids = cycles[d].ids
          /\ Moved(c).gesture = cycles[d].gesture
      BY <3>1, <3>2, <3>3 DEF Cycle
    <3>5. QED
      BY <2>3, <3>1, <3>4, MarkerAssumption
  <2>4. CASE WriteActive(c) /\ d = DeviceOf[c] /\ cycles[d] = NoCycle
    BY <2>1, <2>4 DEF WriteActive, Moved
  <2>5. CASE WriteActive(c) /\ d # DeviceOf[c]
    BY <2>1, <2>5 DEF WriteActive
  <2>6. QED
    BY <2>2, <2>3, <2>4, <2>5
<1>2. ASSUME TypeInv, [Next]_vars
      PROVE  [(\E c \in Callers : CallerStep(c)) =>
                \A d \in Devices :
                  /\ (cycles[d] = NoCycle) <=> (cycles'[d] = NoCycle)
                  /\ cycles[d] # NoCycle => /\ cycles'[d].ids = cycles[d].ids
                                            /\ cycles'[d].gesture = cycles[d].gesture]_vars
  BY <1>1, <1>2
<1>3. QED
  BY TypeInvInit, TypeInvInductive, <1>2, PTL DEF Spec, GestureOnlyMovesPointer

\* Both halves of what a gesture's write may do, for edge-agent's loops.
THEOREM GesturesMoveRight ==
  ASSUME OneLoopPerDevice
  PROVE  Spec => GesturesMove
BY GesturesAdvance, PointerOnly DEF GesturesMove

\* One mapping fires at most one intent per input,
LEMMA AtMostOne ==
  ASSUME NEW ms, \A m, n \in ms : m.id = n.id => m = n,
         NEW input, NEW filter, filter # NoId
  PROVE  Cardinality(RouteMappings(ms, input, filter)) <= 1
<1> DEFINE S == RouteMappings(ms, input, filter)
<1>1. ASSUME NEW r \in S, NEW q \in S
      PROVE  r = q
  <2>1. PICK m \in ms : m.id = filter /\ r \in FirstRoute(m, input)
    BY <1>1 DEF RouteMappings
  <2>2. PICK n \in ms : n.id = filter /\ q \in FirstRoute(n, input)
    BY <1>1 DEF RouteMappings
  <2>3. m = n
    BY <2>1, <2>2
  <2>4. QED
    BY <2>1, <2>2, <2>3 DEF FirstRoute
<1>2. CASE S = {}
  BY <1>2, FS_EmptySet
<1>3. ASSUME NEW r \in S
      PROVE  Cardinality(S) = 1
  <2>1. S = {r}
    BY <1>1, <1>3
  <2>2. QED
    BY <2>1, FS_Singleton
<1>4. QED
  BY <1>2, <1>3

\* so with unique ids and an active filter an input fires at most one.
THEOREM SingleIntent == Spec => []OneIntentPerInput
<1> DEFINE Inv == TypeInv /\ UniqueMappingIds /\ OneIntentPerInput
<1>1. Init => Inv
  BY TypeInvInit DEF Init, UniqueMappingIds, OneIntentPerInput
<1>2. ASSUME Inv, NEW c \in Callers, CallerStep(c)
      PROVE  OneIntentPerInput'
  <2> DEFINE Fine(out) == out # Quiet /\ out.kind = "normal" /\ ActiveFilter(out.cycle) # NoId
                            => Cardinality(out.intents) <= 1
  <2>1. pc \in [Callers -> {"idle", "write", "reread", "route", "select", "entry", "enter"}]
        /\ outcome \in [Callers -> Outcome]
    BY <1>2 DEF TypeInv, TypeOK
  <2>2. \E out : Fine(out) /\ (outcome' = [outcome EXCEPT ![c] = out] \/ outcome' = outcome)
    <3>1. CASE (\E input \in Input : ReadCycle(c, input)) \/ RereadCycle(c)
      BY <3>1 DEF ReadCycle, RereadCycle
    <3>2. CASE WriteActive(c)
      <4>1. Fine(CycleSwitch(NextActive(local[c].cycle)))
        BY DEF CycleSwitch
      <4>2. QED
        BY <3>2, <4>1 DEF WriteActive, Return
    <3>3. CASE RouteNow(c)
      <4>1. \A m, n \in MappingsOf(mappings, DeviceOf[c]) : m.id = n.id => m = n
        BY <1>2 DEF MappingsOf, UniqueMappingIds
      <4>2. ActiveFilter(local[c].cycle) # NoId => Cardinality(Fired(c)) <= 1
        BY <4>1, AtMostOne DEF Fired
      <4>3. Fine(Normal(Fired(c), local[c].cycle))
        BY <4>2 DEF Normal
      <4>4. QED
        BY <3>3, <4>3 DEF RouteNow, Return
    <3>4. \A intents : Fine(Normal(intents, NoCycle))
      BY DEF Normal, ActiveFilter
    <3>5. \A kind \in {"enter", "update", "commit", "cancel"} : \A mode : Fine(Selecting(kind, mode))
      BY DEF Selecting
    <3>6. CASE Select(c)
      BY <3>4, <3>5, <3>6 DEF Select, BrowseRotate, BrowseEnd, Return
    <3>7. CASE Entry(c)
      BY <3>4, <3>7 DEF Entry, Return
    <3>8. CASE StoreMode(c)
      BY <3>5, <3>8 DEF StoreMode, Return
    <3>9. QED
      BY <1>2, <3>1, <3>2, <3>3, <3>6, <3>7, <3>8 DEF CallerStep
  <2>3. QED
    BY <1>2, <2>1, <2>2 DEF OneIntentPerInput
<1>3. ASSUME Inv, [Next]_vars
      PROVE  Inv'
  <2>1. ASSUME ServerFrame \/ UNCHANGED vars
        PROVE  OneIntentPerInput'
    <3>1. outcome' = outcome
      BY <2>1 DEF ServerFrame, FullMappings, FullCycles, PatchMapping, DeleteMapping,
         TargetSwitch, PatchCycle, SetCycleActive, FrameMayStart, vars
    <3>2. OneIntentPerInput
      BY <1>3
    <3>3. QED
      BY <3>1, <3>2 DEF OneIntentPerInput
  <2>2. OneIntentPerInput'
    BY <1>2, <1>3, <2>1 DEF Next
  <2>3. QED
    BY <1>3, <2>2, TypeInvInductive, UniqueInductive
<1>4. Inv => OneIntentPerInput
  OBVIOUS
<1>5. QED
  BY <1>1, <1>3, <1>4, PTL DEF Spec

-----------------------------------------------------------------------------
(* The loops of advance. *)

\* Induction, as a fact about sets of numbers.
LEMMA Induction ==
  ASSUME NEW T \in SUBSET Nat, 0 \in T, \A n \in T : n + 1 \in T
  PROVE  T = Nat
<1> SUFFICES ASSUME Nat \ T # {} PROVE FALSE
  OBVIOUS
<1>1. PICK n \in Nat \ T : \A m \in Nat \ T : n <= m
  <2>1. Nat \ T \in SUBSET Nat
    OBVIOUS
  <2>2. QED
    BY <2>1, FirstIndexMember
<1>2. n \in Nat /\ n # 0
  BY <1>1
<1>3. n - 1 \in Nat /\ n - 1 < n /\ (n - 1) + 1 = n
  BY <1>2
<1>4. QED
  BY <1>1, <1>3

\* Quotients are determined by what they leave.
LEMMA Quotient ==
  ASSUME NEW x \in Int, NEW n \in Nat \ {0}, NEW q \in Int, NEW r \in 0..n - 1, x = q * n + r
  PROVE  x \div n = q /\ x % n = r
<1> DEFINE p == x \div n
           m == x % n
<1>1. p \in Int /\ m \in Int /\ 0 <= m /\ m < n /\ x = n * p + m
  OBVIOUS
<1> HIDE DEF p, m
<1>2. r \in Int /\ 0 <= r /\ r < n
  OBVIOUS
<1> DEFINE d == q - p
<1>3. d \in Int /\ q = p + d
  BY <1>1
<1> HIDE DEF d
<1>4. d * n = m - r
  <2> DEFINE a == p * n
             b == d * n
  <2>1. (p + d) * n = a + b /\ a \in Int /\ b \in Int
    BY <1>1, <1>3
  <2>2. n * p = a
    BY <1>1
  <2> HIDE DEF a, b
  <2>3. x = a + m
    BY <1>1, <2>2
  <2>4. x = a + b + r
    BY <1>3, <2>1
  <2>5. b = m - r
    BY <1>1, <1>2, <2>1, <2>3, <2>4
  <2>6. QED
    BY <2>5 DEF b
<1>5. d = 0
  <2>1. d >= 1 => d * n >= n
    BY <1>3
  <2>2. d <= -1 => d * n <= -n
    BY <1>3
  <2>3. d * n < n /\ d * n > -n
    BY <1>1, <1>2, <1>4
  <2>4. QED
    BY <1>3, <2>1, <2>2, <2>3
<1>6. p = q /\ m = r
  BY <1>1, <1>2, <1>3, <1>4, <1>5
<1>7. QED
  BY <1>6 DEF p, m

\* One step more on either side of a division.
LEMMA OneStepMore ==
  ASSUME NEW x \in Int, NEW n \in Nat \ {0}
  PROVE  (x + n) \div n = x \div n + 1 /\ (x + n) % n = x % n
<1>1. PICK q \in Int, r \in 0..n - 1 : x \div n = q /\ x % n = r /\ x = q * n + r
  <2>1. x \div n \in Int /\ x % n \in 0..n - 1 /\ x = (x \div n) * n + (x % n)
    OBVIOUS
  <2>2. QED
    BY <2>1
<1>2. x + n = (q + 1) * n + r
  BY <1>1
<1>3. x + n \in Int /\ q + 1 \in Int
  BY <1>1
<1>4. (x + n) \div n = q + 1 /\ (x + n) % n = r
  <2> DEFINE y == x + n
             k == q + 1
  <2>1. y \in Int /\ k \in Int /\ y = k * n + r
    BY <1>2, <1>3
  <2> HIDE DEF y, k
  <2>2. y \div n = k /\ y % n = r
    BY <2>1, Quotient
  <2>3. QED
    BY <2>2 DEF y, k
<1>5. QED
  BY <1>1, <1>4
-----------------------------------------------------------------------------
(* Turns of the cursor. *)

\* The entry k places after the cursor of a list of n.
Turned(cursor, k, n) == ((cursor - 1 + k) % n) + 1

LEMMA TurnedRange ==
  ASSUME NEW n \in Nat \ {0}, NEW c \in 1..n, NEW k \in Int
  PROVE  Turned(c, k, n) \in 1..n
<1>1. c - 1 + k \in Int
  OBVIOUS
<1>2. QED
  BY <1>1, ModRange DEF Turned

\* The two ways the loops write a turn by one.
LEMMA TurnedByOne ==
  ASSUME NEW n \in Nat \ {0}, NEW c \in 1..n
  PROVE  /\ Turned(c, 0, n) = c
         /\ (c % n) + 1 = Turned(c, 1, n)
         /\ ((c - 1 + n - 1) % n) + 1 = Turned(c, -1, n)
<1>1. (c - 1) % n = c - 1
  OBVIOUS
<1>2. (c - 1 - 1 + n) % n = (c - 1 - 1) % n
  <2> DEFINE x == c - 1 - 1
  <2>1. x \in Int
    OBVIOUS
  <2> HIDE DEF x
  <2>2. (x + n) % n = x % n
    BY <2>1, OneStepMore
  <2>3. QED
    BY <2>2 DEF x
<1>3. /\ c - 1 + 0 = c - 1 /\ c - 1 + 1 = c
      /\ c - 1 + n - 1 = c - 1 - 1 + n /\ c - 1 + (-1) = c - 1 - 1
      /\ (c - 1) + 1 = c
  OBVIOUS
<1>4. QED
  BY <1>1, <1>2, <1>3 DEF Turned

\* A turn and another are one turn.
LEMMA TurnedTwice ==
  ASSUME NEW n \in Nat \ {0}, NEW c \in 1..n, NEW j \in Int, NEW k \in Int
  PROVE  Turned(Turned(c, j, n), k, n) = Turned(c, j + k, n)
<1> DEFINE x == c - 1 + j
           q == x \div n
           r == x % n
           y == r + k
           p == y \div n
           s == y % n
<1>1. x \in Int
  OBVIOUS
<1> HIDE DEF x
<1>2. q \in Int /\ r \in 0..n - 1 /\ x = q * n + r
  BY <1>1
<1> HIDE DEF q, r
<1>3. y \in Int
  BY <1>2
<1> HIDE DEF y
<1>4. p \in Int /\ s \in 0..n - 1 /\ y = p * n + s
  BY <1>3
<1> HIDE DEF p, s
<1> DEFINE z == x + k
           t == q + p
<1>5. z \in Int /\ t \in Int
  BY <1>1, <1>2, <1>4
<1>6. z = t * n + s
  <2> DEFINE a == q * n
             b == p * n
  <2>1. t * n = a + b /\ a \in Int /\ b \in Int
    BY <1>2, <1>4
  <2> HIDE DEF a, b
  <2>2. x = a + r /\ y = b + s
    BY <1>2, <1>4 DEF a, b
  <2>3. y = r + k
    BY DEF y
  <2>4. z = a + b + s
    BY <1>1, <1>2, <1>4, <2>1, <2>2, <2>3
  <2>5. QED
    BY <2>1, <2>4
<1> HIDE DEF z, t
<1>7. z % n = s
  BY <1>4, <1>5, <1>6, Quotient
<1>8. Turned(c, j, n) = r + 1
  BY DEF Turned, r, x
<1> DEFINE v == r + 1
<1>9. Turned(v, k, n) = s + 1
  <2>1. v - 1 + k = y
    BY <1>2 DEF y
  <2> HIDE DEF v
  <2>2. QED
    BY <2>1 DEF Turned, s
<1>10. Turned(c, j + k, n) = s + 1
  <2>1. c - 1 + (j + k) = z
    BY DEF z, x
  <2>2. QED
    BY <1>7, <2>1 DEF Turned
<1>11. QED
  BY <1>8, <1>9, <1>10

-----------------------------------------------------------------------------
(* What the loops of advance compute. *)

\* The full steps of a travel in one direction, and what they leave of it.
FullSteps(travel) == travel \div Step

LEMMA StepLess ==
  ASSUME NEW acc \in Int
  PROVE  /\ FullSteps(acc) \in Int
         /\ FullSteps(acc) = FullSteps(acc - Step) + 1
         /\ 0 <= acc /\ acc < Step => FullSteps(acc) = 0
<1>1. Step \in Nat \ {0} /\ acc - Step \in Int
  BY StepAssumption
<1> DEFINE x == acc - Step
<1>2. x \in Int /\ x + Step = acc
  BY <1>1
<1> HIDE DEF x
<1>3. (x + Step) \div Step = x \div Step + 1
  BY <1>1, <1>2, OneStepMore
<1>4. FullSteps(acc) = FullSteps(x) + 1
  BY <1>2, <1>3 DEF FullSteps
<1>5. ASSUME 0 <= acc, acc < Step PROVE FullSteps(acc) = 0
  BY <1>1, <1>5 DEF FullSteps
<1>6. FullSteps(acc) \in Int
  BY <1>1 DEF FullSteps
<1>7. QED
  BY <1>4, <1>5, <1>6 DEF x

Turns(n) == Int \X (1..n)
\* The loops, for n candidates, as the code writes them.
UpLoop(f, n) ==
  f = [at \in Int \X (1..n) |->
        IF at[1] >= Step THEN f[<<at[1] - Step, (at[2] % n) + 1>>] ELSE at]
DownLoop(f, n) ==
  f = [at \in Int \X (1..n) |->
        IF at[1] <= -Step THEN f[<<at[1] + Step, ((at[2] - 1 + n - 1) % n) + 1>>] ELSE at]
\* Where they end.
UpEnd(at, n) ==
  IF at[1] < 0 THEN at
  ELSE <<at[1] - FullSteps(at[1]) * Step, Turned(at[2], FullSteps(at[1]), n)>>
DownEnd(at, n) ==
  IF at[1] > 0 THEN at
  ELSE <<at[1] + FullSteps(-at[1]) * Step, Turned(at[2], -FullSteps(-at[1]), n)>>

\* One iteration of the first loop does not change where it ends.
LEMMA UpOnce ==
  ASSUME NEW n \in Nat \ {0}, NEW acc \in Int, NEW c \in 1..n
  PROVE  UpEnd(<<acc, c>>, n) =
           IF acc >= Step THEN UpEnd(<<acc - Step, (c % n) + 1>>, n) ELSE <<acc, c>>
<1> DEFINE q == FullSteps(acc)
           p == FullSteps(acc - Step)
<1>1. Step \in Nat \ {0} /\ q \in Int /\ p \in Int /\ q = p + 1
  <2>1. acc - Step \in Int /\ Step \in Nat \ {0}
    BY StepAssumption
  <2>2. QED
    BY <2>1, StepLess
<1>2. 0 <= acc /\ acc < Step => q = 0
  BY StepLess
<1> HIDE DEF q, p
<1>3. CASE acc < 0
  BY <1>1, <1>3 DEF UpEnd
<1>4. CASE 0 <= acc /\ acc < Step
  <2>1. UpEnd(<<acc, c>>, n) = <<acc - q * Step, Turned(c, q, n)>>
    BY <1>4 DEF UpEnd, q
  <2>2. q = 0 /\ Turned(c, 0, n) = c /\ acc - 0 * Step = acc
    BY <1>1, <1>2, <1>4, TurnedByOne
  <2>3. QED
    BY <1>1, <1>4, <2>1, <2>2
<1>5. CASE acc >= Step
  <2>1. UpEnd(<<acc, c>>, n) = <<acc - q * Step, Turned(c, q, n)>>
    <3>1. ~(acc < 0)
      BY <1>1, <1>5
    <3>2. QED
      BY <3>1 DEF UpEnd, q
  <2>2. UpEnd(<<acc - Step, (c % n) + 1>>, n)
          = <<acc - Step - p * Step, Turned((c % n) + 1, p, n)>>
    <3>1. ~(acc - Step < 0)
      BY <1>1, <1>5
    <3>2. QED
      BY <3>1 DEF UpEnd, p
  <2>3. acc - Step - p * Step = acc - q * Step
    <3>1. (p + 1) * Step = p * Step + Step /\ p * Step \in Int
      BY <1>1
    <3>2. QED
      BY <1>1, <3>1
  <2>4. Turned((c % n) + 1, p, n) = Turned(c, q, n)
    <3>1. (c % n) + 1 = Turned(c, 1, n)
      BY TurnedByOne
    <3>2. 1 \in Int /\ 1 + p = q
      BY <1>1
    <3>3. Turned(Turned(c, 1, n), p, n) = Turned(c, 1 + p, n)
      BY <1>1, <3>2, TurnedTwice
    <3>4. QED
      BY <3>1, <3>2, <3>3
  <2>5. QED
    BY <1>5, <2>1, <2>2, <2>3, <2>4
<1>6. QED
  BY <1>1, <1>3, <1>4, <1>5

\* Nor does one of the second.
LEMMA DownOnce ==
  ASSUME NEW n \in Nat \ {0}, NEW acc \in Int, NEW c \in 1..n
  PROVE  DownEnd(<<acc, c>>, n) =
           IF acc <= -Step THEN DownEnd(<<acc + Step, ((c - 1 + n - 1) % n) + 1>>, n)
           ELSE <<acc, c>>
<1> DEFINE q == FullSteps(-acc)
           p == FullSteps(-(acc + Step))
           d == ((c - 1 + n - 1) % n) + 1
<1>1. Step \in Nat \ {0} /\ q \in Int /\ p \in Int /\ q = p + 1
  <2>1. -acc \in Int /\ -(acc + Step) = -acc - Step /\ -(acc + Step) \in Int /\ Step \in Nat \ {0}
    BY StepAssumption
  <2>2. QED
    BY <2>1, StepLess
<1>2. 0 <= -acc /\ -acc < Step => q = 0
  <2>1. -acc \in Int
    OBVIOUS
  <2>2. QED
    BY <2>1, StepLess
<1> HIDE DEF q, p, d
<1>3. CASE acc > 0
  BY <1>1, <1>3 DEF DownEnd
<1>4. CASE acc <= 0 /\ -Step < acc
  <2>1. DownEnd(<<acc, c>>, n) = <<acc + q * Step, Turned(c, -q, n)>>
    BY <1>4 DEF DownEnd, q
  <2>2. q = 0 /\ -q = 0 /\ Turned(c, 0, n) = c /\ acc + 0 * Step = acc
    BY <1>1, <1>2, <1>4, TurnedByOne
  <2>3. QED
    BY <1>1, <1>4, <2>1, <2>2
<1>5. CASE acc <= -Step
  <2>1. DownEnd(<<acc, c>>, n) = <<acc + q * Step, Turned(c, -q, n)>>
    <3>1. ~(acc > 0)
      BY <1>1, <1>5
    <3>2. QED
      BY <3>1 DEF DownEnd, q
  <2>2. DownEnd(<<acc + Step, d>>, n) = <<acc + Step + p * Step, Turned(d, -p, n)>>
    <3>1. ~(acc + Step > 0)
      BY <1>1, <1>5
    <3>2. QED
      BY <3>1 DEF DownEnd, p
  <2>3. acc + Step + p * Step = acc + q * Step
    <3>1. (p + 1) * Step = p * Step + Step /\ p * Step \in Int
      BY <1>1
    <3>2. QED
      BY <1>1, <3>1
  <2>4. Turned(d, -p, n) = Turned(c, -q, n)
    <3>1. d = Turned(c, -1, n)
      BY TurnedByOne DEF d
    <3>2. -1 \in Int /\ -p \in Int /\ (-1) + (-p) = -q
      BY <1>1
    <3>3. Turned(Turned(c, -1, n), -p, n) = Turned(c, (-1) + (-p), n)
      BY <1>1, <3>2, TurnedTwice
    <3>4. QED
      BY <3>1, <3>2, <3>3
  <2>5. QED
    BY <1>5, <2>1, <2>2, <2>3, <2>4 DEF d
<1>6. QED
  BY <1>1, <1>3, <1>4, <1>5

LEMMA EndsAreTurns ==
  ASSUME NEW n \in Nat \ {0}, NEW acc \in Int, NEW c \in 1..n
  PROVE  UpEnd(<<acc, c>>, n) \in Turns(n) /\ DownEnd(<<acc, c>>, n) \in Turns(n)
<1>1. Step \in Nat \ {0} /\ -acc \in Int
  BY StepAssumption
<1>2. FullSteps(acc) \in Int /\ FullSteps(-acc) \in Int
  BY <1>1, StepLess
<1>3. -FullSteps(-acc) \in Int /\ FullSteps(acc) * Step \in Int /\ FullSteps(-acc) * Step \in Int
  BY <1>1, <1>2
<1>4. /\ Turned(c, FullSteps(acc), n) \in 1..n
      /\ Turned(c, -FullSteps(-acc), n) \in 1..n
  BY <1>2, <1>3, TurnedRange
<1>5. QED
  BY <1>3, <1>4 DEF UpEnd, DownEnd, Turns

\* Whatever satisfies the definition of the first loop ends where UpEnd says:
\* by induction on how far the travel reaches.
LEMMA UpLoopEnds ==
  ASSUME NEW n \in Nat \ {0}, NEW f, UpLoop(f, n), NEW acc \in Int, NEW c \in 1..n
  PROVE  f[<<acc, c>>] = UpEnd(<<acc, c>>, n)
<1> DEFINE T == {k \in Nat : \A a \in Int, d \in 1..n :
                               a < k => f[<<a, d>>] = UpEnd(<<a, d>>, n)}
<1>1. Step \in Nat \ {0}
  BY StepAssumption
<1>2. \A a \in Int, d \in 1..n :
        f[<<a, d>>] = IF a >= Step THEN f[<<a - Step, (d % n) + 1>>] ELSE <<a, d>>
  BY DEF UpLoop
<1>3. \A d \in 1..n : (d % n) + 1 \in 1..n
  BY ModRange
<1>4. \A a \in Int, d \in 1..n : a < Step => f[<<a, d>>] = UpEnd(<<a, d>>, n)
  <2>1. SUFFICES ASSUME NEW a \in Int, NEW d \in 1..n, a < Step
                 PROVE  f[<<a, d>>] = UpEnd(<<a, d>>, n)
    OBVIOUS
  <2>2. ~(a >= Step)
    BY <1>1, <2>1
  <2>3. f[<<a, d>>] = <<a, d>>
    BY <1>2, <2>2
  <2>4. UpEnd(<<a, d>>, n) = <<a, d>>
    BY <2>2, UpOnce
  <2>5. QED
    BY <2>3, <2>4
<1>5. 0 \in T
  BY <1>1, <1>4
<1>6. ASSUME NEW k \in T PROVE k + 1 \in T
  <2>1. k \in Nat
    OBVIOUS
  <2>2. ASSUME NEW a \in Int, NEW d \in 1..n, a < k + 1, a >= Step
        PROVE  f[<<a, d>>] = UpEnd(<<a, d>>, n)
    <3>1. a - Step \in Int /\ a - Step < k /\ (d % n) + 1 \in 1..n
      BY <1>1, <1>3, <2>1, <2>2
    <3>2. f[<<a - Step, (d % n) + 1>>] = UpEnd(<<a - Step, (d % n) + 1>>, n)
      BY <3>1
    <3>3. f[<<a, d>>] = f[<<a - Step, (d % n) + 1>>]
      BY <1>2, <2>2
    <3>4. UpEnd(<<a, d>>, n) = UpEnd(<<a - Step, (d % n) + 1>>, n)
      BY <2>2, UpOnce
    <3>5. QED
      BY <3>2, <3>3, <3>4
  <2>3. QED
    BY <1>1, <1>4, <2>1, <2>2
<1>7. T \in SUBSET Nat
  OBVIOUS
<1> HIDE DEF T
<1>8. T = Nat
  BY <1>5, <1>6, <1>7, Induction
<1>9. PICK k \in Nat : acc < k
  <2>1. CASE acc < 0
    BY <2>1
  <2>2. CASE acc >= 0
    BY <2>2, acc + 1 \in Nat, acc < acc + 1
  <2>3. QED
    BY <2>1, <2>2
<1>10. QED
  BY <1>8, <1>9 DEF T

\* The same of the second.
LEMMA DownLoopEnds ==
  ASSUME NEW n \in Nat \ {0}, NEW f, DownLoop(f, n), NEW acc \in Int, NEW c \in 1..n
  PROVE  f[<<acc, c>>] = DownEnd(<<acc, c>>, n)
<1> DEFINE Before(d) == ((d - 1 + n - 1) % n) + 1
           T == {k \in Nat : \A a \in Int, d \in 1..n :
                               -a < k => f[<<a, d>>] = DownEnd(<<a, d>>, n)}
<1>1. Step \in Nat \ {0}
  BY StepAssumption
<1>2. \A a \in Int, d \in 1..n :
        f[<<a, d>>] = IF a <= -Step THEN f[<<a + Step, Before(d)>>] ELSE <<a, d>>
  BY DEF DownLoop
<1>3. \A d \in 1..n : Before(d) \in 1..n
  <2>1. \A d \in 1..n : d - 1 + n - 1 \in Int
    OBVIOUS
  <2>2. QED
    BY <2>1, ModRange
<1>a. \A a \in Int, d \in 1..n :
        DownEnd(<<a, d>>, n) =
          IF a <= -Step THEN DownEnd(<<a + Step, Before(d)>>, n) ELSE <<a, d>>
  BY DownOnce
<1> HIDE DEF Before
<1>4. \A a \in Int, d \in 1..n : -a < Step => f[<<a, d>>] = DownEnd(<<a, d>>, n)
  <2>1. SUFFICES ASSUME NEW a \in Int, NEW d \in 1..n, -a < Step
                 PROVE  f[<<a, d>>] = DownEnd(<<a, d>>, n)
    OBVIOUS
  <2>2. ~(a <= -Step)
    BY <1>1, <2>1
  <2>3. f[<<a, d>>] = <<a, d>>
    BY <1>2, <2>2
  <2>4. DownEnd(<<a, d>>, n) = <<a, d>>
    BY <1>a, <2>2
  <2>5. QED
    BY <2>3, <2>4
<1>5. 0 \in T
  BY <1>1, <1>4
<1>6. ASSUME NEW k \in T PROVE k + 1 \in T
  <2>1. k \in Nat
    OBVIOUS
  <2>2. ASSUME NEW a \in Int, NEW d \in 1..n, -a < k + 1, a <= -Step
        PROVE  f[<<a, d>>] = DownEnd(<<a, d>>, n)
    <3>1. a + Step \in Int /\ -(a + Step) < k /\ Before(d) \in 1..n
      BY <1>1, <1>3, <2>1, <2>2
    <3>2. f[<<a + Step, Before(d)>>] = DownEnd(<<a + Step, Before(d)>>, n)
      BY <3>1
    <3>3. f[<<a, d>>] = f[<<a + Step, Before(d)>>]
      BY <1>2, <2>2
    <3>4. DownEnd(<<a, d>>, n) = DownEnd(<<a + Step, Before(d)>>, n)
      BY <1>a, <2>2
    <3>5. QED
      BY <3>2, <3>3, <3>4
  <2>3. QED
    BY <1>1, <1>4, <2>1, <2>2
<1>7. T \in SUBSET Nat
  OBVIOUS
<1> HIDE DEF T
<1>8. T = Nat
  BY <1>5, <1>6, <1>7, Induction
<1>9. PICK k \in Nat : -acc < k
  <2>1. CASE acc > 0
    BY <2>1
  <2>2. CASE acc <= 0
    BY <2>2, -acc + 1 \in Nat, -acc < -acc + 1
  <2>3. QED
    BY <2>1, <2>2
<1>10. QED
  BY <1>8, <1>9 DEF T

\* There are such functions.
LEMMA LoopsExist ==
  ASSUME NEW n \in Nat \ {0}
  PROVE  (\E f : UpLoop(f, n)) /\ (\E f : DownLoop(f, n))
<1> DEFINE up == [at \in Int \X (1..n) |-> UpEnd(at, n)]
           down == [at \in Int \X (1..n) |-> DownEnd(at, n)]
           Before(d) == ((d - 1 + n - 1) % n) + 1
<1>1. Step \in Nat \ {0}
  BY StepAssumption
<1>2. \A d \in 1..n : (d % n) + 1 \in 1..n
  BY ModRange
<1>3. \A d \in 1..n : Before(d) \in 1..n
  <2>1. \A d \in 1..n : d - 1 + n - 1 \in Int
    OBVIOUS
  <2>2. QED
    BY <2>1, ModRange
<1>4. UpLoop(up, n)
  <2>1. SUFFICES ASSUME NEW at \in Int \X (1..n)
                 PROVE  UpEnd(at, n) =
                          IF at[1] >= Step THEN up[<<at[1] - Step, (at[2] % n) + 1>>] ELSE at
    BY DEF UpLoop
  <2>2. PICK a \in Int, d \in 1..n : at = <<a, d>>
    OBVIOUS
  <2>3. a >= Step => <<a - Step, (d % n) + 1>> \in Int \X (1..n)
    BY <1>1, <1>2
  <2>4. QED
    BY <2>2, <2>3, UpOnce
<1>5. DownLoop(down, n)
  <2>1. SUFFICES ASSUME NEW at \in Int \X (1..n)
                 PROVE  DownEnd(at, n) =
                          IF at[1] <= -Step THEN down[<<at[1] + Step, Before(at[2])>>] ELSE at
    BY DEF DownLoop
  <2>2. PICK a \in Int, d \in 1..n : at = <<a, d>>
    OBVIOUS
  <2>3. a <= -Step => <<a + Step, Before(d)>> \in Int \X (1..n)
    BY <1>1, <1>3
  <2>a. DownEnd(<<a, d>>, n) =
          IF a <= -Step THEN DownEnd(<<a + Step, Before(d)>>, n) ELSE <<a, d>>
    BY DownOnce
  <2> HIDE DEF Before
  <2>4. QED
    BY <2>2, <2>3, <2>a
<1>6. QED
  BY <1>4, <1>5

\* The two loops of advance, for any travel from any selection in range.
LEMMA LoopsAdvance ==
  ASSUME NEW mode \in SelectionMode, ModeInRange(mode), NEW delta \in Int
  PROVE  AdvanceLoops(mode, delta) = Advance(mode, delta)
<1> DEFINE n == Len(mode.candidates)
           up == CHOOSE f : UpLoop(f, n)
           down == CHOOSE f : DownLoop(f, n)
           total == mode.acc + delta
           c == mode.cursor
           steps == IF total >= 0 THEN total \div Step ELSE -((-total) \div Step)
           last == down[up[<<total, c>>]]
<1>1. mode.candidates \in Seq(Candidate) /\ mode.cursor \in Nat /\ mode.acc \in Int
  BY DEF SelectionMode
<1>2. n \in Nat \ {0} /\ c \in 1..n /\ Step \in Nat \ {0} /\ total \in Int
  BY <1>1, StepAssumption DEF ModeInRange
<1>3. AdvanceLoops(mode, delta) = [mode EXCEPT !.acc = last[1], !.cursor = last[2]]
  BY Zenon DEF AdvanceLoops, UpLoop, DownLoop
<1>4. Advance(mode, delta) = [mode EXCEPT !.cursor = Turned(c, steps, n),
                                          !.acc = total - steps * Step]
  BY Zenon DEF Advance, Turned
<1> HIDE DEF n, c, total
<1>5. UpLoop(up, n) /\ DownLoop(down, n)
  BY <1>2, LoopsExist
<1> HIDE DEF up, down
<1>6. \A a \in Int, d \in 1..n : up[<<a, d>>] = UpEnd(<<a, d>>, n)
  BY <1>2, <1>5, UpLoopEnds
<1>7. \A a \in Int, d \in 1..n : down[<<a, d>>] = DownEnd(<<a, d>>, n)
  BY <1>2, <1>5, DownLoopEnds
<1>8. last = <<total - steps * Step, Turned(c, steps, n)>>
  <2>1. CASE total >= 0
    <3> DEFINE q == FullSteps(total)
    <3>1. total \in Nat /\ ~(total < 0) /\ steps = q
      BY <1>2, <2>1 DEF FullSteps
    <3>2. q \in Nat /\ 0 <= total - q * Step /\ total - q * Step < Step
      BY <1>2, <3>1, Remainder DEF FullSteps
    <3>3. up[<<total, c>>] = <<total - q * Step, Turned(c, q, n)>>
      BY <1>2, <1>6, <3>1 DEF UpEnd
    <3> HIDE DEF q, steps
    <3> DEFINE left == total - q * Step
               d == Turned(c, q, n)
    <3>4. left \in Int /\ ~(left <= -Step) /\ d \in 1..n
      BY <1>2, <3>2, TurnedRange
    <3> HIDE DEF left, d
    <3>5. down[<<left, d>>] = <<left, d>>
      <4>1. down[<<left, d>>] = DownEnd(<<left, d>>, n)
        BY <1>7, <3>4
      <4>2. DownEnd(<<left, d>>, n) = <<left, d>>
        BY <1>2, <3>4, DownOnce
      <4>3. QED
        BY Zenon, <4>1, <4>2
    <3>6. last = <<left, d>>
      BY <3>3, <3>5 DEF left, d
    <3>7. QED
      BY <3>1, <3>6 DEF left, d
  <2>2. CASE total < 0
    <3> DEFINE q == FullSteps(-total)
    <3>1. ~(total >= Step) /\ ~(total > 0) /\ steps = -q
      BY <1>2, <2>2 DEF FullSteps
    <3>2. q \in Int
      <4>1. -total \in Int
        BY <1>2
      <4>2. QED
        BY <4>1, StepLess
    <3>3. up[<<total, c>>] = <<total, c>>
      BY <1>2, <1>6, <3>1, UpOnce
    <3>4. down[<<total, c>>] = <<total + q * Step, Turned(c, -q, n)>>
      BY <1>2, <1>7, <3>1 DEF DownEnd
    <3>5. last = <<total + q * Step, Turned(c, -q, n)>>
      BY <3>3, <3>4
    <3> HIDE DEF q, steps, last
    <3>6. total - (-q) * Step = total + q * Step
      BY <1>2, <3>2
    <3>7. QED
      BY <3>1, <3>5, <3>6
  <2>3. QED
    BY <1>2, <2>1, <2>2
<1> HIDE DEF steps, last
<1>9. last[1] = total - steps * Step /\ last[2] = Turned(c, steps, n)
  BY <1>8
<1>10. [mode EXCEPT !.acc = last[1], !.cursor = last[2]]
         = [mode EXCEPT !.cursor = last[2], !.acc = last[1]]
  BY DEF SelectionMode
<1>11. QED
  BY <1>3, <1>4, <1>9, <1>10

\* From every selection a run can leave behind, the two loops do what the closed
\* form of advance says.
THEOREM LoopsAreAdvance == Spec => []LoopsMatchAdvance
<1>1. TypeInv => LoopsMatchAdvance
  <2> SUFFICES ASSUME TypeInv, NEW d \in Devices, selection[d] # NoMode,
                      NEW turn \in -4 * Step..4 * Step
               PROVE  AdvanceLoops(selection[d], turn) = Advance(selection[d], turn)
    BY DEF LoopsMatchAdvance
  <2>1. selection[d] \in SelectionMode /\ ModeInRange(selection[d])
    BY DEF TypeInv, TypeOK, SelectionInRange
  <2>2. turn \in Int
    BY StepAssumption
  <2>3. QED
    BY <2>1, <2>2, LoopsAdvance
<1>2. QED
  BY TypeInvInit, TypeInvInductive, <1>1, PTL DEF Spec

=============================================================================
