----------------------------- MODULE RoutingOps -----------------------------
(***************************************************************************)
(* The data of the edge routing engine and the functions its operations    *)
(* are built from (crates/edge-core/src/routing.rs, the free functions and *)
(* the methods of SelectionMode; crates/weave-contracts, Mapping and       *)
(* DeviceCycle).                                                           *)
(*                                                                         *)
(* Abstractions.  A (device_type, device_id) pair is one element of        *)
(* Devices, a UUID one element of MappingIds.  An input primitive is a     *)
(* record of the wire name it matches and, for a rotation, its signed      *)
(* delta in units of 1/Step of SELECTION_ROTATION_STEP.  The mapping list  *)
(* of a device is a set: the code lets the order decide only which of      *)
(* several mappings enters selection mode, which is a choice here.         *)
(***************************************************************************)
EXTENDS Integers, Sequences, FiniteSets

CONSTANTS
  Devices,          \* (device_type, device_id) pairs
  MappingIds,       \* mapping UUIDs
  Targets,          \* service_target values
  Kinds,            \* wire names of inputs: "rotate", "press", "swipe_up", ...
  Deltas,           \* rotation amounts of one event
  Step,             \* SELECTION_ROTATION_STEP in the unit of Deltas
  PlainIntents,     \* intents built from any input ("play", "next", ...)
  ScaledIntents,    \* intents that need a continuous value ("volume_change", ...)
  NoId, NoKind, NoCycle, NoMode, Inherit

ASSUME StepAssumption == Step \in Nat \ {0} /\ Deltas \subseteq Int

Input == [kind : {"rotate"}, delta : Deltas]
           \cup [kind : Kinds \ {"rotate"}, delta : {0}]
Route == [input : Kinds, intent : PlainIntents \cup ScaledIntents]
\* One target_candidates entry; Inherit stands for the absent routes override.
Candidate == [target : Targets, routes : Seq(Route) \cup {Inherit}]
Mapping == [id : MappingIds, device : Devices, target : Targets,
            active : BOOLEAN, routes : Seq(Route),
            candidates : Seq(Candidate), switchOn : Kinds \cup {NoKind}]
Cycle == [ids : Seq(MappingIds), active : MappingIds \cup {NoId},
          gesture : Kinds \cup {NoKind}]
SelectionMode == [mapping : MappingIds, candidates : Seq(Candidate),
                  cursor : Nat, acc : Int]
ASSUME MarkerAssumption ==
  NoId \notin MappingIds /\ NoKind \notin Kinds /\ NoCycle \notin Cycle
\* A RoutedIntent, tagged with the mapping that produced it.
RoutedIntent == [mapping : MappingIds, target : Targets,
                 intent : PlainIntents \cup ScaledIntents]

FirstIndex(S) == CHOOSE i \in S : \A j \in S : i <= j

Members(cycle) == {cycle.ids[i] : i \in DOMAIN cycle.ids}
MatchesGesture(cycle, input) == cycle.gesture = input.kind

-----------------------------------------------------------------------------
(* Cycles. *)

\* next_active: the entry after the active one; NoId when the cycle is
\* empty, has no active entry, or its active entry is not in the list.
NextActive(cycle) ==
  LET at == {i \in DOMAIN cycle.ids : cycle.ids[i] = cycle.active}
  IN  IF at = {} THEN NoId
      ELSE cycle.ids[(FirstIndex(at) % Len(cycle.ids)) + 1]

\* active_filter_from_cycle
ActiveFilter(cycle) == IF cycle = NoCycle THEN NoId ELSE cycle.active

-----------------------------------------------------------------------------
(* Routing one input. *)

\* Mapping::effective_for: the routes of the candidate the mapping points
\* at, when that candidate overrides them.
EffectiveRoutes(m) ==
  LET at == {i \in DOMAIN m.candidates : m.candidates[i].target = m.target}
  IN  IF at = {} \/ m.candidates[FirstIndex(at)].routes = Inherit
      THEN m.routes
      ELSE m.candidates[FirstIndex(at)].routes

\* build_intent, continuous_value: rotations and slides build every intent,
\* any other input only the intents that carry no continuous value.
Buildable(intent, input) ==
  intent \in PlainIntents \/ (intent \in ScaledIntents /\ input.kind \in {"rotate", "slide"})

\* The first route of one mapping that matches and builds: at most one
\* intent per mapping and input.
FirstRoute(m, input) ==
  LET routes == EffectiveRoutes(m)
      fit == {i \in DOMAIN routes : /\ routes[i].input = input.kind
                                    /\ Buildable(routes[i].intent, input)}
  IN  IF fit = {} THEN {}
      ELSE {[mapping |-> m.id, target |-> m.target,
             intent |-> routes[FirstIndex(fit)].intent]}

\* route_mappings
RouteMappings(ms, input, filter) ==
  UNION {FirstRoute(m, input) :
           m \in {x \in ms : x.active /\ (filter # NoId => x.id = filter)}}

-----------------------------------------------------------------------------
(* Target selection. *)

\* Mutant: the remainder keeps a full step.
AdvanceLate(mode, delta) ==
  LET total == mode.acc + delta
      steps == IF total > Step THEN (total - 1) \div Step
               ELSE IF total < -Step THEN -((-total - 1) \div Step) ELSE 0
  IN  [mode EXCEPT !.cursor = ((@ - 1 + steps) % Len(mode.candidates)) + 1,
                   !.acc = total - steps * Step]

\* SelectionMode::advance: the two while loops move the cursor once per full
\* step of travel, towards the sign of the total.
Advance(mode, delta) ==
  LET total == mode.acc + delta
      steps == IF total >= 0 THEN total \div Step ELSE -((-total) \div Step)
  IN  [mode EXCEPT !.cursor = ((@ - 1 + steps) % Len(mode.candidates)) + 1,
                   !.acc = total - steps * Step]

\* The loops themselves, iteration by iteration: the first while the sum is a
\* step or more, then, from where it ended, the second, over <<acc, cursor>>.
AdvanceLoops(mode, delta) ==
  LET n == Len(mode.candidates)
      Up[at \in Int \X (1..n)] ==
        IF at[1] >= Step THEN Up[<<at[1] - Step, (at[2] % n) + 1>>] ELSE at
      Down[at \in Int \X (1..n)] ==
        IF at[1] <= -Step THEN Down[<<at[1] + Step, ((at[2] - 1 + n - 1) % n) + 1>>] ELSE at
      last == Down[Up[<<mode.acc + delta, mode.cursor>>]]
  IN  [mode EXCEPT !.acc = last[1], !.cursor = last[2]]

\* The test of route_with_mode for entering selection mode on a mapping.
EntersSelection(m, input) ==
  m.active /\ m.candidates # <<>> /\ m.switchOn = input.kind

\* The cursor starts one after the current target, at the head if the
\* current target is no candidate.
NewMode(m) ==
  LET at == {i \in DOMAIN m.candidates : m.candidates[i].target = m.target}
  IN  [mapping |-> m.id, candidates |-> m.candidates,
       cursor |-> IF at = {} THEN 1
                  ELSE (FirstIndex(at) % Len(m.candidates)) + 1,
       acc |-> 0]

-----------------------------------------------------------------------------
(* The mapping table. *)

\* Mutant: only an entry in the new mapping's own device list is replaced.
WithMappingSameDevice(ms, m) ==
  {x \in ms : x.id # m.id \/ x.device # m.device} \cup {m}

\* upsert_mapping: any prior entry with the same id goes, whatever device it
\* was filed under.
WithMapping(ms, m) == {x \in ms : x.id # m.id} \cup {m}

\* remove_mapping
WithoutMapping(ms, id) == {x \in ms : x.id # id}

MappingsOf(ms, d) == {m \in ms : m.device = d}

=============================================================================
