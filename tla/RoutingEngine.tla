--------------------------- MODULE RoutingEngine ---------------------------
(***************************************************************************)
(* RoutingEngine of crates/edge-core/src/routing.rs under its concurrent   *)
(* users: the tasks that route device inputs (callers) and the one task    *)
(* that handles the server's frames.  Every table has its own RwLock, so   *)
(* a step of this module is what one operation does between taking and     *)
(* releasing one lock.                                                     *)
(*                                                                         *)
(* A caller in ModeAware is an edge-agent input loop, which calls          *)
(* route_with_mode; any other caller is a route_nuimo_event of the iOS     *)
(* edge, which calls try_cycle_switch and then route.  edge-agent runs one *)
(* loop per device; the iOS host starts a task per input event.            *)
(*                                                                         *)
(* outcome is what a caller's last call returned.  touched and chosen    *)
(* are history variables: whether the server's frames changed the device's *)
(* cycle since the caller last read it, and the mapping the caller last    *)
(* switched to with no such frame since.                                   *)
(***************************************************************************)
EXTENDS RoutingOps

CONSTANTS
  Callers,          \* tasks that route inputs
  DeviceOf,         \* the device whose inputs a caller routes
  ModeAware,        \* callers of route_with_mode
  MappingPool,      \* mappings the server may send
  CyclePool,        \* cycles the server may send, per device
  NoPending, Quiet

VARIABLES
  mappings,         \* by_device: every mapping held, each with its device
  cycles,           \* cycles
  selection,        \* selection
  pc, local,        \* the callers' calls in progress
  pendingCycles,    \* the second half of a ConfigFull being applied
  outcome, touched, chosen

vars == <<mappings, cycles, selection, pc, local, pendingCycles,
          outcome, touched, chosen>>

ASSUME PoolAssumption ==
  /\ DeviceOf \in [Callers -> Devices]
  /\ MappingPool \subseteq Mapping
  /\ CyclePool \in [Devices -> SUBSET Cycle]
  \* DeviceCycle: "must be one of `mapping_ids`".
  /\ \A d \in Devices : \A k \in CyclePool[d] :
        k.active # NoId => k.active \in Members(k)

CycleTables ==
  {t \in [Devices -> UNION {CyclePool[d] : d \in Devices} \cup {NoCycle}] :
     \A d \in Devices : t[d] \in CyclePool[d] \cup {NoCycle}}
MappingSets ==
  {ms \in SUBSET MappingPool : \A m, n \in ms : m.id = n.id => m = n}

NoLocal == [input |-> Quiet, cycle |-> NoCycle, mode |-> NoMode]
Normal(intents, cycle) ==
  [kind |-> "normal", intents |-> intents, cycle |-> cycle]
\* EnterSelection, UpdateSelection, CommitSelection, CancelSelection.
Selecting(kind, mode) ==
  [kind |-> kind, mapping |-> mode.mapping,
   target |-> mode.candidates[mode.cursor].target]
CycleSwitch(id) == [kind |-> "switch", mapping |-> id]

Init ==
  /\ mappings = {}
  /\ cycles = [d \in Devices |-> NoCycle]
  /\ selection = [d \in Devices |-> NoMode]
  /\ pc = [c \in Callers |-> "idle"]
  /\ local = [c \in Callers |-> NoLocal]
  /\ pendingCycles = NoPending
  /\ outcome = [c \in Callers |-> Quiet]
  /\ touched = [c \in Callers |-> FALSE]
  /\ chosen = [c \in Callers |-> NoId]

-----------------------------------------------------------------------------
(* Callers.  A call first clones the device's cycle under the read lock and *)
(* decides on the clone after the lock is gone.                             *)

Goto(c, label, l) ==
  /\ pc' = [pc EXCEPT ![c] = label]
  /\ local' = [local EXCEPT ![c] = l]

Return(c, out) ==
  /\ Goto(c, "idle", NoLocal)
  /\ outcome' = [outcome EXCEPT ![c] = out]

Switches(cycle, input) ==
  cycle # NoCycle /\ MatchesGesture(cycle, input) /\ NextActive(cycle) # NoId

\* try_cycle_switch and the first half of route_with_mode.
ReadCycle(c, input) ==
  LET cycle == cycles[DeviceOf[c]]
      l == [NoLocal EXCEPT !.input = input, !.cycle = cycle]
  IN  /\ pc[c] = "idle"
      /\ \/ Switches(cycle, input) /\ Goto(c, "write", l)
         \/ ~Switches(cycle, input) /\ c \notin ModeAware /\ Goto(c, "reread", l)
         \/ /\ ~Switches(cycle, input) /\ c \in ModeAware
            /\ Goto(c, IF cycle = NoCycle THEN "select" ELSE "route", l)
      /\ outcome' = [outcome EXCEPT ![c] = Quiet]
      /\ touched' = [touched EXCEPT ![c] = FALSE]
      /\ UNCHANGED <<mappings, cycles, selection, pendingCycles, chosen>>

\* Mutant: the clone is written back whole.
MovedClone(c) ==
  [local[c].cycle EXCEPT !.active = NextActive(local[c].cycle)]

\* Mutant: the pointer moves only to a mapping the engine holds.
MovedKnown(c) ==
  LET cycle == cycles[DeviceOf[c]]
      next == NextActive(local[c].cycle)
  IN  IF cycle = NoCycle \/ \A m \in mappings : m.id # next THEN cycle
      ELSE [cycle EXCEPT !.active = next]

\* entry(key).and_modify: the active pointer of whatever cycle is there now.
Moved(c) ==
  IF cycles[DeviceOf[c]] = NoCycle THEN NoCycle
  ELSE [cycles[DeviceOf[c]] EXCEPT !.active = NextActive(local[c].cycle)]

\* The write half of a cycle gesture; the caller then sends
\* SwitchActiveConnection with the id computed from the clone.
WriteActive(c) ==
  LET next == NextActive(local[c].cycle)
  IN  /\ pc[c] = "write"
      /\ cycles' = [cycles EXCEPT ![DeviceOf[c]] = Moved(c)]
      /\ chosen' = [chosen EXCEPT ![c] = IF touched[c] THEN NoId ELSE next]
      /\ Return(c, CycleSwitch(next))
      /\ UNCHANGED <<mappings, selection, pendingCycles, touched>>

\* route(): it reads the cycle table again.
RereadCycle(c) ==
  /\ pc[c] = "reread"
  /\ Goto(c, "route", [local[c] EXCEPT !.cycle = cycles[DeviceOf[c]]])
  /\ touched' = [touched EXCEPT ![c] = FALSE]
  /\ UNCHANGED <<mappings, cycles, selection, pendingCycles, outcome, chosen>>

\* Mutant: the active filter is not applied.
FiredUnfiltered(c) ==
  RouteMappings(MappingsOf(mappings, DeviceOf[c]), local[c].input, NoId)

Fired(c) ==
  RouteMappings(MappingsOf(mappings, DeviceOf[c]), local[c].input,
                ActiveFilter(local[c].cycle))

\* Routing under the mapping table's read lock, filtered by the clone.
RouteNow(c) ==
  /\ pc[c] = "route"
  /\ Return(c, Normal(Fired(c), local[c].cycle))
  /\ UNCHANGED <<mappings, cycles, selection, pendingCycles, touched, chosen>>

\* Mutant: sub-threshold travel is routed as well.
BrowseRotateFires(c, mode) ==
  LET moved == Advance(mode, local[c].input.delta)
  IN  /\ local[c].input.kind = "rotate"
      /\ selection' = [selection EXCEPT ![DeviceOf[c]] = moved]
      /\ Return(c, IF moved.acc = mode.acc + local[c].input.delta
                   THEN Normal(RouteMappings(MappingsOf(mappings, DeviceOf[c]),
                                             local[c].input, NoId), NoCycle)
                   ELSE Selecting("update", moved))

\* A rotation while browsing: sub-threshold travel only accumulates.
BrowseRotate(c, mode) ==
  LET moved == Advance(mode, local[c].input.delta)
  IN  /\ local[c].input.kind = "rotate"
      /\ selection' = [selection EXCEPT ![DeviceOf[c]] = moved]
      /\ Return(c, IF moved.acc = mode.acc + local[c].input.delta
                   THEN Normal({}, NoCycle) ELSE Selecting("update", moved))

\* A press commits, any other input cancels; both leave the mode.
BrowseEnd(c, mode) ==
  /\ local[c].input.kind # "rotate"
  /\ selection' = [selection EXCEPT ![DeviceOf[c]] = NoMode]
  /\ Return(c, Selecting(IF local[c].input.kind = "press"
                         THEN "commit" ELSE "cancel", mode))

\* The selection table under its write lock: a device in selection mode
\* keeps the input to itself.
Select(c) ==
  LET mode == selection[DeviceOf[c]]
  IN  /\ pc[c] = "select"
      /\ \/ mode # NoMode /\ (BrowseRotate(c, mode) \/ BrowseEnd(c, mode))
         \/ /\ mode = NoMode /\ Goto(c, "entry", local[c])
            /\ UNCHANGED <<selection, outcome>>
      /\ UNCHANGED <<mappings, cycles, pendingCycles, touched, chosen>>

\* The mapping table under its read lock: enter selection mode on a mapping
\* (the lock goes before the mode is stored), or route without a filter.
Entry(c) ==
  LET mine == MappingsOf(mappings, DeviceOf[c])
      entering == {m \in mine : EntersSelection(m, local[c].input)}
  IN  /\ pc[c] = "entry"
      /\ \/ \E m \in entering : /\ Goto(c, "enter", [local[c] EXCEPT !.mode = NewMode(m)])
                                /\ UNCHANGED outcome
         \/ /\ entering = {}
            /\ Return(c, Normal(RouteMappings(mine, local[c].input, NoId), NoCycle))
      /\ UNCHANGED <<mappings, cycles, selection, pendingCycles, touched, chosen>>

StoreMode(c) ==
  /\ pc[c] = "enter"
  /\ selection' = [selection EXCEPT ![DeviceOf[c]] = local[c].mode]
  /\ Return(c, Selecting("enter", local[c].mode))
  /\ UNCHANGED <<mappings, cycles, pendingCycles, touched, chosen>>

CallerStep(c) ==
  \/ \E input \in Input : ReadCycle(c, input)
  \/ WriteActive(c) \/ RereadCycle(c) \/ RouteNow(c)
  \/ Select(c) \/ Entry(c) \/ StoreMode(c)

-----------------------------------------------------------------------------
(* The server's frames, as WsClient::handle_server_frame applies them: one  *)
(* at a time, none while a ConfigFull is half applied.                      *)

\* History: the cycles of the devices in D are the server's from here on.
Touch(D) ==
  /\ touched' = [c \in Callers |-> touched[c] \/ DeviceOf[c] \in D]
  /\ chosen' = [c \in Callers |-> IF DeviceOf[c] \in D THEN NoId ELSE chosen[c]]

FrameMayStart ==
  pendingCycles = NoPending /\ UNCHANGED <<selection, pc, local, outcome>>

\* apply_full replaces the mappings first,
FullMappings(ms, table) ==
  /\ FrameMayStart
  /\ mappings' = ms
  /\ pendingCycles' = table
  /\ UNCHANGED <<cycles, touched, chosen>>

\* and the cycles afterwards, under another lock.
FullCycles ==
  /\ pendingCycles # NoPending
  /\ cycles' = pendingCycles
  /\ pendingCycles' = NoPending
  /\ Touch(Devices)
  /\ UNCHANGED <<mappings, selection, pc, local, outcome>>

PatchMapping(m) ==
  /\ FrameMayStart
  /\ mappings' = WithMapping(mappings, m)
  /\ UNCHANGED <<cycles, pendingCycles, touched, chosen>>

DeleteMapping(id) ==
  /\ FrameMayStart
  /\ mappings' = WithoutMapping(mappings, id)
  /\ UNCHANGED <<cycles, pendingCycles, touched, chosen>>

\* TargetSwitch upserts the mapping it finds in a snapshot; mappings change
\* in this task alone, so the snapshot is still current at the upsert.
TargetSwitch(id, target) ==
  /\ FrameMayStart
  /\ \E m \in mappings :
        /\ m.id = id
        /\ mappings' = WithMapping(mappings, [m EXCEPT !.target = target])
  /\ UNCHANGED <<cycles, pendingCycles, touched, chosen>>

\* DeviceCyclePatch: upsert_cycle, or remove_cycle for NoCycle.
PatchCycle(d, cycle) ==
  /\ FrameMayStart
  /\ cycles' = [cycles EXCEPT ![d] = cycle]
  /\ Touch({d})
  /\ UNCHANGED <<mappings, pendingCycles>>

\* SwitchActiveConnection: set_cycle_active ignores an id that is not a
\* member, or a device without a cycle.
SetCycleActive(d, id) ==
  /\ FrameMayStart
  /\ cycles[d] # NoCycle /\ id \in Members(cycles[d])
  /\ cycles' = [cycles EXCEPT ![d].active = id]
  /\ Touch({d})
  /\ UNCHANGED <<mappings, pendingCycles>>

ServerFrame ==
  \/ \E ms \in MappingSets, t \in CycleTables : FullMappings(ms, t)
  \/ FullCycles
  \/ \E m \in MappingPool : PatchMapping(m)
  \/ \E id \in MappingIds : DeleteMapping(id)
  \/ \E id \in MappingIds, t \in Targets : TargetSwitch(id, t)
  \/ \E d \in Devices : \E k \in CyclePool[d] \cup {NoCycle} : PatchCycle(d, k)
  \/ \E d \in Devices, id \in MappingIds : SetCycleActive(d, id)

Next == ServerFrame \/ \E c \in Callers : CallerStep(c)

Spec == Init /\ [][Next]_vars

-----------------------------------------------------------------------------
(* Properties. *)

Outcome ==
  {Quiet}
  \cup [kind : {"normal"}, intents : SUBSET RoutedIntent, cycle : Cycle \cup {NoCycle}]
  \cup [kind : {"enter", "update", "commit", "cancel"}, mapping : MappingIds, target : Targets]
  \cup [kind : {"switch"}, mapping : MappingIds]

Local == [input : Input \cup {Quiet}, cycle : Cycle \cup {NoCycle},
          mode : SelectionMode \cup {NoMode}]

\* Every table and every call in progress has the shape its type declares.
TypeOK ==
  /\ mappings \subseteq Mapping
  /\ cycles \in [Devices -> Cycle \cup {NoCycle}]
  /\ selection \in [Devices -> SelectionMode \cup {NoMode}]
  /\ pc \in [Callers -> {"idle", "write", "reread", "route", "select", "entry", "enter"}]
  /\ local \in [Callers -> Local]
  /\ pendingCycles \in [Devices -> Cycle \cup {NoCycle}] \cup {NoPending}
  /\ outcome \in [Callers -> Outcome]
  /\ touched \in [Callers -> BOOLEAN]
  /\ chosen \in [Callers -> MappingIds \cup {NoId}]

\* A mapping id is held at most once, whatever frames reassign it to another
\* device or switch its target ("handles device reassignment"): no input
\* fires a mapping twice or a mapping the server moved away.
UniqueMappingIds == \A m, n \in mappings : m.id = n.id => m = n

\* A stored selection points into its candidates and carries less than one
\* step of travel, through any sequence of inputs and configurations:
\* SelectionMode::current never indexes out of bounds.
ModeInRange(mode) == /\ mode.cursor \in 1..Len(mode.candidates)
                     /\ -Step < mode.acc /\ mode.acc < Step
SelectionInRange == \A d \in Devices : selection[d] # NoMode => ModeInRange(selection[d])

\* The mapping and the selection tables are sound together.
TablesSafe == UniqueMappingIds /\ SelectionInRange

\* From every selection a history of turns leaves behind, with its carry, the
\* two loops of advance do what its closed form says, for turns of several
\* steps either way: no step is lost, doubled or undone by the other loop.
LoopsMatchAdvance ==
  \A d \in Devices : selection[d] # NoMode =>
    \A turn \in -4 * Step..4 * Step :
      AdvanceLoops(selection[d], turn) = Advance(selection[d], turn)

\* The mapping a device's loop switched to stays the active one until a frame
\* of the server changes the device's cycle.
LocalSwitchHolds ==
  \A c \in Callers : chosen[c] # NoId =>
    cycles[DeviceOf[c]] # NoCycle /\ cycles[DeviceOf[c]].active = chosen[c]

\* As long as it does, no other mapping of the device fires: an input routed
\* after a gesture never reaches a mapping the gesture left.
OnlyChosenFires ==
  \A c \in Callers :
    chosen[c] # NoId /\ outcome[c] # Quiet /\ outcome[c].kind = "normal"
      => \A r \in outcome[c].intents : r.mapping = chosen[c]

\* Under a cycle with an active mapping one input fires at most one intent,
\* whichever call routes it and whatever frames arrive between its two reads.
OneIntentPerInput ==
  \A c \in Callers :
    outcome[c] # Quiet /\ outcome[c].kind = "normal"
      /\ ActiveFilter(outcome[c].cycle) # NoId
      => Cardinality(outcome[c].intents) <= 1

\* An input routed while the device browses candidates fires nothing, unless
\* a cycle takes the device over.
BrowsingFiresNothing ==
  \A c \in Callers :
    outcome[c] # Quiet /\ outcome[c].kind = "normal"
      /\ outcome[c].cycle = NoCycle /\ selection[DeviceOf[c]] # NoMode
      => outcome[c].intents = {}

\* What the user chose at the device holds: the mapping switched to, and the
\* selection under way.
ChoiceRespected == LocalSwitchHolds /\ OnlyChosenFires /\ BrowsingFiresNothing

\* A caller's write moves the pointer of the cycle that is there and nothing
\* else: it never brings back a cycle the server deleted since the read, nor
\* undoes a change of its members or its gesture.
GestureOnlyMovesPointer ==
  [][(\E c \in Callers : CallerStep(c)) =>
       \A d \in Devices :
         /\ (cycles[d] = NoCycle) <=> (cycles'[d] = NoCycle)
         /\ cycles[d] # NoCycle => /\ cycles'[d].ids = cycles[d].ids
                                   /\ cycles'[d].gesture = cycles[d].gesture]_vars

\* Unless a frame changed the cycle since its read, a gesture advances the
\* pointer by exactly one entry from where it is when it is written.
EachGestureAdvances ==
  [][\A c \in Callers : WriteActive(c) /\ ~touched[c] =>
       cycles'[DeviceOf[c]].active = NextActive(cycles[DeviceOf[c]])]_vars

\* A gesture's write is the one the cycle that is there calls for.
GesturesMove == GestureOnlyMovesPointer /\ EachGestureAdvances

=============================================================================
