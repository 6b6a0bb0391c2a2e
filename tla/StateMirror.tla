----------------------------- MODULE StateMirror -----------------------------
(***************************************************************************)
(* What a state pump promises (spawn_state_pump of main.rs, replay comment *)
(* included): the server's copy of an adapter's state only ever moves on   *)
(* to something the edge has read since, a restart of the server apart,    *)
(* and does not stay behind.  Nothing is said of queues or sessions.       *)
(***************************************************************************)
EXTENDS Naturals

CONSTANT Keys

VARIABLES
  held,             \* the version of each key the edge last read
  copy              \* the server's

Nothing == [k \in Keys |-> 0]

Init == held = Nothing /\ copy = Nothing

Read(k) ==
  /\ held'[k] > held[k]
  /\ \A x \in Keys \ {k} : held'[x] = held[x]
  /\ DOMAIN held' = Keys
  /\ UNCHANGED copy

\* The copy of a key moves on, not past what was read.
Learn(k) ==
  /\ \E v \in copy[k] + 1..held[k] : copy' = [copy EXCEPT ![k] = v]
  /\ UNCHANGED held

CatchUp(k) ==
  /\ copy[k] # held[k] /\ copy' = [copy EXCEPT ![k] = held[k]]
  /\ UNCHANGED held

Forget == copy' = Nothing /\ UNCHANGED held

Next == Forget \/ \E k \in Keys : Read(k) \/ Learn(k)

Spec == Init /\ [][Next]_<<held, copy>>

FairSpec == Spec /\ \A k \in Keys : WF_<<held, copy>>(CatchUp(k))

=============================================================================
