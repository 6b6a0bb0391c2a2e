--------------------------- MODULE IntentDispatch ---------------------------
(***************************************************************************)
(* From a routed intent to the adapter: run_dispatcher, run_target_worker  *)
(* and push_merged of crates/edge-agent/src/main.rs.                       *)
(*                                                                         *)
(* A target stands for a (service_type, target) pair.  An intent is        *)
(* discrete (a name and amount 0) or continuous (volume_change and the     *)
(* like, with an amount).  An input loop of this edge submits it, or the   *)
(* server with a DispatchIntent frame: the dispatcher cannot tell.  Room   *)
(* in the outbox, which the dispatcher and the workers await, is           *)
(* EdgeLink's subject.                                                     *)
(***************************************************************************)
EXTENDS Integers, SequencesExt

CONSTANTS
  Targets,
  Discrete, Continuous,   \* intent names
  Amounts,                \* deltas of one event
  Eager,                  \* targets whose adapter is there from the start
  NoWorker,
  IntakeCap,              \* mpsc::channel(256)
  WorkerCap,              \* mpsc::channel(64)
  MaxIntents              \* bound: intents submitted

Intent == [name : Discrete, amount : {0}] \cup [name : Continuous, amount : Amounts]
Submission == [target : Targets, intent : Intent]

ASSUME DispatchAssumption ==
  /\ Eager \subseteq Targets
  /\ Discrete \cap Continuous = {}
  /\ Amounts \subseteq Int
  /\ IntakeCap \in Nat \ {0} /\ WorkerCap \in Nat \ {0} /\ MaxIntents \in Nat
  /\ NoWorker \notin Seq(Intent)

VARIABLES
  intake,           \* intent_tx
  adapters,         \* targets whose adapter is online (the watch channels)
  queue,            \* per target: the worker's channel, or NoWorker
  pending,          \* per target: what the worker has drained, the head in its RPC
  forwarded,        \* DispatchIntent frames sent to the server
  submitted,
  accepted,         \* history: what entered each worker's channel, in order
  executed          \* history: what each adapter was asked to do, in order

vars == <<intake, adapters, queue, pending, forwarded, submitted, accepted, executed>>

Init ==
  /\ intake = <<>>
  /\ adapters = Eager
  /\ queue = [t \in Targets |-> NoWorker]
  /\ pending = [t \in Targets |-> <<>>]
  /\ forwarded = <<>>
  /\ submitted = 0
  /\ accepted = [t \in Targets |-> <<>>]
  /\ executed = [t \in Targets |-> <<>>]

-----------------------------------------------------------------------------

\* Mutant: an intent is merged with the last one of its kind, past others.
PushMergedAnywhere(done, intent) ==
  LET same == {i \in DOMAIN done : done[i].name = intent.name}
  IN  IF intent.name \in Continuous /\ same # {}
      THEN LET i == CHOOSE x \in same : \A y \in same : y <= x
           IN  [done EXCEPT ![i].amount = @ + intent.amount]
      ELSE Append(done, intent)

\* push_merged: a delta joins the tail if that is a delta of the same kind.
PushMerged(done, intent) ==
  IF /\ intent.name \in Continuous /\ done # <<>>
     /\ done[Len(done)].name = intent.name
  THEN [done EXCEPT ![Len(done)].amount = @ + intent.amount]
  ELSE Append(done, intent)

\* The batch of one drain of run_target_worker.
Merged(intents) == FoldLeft(PushMerged, <<>>, intents)

\* try_send, of an input loop or of handle_server_frame: a full channel drops.
Submit(s) ==
  /\ submitted < MaxIntents /\ submitted' = submitted + 1
  /\ intake' = IF Len(intake) = IntakeCap THEN intake ELSE Append(intake, s)
  /\ UNCHANGED <<adapters, queue, pending, forwarded, accepted, executed>>

\* The Hue and macOS bootstraps publish their adapter when it is online.
AdapterOnline(t) ==
  /\ t \notin adapters /\ adapters' = adapters \cup {t}
  /\ UNCHANGED <<intake, queue, pending, forwarded, submitted, accepted, executed>>

TakeIntake(s) == intake # <<>> /\ s = Head(intake) /\ intake' = Tail(intake)

\* Mutant: a target that has a worker but no room goes to the server.
ForwardOverflow(s) ==
  /\ TakeIntake(s)
  /\ \/ queue[s.target] = NoWorker /\ s.target \notin adapters
     \/ queue[s.target] # NoWorker /\ Len(queue[s.target]) = WorkerCap
  /\ forwarded' = Append(forwarded, s)
  /\ UNCHANGED <<adapters, queue, pending, submitted, accepted, executed>>

\* No worker and no adapter: the intent goes to the server for a peer edge.
Forward(s) ==
  /\ TakeIntake(s)
  /\ queue[s.target] = NoWorker /\ s.target \notin adapters
  /\ forwarded' = Append(forwarded, s)
  /\ UNCHANGED <<adapters, queue, pending, submitted, accepted, executed>>

\* Mutant: the worker's channel has no bound.
EnqueueUnbounded(s) ==
  LET t == s.target
      waiting == IF queue[t] = NoWorker THEN <<>> ELSE queue[t]
  IN  /\ TakeIntake(s)
      /\ queue[t] # NoWorker \/ t \in adapters
      /\ queue' = [queue EXCEPT ![t] = Append(waiting, s.intent)]
      /\ accepted' = [accepted EXCEPT ![t] = Append(@, s.intent)]
      /\ UNCHANGED <<adapters, pending, forwarded, submitted, executed>>

\* A worker takes it, spawned if it is the target's first; a backlog drops.
Enqueue(s) ==
  LET t == s.target
      waiting == IF queue[t] = NoWorker THEN <<>> ELSE queue[t]
  IN  /\ TakeIntake(s)
      /\ queue[t] # NoWorker \/ t \in adapters
      /\ IF Len(waiting) = WorkerCap
         THEN UNCHANGED <<queue, accepted>>
         ELSE /\ queue' = [queue EXCEPT ![t] = Append(waiting, s.intent)]
              /\ accepted' = [accepted EXCEPT ![t] = Append(@, s.intent)]
      /\ UNCHANGED <<adapters, pending, forwarded, submitted, executed>>

\* Mutant: the worker waits for company to merge with.
DrainTwo(t) ==
  /\ queue[t] # NoWorker /\ Len(queue[t]) > 1 /\ pending[t] = <<>>
  /\ pending' = [pending EXCEPT ![t] = Merged(queue[t])]
  /\ queue' = [queue EXCEPT ![t] = <<>>]
  /\ UNCHANGED <<intake, adapters, forwarded, submitted, accepted, executed>>

\* The worker has executed its last batch and drains its channel.
Drain(t) ==
  /\ queue[t] # NoWorker /\ queue[t] # <<>> /\ pending[t] = <<>>
  /\ pending' = [pending EXCEPT ![t] = Merged(queue[t])]
  /\ queue' = [queue EXCEPT ![t] = <<>>]
  /\ UNCHANGED <<intake, adapters, forwarded, submitted, accepted, executed>>

\* send_intent returns; an error is reported and not retried.
Execute(t) ==
  /\ pending[t] # <<>>
  /\ executed' = [executed EXCEPT ![t] = Append(@, Head(pending[t]))]
  /\ pending' = [pending EXCEPT ![t] = Tail(@)]
  /\ UNCHANGED <<intake, adapters, queue, forwarded, submitted, accepted>>

Dispatch == \E s \in Submission : Forward(s) \/ Enqueue(s)
Worker(t) == Drain(t) \/ Execute(t)

Next ==
  \/ \E s \in Submission : Submit(s)
  \/ \E t \in Targets : AdapterOnline(t)
  \/ Dispatch
  \/ \E t \in Targets : Worker(t)

Spec == Init /\ [][Next]_vars

\* The dispatcher and every worker run, and every RPC returns.
FairSpec == Spec /\ WF_vars(Dispatch) /\ \A t \in Targets : WF_vars(Worker(t))

-----------------------------------------------------------------------------
(* Properties. *)

Waiting(t) == IF queue[t] = NoWorker THEN <<>> ELSE queue[t]
Net == [name : Discrete \cup Continuous, amount : Int]

\* The channels keep their capacity and hold what they may hold.
TypeOK ==
  /\ intake \in Seq(Submission) /\ Len(intake) <= IntakeCap
  /\ adapters \subseteq Targets
  /\ \A t \in Targets : /\ queue[t] # NoWorker => queue[t] \in Seq(Intent)
                        /\ Len(Waiting(t)) <= WorkerCap
                        /\ pending[t] \in Seq(Net) /\ executed[t] \in Seq(Net)
                        /\ accepted[t] \in Seq(Intent)
  /\ forwarded \in Seq(Submission)
  /\ submitted \in 0..MaxIntents

\* The runs of a sequence of intents: a discrete intent is one, deltas of one
\* kind in a row are one with their sum.
Starts(s) ==
  {i \in DOMAIN s : i = 1 \/ s[i].name \in Discrete \/ s[i].name # s[i - 1].name}
Runs(s) ==
  LET upTo[n \in 0..Len(s)] ==
        LET before == upTo[n - 1]
        IN  IF n = 0 THEN <<>>
            ELSE IF n \in Starts(s) THEN Append(before, s[n])
            ELSE [before EXCEPT ![Len(before)].amount = @ + s[n].amount]
  IN  upTo[Len(s)]

\* run_target_worker: "Discrete intents (play, pause, etc.) keep their arrival
\* ordering relative to surrounding continuous intents": run by run, what a
\* target's adapter was and will be asked is what the worker accepted, however
\* the drains cut the runs: no delta lost, counted twice or moved.
InOrder ==
  \A t \in Targets :
    Runs(executed[t] \o pending[t] \o Waiting(t)) = Runs(accepted[t])

\* A target is served by this edge or by a peer, never by both from some time
\* on: after the first intent a worker took, none is forwarded.
NoForwardPastWorker ==
  [][forwarded' # forwarded =>
       accepted[forwarded'[Len(forwarded')].target] = <<>>]_vars

\* Every intent submitted is dropped, forwarded or executed in the end.
AllDelivered ==
  <>[](intake = <<>> /\ \A t \in Targets : Waiting(t) = <<>> /\ pending[t] = <<>>)

=============================================================================
