------------------------- MODULE IntentDispatchProofs -------------------------
(***************************************************************************)
(* Proofs about IntentDispatch, for any targets, names and amounts of      *)
(* intents, capacities and number of intents.                              *)
(***************************************************************************)
EXTENDS IntentDispatch, SequenceTheorems, WellFoundedInduction, TLAPS

LEMMA Bounds ==
  /\ Discrete \cap Continuous = {} /\ Amounts \subseteq Int
  /\ IntakeCap \in Nat \ {0} /\ WorkerCap \in Nat \ {0} /\ MaxIntents \in Nat
  /\ NoWorker \notin Seq(Intent) /\ Eager \subseteq Targets
  BY DispatchAssumption

-----------------------------------------------------------------------------
(* Induction, as a fact about sets of numbers. *)

LEMMA Induction ==
  ASSUME NEW T \in SUBSET Nat, 0 \in T, \A n \in T : n + 1 \in T
  PROVE  T = Nat
<1> SUFFICES ASSUME Nat \ T # {} PROVE FALSE
  OBVIOUS
<1>1. IsWellFoundedOn(OpToRel(<, Nat), Nat)
  BY NatLessThanWellFounded
<1>2. PICK n \in Nat \ T : \A m \in Nat \ T : ~(<<m, n>> \in OpToRel(<, Nat))
  BY <1>1, WFMin
<1>3. \A m \in Nat \ T : ~(m < n)
  BY <1>2 DEF OpToRel
<1>a. n \in Nat /\ n # 0
  BY <1>2
<1>4. n - 1 \in Nat /\ n - 1 < n /\ (n - 1) + 1 = n
  BY <1>a
<1>5. n - 1 \in T
  BY <1>3, <1>4
<1>6. QED
  BY <1>2, <1>4, <1>5

-----------------------------------------------------------------------------
(* push_merged. *)

Joins(done, intent) ==
  intent.name \in Continuous /\ done # <<>> /\ done[Len(done)].name = intent.name

Plus(a, b) == [name |-> a.name, amount |-> a.amount + b.amount]

LEMMA NetIs ==
  /\ Intent \subseteq Net
  /\ \A a, b \in Net : /\ Plus(a, b) \in Net /\ Plus(a, b).name = a.name
                       /\ Plus(a, b).amount = a.amount + b.amount
                       /\ a.amount \in Int /\ a.name \in Discrete \cup Continuous
<1>1. \A i \in Intent : i \in Net
  <2>1. ASSUME NEW i \in [name : Discrete, amount : {0}] PROVE i \in Net
    BY DEF Net
  <2>2. ASSUME NEW i \in [name : Continuous, amount : Amounts] PROVE i \in Net
    BY Bounds DEF Net
  <2>3. QED
    BY <2>1, <2>2 DEF Intent
<1>2. ASSUME NEW a \in Net, NEW b \in Net
      PROVE  /\ Plus(a, b) \in Net /\ Plus(a, b).name = a.name
             /\ Plus(a, b).amount = a.amount + b.amount
             /\ a.amount \in Int /\ a.name \in Discrete \cup Continuous
  BY DEF Net, Plus
<1>3. QED
  BY <1>1, <1>2

\* The last of a sequence that is not empty.
LEMMA LastIs ==
  ASSUME NEW S, NEW s \in Seq(S), s # <<>>
  PROVE  Len(s) \in 1..Len(s) /\ s[Len(s)] \in S /\ Len(s) \in Nat \ {0}
<1>1. Len(s) \in Nat \ {0}
  BY EmptySeq
<1>2. QED
  BY <1>1, ElementOfSeq

LEMMA SeqNet == \A s : s \in Seq(Intent) => s \in Seq(Net)
  BY NetIs, SeqMonotonic

\* One intent joins the last, or comes after it.
LEMMA PushMergedIs ==
  ASSUME NEW done \in Seq(Net), NEW intent \in Net
  PROVE  /\ PushMerged(done, intent) =
              IF Joins(done, intent)
              THEN [done EXCEPT ![Len(done)] = Plus(done[Len(done)], intent)]
              ELSE Append(done, intent)
         /\ PushMerged(done, intent) \in Seq(Net) /\ PushMerged(done, intent) # <<>>
         /\ Len(PushMerged(done, intent)) = IF Joins(done, intent) THEN Len(done) ELSE Len(done) + 1
         /\ PushMerged(done, intent)[Len(PushMerged(done, intent))] =
              IF Joins(done, intent) THEN Plus(done[Len(done)], intent) ELSE intent
         /\ PushMerged(done, intent)[Len(PushMerged(done, intent))].name = intent.name
<1>1. CASE ~Joins(done, intent)
  <2>1. PushMerged(done, intent) = Append(done, intent)
    BY <1>1 DEF PushMerged, Joins
  <2>2. QED
    BY <1>1, <2>1, AppendProperties
<1>2. CASE Joins(done, intent)
  <2> DEFINE n == Len(done)
             last == Plus(done[n], intent)
  <2>1. done # <<>> /\ done[n].name = intent.name
    BY <1>2 DEF Joins
  <2>2. n \in Nat \ {0} /\ n \in 1..n /\ done[n] \in Net
    BY <2>1, LastIs
  <2>3. [done[n] EXCEPT !.amount = done[n].amount + intent.amount] = last
    BY <2>2 DEF Net, Plus
  <2>4. PushMerged(done, intent) =
          [done EXCEPT ![n] = [done[n] EXCEPT !.amount = done[n].amount + intent.amount]]
    BY <1>2 DEF PushMerged, Joins
  <2>5. PushMerged(done, intent) = [done EXCEPT ![n] = last]
    BY <2>3, <2>4
  <2>6. last \in Net /\ last.name = intent.name
    BY <2>1, <2>2, NetIs
  <2> HIDE DEF last
  <2>7. /\ [done EXCEPT ![n] = last] \in Seq(Net) /\ Len([done EXCEPT ![n] = last]) = n
        /\ [done EXCEPT ![n] = last][n] = last
    BY <2>2, <2>6, ExceptSeq
  <2>8. [done EXCEPT ![n] = last] # <<>>
    BY <2>2, <2>7, EmptySeq
  <2>9. QED
    BY <1>2, <2>5, <2>6, <2>7, <2>8 DEF last
<1>3. QED
  BY <1>1, <1>2

\* Two deltas that join a run one after the other join it as their sum.
LEMMA PushTwice ==
  ASSUME NEW r \in Seq(Net), NEW a \in Net, NEW b \in Net,
         a.name = b.name, b.name \in Continuous
  PROVE  PushMerged(PushMerged(r, a), b) = PushMerged(r, Plus(a, b))
<1> DEFINE p == PushMerged(r, a)
           c == Plus(a, b)
<1>1. c \in Net /\ c.name = a.name /\ c.amount = a.amount + b.amount
  BY NetIs
<1>2. p \in Seq(Net) /\ p # <<>> /\ p[Len(p)].name = a.name
  BY PushMergedIs
<1>3. Joins(p, b) /\ (Joins(r, a) <=> Joins(r, c))
  BY <1>1, <1>2 DEF Joins
<1> HIDE DEF p, c
<1>4. PushMerged(p, b) = [p EXCEPT ![Len(p)] = Plus(p[Len(p)], b)]
  BY <1>2, <1>3, PushMergedIs
<1>5. CASE Joins(r, a)
  <2>1. /\ p = [r EXCEPT ![Len(r)] = Plus(r[Len(r)], a)] /\ Len(p) = Len(r)
        /\ p[Len(p)] = Plus(r[Len(r)], a)
    BY <1>5, PushMergedIs DEF p
  <2>2. PushMerged(r, c) = [r EXCEPT ![Len(r)] = Plus(r[Len(r)], c)]
    BY <1>1, <1>3, <1>5, PushMergedIs
  <2>3. r # <<>> /\ r[Len(r)] \in Net
    BY <1>5, LastIs DEF Joins
  <2>4. Plus(Plus(r[Len(r)], a), b) = Plus(r[Len(r)], c)
    <3>1. /\ Plus(r[Len(r)], a).amount = r[Len(r)].amount + a.amount
          /\ Plus(r[Len(r)], a).name = r[Len(r)].name
          /\ r[Len(r)].amount \in Int /\ a.amount \in Int /\ b.amount \in Int
      BY <2>3, NetIs
    <3>2. (r[Len(r)].amount + a.amount) + b.amount = r[Len(r)].amount + (a.amount + b.amount)
      BY <3>1
    <3>3. QED
      BY <1>1, <3>1, <3>2 DEF Plus
  <2>5. PushMerged(p, b) = [r EXCEPT ![Len(r)] = Plus(Plus(r[Len(r)], a), b)]
    BY <1>4, <2>1
  <2>6. QED
    BY <2>2, <2>4, <2>5 DEF p, c
<1>6. CASE ~Joins(r, a)
  <2>1. /\ p = Append(r, a) /\ Len(p) = Len(r) + 1 /\ p[Len(p)] = a /\ Len(r) \in Nat
        /\ Append(r, c) \in Seq(Net) /\ Len(Append(r, c)) = Len(r) + 1
        /\ Append(r, c)[Len(r) + 1] = c /\ \A i \in 1..Len(r) : Append(r, c)[i] = r[i]
        /\ \A i \in 1..Len(r) : p[i] = r[i]
    <3>1. p = Append(r, a)
      BY <1>6, PushMergedIs DEF p
    <3>2. QED
      BY <1>1, <3>1, AppendProperties
  <2>2. PushMerged(r, c) = Append(r, c)
    BY <1>1, <1>3, <1>6, PushMergedIs
  <2>3. PushMerged(p, b) = [p EXCEPT ![Len(p)] = c]
    BY <1>4, <2>1 DEF c
  <2>4. /\ [p EXCEPT ![Len(p)] = c] \in Seq(Net) /\ Len([p EXCEPT ![Len(p)] = c]) = Len(p)
        /\ \A i \in 1..Len(p) : [p EXCEPT ![Len(p)] = c][i] = IF i = Len(p) THEN c ELSE p[i]
    <3>1. Len(p) \in 1..Len(p)
      BY <1>2, LastIs
    <3>2. QED
      BY <1>1, <1>2, <3>1, ExceptSeq
  <2>5. [p EXCEPT ![Len(p)] = c] = Append(r, c)
    <3>1. \A i \in 1..Len(p) : [p EXCEPT ![Len(p)] = c][i] = Append(r, c)[i]
      BY <2>1, <2>4
    <3>2. QED
      BY <2>1, <2>4, <3>1, SeqEqual
  <2>6. QED
    BY <2>2, <2>3, <2>5 DEF p, c
<1>7. QED
  BY <1>5, <1>6

-----------------------------------------------------------------------------
(* A drain folds push_merged over the channel: the batch of every prefix. *)

\* The fold as SequencesExt defines it, on the indices up to n.
Folds(iter, q, n) ==
  iter = [s \in SUBSET (1..n) |->
            IF s = {} THEN <<>> ELSE PushMerged(iter[s \ {Max(s)}], q[Max(s)])]

LEMMA MaxIs ==
  ASSUME NEW n \in Nat, NEW s \in SUBSET (1..n), n \in s
  PROVE  Max(s) = n
<1>1. \A x \in s : n >= x
  OBVIOUS
<1>2. ASSUME NEW m \in s, \A x \in s : m >= x PROVE m = n
  BY <1>1, <1>2
<1>3. QED
  BY <1>1, <1>2 DEF Max

LEMMA FoldsExist ==
  ASSUME NEW q, NEW n \in Nat
  PROVE  \E iter : Folds(iter, q, n)
<1> DEFINE T == {m \in Nat : \E iter : Folds(iter, q, m)}
<1>1. 0 \in T
  <2>1. SUBSET (1..0) = {{}}
    OBVIOUS
  <2>2. Folds([s \in SUBSET (1..0) |-> <<>>], q, 0)
    BY <2>1 DEF Folds
  <2>3. QED
    BY <2>2
<1>2. ASSUME NEW m \in T PROVE m + 1 \in T
  <2>1. PICK f : Folds(f, q, m)
    OBVIOUS
  <2> DEFINE N == m + 1
             g == [s \in SUBSET (1..N) |->
                     IF N \in s THEN PushMerged(f[s \ {N}], q[N]) ELSE f[s]]
  <2>2. m \in Nat /\ N \in Nat
    OBVIOUS
  <2>3. \A s \in SUBSET (1..N) : s \ {N} \in SUBSET (1..m) /\ N \notin s \ {N}
    BY <2>2
  <2>4. ASSUME NEW s \in SUBSET (1..N)
        PROVE  g[s] = IF s = {} THEN <<>> ELSE PushMerged(g[s \ {Max(s)}], q[Max(s)])
    <3>1. CASE N \in s
      <4>1. Max(s) = N
        BY <2>2, <3>1, MaxIs
      <4>2. s \ {N} \in SUBSET (1..N) /\ N \notin s \ {N}
        OBVIOUS
      <4>3. g[s \ {N}] = f[s \ {N}]
        BY <4>2
      <4>4. g[s] = PushMerged(f[s \ {N}], q[N])
        BY <3>1
      <4>5. QED
        BY <3>1, <4>1, <4>3, <4>4
    <3>2. CASE N \notin s
      <4>1. s \in SUBSET (1..m)
        BY <2>3, <3>2
      <4>2. g[s] = f[s]
        BY <3>2
      <4>3. f[s] = IF s = {} THEN <<>> ELSE PushMerged(f[s \ {Max(s)}], q[Max(s)])
        BY <2>1, <4>1 DEF Folds
      <4>4. s \ {Max(s)} \in SUBSET (1..N) /\ N \notin s \ {Max(s)}
        BY <3>2
      <4>5. g[s \ {Max(s)}] = f[s \ {Max(s)}]
        BY <4>4
      <4>6. QED
        BY <4>2, <4>3, <4>5
    <3>3. QED
      BY <3>1, <3>2
  <2>5. g = [s \in SUBSET (1..N) |->
               IF s = {} THEN <<>> ELSE PushMerged(g[s \ {Max(s)}], q[Max(s)])]
    <3> HIDE DEF N
    <3>1. \E h : h = g
      OBVIOUS
    <3>2. PICK h : h = g
      BY <3>1
    <3>3. h = [s \in SUBSET (1..N) |-> h[s]]
      BY <3>2
    <3>4. \A s \in SUBSET (1..N) :
            h[s] = IF s = {} THEN <<>> ELSE PushMerged(h[s \ {Max(s)}], q[Max(s)])
      BY <2>4, <3>2
    <3> HIDE DEF g
    <3>5. h = [s \in SUBSET (1..N) |->
                 IF s = {} THEN <<>> ELSE PushMerged(h[s \ {Max(s)}], q[Max(s)])]
      BY <3>3, <3>4
    <3>6. QED
      BY <3>2, <3>5
  <2>6. Folds(g, q, N)
    BY <2>5 DEF Folds
  <2>7. QED
    BY <2>2, <2>6
<1>3. T = Nat
  <2> HIDE DEF T
  <2>1. T \in SUBSET Nat
    BY DEF T
  <2>2. QED
    BY <1>1, <1>2, <2>1, Induction
<1>4. QED
  BY <1>3

\* What has been merged of the first k intents.
Batches(m, q) ==
  /\ m[0] = <<>>
  /\ \A k \in 1..Len(q) : m[k] = PushMerged(m[k - 1], q[k])

LEMMA MergedIs ==
  ASSUME NEW S, NEW q \in Seq(S)
  PROVE  \E m : Batches(m, q) /\ Merged(q) = m[Len(q)]
<1>1. DOMAIN q = 1..Len(q) /\ Len(q) \in Nat
  OBVIOUS
<1> DEFINE iter == CHOOSE it : Folds(it, q, Len(q))
           m == [k \in 0..Len(q) |-> iter[1..k]]
<1>2. Folds(iter, q, Len(q))
  BY <1>1, FoldsExist
<1>3. Merged(q) = iter[1..Len(q)]
  <2>1. Merged(q) = (CHOOSE it : it = [s \in SUBSET DOMAIN q |->
            IF s = {} THEN <<>> ELSE PushMerged(it[s \ {Max(s)}], q[Max(s)])])[DOMAIN q]
    BY Zenon DEF Merged, FoldLeft, MapThenFoldSet
  <2>2. QED
    BY <1>1, <2>1, Zenon DEF Folds
<1> HIDE DEF iter
<1>4. m[0] = <<>>
  <2>1. 1..0 = {} /\ {} \in SUBSET (1..Len(q))
    OBVIOUS
  <2>2. iter[{}] = <<>>
    BY <1>2, <2>1 DEF Folds
  <2>3. m[0] = iter[1..0]
    BY <1>1
  <2>4. QED
    BY <2>1, <2>2, <2>3
<1>5. ASSUME NEW k \in 1..Len(q) PROVE m[k] = PushMerged(m[k - 1], q[k])
  <2>1. /\ 1..k \in SUBSET (1..Len(q)) /\ k \in 1..k /\ (1..k) \ {k} = 1..(k - 1) /\ k \in Nat
        /\ k \in 0..Len(q) /\ k - 1 \in 0..Len(q)
    BY <1>1
  <2>2. Max(1..k) = k
    BY <2>1, MaxIs
  <2>3. iter[1..k] = PushMerged(iter[(1..k) \ {Max(1..k)}], q[Max(1..k)])
    BY <1>2, <2>1 DEF Folds
  <2>4. QED
    BY <2>1, <2>2, <2>3
<1>6. m[Len(q)] = iter[1..Len(q)]
  BY <1>1
<1>7. QED
  BY <1>3, <1>4, <1>5, <1>6 DEF Batches

\* A batch is a sequence of intents, the last of the kind of the last merged.
LEMMA BatchesTyped ==
  ASSUME NEW q \in Seq(Net), NEW m, Batches(m, q), NEW k \in 0..Len(q)
  PROVE  m[k] \in Seq(Net) /\ (k # 0 => m[k] # <<>> /\ m[k][Len(m[k])].name = q[k].name)
<1> DEFINE T == {n \in Nat : n <= Len(q) =>
                   m[n] \in Seq(Net) /\ (n # 0 => m[n] # <<>> /\ m[n][Len(m[n])].name = q[n].name)}
<1>0. Len(q) \in Nat
  OBVIOUS
<1>1. 0 \in T
  <2>1. m[0] = <<>> /\ <<>> \in Seq(Net)
    BY DEF Batches
  <2>2. m[0] \in Seq(Net)
    BY <2>1
  <2>3. QED
    BY <2>2
<1>2. ASSUME NEW n \in T PROVE n + 1 \in T
  <2>1. SUFFICES ASSUME n + 1 <= Len(q)
                 PROVE  /\ m[n + 1] \in Seq(Net) /\ m[n + 1] # <<>>
                        /\ m[n + 1][Len(m[n + 1])].name = q[n + 1].name
    OBVIOUS
  <2>2. n \in Nat /\ n + 1 \in 1..Len(q) /\ (n + 1) - 1 = n /\ n <= Len(q)
    BY <1>0, <2>1
  <2>3. PICK before \in Seq(Net) : before = m[n]
    BY <2>2
  <2>4. PICK intent \in Net : intent = q[n + 1]
    BY <2>2
  <2>5. m[n + 1] = PushMerged(before, intent)
    BY <2>2, <2>3, <2>4 DEF Batches
  <2>6. /\ PushMerged(before, intent) \in Seq(Net) /\ PushMerged(before, intent) # <<>>
        /\ PushMerged(before, intent)[Len(PushMerged(before, intent))].name = intent.name
    BY PushMergedIs
  <2>7. QED
    BY <2>4, <2>5, <2>6
<1>3. T = Nat
  <2> HIDE DEF T
  <2>1. T \in SUBSET Nat
    BY DEF T
  <2>2. QED
    BY <1>1, <1>2, <2>1, Induction
<1>4. k \in T /\ k <= Len(q)
  BY <1>0, <1>3
<1>5. QED
  BY <1>4

\* Equal prefixes have equal batches.
LEMMA BatchesAgree ==
  ASSUME NEW S, NEW q \in Seq(S), NEW r \in Seq(S), NEW m, NEW l, Batches(m, q), Batches(l, r),
         NEW n \in Nat, n <= Len(q), n <= Len(r), \A k \in 1..n : q[k] = r[k]
  PROVE  m[n] = l[n]
<1> DEFINE T == {k \in Nat : k <= n => m[k] = l[k]}
<1>0. Len(q) \in Nat /\ Len(r) \in Nat
  OBVIOUS
<1>1. 0 \in T
  BY DEF Batches
<1>2. ASSUME NEW k \in T PROVE k + 1 \in T
  <2>1. SUFFICES ASSUME k + 1 <= n PROVE m[k + 1] = l[k + 1]
    OBVIOUS
  <2>2. /\ k + 1 \in 1..Len(q) /\ k + 1 \in 1..Len(r) /\ k + 1 \in 1..n
        /\ (k + 1) - 1 = k /\ k <= n
    BY <1>0, <2>1
  <2>3. m[k] = l[k] /\ q[k + 1] = r[k + 1]
    BY <2>2
  <2>4. m[k + 1] = PushMerged(m[k], q[k + 1]) /\ l[k + 1] = PushMerged(l[k], r[k + 1])
    BY <2>2 DEF Batches
  <2>5. QED
    BY <2>3, <2>4
<1>3. T = Nat
  <2> HIDE DEF T
  <2>1. T \in SUBSET Nat
    BY DEF T
  <2>2. QED
    BY <1>1, <1>2, <2>1, Induction
<1>4. QED
  BY <1>3

-----------------------------------------------------------------------------
(* The runs of a sequence. *)

NextRuns(before, s, n) ==
  IF n = 0 THEN <<>>
  ELSE IF n \in Starts(s) THEN Append(before, s[n])
  ELSE [before EXCEPT ![Len(before)].amount = @ + s[n].amount]

RunsTo(f, s, n) == f = [k \in 0..n |-> NextRuns(f[k - 1], s, k)]

LEMMA RunsToExist ==
  ASSUME NEW s, NEW n \in Nat
  PROVE  \E f : RunsTo(f, s, n)
<1> DEFINE T == {k \in Nat : \E f : RunsTo(f, s, k)}
<1>1. 0 \in T
  <2>1. RunsTo([k \in 0..0 |-> <<>>], s, 0)
    BY DEF RunsTo, NextRuns
  <2>2. QED
    BY <2>1
<1>2. ASSUME NEW k \in T PROVE k + 1 \in T
  <2>1. PICK f : RunsTo(f, s, k)
    OBVIOUS
  <2> DEFINE N == k + 1
             g == [j \in 0..N |-> IF j = N THEN NextRuns(f[k], s, N) ELSE f[j]]
  <2>2. k \in Nat /\ N \in Nat /\ N - 1 = k /\ k # N /\ N # 0
    OBVIOUS
  <2>3. ASSUME NEW j \in 0..N PROVE g[j] = NextRuns(g[j - 1], s, j)
    <3>1. CASE j = N
      BY <2>2, <3>1
    <3>2. CASE j # N /\ j # 0
      <4>1. j \in 0..k /\ j - 1 \in 0..N /\ j - 1 # N
        BY <2>2, <3>2
      <4>2. g[j] = f[j] /\ g[j - 1] = f[j - 1]
        BY <3>2, <4>1
      <4>3. f[j] = NextRuns(f[j - 1], s, j)
        BY <2>1, <4>1 DEF RunsTo
      <4>4. QED
        BY <4>2, <4>3
    <3>3. CASE j # N /\ j = 0
      <4>1. g[0] = f[0] /\ 0 \in 0..k
        BY <2>2, <3>3
      <4>2. f[0] = NextRuns(f[0 - 1], s, 0)
        BY <2>1, <4>1 DEF RunsTo
      <4>3. QED
        BY <3>3, <4>1, <4>2 DEF NextRuns
    <3>4. QED
      BY <3>1, <3>2, <3>3
  <2> HIDE DEF N
  <2>4. PICK h : h = g
    OBVIOUS
  <2>5. h = [j \in 0..N |-> h[j]]
    BY <2>4
  <2>6. \A j \in 0..N : h[j] = NextRuns(h[j - 1], s, j)
    BY <2>3, <2>4
  <2> HIDE DEF g
  <2>7. h = [j \in 0..N |-> NextRuns(h[j - 1], s, j)]
    BY <2>5, <2>6
  <2>8. RunsTo(h, s, N)
    BY <2>7 DEF RunsTo
  <2>9. QED
    BY <2>2, <2>8 DEF N
<1>3. T = Nat
  <2> HIDE DEF T
  <2>1. T \in SUBSET Nat
    BY DEF T
  <2>2. QED
    BY <1>1, <1>2, <2>1, Induction
<1>4. QED
  BY <1>3

\* push_merged, intent by intent, makes the runs.
LEMMA RunsIs ==
  ASSUME NEW s \in Seq(Net)
  PROVE  \E m : Batches(m, s) /\ Runs(s) = m[Len(s)]
<1>1. DOMAIN s = 1..Len(s) /\ Len(s) \in Nat /\ \A k \in 1..Len(s) : s[k] \in Net
  OBVIOUS
<1> DEFINE f == CHOOSE g : RunsTo(g, s, Len(s))
<1>2. RunsTo(f, s, Len(s))
  BY <1>1, RunsToExist
<1>3. Runs(s) = f[Len(s)]
  BY Zenon DEF Runs, RunsTo, NextRuns
<1> HIDE DEF f
<1>4. f[0] = <<>>
  BY <1>1, <1>2 DEF RunsTo, NextRuns
<1> DEFINE Right(n) == /\ f[n] \in Seq(Net)
                       /\ n # 0 => /\ f[n] = PushMerged(f[n - 1], s[n])
                                   /\ f[n] # <<>> /\ f[n][Len(f[n])].name = s[n].name
           T == {n \in Nat : n <= Len(s) => Right(n)}
<1>5. 0 \in T
  <2>1. <<>> \in Seq(Net)
    OBVIOUS
  <2>2. f[0] \in Seq(Net)
    BY <1>4, <2>1
  <2>3. QED
    BY <2>2
<1>6. ASSUME NEW n \in T PROVE n + 1 \in T
  <2>1. SUFFICES ASSUME n + 1 <= Len(s) PROVE Right(n + 1)
    OBVIOUS
  <2> DEFINE k == n + 1
             before == f[n]
  <2>2. n \in Nat /\ k \in 1..Len(s) /\ k \in 0..Len(s) /\ k - 1 = n /\ n <= Len(s) /\ k # 0
    BY <1>1, <2>1
  <2>3. /\ before \in Seq(Net)
        /\ n # 0 => before # <<>> /\ before[Len(before)].name = s[n].name
    BY <2>2
  <2>4. f[k] = NextRuns(before, s, k)
    BY <1>2, <2>2 DEF RunsTo
  <2> HIDE DEF before
  <2> HIDE DEF k
  <2>5. s[k] \in Net /\ s[k].name \in Discrete \cup Continuous
    BY <1>1, <2>2, NetIs
  <2>6. k \in Starts(s) <=> ~Joins(before, s[k])
    <3>1. CASE n = 0
      <4>1. before = <<>> /\ k = 1
        BY <1>4, <2>2, <3>1 DEF before
      <4>2. QED
        BY <1>1, <2>2, <4>1 DEF Starts, Joins
    <3>2. CASE n # 0
      <4>1. k # 1
        BY <2>2, <3>2
      <4>2. before # <<>> /\ before[Len(before)].name = s[k - 1].name
        BY <2>2, <2>3, <3>2
      <4>3. k \in Starts(s) <=> s[k].name \in Discrete \/ s[k].name # s[k - 1].name
        BY <1>1, <2>2, <4>1 DEF Starts
      <4>4. Joins(before, s[k]) <=> s[k].name \in Continuous /\ s[k - 1].name = s[k].name
        BY <4>2 DEF Joins
      <4>5. s[k].name \in Discrete <=> s[k].name \notin Continuous
        BY <2>5, Bounds
      <4>6. QED
        BY <4>3, <4>4, <4>5
    <3>3. QED
      BY <3>1, <3>2
  <2>7. f[k] = PushMerged(before, s[k])
    <3>1. CASE Joins(before, s[k])
      BY <2>2, <2>4, <2>6, <3>1 DEF NextRuns, PushMerged, Joins
    <3>2. CASE ~Joins(before, s[k])
      BY <2>2, <2>4, <2>6, <3>2 DEF NextRuns, PushMerged, Joins
    <3>3. QED
      BY <3>1, <3>2
  <2>8. f[k] \in Seq(Net) /\ f[k] # <<>> /\ f[k][Len(f[k])].name = s[k].name
    <3>1. /\ PushMerged(before, s[k]) \in Seq(Net) /\ PushMerged(before, s[k]) # <<>>
          /\ PushMerged(before, s[k])[Len(PushMerged(before, s[k]))].name = s[k].name
      BY <2>3, <2>5, PushMergedIs
    <3>2. QED
      BY <2>7, <3>1
  <2>9. Right(k)
    BY <2>2, <2>7, <2>8 DEF before
  <2>10. QED
    BY <2>9 DEF k
<1>7. T = Nat
  <2> HIDE DEF T
  <2>1. T \in SUBSET Nat
    BY DEF T
  <2>2. QED
    BY <1>5, <1>6, <2>1, Induction
<1>8. \A k \in 1..Len(s) : f[k] = PushMerged(f[k - 1], s[k])
  <2>1. ASSUME NEW k \in 1..Len(s) PROVE Right(k) /\ k # 0
    BY <1>1, <1>7
  <2>2. QED
    BY <2>1
<1>9. QED
  BY <1>3, <1>4, <1>8 DEF Batches

LEMMA RunsTyped ==
  ASSUME NEW s \in Seq(Net)
  PROVE  Runs(s) \in Seq(Net)
<1>1. PICK m : Batches(m, s) /\ Runs(s) = m[Len(s)]
  BY RunsIs
<1>2. Len(s) \in 0..Len(s)
  BY EmptySeq
<1>3. QED
  BY <1>1, <1>2, BatchesTyped

LEMMA RunsAppend ==
  ASSUME NEW s \in Seq(Net), NEW intent \in Net
  PROVE  Runs(Append(s, intent)) = PushMerged(Runs(s), intent)
<1> DEFINE r == Append(s, intent)
<1>1. /\ r \in Seq(Net) /\ Len(r) = Len(s) + 1 /\ r[Len(r)] = intent /\ Len(s) \in Nat
      /\ \A k \in 1..Len(s) : s[k] = r[k]
  BY AppendProperties
<1> HIDE DEF r
<1>2. PICK m : Batches(m, s) /\ Runs(s) = m[Len(s)]
  BY RunsIs
<1>3. PICK l : Batches(l, r) /\ Runs(r) = l[Len(r)]
  BY <1>1, RunsIs
<1>4. Len(s) <= Len(s) /\ Len(s) <= Len(r)
  BY <1>1
<1>5. m[Len(s)] = l[Len(s)]
  BY <1>1, <1>2, <1>3, <1>4, BatchesAgree
<1>6. Len(r) \in 1..Len(r) /\ Len(r) - 1 = Len(s)
  BY <1>1
<1>7. l[Len(r)] = PushMerged(l[Len(s)], intent)
  BY <1>1, <1>3, <1>6 DEF Batches
<1>8. QED
  BY <1>2, <1>3, <1>5, <1>7 DEF r

-----------------------------------------------------------------------------
(* However a drain cuts the runs, after what has been done they are whole. *)

LEMMA ConcatAppend ==
  ASSUME NEW S, NEW s \in Seq(S), NEW t \in Seq(S), NEW x \in S
  PROVE  s \o Append(t, x) = Append(s \o t, x)
<1>1. <<x>> \in Seq(S) /\ s \o t \in Seq(S)
  BY ConcatProperties
<1>2. Append(t, x) = t \o <<x>> /\ Append(s \o t, x) = (s \o t) \o <<x>>
  BY <1>1, AppendIsConcat
<1>3. (s \o t) \o <<x>> = s \o (t \o <<x>>)
  BY <1>1, ConcatAssociative
<1>4. QED
  BY <1>2, <1>3

LEMMA HeadMoves ==
  ASSUME NEW S, NEW s \in Seq(S), NEW t \in Seq(S), t # <<>>
  PROVE  Append(s, Head(t)) \o Tail(t) = s \o t
<1>1. /\ Head(t) \in S /\ Tail(t) \in Seq(S) /\ Len(Tail(t)) = Len(t) - 1
      /\ \A i \in 1..Len(Tail(t)) : Tail(t)[i] = t[i + 1]
      /\ Head(t) = t[1] /\ Len(s) \in Nat /\ Len(t) \in Nat \ {0}
  BY HeadTailProperties, EmptySeq
<1>2. PICK h \in S, r \in Seq(S) : h = Head(t) /\ r = Tail(t)
  BY <1>1
<1>3. /\ Append(s, h) \in Seq(S) /\ Len(Append(s, h)) = Len(s) + 1
      /\ \A i \in 1..Len(s) : Append(s, h)[i] = s[i] /\ Append(s, h)[Len(s) + 1] = h
  BY AppendProperties
<1>4. PICK a \in Seq(S) : a = Append(s, h)
  BY <1>3
<1>5. /\ a \o r \in Seq(S) /\ Len(a \o r) = Len(s) + Len(t)
      /\ \A i \in 1..Len(s) + Len(t) :
           (a \o r)[i] = IF i <= Len(s) + 1 THEN a[i] ELSE r[i - (Len(s) + 1)]
  <2>1. Len(a) = Len(s) + 1 /\ Len(r) = Len(t) - 1
    BY <1>1, <1>2, <1>3, <1>4
  <2>2. Len(a) + Len(r) = Len(s) + Len(t)
    BY <1>1, <2>1
  <2>3. /\ a \o r \in Seq(S) /\ Len(a \o r) = Len(a) + Len(r)
        /\ \A i \in 1..Len(a) + Len(r) :
             (a \o r)[i] = IF i <= Len(a) THEN a[i] ELSE r[i - Len(a)]
    BY ConcatProperties
  <2>4. QED
    BY <2>1, <2>2, <2>3
<1>6. /\ s \o t \in Seq(S) /\ Len(s \o t) = Len(s) + Len(t)
      /\ \A i \in 1..Len(s) + Len(t) :
           (s \o t)[i] = IF i <= Len(s) THEN s[i] ELSE t[i - Len(s)]
  BY ConcatProperties
<1>7. ASSUME NEW i \in 1..Len(s) + Len(t) PROVE (a \o r)[i] = (s \o t)[i]
  <2>0. PICK n \in Nat : n = Len(s)
    BY <1>1
  <2>1. CASE i <= n
    <3>1. i \in 1..Len(s) /\ i <= Len(s) /\ i <= Len(s) + 1
      BY <1>1, <2>0, <2>1
    <3>2. a[i] = s[i]
      BY <1>3, <1>4, <3>1
    <3>3. QED
      BY <1>5, <1>6, <3>1, <3>2
  <2>2. CASE i = n + 1
    <3>1. i - Len(s) = 1 /\ ~(i <= Len(s)) /\ i <= Len(s) + 1
      BY <2>0, <2>2
    <3>2. a[i] = t[1]
      BY <1>1, <1>2, <1>3, <1>4, <2>0, <2>2
    <3>3. (s \o t)[i] = t[i - Len(s)]
      BY <1>6, <3>1
    <3>4. (a \o r)[i] = a[i]
      BY <1>5, <3>1
    <3>5. QED
      BY <3>1, <3>2, <3>3, <3>4
  <2>3. CASE i > n + 1
    <3>1. /\ i - (Len(s) + 1) \in 1..Len(r) /\ (i - (Len(s) + 1)) + 1 = i - Len(s)
          /\ ~(i <= Len(s)) /\ ~(i <= Len(s) + 1)
      BY <1>1, <1>2, <2>0, <2>3
    <3>2. r[i - (Len(s) + 1)] = t[(i - (Len(s) + 1)) + 1]
      BY <1>1, <1>2, <3>1
    <3>3. (s \o t)[i] = t[i - Len(s)]
      BY <1>6, <3>1
    <3>4. (a \o r)[i] = r[i - (Len(s) + 1)]
      BY <1>5, <3>1
    <3>5. QED
      BY <3>1, <3>2, <3>3, <3>4
  <2>4. i <= n \/ i = n + 1 \/ i > n + 1
    BY <1>1
  <2>5. QED
    BY <2>1, <2>2, <2>3, <2>4
<1>8. a \o r = s \o t
  BY <1>5, <1>6, <1>7, SeqEqual
<1>9. QED
  BY <1>2, <1>4, <1>8

LEMMA PushAfter ==
  ASSUME NEW e \in Seq(Net), NEW b \in Seq(Net), NEW intent \in Net
  PROVE  Runs(e \o PushMerged(b, intent)) = PushMerged(Runs(e \o b), intent)
<1>0. \A s \in Seq(Net) : e \o s \in Seq(Net)
  BY ConcatProperties
<1>1. CASE ~Joins(b, intent)
  <2>1. PushMerged(b, intent) = Append(b, intent)
    BY <1>1, PushMergedIs
  <2>2. e \o Append(b, intent) = Append(e \o b, intent)
    BY ConcatAppend
  <2>3. PICK x \in Seq(Net) : x = e \o b
    BY <1>0
  <2>4. Runs(Append(x, intent)) = PushMerged(Runs(x), intent)
    BY RunsAppend
  <2>5. QED
    BY <2>1, <2>2, <2>3, <2>4
<1>2. CASE Joins(b, intent)
  <2>1. b # <<>> /\ b[Len(b)].name = intent.name /\ intent.name \in Continuous
    BY <1>2 DEF Joins
  <2>2. PICK d \in Seq(Net), last \in Net : b = Append(d, last)
    BY <2>1, SequenceEmptyOrAppend
  <2>3. Len(b) = Len(d) + 1 /\ b[Len(b)] = last /\ Len(d) \in Nat
    BY <2>2, AppendProperties
  <2>4. PICK sum \in Net : sum = Plus(last, intent)
    BY NetIs
  <2>5. PushMerged(b, intent) = Append(d, sum)
    <3>1. PushMerged(b, intent) = [b EXCEPT ![Len(b)] = sum]
      BY <1>2, <2>3, <2>4, PushMergedIs
    <3>2. /\ Append(d, sum) \in Seq(Net) /\ Len(Append(d, sum)) = Len(d) + 1
          /\ \A i \in 1..Len(d) : Append(d, sum)[i] = d[i]
          /\ Append(d, sum)[Len(d) + 1] = sum
      BY AppendProperties
    <3>3. \A i \in 1..Len(d) : b[i] = d[i]
      BY <2>2, AppendProperties
    <3>4. /\ [b EXCEPT ![Len(b)] = sum] \in Seq(Net) /\ Len([b EXCEPT ![Len(b)] = sum]) = Len(b)
          /\ \A i \in 1..Len(b) : [b EXCEPT ![Len(b)] = sum][i] = IF i = Len(b) THEN sum ELSE b[i]
      <4>1. Len(b) \in 1..Len(b)
        BY <2>3
      <4>2. QED
        BY <4>1, ExceptSeq
    <3>5. \A i \in 1..Len(b) : [b EXCEPT ![Len(b)] = sum][i] = Append(d, sum)[i]
      BY <2>3, <3>2, <3>3, <3>4
    <3>6. [b EXCEPT ![Len(b)] = sum] = Append(d, sum)
      BY <2>3, <3>2, <3>4, <3>5, SeqEqual
    <3>7. QED
      BY <3>1, <3>6
  <2>6. /\ Runs(e \o Append(d, sum)) = PushMerged(Runs(e \o d), sum)
        /\ Runs(e \o Append(d, last)) = PushMerged(Runs(e \o d), last)
    <3>1. PICK x \in Seq(Net) : x = e \o d
      BY <1>0
    <3>2. e \o Append(d, sum) = Append(x, sum) /\ e \o Append(d, last) = Append(x, last)
      BY <3>1, ConcatAppend
    <3>3. /\ Runs(Append(x, sum)) = PushMerged(Runs(x), sum)
          /\ Runs(Append(x, last)) = PushMerged(Runs(x), last)
      BY RunsAppend
    <3>4. QED
      BY <3>1, <3>2, <3>3
  <2>7. Runs(e \o d) \in Seq(Net)
    BY <1>0, RunsTyped
  <2>8. PushMerged(PushMerged(Runs(e \o d), last), intent) = PushMerged(Runs(e \o d), sum)
    BY <2>1, <2>3, <2>4, <2>7, PushTwice
  <2>9. QED
    BY <2>2, <2>5, <2>6, <2>8
<1>3. QED
  BY <1>1, <1>2

LEMMA MergedTyped ==
  ASSUME NEW q \in Seq(Net)
  PROVE  Merged(q) \in Seq(Net)
<1>1. PICK m : Batches(m, q) /\ Merged(q) = m[Len(q)]
  BY MergedIs
<1>2. Len(q) \in 0..Len(q)
  BY EmptySeq
<1>3. QED
  BY <1>1, <1>2, BatchesTyped

LEMMA DrainKeepsRuns ==
  ASSUME NEW e \in Seq(Net), NEW q \in Seq(Net)
  PROVE  Runs(e \o Merged(q)) = Runs(e \o q)
<1>1. PICK m : Batches(m, q) /\ Merged(q) = m[Len(q)]
  BY MergedIs
<1>2. Len(q) \in Nat
  OBVIOUS
<1> DEFINE T == {n \in Nat : n <= Len(q) => Runs(e \o m[n]) = Runs(e \o SubSeq(q, 1, n))}
<1>3. 0 \in T
  <2>1. SubSeq(q, 1, 0) = <<>>
    BY SubSeqEmpty
  <2>2. m[0] = <<>>
    BY <1>1 DEF Batches
  <2>3. Runs(e \o m[0]) = Runs(e \o SubSeq(q, 1, 0))
    BY <2>1, <2>2
  <2>4. QED
    BY <2>3
<1>4. ASSUME NEW n \in T PROVE n + 1 \in T
  <2>1. SUFFICES ASSUME n + 1 <= Len(q)
                 PROVE  Runs(e \o m[n + 1]) = Runs(e \o SubSeq(q, 1, n + 1))
    OBVIOUS
  <2>2. /\ n \in Nat /\ n + 1 \in 1..Len(q) /\ (n + 1) - 1 = n /\ n \in 0..Len(q) /\ n <= Len(q)
        /\ 1 \in 1..Len(q)
    BY <1>2, <2>1
  <2>3. PICK b \in Seq(Net) : b = m[n]
    BY <1>1, <2>2, BatchesTyped
  <2>4. PICK intent \in Net : intent = q[n + 1]
    BY <2>2
  <2>5. m[n + 1] = PushMerged(b, intent)
    BY <1>1, <2>2, <2>3, <2>4 DEF Batches
  <2>6. PICK s \in Seq(Net) : s = SubSeq(q, 1, n)
    <3>1. \A i \in 1..n : q[i] \in Net
      BY <1>2, <2>2
    <3>2. SubSeq(q, 1, n) \in Seq(Net)
      BY <2>2, <3>1, SubSeqProperties
    <3>3. QED
      BY <3>2
  <2>7. SubSeq(q, 1, n + 1) = Append(s, intent)
    <3>1. SubSeq(q, 1, n + 1) = SubSeq(q, 1, (n + 1) - 1) \o <<q[n + 1]>>
      <4>1. n + 1 \in 1..Len(q)
        BY <2>2
      <4>2. QED
        BY <2>2, <4>1, SubSeqRecursiveSecond
    <3>2. SubSeq(q, 1, n + 1) = s \o <<intent>>
      BY <2>2, <2>4, <2>6, <3>1
    <3>3. QED
      BY <3>2, AppendIsConcat
  <2>8. Runs(e \o b) = Runs(e \o s)
    BY <2>2, <2>3, <2>6
  <2>9. Runs(e \o PushMerged(b, intent)) = PushMerged(Runs(e \o b), intent)
    BY PushAfter
  <2>10. e \o s \in Seq(Net) /\ e \o Append(s, intent) = Append(e \o s, intent)
    BY ConcatProperties, ConcatAppend
  <2>11. Runs(Append(e \o s, intent)) = PushMerged(Runs(e \o s), intent)
    BY <2>10, RunsAppend
  <2>12. QED
    BY <2>5, <2>7, <2>8, <2>9, <2>10, <2>11
<1>5. T = Nat
  <2> HIDE DEF T
  <2>1. T \in SUBSET Nat
    BY DEF T
  <2>2. QED
    BY <1>3, <1>4, <2>1, Induction
<1>6. Runs(e \o m[Len(q)]) = Runs(e \o SubSeq(q, 1, Len(q)))
  BY <1>2, <1>5
<1>7. QED
  BY <1>1, <1>6, SubSeqFull

-----------------------------------------------------------------------------
(* The dispatcher and its workers. *)

\* The types; a target without a worker has accepted nothing.
Shape ==
  /\ intake \in Seq(Submission) /\ Len(intake) <= IntakeCap
  /\ adapters \subseteq Targets
  /\ queue \in [Targets -> Seq(Intent) \cup {NoWorker}]
  /\ \A t \in Targets : Len(Waiting(t)) <= WorkerCap
  /\ pending \in [Targets -> Seq(Net)] /\ executed \in [Targets -> Seq(Net)]
  /\ accepted \in [Targets -> Seq(Intent)]
  /\ forwarded \in Seq(Submission) /\ submitted \in 0..MaxIntents
  /\ \A t \in Targets : queue[t] = NoWorker => accepted[t] = <<>>

\* Run by run, what is done, what is being done and what waits is what the
\* worker accepted.
OrderInv ==
  \A t \in Targets : Runs((executed[t] \o pending[t]) \o Waiting(t)) = Runs(accepted[t])

LEMMA WaitingIs ==
  ASSUME Shape, NEW t \in Targets
  PROVE  Waiting(t) \in Seq(Intent) /\ Waiting(t) \in Seq(Net) /\ Len(Waiting(t)) \in Nat
<1>1. Waiting(t) \in Seq(Intent)
  BY DEF Shape, Waiting
<1>2. QED
  BY <1>1, SeqNet

LEMMA ShapeInit == Init => Shape /\ OrderInv
<1> SUFFICES ASSUME Init PROVE Shape /\ OrderInv
  OBVIOUS
<1>1. Len(<<>>) = 0 /\ 0 <= IntakeCap /\ 0 <= WorkerCap
  BY Bounds
<1>2. /\ intake = <<>> /\ forwarded = <<>> /\ adapters \subseteq Targets /\ submitted \in 0..MaxIntents
      /\ queue \in [Targets -> Seq(Intent) \cup {NoWorker}]
      /\ pending \in [Targets -> Seq(Net)] /\ executed \in [Targets -> Seq(Net)]
      /\ accepted \in [Targets -> Seq(Intent)]
  BY Bounds DEF Init
<1>3. ASSUME NEW t \in Targets
      PROVE  /\ Waiting(t) = <<>> /\ pending[t] = <<>> /\ executed[t] = <<>> /\ accepted[t] = <<>>
  BY <1>3 DEF Init, Waiting
<1>4. Shape
  BY <1>1, <1>2, <1>3 DEF Shape
<1>5. <<>> \o <<>> = <<>> /\ (<<>> \o <<>>) \o <<>> = <<>>
  OBVIOUS
<1>6. QED
  BY <1>3, <1>4, <1>5 DEF OrderInv

\* What the dispatcher takes is the first submission of its channel.
LEMMA TakeIs ==
  ASSUME Shape, NEW s \in Submission, TakeIntake(s)
  PROVE  intake' \in Seq(Submission) /\ Len(intake') <= IntakeCap
<1>1. intake \in Seq(Submission) /\ intake # <<>> /\ intake' = Tail(intake)
      /\ Len(intake) <= IntakeCap
  BY DEF Shape, TakeIntake
<1>2. Tail(intake) \in Seq(Submission) /\ Len(Tail(intake)) = Len(intake) - 1 /\ Len(intake) \in Nat
  BY <1>1, HeadTailProperties
<1>3. QED
  BY <1>1, <1>2, Bounds

\* A worker's channel as an intent leaves it.
LEMMA EnqueueIs ==
  ASSUME Shape, NEW s \in Submission, Enqueue(s)
  PROVE  /\ s.target \in Targets /\ s.intent \in Intent
         /\ \/ UNCHANGED <<queue, accepted>>
            \/ /\ Len(Waiting(s.target)) + 1 <= WorkerCap
               /\ queue' = [queue EXCEPT ![s.target] = Append(Waiting(s.target), s.intent)]
               /\ accepted' = [accepted EXCEPT ![s.target] = Append(accepted[s.target], s.intent)]
<1>1. s.target \in Targets /\ s.intent \in Intent
  BY DEF Submission
<1>2. Waiting(s.target) = IF queue[s.target] = NoWorker THEN <<>> ELSE queue[s.target]
  BY DEF Waiting
<1>3. Len(Waiting(s.target)) \in Nat /\ Len(Waiting(s.target)) <= WorkerCap
  BY <1>1, WaitingIs DEF Shape
<1>4. \/ UNCHANGED <<queue, accepted>>
      \/ /\ Len(Waiting(s.target)) # WorkerCap
         /\ queue' = [queue EXCEPT ![s.target] = Append(Waiting(s.target), s.intent)]
         /\ accepted' = [accepted EXCEPT ![s.target] = Append(accepted[s.target], s.intent)]
  BY <1>1, <1>2 DEF Enqueue, Shape
<1>5. QED
  BY <1>1, <1>3, <1>4, Bounds

LEMMA StepKeeps == Shape /\ OrderInv /\ [Next]_vars => Shape' /\ OrderInv'
<1> SUFFICES ASSUME Shape, OrderInv, [Next]_vars PROVE Shape' /\ OrderInv'
  OBVIOUS
<1>0. /\ intake \in Seq(Submission) /\ Len(intake) <= IntakeCap
      /\ adapters \subseteq Targets
      /\ queue \in [Targets -> Seq(Intent) \cup {NoWorker}]
      /\ \A t \in Targets : Len(Waiting(t)) <= WorkerCap
      /\ pending \in [Targets -> Seq(Net)] /\ executed \in [Targets -> Seq(Net)]
      /\ accepted \in [Targets -> Seq(Intent)]
      /\ forwarded \in Seq(Submission) /\ submitted \in 0..MaxIntents
      /\ \A t \in Targets : queue[t] = NoWorker => accepted[t] = <<>>
  BY DEF Shape
<1>1. CASE UNCHANGED vars
  BY <1>0, <1>1 DEF Shape, OrderInv, vars, Waiting
\* A step that no worker sees.
<1>2. ASSUME UNCHANGED <<queue, pending, accepted, executed>>,
             intake' \in Seq(Submission), Len(intake') <= IntakeCap, adapters' \subseteq Targets,
             forwarded' \in Seq(Submission), submitted' \in 0..MaxIntents
      PROVE  Shape' /\ OrderInv'
  BY <1>0, <1>2 DEF Shape, OrderInv, Waiting
<1>3. ASSUME NEW s \in Submission, Submit(s) PROVE Shape' /\ OrderInv'
  <2>1. submitted' \in 0..MaxIntents
    BY <1>0, <1>3, Bounds DEF Submit
  <2>2. intake' \in Seq(Submission) /\ Len(intake') <= IntakeCap
    <3>1. /\ Append(intake, s) \in Seq(Submission) /\ Len(Append(intake, s)) = Len(intake) + 1
          /\ Len(intake) \in Nat
      BY <1>0, AppendProperties
    <3>2. CASE Len(intake) = IntakeCap
      BY <1>0, <1>3, <3>2 DEF Submit
    <3>3. CASE Len(intake) # IntakeCap
      <4>1. intake' = Append(intake, s)
        BY <1>3, <3>3 DEF Submit
      <4>2. QED
        BY <1>0, <3>1, <3>3, <4>1, Bounds
    <3>4. QED
      BY <3>2, <3>3
  <2>3. UNCHANGED <<adapters, queue, pending, forwarded, accepted, executed>>
    BY <1>3 DEF Submit
  <2>4. QED
    BY <1>0, <1>2, <2>1, <2>2, <2>3
<1>4. ASSUME NEW t \in Targets, AdapterOnline(t) PROVE Shape' /\ OrderInv'
  BY <1>0, <1>2, <1>4 DEF AdapterOnline
<1>5. ASSUME NEW s \in Submission, Forward(s) PROVE Shape' /\ OrderInv'
  <2>1. intake' \in Seq(Submission) /\ Len(intake') <= IntakeCap
    BY <1>5, TakeIs DEF Forward
  <2>2. forwarded' \in Seq(Submission)
    BY <1>0, <1>5, AppendProperties DEF Forward
  <2>3. QED
    BY <1>0, <1>2, <1>5, <2>1, <2>2 DEF Forward
<1>6. ASSUME NEW s \in Submission, Enqueue(s) PROVE Shape' /\ OrderInv'
  <2>1. intake' \in Seq(Submission) /\ Len(intake') <= IntakeCap
    BY <1>6, TakeIs DEF Enqueue
  <2>2. UNCHANGED <<adapters, pending, forwarded, submitted, executed>>
    BY <1>6 DEF Enqueue
  <2>3. CASE UNCHANGED <<queue, accepted>>
    BY <1>0, <1>2, <2>1, <2>2, <2>3
  <2>4. CASE ~UNCHANGED <<queue, accepted>>
    <3>1. PICK t \in Targets : t = s.target
      BY <1>6, EnqueueIs
    <3>2. PICK i \in Intent : i = s.intent
      BY <1>6, EnqueueIs
    <3>3. PICK w \in Seq(Intent) : w = Waiting(t)
      BY WaitingIs
    <3>4. /\ Len(w) + 1 <= WorkerCap
          /\ queue' = [queue EXCEPT ![t] = Append(w, i)]
          /\ accepted' = [accepted EXCEPT ![t] = Append(accepted[t], i)]
      BY <1>6, <2>4, <3>1, <3>2, <3>3, EnqueueIs
    <3>5. PICK x \in Seq(Intent) : x = Append(w, i) /\ Len(x) = Len(w) + 1
      BY AppendProperties
    <3>6. /\ queue'[t] = x /\ x # NoWorker
          /\ \A u \in Targets : u # t => queue'[u] = queue[u] /\ accepted'[u] = accepted[u]
          /\ queue' \in [Targets -> Seq(Intent) \cup {NoWorker}]
      BY <1>0, <3>4, <3>5, Bounds
    <3>7. Waiting(t)' = x /\ \A u \in Targets : u # t => Waiting(u)' = Waiting(u)
      BY <3>6 DEF Waiting
    <3>8. accepted' \in [Targets -> Seq(Intent)] /\ accepted'[t] = Append(accepted[t], i)
      BY <1>0, <3>4, AppendProperties
    <3>9. \A u \in Targets : Len(Waiting(u)') <= WorkerCap
      BY <1>0, <3>4, <3>5, <3>7
    <3>10. Shape'
      BY <1>0, <2>1, <2>2, <3>6, <3>8, <3>9 DEF Shape
    <3>11. PICK b \in Seq(Net) : b = executed[t] \o pending[t]
      BY <1>0, ConcatProperties
    <3>12. i \in Net /\ w \in Seq(Net) /\ accepted[t] \in Seq(Net)
      BY <1>0, NetIs, SeqNet
    <3>13. b \o Append(w, i) = Append(b \o w, i) /\ b \o w \in Seq(Net)
      BY <3>12, ConcatAppend, ConcatProperties
    <3>14. Runs(b \o w) = Runs(accepted[t])
      BY <3>3, <3>11 DEF OrderInv
    <3>15. Runs(Append(b \o w, i)) = PushMerged(Runs(b \o w), i)
      BY <3>12, <3>13, RunsAppend
    <3>16. Runs(Append(accepted[t], i)) = PushMerged(Runs(accepted[t]), i)
      BY <3>12, RunsAppend
    <3>17. Runs((executed'[t] \o pending'[t]) \o Waiting(t)') = Runs(accepted'[t])
      BY <2>2, <3>5, <3>7, <3>8, <3>11, <3>13, <3>14, <3>15, <3>16
    <3>18. ASSUME NEW u \in Targets, u # t
           PROVE  Runs((executed'[u] \o pending'[u]) \o Waiting(u)') = Runs(accepted'[u])
      BY <2>2, <3>6, <3>7, <3>18 DEF OrderInv
    <3>19. OrderInv'
      BY <3>17, <3>18 DEF OrderInv
    <3>20. QED
      BY <3>10, <3>19
  <2>5. QED
    BY <2>3, <2>4
<1>7. ASSUME NEW t \in Targets, Drain(t) PROVE Shape' /\ OrderInv'
  <2>1. /\ queue[t] # NoWorker /\ pending[t] = <<>>
        /\ pending' = [pending EXCEPT ![t] = Merged(queue[t])]
        /\ queue' = [queue EXCEPT ![t] = <<>>]
        /\ UNCHANGED <<intake, adapters, forwarded, submitted, accepted, executed>>
    BY <1>7 DEF Drain
  <2>2. PICK q \in Seq(Intent) : q = queue[t] /\ Waiting(t) = q
    BY <1>0, <2>1 DEF Waiting
  <2>3. PICK m \in Seq(Net) : m = Merged(q)
    BY SeqNet, MergedTyped
  <2>a. <<>> \in Seq(Intent) /\ Len(<<>>) = 0
    OBVIOUS
  <2>4. <<>> \in Seq(Intent) /\ <<>> # NoWorker /\ Len(<<>>) = 0 /\ 0 <= WorkerCap
    <3>1. PICK z \in Seq(Intent) : z = <<>>
      BY <2>a
    <3>2. z # NoWorker
      BY Bounds
    <3>3. 0 <= WorkerCap
      BY Bounds
    <3>4. QED
      BY <2>a, <3>1, <3>2, <3>3
  <2>5. /\ queue' \in [Targets -> Seq(Intent) \cup {NoWorker}] /\ queue'[t] = <<>>
        /\ \A u \in Targets : u # t => queue'[u] = queue[u]
    BY <1>0, <2>1, <2>4
  <2>6. /\ pending' \in [Targets -> Seq(Net)] /\ pending'[t] = m
        /\ \A u \in Targets : u # t => pending'[u] = pending[u]
    BY <1>0, <2>1, <2>2, <2>3
  <2>7. Waiting(t)' = <<>> /\ \A u \in Targets : u # t => Waiting(u)' = Waiting(u)
    BY <2>4, <2>5 DEF Waiting
  <2>8. \A u \in Targets : Len(Waiting(u)') <= WorkerCap
    BY <1>0, <2>4, <2>7
  <2>9. Shape'
    BY <1>0, <2>1, <2>4, <2>5, <2>6, <2>8 DEF Shape
  <2>10. PICK e \in Seq(Net) : e = executed[t]
    BY <1>0
  <2>11. Runs(e \o m) = Runs(e \o q)
    BY <2>3, SeqNet, DrainKeepsRuns
  <2>12. (e \o <<>>) \o q = e \o q /\ (e \o m) \o <<>> = e \o m
    <3>1. e \o m \in Seq(Net)
      BY ConcatProperties
    <3>2. QED
      BY <3>1, ConcatEmptySeq
  <2>13. Runs((executed'[t] \o pending'[t]) \o Waiting(t)') = Runs(accepted'[t])
    <3>1. Runs((e \o <<>>) \o q) = Runs(accepted[t])
      BY <2>1, <2>2, <2>10 DEF OrderInv
    <3>2. QED
      BY <2>1, <2>6, <2>7, <2>10, <2>11, <2>12, <3>1
  <2>14. ASSUME NEW u \in Targets, u # t
         PROVE  Runs((executed'[u] \o pending'[u]) \o Waiting(u)') = Runs(accepted'[u])
    BY <2>1, <2>6, <2>7, <2>14 DEF OrderInv
  <2>15. OrderInv'
    BY <2>13, <2>14 DEF OrderInv
  <2>16. QED
    BY <2>9, <2>15
<1>8. ASSUME NEW t \in Targets, Execute(t) PROVE Shape' /\ OrderInv'
  <2>1. PICK e \in Seq(Net), p \in Seq(Net) : e = executed[t] /\ p = pending[t]
    BY <1>0
  <2>2. /\ p # <<>>
        /\ executed' = [executed EXCEPT ![t] = Append(e, Head(p))]
        /\ pending' = [pending EXCEPT ![t] = Tail(p)]
        /\ UNCHANGED <<intake, adapters, queue, forwarded, submitted, accepted>>
    BY <1>0, <1>8, <2>1 DEF Execute
  <2>3. Head(p) \in Net /\ Tail(p) \in Seq(Net)
    BY <2>2, HeadTailProperties
  <2>4. Append(e, Head(p)) \in Seq(Net)
    BY <2>3, AppendProperties
  <2>5. /\ executed' \in [Targets -> Seq(Net)] /\ executed'[t] = Append(e, Head(p))
        /\ pending' \in [Targets -> Seq(Net)] /\ pending'[t] = Tail(p)
        /\ \A u \in Targets : u # t => executed'[u] = executed[u] /\ pending'[u] = pending[u]
    BY <1>0, <2>2, <2>3, <2>4
  <2>6. \A u \in Targets : Waiting(u)' = Waiting(u)
    BY <2>2 DEF Waiting
  <2>7. Shape'
    BY <1>0, <2>2, <2>5, <2>6 DEF Shape
  <2>8. Append(e, Head(p)) \o Tail(p) = e \o p
    BY <2>2, HeadMoves
  <2>9. Runs((executed'[t] \o pending'[t]) \o Waiting(t)') = Runs(accepted'[t])
    BY <2>1, <2>2, <2>5, <2>6, <2>8 DEF OrderInv
  <2>10. ASSUME NEW u \in Targets, u # t
         PROVE  Runs((executed'[u] \o pending'[u]) \o Waiting(u)') = Runs(accepted'[u])
    BY <2>2, <2>5, <2>6, <2>10 DEF OrderInv
  <2>11. OrderInv'
    BY <2>9, <2>10 DEF OrderInv
  <2>12. QED
    BY <2>7, <2>11
<1>9. QED
  BY <1>1, <1>3, <1>4, <1>5, <1>6, <1>7, <1>8 DEF Next, Dispatch, Worker

\* The channels keep their capacity and hold what they may hold.
THEOREM DispatchTyped == Spec => []TypeOK
<1>1. Shape => TypeOK
  <2> SUFFICES ASSUME Shape PROVE TypeOK
    OBVIOUS
  <2>1. \A t \in Targets : queue[t] # NoWorker => queue[t] \in Seq(Intent)
    BY DEF Shape
  <2>2. QED
    BY <2>1 DEF Shape, TypeOK
<1>2. QED
  BY ShapeInit, StepKeeps, <1>1, PTL DEF Spec

\* Run by run, what a target's adapter was and will be asked is what the
\* worker accepted, however the drains cut the runs.
THEOREM RunsInOrder == Spec => []InOrder
<1>1. OrderInv => InOrder
  BY DEF OrderInv, InOrder
<1>2. QED
  BY ShapeInit, StepKeeps, <1>1, PTL DEF Spec

\* After the first intent a worker of the target took, none is forwarded.
THEOREM ForwardedBeforeWorker == Spec => NoForwardPastWorker
<1>1. Shape /\ [Next]_vars =>
        [forwarded' # forwarded => accepted[forwarded'[Len(forwarded')].target] = <<>>]_vars
  <2> SUFFICES ASSUME Shape, Next, forwarded' # forwarded
               PROVE  accepted[forwarded'[Len(forwarded')].target] = <<>>
    OBVIOUS
  <2>1. PICK s \in Submission : Forward(s)
    BY DEF Next, Dispatch, Worker, Submit, AdapterOnline, Enqueue, Drain, Execute
  <2>2. forwarded' = Append(forwarded, s) /\ queue[s.target] = NoWorker
    BY <2>1 DEF Forward
  <2>3. forwarded'[Len(forwarded')] = s
    BY <2>2, AppendProperties DEF Shape
  <2>4. s.target \in Targets
    BY DEF Submission
  <2>5. QED
    BY <2>2, <2>3, <2>4 DEF Shape
<1>2. QED
  BY ShapeInit, StepKeeps, <1>1, PTL DEF Spec, NoForwardPastWorker

=============================================================================
