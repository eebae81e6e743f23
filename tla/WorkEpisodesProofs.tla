--------------------------- MODULE WorkEpisodesProofs ---------------------------
(***************************************************************************)
(* What holds of Intents, prompts, Episodes, Checkpoints and Builds for    *)
(* any Sessions, callers and contents, whatever the bounds of the          *)
(* instance.                                                               *)
(***************************************************************************)
EXTENDS WorkEpisodes, FiniteSetTheorems, FunctionTheorems, SequenceTheorems, TLAPS

(***************************************************************************)
(* The inductive invariant: Tasks and Intent revisions.                    *)
(***************************************************************************)
\* The columns that the chains are made of.
TaskRow == [session : Sessions, head : Nat]
RevisionRow == [task : Nat, parent : Nat, cited : Nat, intent : Intent]

\* The rows that the chains are made of, and what a caller read.
RowTypes ==
    /\ active \in [Sessions -> 0..Len(tasks)]
    /\ tasks \in Seq(TaskRow) /\ revisions \in Seq(RevisionRow)
    /\ call \in [Callers -> Call]

\* Every revision is of a Task that is there.
TasksAreThere == \A r \in DOMAIN revisions : revisions[r].task \in DOMAIN tasks

TaskInv == RowTypes /\ TasksAreThere /\ IntentChains

(***************************************************************************)
(* The inductive invariant: Episodes and Checkpoints.                      *)
(***************************************************************************)
CheckpointRow == [episode : Nat, intent : Nat, content : Contents,
                  boundary : {"continue", "close"}, operation : BOOLEAN, parent : Nat]

\* The columns of a row that the properties speak of.
IsEpisode(ep) ==
    /\ DOMAIN ep = {"task", "version", "open", "intents", "signals", "final", "build"}
    /\ ep.version \in Nat /\ ep.open \in BOOLEAN

\* Every Checkpoint is of an Episode that is there.
EpisodeRows ==
    /\ episodes \in Seq(Range(episodes)) /\ \A e \in DOMAIN episodes : IsEpisode(episodes[e])
    /\ checkpoints \in Seq(CheckpointRow)
    /\ \A k \in DOMAIN checkpoints : checkpoints[k].episode \in DOMAIN episodes

\* A Build is reserved for, and an operation ends, a closed Episode only.
ClosedFirst ==
    /\ \A e \in DOMAIN episodes : episodes[e].open => episodes[e].build = NoBuild
    /\ \A k \in DOMAIN checkpoints :
           checkpoints[k].operation => ~episodes[checkpoints[k].episode].open

EpisodeInv == EpisodeRows /\ ClosedFirst /\ OneCheckpointPerOperation /\ EveryClaimIsQueued

(***************************************************************************)
(* The inductive invariant: the Signals with the prompts that wait to      *)
(* become one, and what the Episodes refer to.                             *)
(***************************************************************************)
SignalRow == [task : Nat, signal : Signal, live : BOOLEAN]
PromptRow == [session : Sessions, content : Prompts]
PromptInv == signals \in Seq(SignalRow) /\ pending \in Seq(PromptRow)

\* The references of an Episode are the first rows of its Task's chain.
Follows(ep) ==
    /\ ep.intents \in Seq(Nat) /\ Len(ep.intents) <= Len(Chain(ep.task))
    /\ \A i \in 1..Len(ep.intents) : ep.intents[i] = Chain(ep.task)[i]

\* EpisodesFollowTheChain, as a step preserves it.
RefsInv ==
    /\ \A e \in DOMAIN episodes : Follows(episodes[e])
    /\ \A k \in DOMAIN checkpoints :
           Contains(episodes[checkpoints[k].episode].intents, checkpoints[k].intent)

IInv == TaskInv /\ EpisodeInv /\ PromptInv /\ RefsInv

(***************************************************************************)
(* What ORDER BY does: the position of a row is the number of rows up to   *)
(* it.                                                                     *)
(***************************************************************************)
Rank(S, n) == Cardinality({m \in S : m <= n})

\* Rows of a table: finitely many.
LEMMA RowsAreFinite ==
    ASSUME NEW len \in Nat, NEW S \in SUBSET (1..len)
    PROVE  IsFiniteSet(S) /\ S \in SUBSET Nat
<1>1. IsFiniteSet(1..len)
  BY FS_Interval
<1>2. IsFiniteSet(S)
  BY <1>1, FS_Subset
<1>3. S \in SUBSET Nat
  OBVIOUS
<1> QED
  BY <1>2, <1>3

\* Ranks go from 1 to the number of rows, and rise with the ordinals.
LEMMA Ranks ==
    ASSUME NEW S \in SUBSET Nat, IsFiniteSet(S)
    PROVE  /\ Cardinality(S) \in Nat
           /\ \A n \in S : Rank(S, n) \in 1..Cardinality(S)
           /\ \A m, n \in S : m < n => Rank(S, m) < Rank(S, n)
           /\ \A m, n \in S : Rank(S, m) = Rank(S, n) => m = n
<1> DEFINE Upto(n) == {m \in S : m <= n}
<1>1. Cardinality(S) \in Nat
  BY FS_CardinalityType
<1>2. ASSUME NEW n \in S
      PROVE  /\ IsFiniteSet(Upto(n)) /\ Cardinality(Upto(n)) \in 1..Cardinality(S)
             /\ Rank(S, n) = Cardinality(Upto(n))
  <2>1. Upto(n) \in SUBSET S /\ n \in Upto(n)
    OBVIOUS
  <2>2. Rank(S, n) = Cardinality(Upto(n))
    BY DEF Rank
  <2> HIDE DEF Upto
  <2>3. IsFiniteSet(Upto(n)) /\ Cardinality(Upto(n)) <= Cardinality(S)
    BY <2>1, FS_Subset
  <2>4. Cardinality(Upto(n)) \in Nat
    BY <2>3, FS_CardinalityType
  <2>5. Cardinality(Upto(n)) # 0
    BY <2>1, <2>3, FS_EmptySet
  <2> QED
    BY <1>1, <2>2, <2>3, <2>4, <2>5
<1>3. ASSUME NEW m \in S, NEW n \in S, m < n PROVE Rank(S, m) < Rank(S, n)
  <2>1. Upto(m) \in SUBSET Upto(n) /\ Upto(m) # Upto(n)
    <3>1. m \in Nat /\ n \in Nat /\ \A k \in S : k \in Nat
      OBVIOUS
    <3>2. n \in Upto(n) /\ n \notin Upto(m)
      BY <1>3, <3>1
    <3>3. \A k \in S : k <= m => k <= n
      BY <1>3, <3>1
    <3>4. Upto(m) \subseteq Upto(n)
      BY <3>3
    <3> HIDE DEF Upto
    <3> QED
      BY <3>2, <3>4
  <2>2. IsFiniteSet(Upto(n)) /\ Cardinality(Upto(n)) \in Nat /\ Cardinality(Upto(m)) \in Nat
    BY <1>1, <1>2
  <2>3. Rank(S, m) = Cardinality(Upto(m)) /\ Rank(S, n) = Cardinality(Upto(n))
    BY <1>2
  <2> HIDE DEF Upto
  <2>4. Cardinality(Upto(m)) <= Cardinality(Upto(n)) /\ Cardinality(Upto(m)) # Cardinality(Upto(n))
    BY <2>1, <2>2, FS_Subset
  <2> QED
    BY <2>2, <2>3, <2>4
<1>4. ASSUME NEW m \in S, NEW n \in S, Rank(S, m) = Rank(S, n) PROVE m = n
  <2>1. m < n \/ n < m \/ m = n
    OBVIOUS
  <2>2. Rank(S, m) \in 1..Cardinality(S) /\ Rank(S, n) \in 1..Cardinality(S)
    BY <1>2
  <2>3. Rank(S, m) \in Nat /\ Rank(S, n) \in Nat
    BY <1>1, <2>2
  <2> QED
    BY <1>3, <1>4, <2>1, <2>3
<1>5. \A n \in S : Rank(S, n) \in 1..Cardinality(S)
  BY <1>2
<1> QED
  BY <1>1, <1>3, <1>4, <1>5

\* InOrder lists every row once, where its rank says.
LEMMA Ordered ==
    ASSUME NEW S \in SUBSET Nat, IsFiniteSet(S)
    PROVE  /\ InOrder(S) \in Seq(S) /\ Len(InOrder(S)) = Cardinality(S) /\ Cardinality(S) \in Nat
           /\ \A i \in 1..Cardinality(S) : InOrder(S)[i] \in S /\ Rank(S, InOrder(S)[i]) = i
           /\ \A n \in S : /\ Rank(S, n) \in 1..Cardinality(S)
                           /\ InOrder(S)[Rank(S, n)] = n
<1> DEFINE len == Cardinality(S)
           f == [n \in S |-> Rank(S, n)]
<1>1. /\ len \in Nat /\ \A n \in S : Rank(S, n) \in 1..len
      /\ \A m, n \in S : Rank(S, m) = Rank(S, n) => m = n
  BY Ranks
<1> HIDE DEF len
<1>2. f \in Surjection(S, 1..len)
  <2>1. f \in [S -> 1..len] /\ \A m, n \in S : f[m] = f[n] => m = n
    BY <1>1
  <2>2. f \in Injection(S, 1..len)
    BY <2>1, Fun_IsInj
  <2>3. IsFiniteSet(1..len) /\ Cardinality(1..len) = len
    BY <1>1, FS_Interval
  <2> QED
    BY <2>2, <2>3, FS_Injection DEF len
<1>3. \A i \in 1..len : \E n \in S : Rank(S, n) = i
  <2>1. \A i \in 1..len : \E n \in S : f[n] = i
    BY <1>2 DEF Surjection
  <2> QED
    BY <2>1
<1>4. InOrder(S) = [i \in 1..len |-> CHOOSE n \in S : Rank(S, n) = i]
  BY DEF InOrder, Rank, len
<1>5. \A i \in 1..len : InOrder(S)[i] \in S /\ Rank(S, InOrder(S)[i]) = i
  BY <1>3, <1>4
<1>6. InOrder(S) \in [1..len -> S]
  BY <1>4, <1>5
<1>7. InOrder(S) \in Seq(S) /\ Len(InOrder(S)) = len
  BY <1>1, <1>6
<1>8. \A n \in S : InOrder(S)[Rank(S, n)] = n
  BY <1>1, <1>5
<1> QED
  BY <1>1, <1>5, <1>7, <1>8 DEF len

\* A row with a higher ordinal than all of them comes last.
LEMMA OrderGrows ==
    ASSUME NEW S \in SUBSET Nat, IsFiniteSet(S), NEW n \in Nat, \A m \in S : m < n
    PROVE  LET T == S \cup {n} IN
           /\ Len(InOrder(T)) = Len(InOrder(S)) + 1 /\ InOrder(T)[Len(InOrder(S)) + 1] = n
           /\ \A i \in 1..Len(InOrder(S)) : InOrder(T)[i] = InOrder(S)[i]
<1> DEFINE T == S \cup {n}
           len == Cardinality(S)
<1>1. /\ Len(InOrder(S)) = len /\ len \in Nat
      /\ \A i \in 1..len : InOrder(S)[i] \in S /\ Rank(S, InOrder(S)[i]) = i
  BY Ordered
<1>2. T \in SUBSET Nat /\ IsFiniteSet(T) /\ Cardinality(T) = len + 1
  BY FS_AddElement
<1>3. \A m \in S : Rank(T, m) = Rank(S, m)
  <2>1. ASSUME NEW m \in S PROVE {k \in T : k <= m} = {k \in S : k <= m}
    OBVIOUS
  <2> QED
    BY <2>1 DEF Rank
<1>4. Rank(T, n) = len + 1
  <2>1. \A k \in T : k <= n
    OBVIOUS
  <2>2. {k \in T : k <= n} = T
    BY <2>1
  <2> QED
    BY <1>2, <2>2 DEF Rank
<1>5. n \in T /\ S \subseteq T
  OBVIOUS
<1> HIDE DEF T
<1>6. Len(InOrder(T)) = len + 1 /\ \A m \in T : InOrder(T)[Rank(T, m)] = m
  BY <1>2, Ordered
<1>7. InOrder(T)[len + 1] = n
  BY <1>4, <1>5, <1>6
<1>8. \A i \in 1..len : InOrder(T)[i] = InOrder(S)[i]
  BY <1>1, <1>3, <1>5, <1>6
<1> QED
  BY <1>1, <1>6, <1>7, <1>8 DEF T

\* Two parts of a sequence make the whole.
LEMMA Glued ==
    ASSUME NEW a \in Seq(Nat), NEW b \in Seq(Nat), NEW q \in Seq(Nat),
           Len(a) <= Len(q), Len(b) = Len(q) - Len(a),
           \A i \in 1..Len(a) : a[i] = q[i],
           \A i \in 1..Len(b) : b[i] = q[Len(a) + i]
    PROVE  a \o b = q
<1>1. a \o b \in Seq(Nat) /\ Len(a \o b) = Len(q) /\ Len(q) \in Nat /\ Len(a) \in Nat
  OBVIOUS
<1>2. ASSUME NEW i \in 1..Len(q) PROVE (a \o b)[i] = q[i]
  <2>1. CASE i <= Len(a)
    BY <1>1, <2>1
  <2>2. CASE i > Len(a)
    <3>1. i - Len(a) \in 1..Len(b) /\ Len(a) + (i - Len(a)) = i
      BY <1>1, <2>2
    <3>2. (a \o b)[i] = b[i - Len(a)]
      BY <1>1, <2>2, <3>1
    <3> QED
      BY <3>1, <3>2
  <2> QED
    BY <1>1, <2>1, <2>2
<1>3. \A i \in 1..Len(q) : (a \o b)[i] = q[i]
  BY <1>2
<1> QED
  BY <1>1, <1>3, SeqEqual

\* References that are the first rows, and the missing ones after them, are all rows in their order.
LEMMA OrderCompleted ==
    ASSUME NEW S \in SUBSET Nat, IsFiniteSet(S), NEW refs \in Seq(Nat),
           Len(refs) <= Len(InOrder(S)), \A i \in 1..Len(refs) : refs[i] = InOrder(S)[i]
    PROVE  refs \o InOrder(S \ ToSet(refs)) = InOrder(S)
<1> DEFINE q == InOrder(S)
           len == Cardinality(S)
           k == Len(refs)
           R == ToSet(refs)
           M == S \ R
<1>1. /\ q \in Seq(S) /\ Len(q) = len /\ len \in Nat
      /\ \A i \in 1..len : q[i] \in S /\ Rank(S, q[i]) = i
      /\ \A n \in S : Rank(S, n) \in 1..len /\ q[Rank(S, n)] = n
  BY Ordered
<1>2. k \in Nat /\ k <= len /\ len \in Nat /\ DOMAIN refs = 1..k /\ \A i \in 1..k : refs[i] = q[i]
  BY <1>1
<1> HIDE DEF q, len, k
<1>3. R = {n \in S : Rank(S, n) <= k}
  <2>1. R = {q[i] : i \in 1..k}
    BY <1>2 DEF ToSet
  <2>2. ASSUME NEW n \in R PROVE n \in S /\ Rank(S, n) <= k
    <3>1. PICK i \in 1..k : n = q[i]
      BY <2>1
    <3> QED
      BY <1>1, <1>2, <3>1
  <2>3. ASSUME NEW n \in S, Rank(S, n) <= k PROVE n \in R
    BY <1>1, <1>2, <2>1, <2>3
  <2> QED
    BY <2>2, <2>3
<1> HIDE DEF R
<1>4. IsFiniteSet(R) /\ Cardinality(R) = k
  <2> DEFINE f == [i \in 1..k |-> q[i]]
  <2>1. f \in [1..k -> R]
    BY <1>1, <1>2, <1>3
  <2>2. \A i, j \in 1..k : f[i] = f[j] => i = j
    <3>1. ASSUME NEW i \in 1..k, NEW j \in 1..k, q[i] = q[j] PROVE i = j
      BY <1>1, <1>2, <3>1
    <3> QED
      BY <3>1
  <2>3. \A n \in R : \E i \in 1..k : f[i] = n
    <3>1. ASSUME NEW n \in R PROVE Rank(S, n) \in 1..k /\ q[Rank(S, n)] = n
      BY <1>1, <1>2, <1>3
    <3> QED
      BY <3>1
  <2> HIDE DEF f
  <2>4. f \in Bijection(1..k, R)
    BY <2>1, <2>2, <2>3, Fun_IsBij
  <2>5. ExistsBijection(1..k, R)
    BY <2>4 DEF ExistsBijection
  <2>6. IsFiniteSet(R)
    BY <1>3, FS_Subset
  <2> QED
    BY <1>2, <2>5, <2>6, FS_CountingElements
<1>5. M \in SUBSET Nat /\ IsFiniteSet(M) /\ Cardinality(M) = len - k
  <2>1. IsFiniteSet(M) /\ Cardinality(M) = Cardinality(S) - Cardinality(S \cap R)
    BY FS_Difference
  <2>2. S \cap R = R
    BY <1>3
  <2> QED
    BY <1>4, <2>1, <2>2 DEF len
<1>6. M = {n \in S : Rank(S, n) > k}
  <2>1. \A n \in S : Rank(S, n) \in 1..len /\ Rank(S, n) \in Nat
    BY <1>1, <1>2
  <2>2. \A n \in S : ~(Rank(S, n) <= k) <=> Rank(S, n) > k
    BY <1>2, <2>1
  <2>3. M = {n \in S : ~(Rank(S, n) <= k)}
    BY <1>3
  <2> QED
    BY <2>2, <2>3
<1> HIDE DEF M
<1>7. ASSUME NEW n \in M PROVE Rank(M, n) = Rank(S, n) - k
  <2> DEFINE A == {m \in M : m <= n}
             U == {m \in S : m <= n}
  <2>1. n \in S /\ Rank(S, n) > k /\ M \subseteq S /\ n \in Nat
    BY <1>6
  <2>2. \A m \in R : m < n
    <3>1. ASSUME NEW m \in R PROVE ~(n <= m)
      <4>1. m \in S /\ Rank(S, m) <= k /\ Rank(S, m) \in Nat /\ Rank(S, n) \in Nat /\ m \in Nat
        BY <1>1, <1>3, <2>1
      <4>2. n < m => Rank(S, n) < Rank(S, m)
        BY <2>1, <4>1, Ranks
      <4> QED
        BY <1>2, <2>1, <4>1, <4>2
    <3>2. \A m \in R : m \in Nat
      BY <1>3
    <3> QED
      BY <2>1, <3>1, <3>2
  <2>3. U = A \cup R /\ A \cap R = {}
    <3>1. M \cap R = {} /\ S = M \cup R /\ S \subseteq Nat
      <4>1. M = S \ R /\ R \subseteq S
        BY <1>3 DEF M
      <4> QED
        BY <4>1
    <3>2. \A m \in R : m <= n /\ m \in S
      BY <2>1, <2>2, <3>1
    <3> QED
      BY <3>1, <3>2
  <2>4. IsFiniteSet(A)
    BY <1>5, FS_Subset
  <2>5. Rank(M, n) = Cardinality(A) /\ Rank(S, n) = Cardinality(U)
    BY DEF Rank
  <2> HIDE DEF A, U
  <2>6. Cardinality(A \cap R) = 0
    BY <2>3, FS_EmptySet
  <2>7. Cardinality(U) = Cardinality(A) + k - 0
    BY <1>4, <2>3, <2>4, <2>6, FS_Union
  <2>8. Cardinality(A) \in Nat
    BY <2>4, FS_CardinalityType
  <2> QED
    BY <1>2, <2>5, <2>7, <2>8
<1>8. /\ InOrder(M) \in Seq(M) /\ Len(InOrder(M)) = len - k
      /\ \A n \in M : InOrder(M)[Rank(M, n)] = n
  BY <1>5, Ordered
<1>9. \A i \in 1..(len - k) : InOrder(M)[i] = q[k + i]
  <2>1. ASSUME NEW i \in 1..(len - k) PROVE InOrder(M)[i] = q[k + i]
    <3>1. k + i \in 1..len /\ k + i > k /\ k \in Nat /\ i \in Nat
      BY <1>1, <1>2
    <3>2. q[k + i] \in S /\ Rank(S, q[k + i]) = k + i
      BY <1>1, <3>1
    <3>3. q[k + i] \in M
      BY <1>6, <3>1, <3>2
    <3>4. Rank(M, q[k + i]) = i
      BY <1>7, <3>1, <3>2, <3>3
    <3> QED
      BY <1>8, <3>3, <3>4
  <2> QED
    BY <2>1
<1>10. InOrder(M) \in Seq(Nat) /\ q \in Seq(Nat)
  BY <1>1, <1>5, <1>8, SeqMonotonic
<1>11. refs \o InOrder(M) = q
  <2> DEFINE rest == InOrder(M)
  <2>1. /\ Len(rest) = Len(q) - Len(refs) /\ Len(refs) <= Len(q)
        /\ \A i \in 1..Len(refs) : refs[i] = q[i]
        /\ \A i \in 1..Len(rest) : rest[i] = q[Len(refs) + i]
    BY <1>1, <1>2, <1>8, <1>9 DEF k
  <2> HIDE DEF rest
  <2> QED
    BY <1>10, <2>1, Glued DEF rest
<1> QED
  BY <1>11 DEF M, R, q

(***************************************************************************)
(* Tasks and their Intents.                                                *)
(***************************************************************************)
\* A Task begins with a chain of one revision.
LEMMA Inserted ==
    ASSUME TaskInv, NEW s \in Sessions, NEW intent \in Intent, NEW cited \in Nat, NEW prompts,
           InsertTask(s, intent, cited, prompts)
    PROVE  /\ active' \in [Sessions -> 0..Len(tasks')]
           /\ tasks' \in Seq(TaskRow) /\ revisions' \in Seq(RevisionRow)
           /\ TasksAreThere' /\ IntentChains'
<1> DEFINE t == Len(tasks) + 1
           r == Len(revisions) + 1
           row == [task |-> t, parent |-> 0, cited |-> cited, intent |-> intent]
           task == [session |-> s, head |-> r]
<1>1. /\ tasks \in Seq(TaskRow) /\ revisions \in Seq(RevisionRow)
      /\ DOMAIN tasks = 1..Len(tasks) /\ DOMAIN revisions = 1..Len(revisions)
      /\ Len(tasks) \in Nat /\ Len(revisions) \in Nat
      /\ \A q \in DOMAIN revisions : revisions[q] \in RevisionRow
      /\ \A u \in DOMAIN tasks : tasks[u] \in TaskRow
  BY DEF TaskInv, RowTypes
<1>2. row \in RevisionRow /\ task \in TaskRow
  BY <1>1 DEF RevisionRow, TaskRow
<1>3. /\ tasks' = Append(tasks, task) /\ revisions' = Append(revisions, row)
      /\ active' = [active EXCEPT ![s] = t]
  BY DEF InsertTask
<1>4. row.task = t /\ row.parent = 0 /\ task.head = r
  OBVIOUS
<1> HIDE DEF row, task
<1>5. /\ tasks' \in Seq(TaskRow) /\ Len(tasks') = t /\ DOMAIN tasks' = DOMAIN tasks \cup {t}
      /\ tasks'[t] = task /\ \A u \in DOMAIN tasks : tasks'[u] = tasks[u]
  BY <1>1, <1>2, <1>3
<1>6. /\ revisions' \in Seq(RevisionRow) /\ DOMAIN revisions' = DOMAIN revisions \cup {r}
      /\ revisions'[r] = row /\ \A q \in DOMAIN revisions : revisions'[q] = revisions[q]
  BY <1>1, <1>2, <1>3
<1>7. active' \in [Sessions -> 0..Len(tasks')]
  BY <1>1, <1>3, <1>5 DEF TaskInv, RowTypes
<1>8. TasksAreThere'
  BY <1>1, <1>4, <1>5, <1>6 DEF TaskInv, TasksAreThere
<1>9. \A q \in DOMAIN revisions : revisions[q].task \in DOMAIN tasks /\ revisions[q].parent \in 0..(q - 1)
  <2>1. \A q \in DOMAIN revisions : revisions[q].parent \in Nat
    BY <1>1 DEF RevisionRow
  <2> QED
    BY <1>1, <2>1 DEF TaskInv, TasksAreThere, IntentChains
<1>10. IntentChains'
  <2>1. \A u \in DOMAIN tasks' : /\ tasks'[u].head \in DOMAIN revisions'
                                 /\ revisions'[tasks'[u].head].task = u
    BY <1>4, <1>5, <1>6 DEF TaskInv, IntentChains, IntentHead
  <2>2. ASSUME NEW q \in DOMAIN revisions', NEW p \in DOMAIN revisions', q # p,
               revisions'[q].task = revisions'[p].task
        PROVE  revisions'[q].parent # revisions'[p].parent
    <3>1. q \in DOMAIN revisions /\ p \in DOMAIN revisions
      BY <1>1, <1>4, <1>6, <1>9, <2>2
    <3> QED
      BY <1>6, <2>2, <3>1 DEF TaskInv, IntentChains
  <2>3. ASSUME NEW q \in DOMAIN revisions', revisions'[q].parent # 0
        PROVE  /\ revisions'[q].parent \in 1..(q - 1)
               /\ revisions'[revisions'[q].parent].task = revisions'[q].task
               /\ revisions'[q].cited = revisions'[q].parent
    <3>1. q \in DOMAIN revisions
      BY <1>4, <1>6, <2>3
    <3>2. revisions[q].parent \in DOMAIN revisions
      BY <1>1, <1>6, <1>9, <2>3, <3>1
    <3> QED
      BY <1>6, <2>3, <3>1, <3>2 DEF TaskInv, IntentChains
  <2>4. ASSUME NEW q \in DOMAIN revisions'
        PROVE  {p \in DOMAIN revisions' : revisions'[p].parent = q} = {}
                 <=> q = tasks'[revisions'[q].task].head
    <3>1. CASE q = r
      <4>1. \A p \in DOMAIN revisions' : revisions'[p].parent # r
        BY <1>1, <1>4, <1>6, <1>9
      <4> QED
        BY <1>4, <1>5, <1>6, <3>1, <4>1
    <3>2. CASE q \in DOMAIN revisions
      <4>1. {p \in DOMAIN revisions' : revisions'[p].parent = q}
              = {p \in DOMAIN revisions : revisions[p].parent = q}
        BY <1>1, <1>4, <1>6, <3>2
      <4>2. tasks'[revisions'[q].task].head = tasks[revisions[q].task].head
        BY <1>5, <1>6, <1>9, <3>2
      <4> QED
        BY <3>2, <4>1, <4>2 DEF TaskInv, IntentChains, Successors, IntentHead
    <3> QED
      BY <1>6, <3>1, <3>2
  <2> QED
    BY <2>1, <2>2, <2>3, <2>4 DEF IntentChains, Successors, IntentHead
<1> QED
  BY <1>5, <1>6, <1>7, <1>8, <1>10

\* The successor of the Head prolongs the chain of its Task.
LEMMA Prolonged ==
    ASSUME TaskInv, NEW t \in DOMAIN tasks, NEW intent \in Intent,
           AppendRevision(t, intent, IntentHead(t))
    PROVE  /\ tasks' \in Seq(TaskRow) /\ Len(tasks') = Len(tasks) /\ revisions' \in Seq(RevisionRow)
           /\ TasksAreThere' /\ IntentChains'
<1> DEFINE r == Len(revisions) + 1
           head == tasks[t].head
           row == [task |-> t, parent |-> head, cited |-> head, intent |-> intent]
           task == [session |-> tasks[t].session, head |-> r]
<1>1. /\ tasks \in Seq(TaskRow) /\ revisions \in Seq(RevisionRow)
      /\ DOMAIN tasks = 1..Len(tasks) /\ DOMAIN revisions = 1..Len(revisions)
      /\ Len(tasks) \in Nat /\ Len(revisions) \in Nat
      /\ \A q \in DOMAIN revisions : revisions[q] \in RevisionRow
      /\ \A u \in DOMAIN tasks : tasks[u] \in TaskRow
  BY DEF TaskInv, RowTypes
<1>2. head \in DOMAIN revisions /\ revisions[head].task = t /\ head # r /\ head \in Nat /\ head # 0
  BY <1>1 DEF TaskInv, IntentChains, IntentHead
<1>3. row \in RevisionRow /\ task \in TaskRow
  BY <1>1, <1>2 DEF RevisionRow, TaskRow
<1>4. /\ tasks' = [tasks EXCEPT ![t] = task] /\ revisions' = Append(revisions, row)
  <2>1. [tasks[t] EXCEPT !.head = r] = task
    BY <1>1 DEF TaskRow
  <2> QED
    BY <2>1 DEF AppendRevision, IntentHead
<1>5. row.task = t /\ row.parent = head /\ row.cited = head /\ task.head = r
  OBVIOUS
<1> HIDE DEF row, task
<1>6. /\ tasks' \in Seq(TaskRow) /\ Len(tasks') = Len(tasks) /\ DOMAIN tasks' = DOMAIN tasks
      /\ tasks'[t] = task /\ \A u \in DOMAIN tasks \ {t} : tasks'[u] = tasks[u]
  BY <1>1, <1>3, <1>4
<1>7. /\ revisions' \in Seq(RevisionRow) /\ DOMAIN revisions' = DOMAIN revisions \cup {r}
      /\ revisions'[r] = row /\ \A q \in DOMAIN revisions : revisions'[q] = revisions[q]
  BY <1>1, <1>3, <1>4
<1> HIDE DEF head
<1>8. TasksAreThere'
  BY <1>1, <1>5, <1>6, <1>7 DEF TaskInv, TasksAreThere
<1>9. \A q \in DOMAIN revisions : revisions[q].task \in DOMAIN tasks /\ revisions[q].parent \in 0..(q - 1)
  <2>1. \A q \in DOMAIN revisions : revisions[q].parent \in Nat
    BY <1>1 DEF RevisionRow
  <2>2. \A q \in DOMAIN revisions : revisions[q].parent # 0 => revisions[q].parent \in 1..(q - 1)
    BY DEF TaskInv, IntentChains
  <2>3. \A q \in DOMAIN revisions : revisions[q].task \in DOMAIN tasks
    BY DEF TaskInv, TasksAreThere
  <2> QED
    BY <1>1, <2>1, <2>2, <2>3
<1>10. \A q \in DOMAIN revisions : revisions[q].parent # head
  BY <1>2 DEF TaskInv, IntentChains, Successors, IntentHead, head
<1>11. IntentChains'
  <2>1. \A u \in DOMAIN tasks' : /\ tasks'[u].head \in DOMAIN revisions'
                                 /\ revisions'[tasks'[u].head].task = u
    BY <1>5, <1>6, <1>7 DEF TaskInv, IntentChains, IntentHead
  <2>2. ASSUME NEW q \in DOMAIN revisions', NEW p \in DOMAIN revisions', q # p,
               revisions'[q].task = revisions'[p].task
        PROVE  revisions'[q].parent # revisions'[p].parent
    <3>1. CASE q \in DOMAIN revisions /\ p \in DOMAIN revisions
      BY <1>7, <2>2, <3>1 DEF TaskInv, IntentChains
    <3>2. CASE q = r \/ p = r
      BY <1>5, <1>7, <1>10, <2>2, <3>2
    <3> QED
      BY <1>7, <3>1, <3>2
  <2>3. ASSUME NEW q \in DOMAIN revisions', revisions'[q].parent # 0
        PROVE  /\ revisions'[q].parent \in 1..(q - 1)
               /\ revisions'[revisions'[q].parent].task = revisions'[q].task
               /\ revisions'[q].cited = revisions'[q].parent
    <3>1. CASE q \in DOMAIN revisions
      <4>1. revisions[q].parent \in DOMAIN revisions
        BY <1>1, <1>7, <1>9, <2>3, <3>1
      <4> QED
        BY <1>7, <2>3, <3>1, <4>1 DEF TaskInv, IntentChains
    <3>2. CASE q = r
      BY <1>1, <1>2, <1>5, <1>7, <3>2
    <3> QED
      BY <1>7, <3>1, <3>2
  <2>4. ASSUME NEW q \in DOMAIN revisions'
        PROVE  {p \in DOMAIN revisions' : revisions'[p].parent = q} = {}
                 <=> q = tasks'[revisions'[q].task].head
    <3>1. CASE q = r
      <4>1. \A p \in DOMAIN revisions' : revisions'[p].parent # r
        BY <1>1, <1>2, <1>5, <1>7, <1>9
      <4> QED
        BY <1>5, <1>6, <1>7, <3>1, <4>1
    <3>2. CASE q = head
      <4>1. r \in {p \in DOMAIN revisions' : revisions'[p].parent = q}
        BY <1>5, <1>7, <3>2
      <4>2. tasks'[revisions'[q].task].head = r
        BY <1>2, <1>5, <1>6, <1>7, <3>2
      <4> QED
        BY <1>2, <3>2, <4>1, <4>2
    <3>3. CASE q \in DOMAIN revisions \ {head}
      <4>1. {p \in DOMAIN revisions' : revisions'[p].parent = q}
              = {p \in DOMAIN revisions : revisions[p].parent = q}
        BY <1>1, <1>5, <1>7, <3>3
      <4>2. {p \in DOMAIN revisions : revisions[p].parent = q} = {}
              <=> q = tasks[revisions[q].task].head
        BY <3>3 DEF TaskInv, IntentChains, Successors, IntentHead
      <4>3. CASE revisions[q].task = t
        <5>1. q # tasks[revisions[q].task].head
          BY <3>3, <4>3 DEF head
        <5>2. tasks'[revisions'[q].task].head = r /\ q # r
          BY <1>1, <1>5, <1>6, <1>7, <3>3, <4>3
        <5> QED
          BY <4>1, <4>2, <5>1, <5>2
      <4>4. CASE revisions[q].task # t
        <5>1. tasks'[revisions'[q].task].head = tasks[revisions[q].task].head
          BY <1>6, <1>7, <1>9, <3>3, <4>4
        <5> QED
          BY <4>1, <4>2, <5>1
      <4> QED
        BY <4>3, <4>4
    <3> QED
      BY <1>7, <3>1, <3>2, <3>3
  <2> QED
    BY <2>1, <2>2, <2>3, <2>4 DEF IntentChains, Successors, IntentHead
<1> QED
  BY <1>6, <1>7, <1>8, <1>11

\* Every operation on Tasks, Intents and Signals keeps the chains.
LEMMA TaskStep == TaskInv /\ (TaskNext \/ UNCHANGED taskVars) => TaskInv'
<1> SUFFICES ASSUME TaskInv, TaskNext \/ UNCHANGED taskVars PROVE TaskInv'
  OBVIOUS
<1> USE DEF taskVars, taskRows
<1>0. /\ active \in [Sessions -> 0..Len(tasks)] /\ call \in [Callers -> Call] /\ Len(tasks) \in Nat
      /\ DOMAIN tasks = 1..Len(tasks) /\ Idle \in Call
  BY DEF TaskInv, RowTypes, Call
<1>1. ASSUME UNCHANGED <<tasks, revisions>>, active' \in [Sessions -> 0..Len(tasks)],
             call' \in [Callers -> Call]
      PROVE  TaskInv'
  <2>1. RowTypes' /\ TasksAreThere'
    BY <1>1 DEF TaskInv, RowTypes, TasksAreThere
  <2>2. IntentChains'
    BY <1>1 DEF TaskInv, IntentChains, Successors, IntentHead
  <2> QED
    BY <2>1, <2>2 DEF TaskInv
<1>2. CASE UNCHANGED taskVars
  BY <1>0, <1>1, <1>2
<1>3. ASSUME NEW c \in Callers, NEW s \in Sessions, NEW i \in Intent, ReadForNewTask(c, s, i) PROVE TaskInv'
  <2>1. /\ [op |-> "create", session |-> s, intent |-> i] \in Call
        /\ [op |-> "new", session |-> s, task |-> active[s], intent |-> i] \in Call
    BY <1>0 DEF Call
  <2> QED
    BY <1>0, <1>1, <1>3, <2>1 DEF ReadForNewTask
<1>4. ASSUME NEW c \in Callers, OpenOrCreate(c) \/ StartNewTask(c) PROVE TaskInv'
  <2>1. call[c].session \in Sessions /\ call[c].intent \in Intent
    <3>1. call[c] \in Call /\ call[c].op \in {"create", "new"}
      BY <1>0, <1>4 DEF OpenOrCreate, StartNewTask
    <3> QED
      BY <3>1 DEF Call, Idle
  <2>2. call' \in [Callers -> Call]
    BY <1>0, <1>4 DEF OpenOrCreate, StartNewTask, WithBackfilledPrompts, Return
  <2>3. InsertTask(call[c].session, call[c].intent, 0, PendingPrompts(pending, call[c].session))
    BY <1>4 DEF OpenOrCreate, StartNewTask, WithBackfilledPrompts
  <2> QED
    BY <2>1, <2>2, <2>3, Inserted DEF TaskInv, RowTypes
<1>5. ASSUME NEW c \in Callers, LeaveCall(c) PROVE TaskInv'
  BY <1>0, <1>1, <1>5 DEF LeaveCall, Return
<1>6. ASSUME NEW s \in Sessions, NEW t \in DOMAIN tasks, SwitchActiveTask(s, t) PROVE TaskInv'
  BY <1>0, <1>1, <1>6 DEF SwitchActiveTask
<1>7. ASSUME NEW s \in Sessions, NEW r \in DOMAIN revisions, NEW i \in Intent, ReselectIntent(s, r, i)
      PROVE  TaskInv'
  <2>1. revisions[r].task \in DOMAIN tasks
    BY DEF TaskInv, TasksAreThere
  <2> QED
    BY <1>0, <1>1, <1>7, <2>1 DEF ReselectIntent
<1>8. ASSUME NEW s \in Sessions, NEW r \in DOMAIN revisions, NEW i \in Intent, ContinueIntent(s, r, i)
      PROVE  TaskInv'
  <2> DEFINE t == revisions[r].task
  <2>1. t \in DOMAIN tasks
    BY DEF TaskInv, TasksAreThere
  <2>2. AppendRevision(t, i, IntentHead(t)) /\ active' = [active EXCEPT ![s] = t] /\ call' = call
    BY <1>8 DEF ContinueIntent
  <2>3. /\ tasks' \in Seq(TaskRow) /\ Len(tasks') = Len(tasks) /\ revisions' \in Seq(RevisionRow)
        /\ TasksAreThere' /\ IntentChains'
    BY <2>1, <2>2, Prolonged
  <2> QED
    BY <1>0, <2>1, <2>2, <2>3 DEF TaskInv, RowTypes
<1>9. ASSUME NEW s \in Sessions, NEW r \in DOMAIN revisions, NEW i \in Intent, ForkTask(s, r, i)
      PROVE  TaskInv'
  <2>1. InsertTask(s, i, r, <<>>) /\ call' = call
    BY <1>9 DEF ForkTask
  <2>2. r \in Nat
    BY DEF TaskInv, RowTypes
  <2> QED
    BY <1>0, <2>1, <2>2, Inserted DEF TaskInv, RowTypes
<1>10. ASSUME NEW c \in Callers, NEW s \in Sessions, NEW sg \in Signal, ReadForHook(c, s, sg) PROVE TaskInv'
  <2>1. /\ sg.kind = "prompt" => [op |-> "stash", session |-> s, content |-> sg.content] \in Call
        /\ [op |-> "merge", session |-> s, signal |-> sg] \in Call
    BY DEF Call, Signal
  <2> QED
    BY <1>0, <1>1, <1>10, <2>1 DEF ReadForHook
<1>11. ASSUME NEW c \in Callers, MergeHookSignals(c) PROVE TaskInv'
  BY <1>0, <1>1, <1>11 DEF MergeHookSignals, Return
<1>12. ASSUME NEW c \in Callers, NEW n \in 0..Len(pending), StashPendingPrompt(c, n) PROVE TaskInv'
  <2>1. /\ UNCHANGED <<active, tasks, revisions>> /\ call' = [call EXCEPT ![c] = Idle]
    BY <1>12 DEF StashPendingPrompt, Return
  <2> QED
    BY <1>0, <1>1, <2>1
<1>13. ASSUME NEW s \in Sessions, NEW n \in DOMAIN signals, SupersedeSignals(s, {n}) PROVE TaskInv'
  BY <1>0, <1>1, <1>13 DEF SupersedeSignals
<1> QED
  BY <1>2, <1>3, <1>4, <1>5, <1>6, <1>7, <1>8, <1>9, <1>10, <1>11, <1>12, <1>13 DEF TaskNext

(***************************************************************************)
(* Signals, and the prompts that wait to become one.                       *)
(***************************************************************************)
\* A selection holds every row selected, and no other.
LEMMA RowsSelected ==
    ASSUME NEW T, NEW rows \in Seq(T), NEW S \in SUBSET DOMAIN rows
    PROVE  /\ RowsAt(rows, S) \in Seq(T)
           /\ \A n \in S : \E i \in 1..Len(RowsAt(rows, S)) : RowsAt(rows, S)[i] = rows[n]
<1> DEFINE q == InOrder(S)
           len == Cardinality(S)
           picked == RowsAt(rows, S)
<1>1. IsFiniteSet(S) /\ S \in SUBSET Nat
  <2>1. Len(rows) \in Nat /\ S \in SUBSET (1..Len(rows))
    OBVIOUS
  <2> QED
    BY <2>1, RowsAreFinite
<1>2. /\ q \in Seq(S) /\ Len(q) = len /\ len \in Nat
      /\ \A i \in 1..len : q[i] \in S
      /\ \A n \in S : Rank(S, n) \in 1..len /\ q[Rank(S, n)] = n
  BY <1>1, Ordered
<1>3. picked = [i \in DOMAIN q |-> rows[q[i]]]
  BY DEF RowsAt
<1> HIDE DEF q, len, picked
<1>4. DOMAIN q = 1..len
  BY <1>2
<1>5. \A i \in 1..len : rows[q[i]] \in T
  <2>1. \A n \in DOMAIN rows : rows[n] \in T
    OBVIOUS
  <2> QED
    BY <1>2, <2>1
<1>6. picked \in [1..len -> T]
  BY <1>3, <1>4, <1>5
<1>7. picked \in Seq(T) /\ Len(picked) = len
  BY <1>2, <1>6
<1>8. \A n \in S : Rank(S, n) \in 1..Len(picked) /\ picked[Rank(S, n)] = rows[n]
  BY <1>2, <1>3, <1>4, <1>7
<1> QED
  BY <1>7, <1>8 DEF picked

\* Superseded Signals stay where they are.
LEMMA SupersededShape ==
    ASSUME NEW rows \in Seq(SignalRow), NEW which
    PROVE  Superseded(rows, which) \in Seq(SignalRow)
<1>1. DOMAIN rows = 1..Len(rows) /\ Len(rows) \in Nat /\ \A n \in DOMAIN rows : rows[n] \in SignalRow
  OBVIOUS
<1>2. ASSUME NEW n \in DOMAIN rows
      PROVE  [rows[n] EXCEPT !.live = @ /\ n \notin which] \in SignalRow
  <2>1. rows[n] \in SignalRow
    BY <1>1
  <2> QED
    BY <2>1 DEF SignalRow
<1> DEFINE new == Superseded(rows, which)
           n == Len(rows)
<1>3. new \in [1..n -> SignalRow]
  BY <1>1, <1>2 DEF Superseded
<1>4. n \in Nat
  BY <1>1
<1> HIDE DEF new, n
<1>5. new \in Seq(SignalRow)
  BY <1>3, <1>4
<1> QED
  BY <1>5 DEF new

\* The prompts a Task starts with become Signals of it.
LEMMA SignalsInserted ==
    ASSUME TaskInv, PromptInv, NEW s, NEW intent, NEW cited, NEW prompts \in Seq(PromptRow),
           InsertTask(s, intent, cited, prompts)
    PROVE  /\ signals' \in Seq(SignalRow)
           /\ Len(signals) \in Nat /\ Len(signals') = Len(signals) + Len(prompts)
           /\ \A i \in 1..Len(prompts) :
                  /\ signals'[Len(signals) + i].signal = [kind |-> "prompt", content |-> prompts[i].content]
                  /\ signals'[Len(signals) + i].task = Len(tasks) + 1
<1> DEFINE t == Len(tasks) + 1
           len == Len(prompts)
           row(i) == [task |-> t, live |-> TRUE,
                      signal |-> [kind |-> "prompt", content |-> prompts[i].content]]
           added == [i \in DOMAIN prompts |-> row(i)]
<1>1. signals' = signals \o added
  BY DEF InsertTask
<1>2. /\ signals \in Seq(SignalRow) /\ Len(signals) \in Nat /\ t \in Nat
      /\ DOMAIN prompts = 1..len /\ len \in Nat /\ \A i \in 1..len : prompts[i] \in PromptRow
  BY DEF TaskInv, RowTypes, PromptInv
<1>3. \A i \in 1..len : /\ row(i) \in SignalRow /\ row(i).task = t
                        /\ row(i).signal = [kind |-> "prompt", content |-> prompts[i].content]
  BY <1>2 DEF SignalRow, Signal, PromptRow
<1>4. added \in Seq(SignalRow) /\ Len(added) = len /\ \A i \in 1..len : added[i] = row(i)
  <2> HIDE DEF row, len
  <2>1. added \in [1..len -> SignalRow]
    BY <1>2, <1>3
  <2> QED
    BY <1>2, <2>1
<1> HIDE DEF row, added, len, t
<1>5. /\ signals' \in Seq(SignalRow) /\ Len(signals') = Len(signals) + len
      /\ \A i \in 1..len : signals'[Len(signals) + i] = added[i]
  <2>1. /\ signals' \in Seq(SignalRow) /\ Len(signals') = Len(signals) + Len(added)
        /\ \A i \in 1..(Len(signals) + Len(added)) :
               signals'[i] = IF i <= Len(signals) THEN signals[i] ELSE added[i - Len(signals)]
    BY <1>1, <1>2, <1>4, ConcatProperties
  <2>2. ASSUME NEW i \in 1..len PROVE signals'[Len(signals) + i] = added[i]
    <3>1. /\ Len(signals) + i \in 1..(Len(signals) + len) /\ ~(Len(signals) + i <= Len(signals))
          /\ (Len(signals) + i) - Len(signals) = i
      BY <1>2
    <3> QED
      BY <1>4, <2>1, <3>1
  <2> QED
    BY <1>4, <2>1, <2>2
<1>6. ASSUME NEW i \in 1..len
      PROVE  /\ signals'[Len(signals) + i].signal = [kind |-> "prompt", content |-> prompts[i].content]
             /\ signals'[Len(signals) + i].task = t
  BY <1>3, <1>4, <1>5
<1>7. Len(signals) \in Nat
  BY <1>2
<1> QED
  BY <1>5, <1>6, <1>7 DEF len, t

\* The Task that is created takes the prompts of its Session and leaves those of the others.
LEMMA PromptsTaken ==
    ASSUME TaskInv, PromptInv, NEW c \in Callers, NEW s \in Sessions, WithBackfilledPrompts(c, s)
    PROVE  PromptInv' /\ \A n \in DOMAIN pending : Kept(n) \/ Taken(n)
<1> DEFINE mine == {n \in DOMAIN pending : pending[n].session = s}
           others == {n \in DOMAIN pending : pending[n].session # s}
           prompts == RowsAt(pending, mine)
<1>1. /\ InsertTask(s, call[c].intent, 0, prompts) /\ pending' = RowsAt(pending, others)
  BY DEF WithBackfilledPrompts, PendingPrompts, Drained
<1>2. pending \in Seq(PromptRow) /\ mine \in SUBSET DOMAIN pending /\ others \in SUBSET DOMAIN pending
  BY DEF PromptInv
<1>3. \A n \in DOMAIN pending : n \in mine \/ n \in others
  OBVIOUS
<1>4. \A n \in mine : pending[n].session = s
  OBVIOUS
<1> HIDE DEF mine, others
<1>5. /\ prompts \in Seq(PromptRow)
      /\ \A n \in mine : \E i \in 1..Len(prompts) : prompts[i] = pending[n]
  BY <1>2, RowsSelected
<1>6. /\ pending' \in Seq(PromptRow)
      /\ \A n \in others : \E i \in 1..Len(pending') : pending'[i] = pending[n]
  BY <1>1, <1>2, RowsSelected
<1> HIDE DEF prompts
<1>7. /\ signals' \in Seq(SignalRow)
      /\ Len(signals) \in Nat /\ Len(signals') = Len(signals) + Len(prompts)
      /\ \A i \in 1..Len(prompts) :
             /\ signals'[Len(signals) + i].signal = [kind |-> "prompt", content |-> prompts[i].content]
             /\ signals'[Len(signals) + i].task = Len(tasks) + 1
  BY <1>1, <1>5, SignalsInserted
<1>8. tasks'[Len(tasks) + 1].session = s /\ active'[s] = Len(tasks) + 1
  <2>1. /\ tasks \in Seq(TaskRow) /\ Len(tasks) \in Nat
        /\ active \in [Sessions -> 0..Len(tasks)]
    BY DEF TaskInv, RowTypes
  <2>2. PICK task : tasks' = Append(tasks, task) /\ task.session = s
    <3>1. tasks' = Append(tasks, [session |-> s, head |-> Len(revisions) + 1])
      BY <1>1 DEF InsertTask
    <3>2. [session |-> s, head |-> Len(revisions) + 1].session = s
      OBVIOUS
    <3> QED
      BY <3>1, <3>2
  <2>3. active' = [active EXCEPT ![s] = Len(tasks) + 1]
    BY <1>1 DEF InsertTask
  <2>4. tasks'[Len(tasks) + 1] = task
    <3>1. \A q : Append(tasks, q)[Len(tasks) + 1] = q
      BY <2>1
    <3> QED
      BY <2>2, <3>1
  <2>5. active'[s] = Len(tasks) + 1
    BY <2>1, <2>3
  <2> QED
    BY <2>2, <2>4, <2>5
<1>9. \A n \in others : Kept(n)
  BY <1>6 DEF Kept, Contains
<1>10. ASSUME NEW n \in mine PROVE Taken(n)
  <2>1. PICK i \in 1..Len(prompts) : prompts[i] = pending[n]
    BY <1>5
  <2> DEFINE k == Len(signals) + i
  <2>2. k \in DOMAIN signals' \ DOMAIN signals
    <3>1. DOMAIN signals' = 1..Len(signals') /\ DOMAIN signals = 1..Len(signals) /\ Len(prompts) \in Nat
      BY <1>5, <1>7 DEF PromptInv
    <3> QED
      BY <1>7, <3>1
  <2>3. /\ signals'[k].signal = [kind |-> "prompt", content |-> pending[n].content]
        /\ signals'[k].task = Len(tasks) + 1
    BY <1>7, <2>1
  <2> HIDE DEF k
  <2> QED
    BY <1>4, <1>8, <2>2, <2>3 DEF Taken
<1> QED
  BY <1>3, <1>6, <1>7, <1>9, <1>10 DEF PromptInv

\* A prompt that is held may displace older ones, and only those.
LEMMA PromptHeld ==
    ASSUME TaskInv, PromptInv, NEW c \in Callers, NEW expired, StashPendingPrompt(c, expired)
    PROVE  PromptInv' /\ \A n \in DOMAIN pending : Kept(n) \/ Displaced(n)
<1> DEFINE row == [session |-> call[c].session, content |-> call[c].content]
           len == Len(pending)
           kept == SubSeq(pending, expired + 1, len)
           rows == Append(kept, row)
           over == IF Len(rows) > StashRows THEN Len(rows) - StashRows ELSE 0
           k == expired + over
<1>1. /\ call[c].op = "stash" /\ expired \in 0..len
      /\ pending' = SubSeq(rows, over + 1, Len(rows)) /\ UNCHANGED signals
  BY DEF StashPendingPrompt
<1>2. pending \in Seq(PromptRow) /\ len \in Nat /\ DOMAIN pending = 1..len /\ expired \in Nat /\ expired <= len
  BY <1>1 DEF PromptInv
<1>3. row \in PromptRow
  <2>1. call[c] \in Call /\ call[c].op = "stash"
    BY <1>1 DEF TaskInv, RowTypes
  <2>2. call[c].session \in Sessions /\ call[c].content \in Prompts
    BY <2>1 DEF Call, Idle
  <2> QED
    BY <2>2 DEF PromptRow
<1> HIDE DEF row, len
<1>4. /\ kept \in Seq(PromptRow) /\ Len(kept) = len - expired
      /\ \A i \in 1..(len - expired) : kept[i] = pending[expired + i]
  BY <1>2 DEF len
<1> HIDE DEF kept
<1>5. /\ rows \in Seq(PromptRow) /\ Len(rows) = len - expired + 1
      /\ \A i \in 1..(len - expired) : rows[i] = pending[expired + i]
  BY <1>2, <1>3, <1>4
<1> HIDE DEF rows
<1>6. over \in Nat /\ over <= len - expired
  BY <1>2, <1>5, BudgetAssumption DEF BudgetAssumption
<1> HIDE DEF over
<1>7. k \in Nat /\ k <= len /\ over + (len - k) = len - expired
  BY <1>2, <1>6
<1>8. /\ pending' \in Seq(PromptRow) /\ Len(pending') = len - k + 1
      /\ \A i \in 1..(len - k) : pending'[i] = pending[k + i]
  <2>1. /\ pending' \in Seq(PromptRow) /\ Len(pending') = len - expired + 1 - over
        /\ \A i \in 1..(len - expired + 1 - over) : pending'[i] = rows[over + i]
    BY <1>1, <1>2, <1>5, <1>6
  <2>2. ASSUME NEW i \in 1..(len - k) PROVE pending'[i] = pending[k + i]
    <3>1. over + i \in 1..(len - expired) /\ expired + (over + i) = k + i /\ i \in 1..(len - expired + 1 - over)
      BY <1>2, <1>6, <1>7
    <3> QED
      BY <1>5, <2>1, <3>1
  <2> QED
    BY <1>2, <1>6, <2>1, <2>2
<1> HIDE DEF k
<1>9. ASSUME NEW n \in DOMAIN pending, n > k PROVE Kept(n)
  <2>1. n - k \in 1..(len - k) /\ k + (n - k) = n /\ n - k \in 1..Len(pending')
    BY <1>2, <1>7, <1>8, <1>9
  <2>2. pending'[n - k] = pending[n]
    BY <1>8, <2>1
  <2> QED
    BY <2>1, <2>2 DEF Kept, Contains
<1>10. ASSUME NEW n \in DOMAIN pending, n <= k PROVE Displaced(n)
  <2>1. pending' # <<>>
    BY <1>2, <1>7, <1>8
  <2>2. k \in n..Len(pending)
    BY <1>2, <1>7, <1>10 DEF len
  <2> DEFINE front == Front(pending')
             rest == SubSeq(pending, k + 1, Len(pending))
  <2>3. /\ front \in Seq(PromptRow) /\ Len(front) = len - k
        /\ \A i \in 1..(len - k) : front[i] = pending'[i]
    <3>1. front = SubSeq(pending', 1, len - k)
      BY <1>2, <1>7, <1>8 DEF Front
    <3>2. \A i \in 1..(len - k) : pending'[i] \in PromptRow /\ 1 + i - 1 = i
      BY <1>2, <1>7, <1>8
    <3>3. 1 \in Int /\ len - k \in Int /\ (len - k) - 1 + 1 = len - k /\ (1 > len - k => len - k = 0)
      BY <1>2, <1>7
    <3> QED
      BY <3>1, <3>2, <3>3, SubSeqProperties
  <2>4. /\ rest \in Seq(PromptRow) /\ Len(rest) = len - k
        /\ \A i \in 1..(len - k) : rest[i] = pending[k + i]
    <3>1. rest = SubSeq(pending, k + 1, len)
      BY DEF len
    <3>2. \A i \in (k + 1)..len : pending[i] \in PromptRow
      BY <1>2, <1>7
    <3>3. /\ k + 1 \in Int /\ len \in Int /\ len - (k + 1) + 1 = len - k
          /\ (k + 1 > len => len - k = 0) /\ \A i \in 1..(len - k) : (k + 1) + i - 1 = k + i
      BY <1>2, <1>7
    <3> QED
      BY <3>1, <3>2, <3>3, SubSeqProperties
  <2>5. \A i \in 1..(len - k) : front[i] = rest[i]
    BY <1>8, <2>3, <2>4
  <2> HIDE DEF front, rest
  <2>6. front = rest
    BY <2>3, <2>4, <2>5, SeqEqual
  <2> QED
    BY <2>1, <2>2, <2>6 DEF Displaced, front, rest
<1>11. \A n \in DOMAIN pending : n > k \/ n <= k
  BY <1>2, <1>7
<1> QED
  BY <1>1, <1>8, <1>9, <1>10, <1>11 DEF PromptInv

\* What any operation on Tasks does to the prompts that are held.
LEMMA PromptStep ==
    TaskInv /\ PromptInv /\ TaskNext
      => PromptInv' /\ \A n \in DOMAIN pending : Kept(n) \/ Taken(n) \/ Displaced(n)
<1> SUFFICES ASSUME TaskInv, PromptInv, TaskNext
             PROVE  PromptInv' /\ \A n \in DOMAIN pending : Kept(n) \/ Taken(n) \/ Displaced(n)
  OBVIOUS
<1> DEFINE Goal == PromptInv' /\ \A n \in DOMAIN pending : Kept(n) \/ Taken(n) \/ Displaced(n)
<1>1. /\ signals \in Seq(SignalRow) /\ pending \in Seq(PromptRow)
      /\ DOMAIN pending = 1..Len(pending) /\ call \in [Callers -> Call]
  BY DEF TaskInv, RowTypes, PromptInv
<1>2. ASSUME UNCHANGED pending, signals' \in Seq(SignalRow) PROVE Goal
  BY <1>1, <1>2 DEF PromptInv, Kept, Contains
<1> HIDE DEF Goal
<1>3. ASSUME NEW c \in Callers, NEW s \in Sessions, NEW i \in Intent, ReadForNewTask(c, s, i) PROVE Goal
  BY <1>1, <1>2, <1>3 DEF ReadForNewTask, taskRows
<1>4. ASSUME NEW c \in Callers, OpenOrCreate(c) \/ StartNewTask(c) PROVE Goal
  <2>1. WithBackfilledPrompts(c, call[c].session) /\ call[c].op \in {"create", "new"}
    BY <1>4 DEF OpenOrCreate, StartNewTask
  <2>2. call[c] \in Call
    BY <1>1
  <2>3. call[c].session \in Sessions
    BY <2>1, <2>2 DEF Call, Idle
  <2> QED
    BY <2>1, <2>3, PromptsTaken DEF Goal
<1>5. ASSUME NEW c \in Callers, LeaveCall(c) PROVE Goal
  BY <1>1, <1>2, <1>5 DEF LeaveCall, taskRows
<1>6. ASSUME NEW s \in Sessions, NEW t \in DOMAIN tasks, SwitchActiveTask(s, t) PROVE Goal
  BY <1>1, <1>2, <1>6 DEF SwitchActiveTask
<1>7. ASSUME NEW s \in Sessions, NEW r \in DOMAIN revisions, NEW i \in Intent,
             ReselectIntent(s, r, i) \/ ContinueIntent(s, r, i)
      PROVE  Goal
  BY <1>1, <1>2, <1>7 DEF ReselectIntent, ContinueIntent
<1>8. ASSUME NEW s \in Sessions, NEW r \in DOMAIN revisions, NEW i \in Intent, ForkTask(s, r, i)
      PROVE  Goal
  <2>1. InsertTask(s, i, r, <<>>) /\ UNCHANGED pending
    BY <1>8 DEF ForkTask
  <2>2. <<>> \in Seq(PromptRow)
    OBVIOUS
  <2>3. signals' \in Seq(SignalRow)
    BY <2>1, <2>2, SignalsInserted
  <2> QED
    BY <1>2, <2>1, <2>3
<1>9. ASSUME NEW c \in Callers, NEW s \in Sessions, NEW sg \in Signal, ReadForHook(c, s, sg) PROVE Goal
  BY <1>1, <1>2, <1>9 DEF ReadForHook, taskRows
<1>10. ASSUME NEW c \in Callers, MergeHookSignals(c) PROVE Goal
  <2> DEFINE t == active[call[c].session]
             sg == call[c].signal
             rows == InsertSignal(signals, t, sg)
             row == [task |-> t, signal |-> sg, live |-> TRUE]
  <2>1. signals' = Superseded(rows, Excess(rows, t, sg.kind)) /\ UNCHANGED pending /\ call[c].op = "merge"
    BY <1>10 DEF MergeHookSignals, EnforceSignalRetention
  <2>2. call[c] \in Call
    BY <1>1
  <2>3. call[c].session \in Sessions /\ sg \in Signal
    BY <2>1, <2>2 DEF Call, Idle
  <2>4. t \in Nat
    BY <2>3 DEF TaskInv, RowTypes
  <2>5. row \in SignalRow
    BY <2>3, <2>4 DEF SignalRow
  <2>6. rows = signals \/ rows = Append(signals, row)
    BY DEF InsertSignal
  <2> HIDE DEF rows, row
  <2>7. rows \in Seq(SignalRow)
    BY <1>1, <2>5, <2>6
  <2>8. signals' \in Seq(SignalRow)
    BY <2>1, <2>7, SupersededShape
  <2> QED
    BY <1>2, <2>1, <2>8
<1>11. ASSUME NEW c \in Callers, NEW n \in 0..Len(pending), StashPendingPrompt(c, n) PROVE Goal
  BY <1>11, PromptHeld DEF Goal
<1>12. ASSUME NEW s \in Sessions, NEW n \in DOMAIN signals, SupersedeSignals(s, {n}) PROVE Goal
  <2>1. signals' = Superseded(signals, {n}) /\ UNCHANGED pending
    BY <1>12 DEF SupersedeSignals
  <2> QED
    BY <1>1, <1>2, <2>1, SupersededShape
<1>13. Goal
  BY <1>3, <1>4, <1>5, <1>6, <1>7, <1>8, <1>9, <1>10, <1>11, <1>12 DEF TaskNext
<1> QED
  BY <1>13 DEF Goal

(***************************************************************************)
(* Episodes and their Checkpoints.                                         *)
(***************************************************************************)
\* LatestOf gives the greatest.
LEMMA Latest ==
    ASSUME NEW S, S \subseteq Nat, NEW k \in S, \A m \in S : m <= k
    PROVE  LatestOf(S) = k
<1> DEFINE P(n) == n \in S /\ \A m \in S : m <= n
<1>1. P(k)
  OBVIOUS
<1>2. \A n : P(n) => n = k
  OBVIOUS
<1>3. LatestOf(S) = CHOOSE n : P(n)
  BY DEF LatestOf
<1> HIDE DEF P
<1> QED
  BY <1>1, <1>2, <1>3

\* A new Episode is open and refers to nothing.
LEMMA NewEpisodeShape ==
    ASSUME NEW t
    PROVE  /\ IsEpisode(NewEpisode(t)) /\ NewEpisode(t).open /\ NewEpisode(t).build = NoBuild
           /\ NewEpisode(t).task = t /\ NewEpisode(t).intents = <<>>
BY DEF IsEpisode, NewEpisode

\* New references change nothing else of the row.
LEMMA RefsShape ==
    ASSUME NEW ep, IsEpisode(ep)
    PROVE  /\ IsEpisode(AllRefs(ep)) /\ AllRefs(ep).open = ep.open
           /\ AllRefs(ep).build = ep.build /\ AllRefs(ep).final = ep.final
           /\ AllRefs(ep).task = ep.task
           /\ AllRefs(ep).intents = ep.intents \o Missing(ep.intents, Chain(ep.task))
<1> DEFINE intents == ep.intents \o Missing(ep.intents, Chain(ep.task))
           signs == ep.signals \o Missing(ep.signals, SignalRows(ep.task))
<1>1. AllRefs(ep) = [ep EXCEPT !.intents = intents, !.signals = signs]
  BY DEF AllRefs
<1> HIDE DEF intents, signs
<1>2. /\ IsEpisode(AllRefs(ep)) /\ AllRefs(ep).open = ep.open
      /\ AllRefs(ep).build = ep.build /\ AllRefs(ep).final = ep.final
      /\ AllRefs(ep).task = ep.task /\ AllRefs(ep).intents = intents
  BY <1>1 DEF IsEpisode
<1> QED
  BY <1>2 DEF intents

\* A new version changes no reference.
LEMMA VersionShape ==
    ASSUME NEW ep, IsEpisode(ep)
    PROVE  /\ IsEpisode(AdvanceEpisodeVersion(ep)) /\ AdvanceEpisodeVersion(ep).open = ep.open
           /\ AdvanceEpisodeVersion(ep).build = ep.build
           /\ AdvanceEpisodeVersion(ep).task = ep.task /\ AdvanceEpisodeVersion(ep).intents = ep.intents
BY DEF IsEpisode, AdvanceEpisodeVersion

\* The last version closes the row.
LEMMA CloseShape ==
    ASSUME NEW ep, IsEpisode(ep), NEW k
    PROVE  /\ IsEpisode(CloseEpisodeVersion(ep, k)) /\ ~CloseEpisodeVersion(ep, k).open
           /\ CloseEpisodeVersion(ep, k).build = ep.build /\ CloseEpisodeVersion(ep, k).final = k
           /\ CloseEpisodeVersion(ep, k).task = ep.task /\ CloseEpisodeVersion(ep, k).intents = ep.intents
BY DEF IsEpisode, CloseEpisodeVersion

\* A Build changes nothing else of the row.
LEMMA BuildShape ==
    ASSUME NEW ep, IsEpisode(ep), NEW b
    PROVE  /\ IsEpisode([ep EXCEPT !.build = b]) /\ [ep EXCEPT !.build = b].open = ep.open
           /\ [ep EXCEPT !.build = b].build = b /\ [ep EXCEPT !.build = b].final = ep.final
           /\ [ep EXCEPT !.build = b].task = ep.task /\ [ep EXCEPT !.build = b].intents = ep.intents
BY DEF IsEpisode

\* The Episode a Checkpoint goes to is open, or comes last and is new.
LEMMA Opened ==
    ASSUME EpisodeInv, NEW t
    PROVE  LET e == OpenEpisode(t)
               rows == WithOpenEpisode(t)
           IN  /\ e \in DOMAIN episodes => episodes[e].open
               /\ e \in DOMAIN rows /\ rows \in Seq(Range(episodes) \cup {NewEpisode(t)})
               /\ DOMAIN rows = DOMAIN episodes \cup {e}
               /\ e \in Nat /\ IsEpisode(rows[e]) /\ rows[e].open /\ rows[e].build = NoBuild
               /\ rows[e].task = t
               /\ e \notin DOMAIN episodes => rows[e].intents = <<>>
               /\ \A f \in DOMAIN episodes : rows[f] = episodes[f]
               /\ e \notin DOMAIN episodes => e = Len(episodes) + 1
<1>1. /\ episodes \in Seq(Range(episodes)) /\ DOMAIN episodes = 1..Len(episodes) /\ Len(episodes) \in Nat
      /\ \A f \in DOMAIN episodes : IsEpisode(episodes[f])
  BY DEF EpisodeInv, EpisodeRows
<1> DEFINE new == NewEpisode(t)
           S == Range(episodes) \cup {new}
<1>2. episodes \in Seq(S)
  BY <1>1
<1>3. CASE OpenEpisodes(t) = {}
  <2>1. WithOpenEpisode(t) = Append(episodes, new) /\ OpenEpisode(t) = Len(episodes) + 1
    BY <1>3 DEF WithOpenEpisode, OpenEpisode
  <2>2. /\ IsEpisode(new) /\ new.open /\ new.build = NoBuild
        /\ new.task = t /\ new.intents = <<>>
    BY NewEpisodeShape
  <2> HIDE DEF new
  <2>3. new \in S
    OBVIOUS
  <2> HIDE DEF S
  <2>4. /\ Append(episodes, new) \in Seq(S)
        /\ DOMAIN Append(episodes, new) = DOMAIN episodes \cup {Len(episodes) + 1}
        /\ Append(episodes, new)[Len(episodes) + 1] = new
        /\ \A f \in DOMAIN episodes : Append(episodes, new)[f] = episodes[f]
    BY <1>1, <1>2, <2>3
  <2> QED
    BY <1>1, <2>1, <2>2, <2>4 DEF S, new
<1>4. CASE OpenEpisodes(t) # {}
  <2>1. WithOpenEpisode(t) = episodes /\ OpenEpisode(t) \in OpenEpisodes(t)
    BY <1>4 DEF WithOpenEpisode, OpenEpisode
  <2>2. /\ OpenEpisode(t) \in DOMAIN episodes /\ episodes[OpenEpisode(t)].open
        /\ episodes[OpenEpisode(t)].task = t
    BY <2>1 DEF OpenEpisodes
  <2> QED
    BY <1>1, <1>2, <2>1, <2>2 DEF EpisodeInv, ClosedFirst
<1> QED
  BY <1>3, <1>4

\* The open row of a Task, brought up to date, is still open and has no Build.
LEMMA OpenedRefs ==
    ASSUME EpisodeInv, NEW t
    PROVE  LET refs == AllRefs(WithOpenEpisode(t)[OpenEpisode(t)])
           IN  IsEpisode(refs) /\ refs.open /\ refs.build = NoBuild
<1> DEFINE row == WithOpenEpisode(t)[OpenEpisode(t)]
<1>1. IsEpisode(row) /\ row.open /\ row.build = NoBuild
  BY Opened
<1> HIDE DEF row
<1>2. IsEpisode(AllRefs(row)) /\ AllRefs(row).open = row.open /\ AllRefs(row).build = row.build
  BY <1>1, RefsShape
<1>3. IsEpisode(AllRefs(row)) /\ AllRefs(row).open /\ AllRefs(row).build = NoBuild
  BY <1>1, <1>2
<1> QED
  BY <1>3 DEF row

\* The table after a write to one row of it.
LEMMA Written ==
    ASSUME NEW T, NEW rows \in Seq(T), NEW e \in DOMAIN rows, NEW ep
    PROVE  LET new == [rows EXCEPT ![e] = ep] IN
           /\ new \in Seq(Range(new)) /\ DOMAIN new = DOMAIN rows
           /\ new[e] = ep /\ \A f \in DOMAIN rows \ {e} : new[f] = rows[f]
<1> DEFINE new == [rows EXCEPT ![e] = ep]
<1>1. DOMAIN rows = 1..Len(rows) /\ Len(rows) \in Nat
  OBVIOUS
<1>2. new \in [1..Len(rows) -> Range(new)]
  BY <1>1 DEF Range
<1>3. new \in Seq(Range(new))
  <2> DEFINE R == Range(new)
             n == Len(rows)
  <2>1. new \in [1..n -> R] /\ n \in Nat
    BY <1>1, <1>2
  <2> HIDE DEF new, R, n
  <2>2. new \in Seq(R)
    BY <2>1
  <2> QED
    BY <2>2 DEF R
<1> QED
  BY <1>3

\* What a step does to one row of the table, the Checkpoints as they are.
Rewritten(e) ==
    /\ episodes' \in Seq(Range(episodes')) /\ IsEpisode(episodes'[e])
    /\ DOMAIN episodes' = DOMAIN episodes \cup {e}
    /\ \A f \in DOMAIN episodes \ {e} : episodes'[f] = episodes[f]
    /\ episodes'[e].open => episodes'[e].build = NoBuild

\* A row is written, and the Checkpoints stay as they are.
LEMMA CheckpointKept ==
    ASSUME EpisodeInv, NEW e, Rewritten(e), UNCHANGED checkpoints,
           \/ e \notin DOMAIN episodes
           \/ e \in DOMAIN episodes /\ episodes[e].open
           \/ /\ e \in DOMAIN episodes /\ ~episodes'[e].open
              /\ episodes'[e].final = episodes[e].final,
           episodes'[e].build \in {NoBuild, CheckpointsOf(checkpoints, e)},
           ~episodes'[e].open => episodes'[e].final = LatestOf(CheckpointsOf(checkpoints, e))
    PROVE  EpisodeInv'
<1>1. EpisodeRows'
  BY DEF Rewritten, EpisodeInv, EpisodeRows
<1>2. \A k \in DOMAIN checkpoints :
         /\ checkpoints[k].episode \in DOMAIN episodes
         /\ checkpoints[k].operation => /\ ~episodes[checkpoints[k].episode].open
                                        /\ episodes[checkpoints[k].episode].final = k
  BY DEF EpisodeInv, EpisodeRows, ClosedFirst, OneCheckpointPerOperation
<1>3. \A k \in DOMAIN checkpoints : checkpoints[k].operation =>
         /\ ~episodes'[checkpoints[k].episode].open
         /\ episodes'[checkpoints[k].episode].final = k
  BY <1>2 DEF Rewritten
<1>4. ClosedFirst'
  BY <1>3 DEF Rewritten, EpisodeInv, ClosedFirst
<1>5. OneCheckpointPerOperation'
  BY <1>3 DEF EpisodeInv, OneCheckpointPerOperation
<1>6. EveryClaimIsQueued'
  BY DEF Rewritten, EpisodeInv, EveryClaimIsQueued
<1> QED
  BY <1>1, <1>4, <1>5, <1>6 DEF EpisodeInv

\* A row is written together with a new Checkpoint of it.
LEMMA CheckpointAdded ==
    ASSUME EpisodeInv, NEW e \in Nat, Rewritten(e), e \in DOMAIN episodes => episodes[e].open,
           NEW row \in CheckpointRow, row.episode = e, checkpoints' = Append(checkpoints, row),
           episodes'[e].build \in {NoBuild, CheckpointsOf(checkpoints', e)},
           ~episodes'[e].open => episodes'[e].final = Len(checkpoints) + 1,
           row.operation =>
               /\ ~episodes'[e].open
               /\ \A j \in DOMAIN checkpoints :
                      ~(/\ checkpoints[j].operation /\ checkpoints[j].intent = row.intent
                        /\ checkpoints[j].content = row.content)
    PROVE  EpisodeInv'
<1> DEFINE k == Len(checkpoints) + 1
<1>1. /\ checkpoints \in Seq(CheckpointRow) /\ DOMAIN checkpoints = 1..Len(checkpoints)
      /\ Len(checkpoints) \in Nat
      /\ \A j \in DOMAIN checkpoints : checkpoints[j].episode \in DOMAIN episodes
  BY DEF EpisodeInv, EpisodeRows
<1>2. /\ checkpoints' \in Seq(CheckpointRow) /\ DOMAIN checkpoints' = DOMAIN checkpoints \cup {k}
      /\ checkpoints'[k] = row /\ k \notin DOMAIN checkpoints
      /\ \A j \in DOMAIN checkpoints : checkpoints'[j] = checkpoints[j] /\ j \in Nat /\ j < k
  BY <1>1
<1>3. EpisodeRows'
  BY <1>1, <1>2 DEF Rewritten, EpisodeInv, EpisodeRows
<1>4. \A j \in DOMAIN checkpoints : checkpoints[j].operation =>
         /\ checkpoints[j].episode # e
         /\ ~episodes[checkpoints[j].episode].open
         /\ episodes[checkpoints[j].episode].final = j
  BY <1>1 DEF EpisodeInv, ClosedFirst, OneCheckpointPerOperation
<1>5. \A j \in DOMAIN checkpoints' : checkpoints'[j].operation =>
         /\ ~episodes'[checkpoints'[j].episode].open
         /\ episodes'[checkpoints'[j].episode].final = j
  <2>1. ASSUME NEW j \in DOMAIN checkpoints, checkpoints[j].operation
        PROVE  /\ ~episodes'[checkpoints[j].episode].open
               /\ episodes'[checkpoints[j].episode].final = j
    BY <1>1, <1>4, <2>1 DEF Rewritten
  <2> QED
    BY <1>2, <2>1
<1>6. ClosedFirst'
  BY <1>5 DEF Rewritten, EpisodeInv, ClosedFirst
<1>7. OneCheckpointPerOperation'
  BY <1>2, <1>5 DEF EpisodeInv, OneCheckpointPerOperation
<1>8. EveryClaimIsQueued'
  <2>1. \A f \in DOMAIN episodes \ {e} : CheckpointsOf(checkpoints', f) = CheckpointsOf(checkpoints, f)
    BY <1>2 DEF CheckpointsOf
  <2>2. LatestOf(CheckpointsOf(checkpoints', e)) = k
    <3>1. /\ k \in CheckpointsOf(checkpoints', e) /\ CheckpointsOf(checkpoints', e) \subseteq Nat
          /\ \A j \in CheckpointsOf(checkpoints', e) : j <= k
      BY <1>1, <1>2 DEF CheckpointsOf
    <3> QED
      BY <3>1, Latest
  <2> QED
    BY <2>1, <2>2 DEF Rewritten, EpisodeInv, EveryClaimIsQueued
<1> QED
  BY <1>3, <1>6, <1>7, <1>8 DEF EpisodeInv

\* A write to an Episode of the table.
LEMMA RowWritten ==
    ASSUME EpisodeInv, NEW e \in DOMAIN episodes, NEW ep, IsEpisode(ep), ep.open => ep.build = NoBuild,
           episodes' = [episodes EXCEPT ![e] = ep]
    PROVE  Rewritten(e) /\ episodes'[e] = ep
<1>1. episodes \in Seq(Range(episodes))
  BY DEF EpisodeInv, EpisodeRows
<1> DEFINE new == [episodes EXCEPT ![e] = ep]
<1>2. /\ new \in Seq(Range(new)) /\ DOMAIN new = DOMAIN episodes
      /\ new[e] = ep /\ \A f \in DOMAIN episodes \ {e} : new[f] = episodes[f]
  BY <1>1, Written
<1>3. episodes' = new
  OBVIOUS
<1> HIDE DEF new
<1> QED
  BY <1>2, <1>3 DEF Rewritten

\* A write to the open Episode of a Task, or to the new one.
LEMMA OpenRowWritten ==
    ASSUME EpisodeInv, NEW t, NEW ep, IsEpisode(ep), ep.open => ep.build = NoBuild,
           episodes' = [WithOpenEpisode(t) EXCEPT ![OpenEpisode(t)] = ep]
    PROVE  Rewritten(OpenEpisode(t)) /\ episodes'[OpenEpisode(t)] = ep
<1> DEFINE e == OpenEpisode(t)
           rows == WithOpenEpisode(t)
           T == Range(episodes) \cup {NewEpisode(t)}
           new == [rows EXCEPT ![e] = ep]
<1>1. /\ e \in DOMAIN rows /\ rows \in Seq(T) /\ DOMAIN rows = DOMAIN episodes \cup {e}
      /\ \A f \in DOMAIN episodes : rows[f] = episodes[f]
  BY Opened
<1> HIDE DEF e, rows, T
<1>2. /\ new \in Seq(Range(new)) /\ DOMAIN new = DOMAIN rows
      /\ new[e] = ep /\ \A f \in DOMAIN rows \ {e} : new[f] = rows[f]
  BY <1>1, Written
<1>3. episodes' = new
  BY DEF e, rows
<1> HIDE DEF new
<1> QED
  BY <1>1, <1>2, <1>3 DEF Rewritten, e

\* The active Task of a Session and its Head.
LEMMA ActiveTask ==
    ASSUME TaskInv, NEW s \in Sessions, active[s] # 0
    PROVE  active[s] \in DOMAIN tasks /\ IntentHead(active[s]) \in Nat
<1>1. active[s] \in DOMAIN tasks
  BY DEF TaskInv, RowTypes
<1>2. IntentHead(active[s]) \in DOMAIN revisions
  BY <1>1 DEF TaskInv, IntentChains
<1> QED
  BY <1>1, <1>2 DEF TaskInv, RowTypes

\* The row of a new Checkpoint.
LEMMA CheckpointShape ==
    ASSUME IInv, NEW s \in Sessions, active[s] # 0, NEW content \in Contents,
           NEW boundary \in {"continue", "close"}, NEW operation \in BOOLEAN
    PROVE  LET t == active[s]
               row == Checkpoint(OpenEpisode(t), t, content, boundary, operation)
           IN  /\ row \in CheckpointRow /\ row.episode = OpenEpisode(t)
               /\ row.intent = IntentHead(t) /\ row.content = content /\ row.operation = operation
<1> DEFINE t == active[s]
           e == OpenEpisode(t)
           parent == IF e \in DOMAIN episodes THEN episodes[e].version ELSE 0
<1>1. IntentHead(t) \in Nat
  BY ActiveTask DEF IInv
<1>2. e \in Nat
  BY Opened DEF IInv
<1>3. parent \in Nat
  BY DEF IInv, EpisodeInv, EpisodeRows, IsEpisode
<1> HIDE DEF t, e, parent
<1>4. Checkpoint(e, t, content, boundary, operation) =
        [episode |-> e, intent |-> IntentHead(t), content |-> content, boundary |-> boundary, operation |-> operation,
         parent |-> parent]
  BY DEF Checkpoint, parent
<1> QED
  BY <1>1, <1>2, <1>3, <1>4 DEF CheckpointRow, t, e

(***************************************************************************)
(* What an Episode refers to.                                              *)
(***************************************************************************)
\* The chain of a Task lists its revisions.
LEMMA ChainShape ==
    ASSUME TaskInv, NEW t
    PROVE  /\ Chain(t) \in Seq(Nat)
           /\ ToSet(Chain(t)) = {r \in DOMAIN revisions : revisions[r].task = t}
           /\ \A r \in DOMAIN revisions : revisions[r].task = t => Contains(Chain(t), r)
<1> DEFINE S == {r \in DOMAIN revisions : revisions[r].task = t}
<1>1. Chain(t) = InOrder(S)
  BY DEF Chain
<1>2. Len(revisions) \in Nat /\ S \in SUBSET (1..Len(revisions))
  BY DEF TaskInv, RowTypes
<1>3. \A r \in DOMAIN revisions : revisions[r].task = t => r \in S
  OBVIOUS
<1> HIDE DEF S
<1>4. IsFiniteSet(S) /\ S \in SUBSET Nat
  BY <1>2, RowsAreFinite
<1> DEFINE q == InOrder(S)
<1>5. /\ q \in Seq(S) /\ Len(q) = Cardinality(S)
      /\ \A n \in S : Rank(S, n) \in 1..Cardinality(S) /\ q[Rank(S, n)] = n
  BY <1>4, Ordered
<1> HIDE DEF q
<1>6. q \in Seq(Nat)
  BY <1>4, <1>5, SeqMonotonic
<1>7. \A n \in S : Contains(q, n)
  BY <1>5 DEF Contains
<1>8. ToSet(q) = S
  <2>1. DOMAIN q = 1..Len(q) /\ \A i \in DOMAIN q : q[i] \in S
    BY <1>5
  <2>2. \A n \in S : \E i \in DOMAIN q : q[i] = n
    BY <1>5, <2>1
  <2> QED
    BY <2>1, <2>2 DEF ToSet
<1> QED
  BY <1>1, <1>3, <1>6, <1>7, <1>8 DEF q, S

\* No reference is a beginning of every chain.
LEMMA NothingFollows ==
    ASSUME TaskInv, NEW ep, ep.intents = <<>>
    PROVE  Follows(ep)
<1>1. Len(Chain(ep.task)) \in Nat
  <2>1. Chain(ep.task) \in Seq(Nat)
    BY ChainShape
  <2> QED
    BY <2>1
<1>2. ep.intents \in Seq(Nat) /\ Len(ep.intents) = 0 /\ 1..Len(ep.intents) = {}
  OBVIOUS
<1> QED
  BY <1>1, <1>2 DEF Follows

\* The missing references complete those that are there to the whole chain.
LEMMA RefsComplete ==
    ASSUME TaskInv, NEW ep, IsEpisode(ep), Follows(ep)
    PROVE  AllRefs(ep).intents = Chain(ep.task) /\ AllRefs(ep).task = ep.task
<1> DEFINE S == {r \in DOMAIN revisions : revisions[r].task = ep.task}
<1>1. IsFiniteSet(S) /\ S \in SUBSET Nat
  <2>1. Len(revisions) \in Nat /\ S \in SUBSET (1..Len(revisions))
    BY DEF TaskInv, RowTypes
  <2> HIDE DEF S
  <2> QED
    BY <2>1, RowsAreFinite
<1>2. Chain(ep.task) = InOrder(S)
  BY DEF Chain
<1>3. ToSet(Chain(ep.task)) = S
  BY ChainShape
<1> HIDE DEF S
<1>4. Missing(ep.intents, Chain(ep.task)) = InOrder(S \ ToSet(ep.intents))
  BY <1>3 DEF Missing
<1>5. ep.intents \o InOrder(S \ ToSet(ep.intents)) = InOrder(S)
  <2>1. /\ ep.intents \in Seq(Nat) /\ Len(ep.intents) <= Len(InOrder(S))
        /\ \A i \in 1..Len(ep.intents) : ep.intents[i] = InOrder(S)[i]
    BY <1>2 DEF Follows
  <2> QED
    BY <1>1, <2>1, OrderCompleted
<1> QED
  BY <1>2, <1>4, <1>5, RefsShape

\* What a step does to the references of one row: nothing, or they become the whole chain.
Refers(e) ==
    /\ e \in DOMAIN episodes => episodes'[e].task = episodes[e].task
    /\ \/ episodes'[e].intents = Chain(episodes'[e].task)
       \/ e \in DOMAIN episodes /\ episodes'[e].intents = episodes[e].intents

\* The references of a row and its Checkpoints still agree after it.
LEMMA RefsKept ==
    ASSUME IInv, UNCHANGED taskVars, NEW e, Rewritten(e), Refers(e),
           \/ UNCHANGED checkpoints
           \/ \E row : /\ checkpoints' = Append(checkpoints, row) /\ row.episode = e
                       /\ Contains(episodes'[e].intents, row.intent)
    PROVE  RefsInv'
<1>1. PICK ep : ep = episodes'[e]
  OBVIOUS
<1>2. \A t : Chain(t)' = Chain(t)
  BY DEF Chain, taskVars, taskRows
<1>3. \A f \in DOMAIN episodes : Follows(episodes[f])
  BY DEF IInv, RefsInv
<1>4. Chain(ep.task) \in Seq(Nat)
  BY ChainShape DEF IInv
<1>5. Follows(ep)
  <2>1. CASE ep.intents = Chain(ep.task)
    BY <1>4, <2>1 DEF Follows
  <2>2. CASE e \in DOMAIN episodes /\ ep.intents = episodes[e].intents
    BY <1>1, <1>3, <2>2 DEF Follows, Refers
  <2> QED
    BY <1>1, <2>1, <2>2 DEF Refers
<1>6. \A f \in DOMAIN episodes' : Follows(episodes'[f])
  BY <1>1, <1>3, <1>5 DEF Rewritten
<1>7. \A f \in DOMAIN episodes' : Follows(episodes[f])'
  BY <1>2, <1>6 DEF Follows
<1>8. ASSUME e \in DOMAIN episodes, NEW x, Contains(episodes[e].intents, x) PROVE Contains(ep.intents, x)
  <2>1. Follows(episodes[e]) /\ ep.task = episodes[e].task
    BY <1>1, <1>3, <1>8 DEF Refers
  <2>2. PICK i \in 1..Len(episodes[e].intents) : episodes[e].intents[i] = x
    BY <1>8 DEF Contains
  <2>3. CASE ep.intents = Chain(ep.task)
    <3>1. i \in 1..Len(ep.intents) /\ ep.intents[i] = x
      <4>1. Len(episodes[e].intents) \in Nat /\ Len(ep.intents) \in Nat
        BY <1>4, <2>1, <2>3 DEF Follows
      <4>2. Len(episodes[e].intents) <= Len(ep.intents) /\ ep.intents[i] = episodes[e].intents[i]
        BY <2>1, <2>2, <2>3 DEF Follows
      <4> QED
        BY <2>2, <4>1, <4>2
    <3> QED
      BY <3>1 DEF Contains
  <2>4. CASE ep.intents = episodes[e].intents
    BY <1>8, <2>4
  <2> QED
    BY <1>1, <2>3, <2>4 DEF Refers
<1>9. \A k \in DOMAIN checkpoints :
         /\ checkpoints[k].episode \in DOMAIN episodes
         /\ Contains(episodes'[checkpoints[k].episode].intents, checkpoints[k].intent)
  <2>1. \A k \in DOMAIN checkpoints :
           /\ checkpoints[k].episode \in DOMAIN episodes
           /\ Contains(episodes[checkpoints[k].episode].intents, checkpoints[k].intent)
    BY DEF IInv, EpisodeInv, EpisodeRows, RefsInv
  <2>2. ASSUME NEW k \in DOMAIN checkpoints
        PROVE  Contains(episodes'[checkpoints[k].episode].intents, checkpoints[k].intent)
    <3>1. CASE checkpoints[k].episode = e
      BY <1>1, <1>8, <2>1, <3>1
    <3>2. CASE checkpoints[k].episode # e
      BY <2>1, <3>2 DEF Rewritten
    <3> QED
      BY <3>1, <3>2
  <2> QED
    BY <2>1, <2>2
<1>10. \A k \in DOMAIN checkpoints' :
          Contains(episodes'[checkpoints'[k].episode].intents, checkpoints'[k].intent)
  <2>1. CASE UNCHANGED checkpoints
    BY <1>9, <2>1
  <2>2. ASSUME NEW row, checkpoints' = Append(checkpoints, row), row.episode = e,
               Contains(episodes'[e].intents, row.intent)
        PROVE  \A k \in DOMAIN checkpoints' :
                   Contains(episodes'[checkpoints'[k].episode].intents, checkpoints'[k].intent)
    <3>1. checkpoints \in Seq(CheckpointRow)
      BY DEF IInv, EpisodeInv, EpisodeRows
    <3>2. /\ DOMAIN checkpoints' = DOMAIN checkpoints \cup {Len(checkpoints) + 1}
          /\ checkpoints'[Len(checkpoints) + 1] = row
          /\ \A k \in DOMAIN checkpoints : checkpoints'[k] = checkpoints[k]
      BY <2>2, <3>1
    <3> QED
      BY <1>9, <2>2, <3>2
  <2> QED
    BY <2>1, <2>2
<1> QED
  BY <1>7, <1>10 DEF RefsInv

\* A Checkpoint names the Head, which the references of its Episode end in.
LEMMA HeadIsReferred ==
    ASSUME IInv, NEW s \in Sessions, active[s] # 0
    PROVE  LET t == active[s]
               e == OpenEpisode(t)
               refs == AllRefs(WithOpenEpisode(t)[e])
           IN  /\ refs.intents = Chain(t) /\ refs.task = t
               /\ Contains(Chain(t), IntentHead(t))
               /\ e \in DOMAIN episodes => episodes[e].task = t
<1> DEFINE t == active[s]
           e == OpenEpisode(t)
           ep == WithOpenEpisode(t)[e]
<1>1. TaskInv /\ EpisodeInv /\ \A f \in DOMAIN episodes : Follows(episodes[f])
  BY DEF IInv, RefsInv
<1>2. /\ IsEpisode(ep) /\ ep.task = t
      /\ e \in DOMAIN episodes => ep = episodes[e]
      /\ e \notin DOMAIN episodes => ep.intents = <<>>
  <2> HIDE DEF t
  <2>0. EpisodeInv
    BY <1>1
  <2>1. IsEpisode(ep) /\ ep.task = t
    BY <2>0, Opened
  <2>2. e \in DOMAIN episodes => ep = episodes[e]
    <3> DEFINE rows == WithOpenEpisode(t)
    <3>1. \A f \in DOMAIN episodes : rows[f] = episodes[f]
      BY <2>0, Opened
    <3> HIDE DEF rows, e
    <3>2. e \in DOMAIN episodes => rows[e] = episodes[e]
      BY <3>1
    <3> QED
      BY <3>2 DEF rows
  <2>3. e \notin DOMAIN episodes => ep.intents = <<>>
    BY <2>0, Opened
  <2> QED
    BY <2>1, <2>2, <2>3
<1>3. t \in DOMAIN tasks
  BY <1>1, ActiveTask
<1>4. Contains(Chain(t), IntentHead(t))
  <2>1. IntentHead(t) \in DOMAIN revisions /\ revisions[IntentHead(t)].task = t
    BY <1>1, <1>3 DEF TaskInv, IntentChains
  <2> QED
    BY <1>1, <2>1, ChainShape
<1> HIDE DEF t, e, ep
<1>5. Follows(ep)
  <2>1. CASE e \in DOMAIN episodes
    BY <1>1, <1>2, <2>1
  <2>2. CASE e \notin DOMAIN episodes
    BY <1>1, <1>2, <2>2, NothingFollows
  <2> QED
    BY <2>1, <2>2
<1>6. AllRefs(ep).intents = Chain(t) /\ AllRefs(ep).task = t
  BY <1>1, <1>2, <1>5, RefsComplete
<1> QED
  BY <1>2, <1>4, <1>6 DEF t, e, ep

(***************************************************************************)
(* The steps of Episodes.                                                  *)
(***************************************************************************)
\* Operations on Episodes leave the Tasks as they are.
LEMMA EpisodeLeavesTasks == EpisodeNext => UNCHANGED taskVars
BY DEF EpisodeNext, OpenWorkEpisode, CloseCheckpointedWorkEpisode, AdvanceWorkEpisodeRefs,
       AppendWorkObservation, PrepareCandidateBuild, WriteAgentCheckpoint, SubmitAgentCheckpoint

\* Every operation on Episodes and Checkpoints keeps the invariant.
LEMMA EpisodeStep == IInv /\ EpisodeNext => EpisodeInv' /\ RefsInv'
<1> SUFFICES ASSUME IInv, EpisodeNext PROVE EpisodeInv' /\ RefsInv'
  OBVIOUS
<1>0. EpisodeInv /\ \A e \in DOMAIN episodes : IsEpisode(episodes[e])
  BY DEF IInv, EpisodeInv, EpisodeRows
<1>begins. TaskInv /\ \A e \in DOMAIN episodes : Follows(episodes[e])
  BY DEF IInv, RefsInv
<1>tasks. UNCHANGED taskVars
  BY EpisodeLeavesTasks
<1>1. ASSUME NEW s \in Sessions, OpenWorkEpisode(s) PROVE EpisodeInv' /\ RefsInv'
  <2> DEFINE t == active[s]
             e == OpenEpisode(t)
             ep == AllRefs(NewEpisode(t))
  <2>1. IsEpisode(ep) /\ ep.open /\ ep.build = NoBuild
    BY NewEpisodeShape, RefsShape
  <2>whole. ep.intents = Chain(ep.task)
    <3>1. Follows(NewEpisode(t))
      BY <1>begins, NewEpisodeShape, NothingFollows
    <3> QED
      BY <1>begins, <3>1, NewEpisodeShape, RefsComplete
  <2>2. OpenEpisodes(t) = {} /\ episodes' = Append(episodes, ep) /\ UNCHANGED checkpoints
    BY <1>1 DEF OpenWorkEpisode
  <2>3. e = Len(episodes) + 1
    BY <2>2 DEF OpenEpisode
  <2> HIDE DEF ep
  <2>4. /\ episodes \in Seq(Range(episodes)) /\ DOMAIN episodes = 1..Len(episodes)
        /\ Len(episodes) \in Nat
    BY <1>0 DEF EpisodeInv, EpisodeRows
  <2>5. /\ DOMAIN episodes' = DOMAIN episodes \cup {e} /\ e \notin DOMAIN episodes
        /\ episodes'[e] = ep /\ \A f \in DOMAIN episodes : episodes'[f] = episodes[f]
    BY <2>2, <2>3, <2>4
  <2>6. episodes' \in Seq(Range(episodes'))
    <3> DEFINE R == Range(episodes) \cup {ep}
    <3>1. episodes' \in Seq(R)
      <4>1. episodes \in Seq(R) /\ ep \in R
        BY <2>4
      <4> HIDE DEF R
      <4> QED
        BY <2>2, <4>1
    <3> QED
      BY <3>1 DEF Range
  <2>7. Rewritten(e)
    BY <2>1, <2>5, <2>6 DEF Rewritten
  <2>8. RefsInv'
    BY <1>tasks, <2>2, <2>5, <2>7, <2>whole, RefsKept DEF Refers
  <2> QED
    BY <1>0, <2>1, <2>2, <2>5, <2>7, <2>8, CheckpointKept
<1>2. ASSUME NEW s \in Sessions, CloseCheckpointedWorkEpisode(s) PROVE EpisodeInv' /\ RefsInv'
  <2> DEFINE t == active[s]
             e == OpenEpisode(t)
             last == LatestOf(CheckpointsOf(checkpoints, e))
             refs == AllRefs(episodes[e])
             ep == CloseEpisodeVersion(refs, last)
  <2>1. e \in DOMAIN episodes /\ episodes[e].open /\ episodes[e].build = NoBuild
    BY <1>0, <1>2 DEF CloseCheckpointedWorkEpisode, OpenEpisode, OpenEpisodes, EpisodeInv, ClosedFirst
  <2>3. episodes' = [episodes EXCEPT ![e] = ep] /\ UNCHANGED checkpoints
    BY <1>2 DEF CloseCheckpointedWorkEpisode
  <2>whole. /\ IsEpisode(refs) /\ refs.build = NoBuild
            /\ refs.intents = Chain(refs.task) /\ refs.task = episodes[e].task
    <3>1. IsEpisode(episodes[e]) /\ Follows(episodes[e])
      BY <1>0, <1>begins, <2>1
    <3>2. IsEpisode(refs) /\ refs.build = NoBuild
      BY <2>1, <3>1, RefsShape
    <3>3. refs.intents = Chain(episodes[e].task) /\ refs.task = episodes[e].task
      BY <1>begins, <3>1, RefsComplete
    <3> QED
      BY <3>2, <3>3
  <2> HIDE DEF refs
  <2>2. /\ IsEpisode(ep) /\ ~ep.open /\ ep.build = NoBuild /\ ep.final = last
        /\ ep.intents = Chain(ep.task) /\ ep.task = episodes[e].task
    BY <2>whole, CloseShape
  <2> HIDE DEF ep
  <2>4. Rewritten(e) /\ episodes'[e] = ep
    BY <1>0, <2>1, <2>2, <2>3, RowWritten
  <2>5. RefsInv'
    BY <1>tasks, <2>2, <2>3, <2>4, RefsKept DEF Refers
  <2> QED
    BY <1>0, <2>1, <2>2, <2>3, <2>4, <2>5, CheckpointKept
<1>3. ASSUME NEW e \in DOMAIN episodes, AdvanceWorkEpisodeRefs(e) \/ AppendWorkObservation(e)
      PROVE  EpisodeInv' /\ RefsInv'
  <2>1. episodes[e].open /\ episodes[e].build = NoBuild /\ UNCHANGED checkpoints
    BY <1>0, <1>3 DEF AdvanceWorkEpisodeRefs, AppendWorkObservation, IsOpen, EpisodeInv, ClosedFirst
  <2>2. ASSUME NEW ep, IsEpisode(ep), ep.open, ep.build = NoBuild, ep.task = episodes[e].task,
               ep.intents \in {Chain(ep.task), episodes[e].intents},
               episodes' = [episodes EXCEPT ![e] = ep]
        PROVE  EpisodeInv' /\ RefsInv'
    <3>1. Rewritten(e) /\ episodes'[e] = ep
      BY <1>0, <2>2, RowWritten
    <3>2. RefsInv'
      BY <1>tasks, <2>1, <2>2, <3>1, RefsKept DEF Refers
    <3> QED
      BY <1>0, <2>1, <2>2, <3>1, <3>2, CheckpointKept
  <2>3. CASE AdvanceWorkEpisodeRefs(e)
    <3> DEFINE refs == AllRefs(episodes[e])
    <3>row. IsEpisode(episodes[e]) /\ Follows(episodes[e])
      BY <1>0, <1>begins
    <3>open. IsEpisode(refs) /\ refs.open /\ refs.build = NoBuild
      BY <2>1, <3>row, RefsShape
    <3>whole. refs.intents = Chain(episodes[e].task) /\ refs.task = episodes[e].task
      BY <1>begins, <3>row, RefsComplete
    <3> HIDE DEF refs
    <3>1. LET ep == AdvanceEpisodeVersion(refs)
          IN  /\ IsEpisode(ep) /\ ep.open /\ ep.build = NoBuild
              /\ ep.task = episodes[e].task /\ ep.intents = Chain(ep.task)
      BY <3>open, <3>whole, VersionShape
    <3>2. episodes' = [episodes EXCEPT ![e] = AdvanceEpisodeVersion(AllRefs(episodes[e]))]
      BY <2>3 DEF AdvanceWorkEpisodeRefs
    <3> USE DEF refs
    <3> QED
      BY <2>2, <3>1, <3>2
  <2>4. CASE AppendWorkObservation(e)
    <3>1. LET ep == AdvanceEpisodeVersion(episodes[e])
          IN  /\ IsEpisode(ep) /\ ep.open /\ ep.build = NoBuild
              /\ ep.task = episodes[e].task /\ ep.intents = episodes[e].intents
      BY <1>0, <2>1, VersionShape
    <3>2. episodes' = [episodes EXCEPT ![e] = AdvanceEpisodeVersion(episodes[e])]
      BY <2>4 DEF AppendWorkObservation
    <3> QED
      BY <2>2, <3>1, <3>2
  <2> QED
    BY <1>3, <2>3, <2>4
<1>4. ASSUME NEW e \in DOMAIN episodes, PrepareCandidateBuild(e) PROVE EpisodeInv' /\ RefsInv'
  <2> DEFINE b == CheckpointsOf(checkpoints, e)
             ep == [episodes[e] EXCEPT !.build = b]
  <2>1. ~episodes[e].open /\ episodes' = [episodes EXCEPT ![e] = ep] /\ UNCHANGED checkpoints
    BY <1>4 DEF PrepareCandidateBuild
  <2>2. /\ IsEpisode(ep) /\ ~ep.open /\ ep.build = b /\ ep.final = episodes[e].final
        /\ ep.task = episodes[e].task /\ ep.intents = episodes[e].intents
    BY <1>0, <2>1, BuildShape
  <2>3. episodes[e].final = LatestOf(CheckpointsOf(checkpoints, e))
    BY <1>0, <2>1 DEF EpisodeInv, EveryClaimIsQueued
  <2> HIDE DEF ep
  <2>4. Rewritten(e) /\ episodes'[e] = ep
    BY <1>0, <2>1, <2>2, RowWritten
  <2>5. RefsInv'
    BY <1>tasks, <2>1, <2>2, <2>4, RefsKept DEF Refers
  <2> QED
    BY <1>0, <2>1, <2>2, <2>3, <2>4, <2>5, CheckpointKept
<1>5. ASSUME NEW s \in Sessions, NEW v \in 0..MaxVersion, NEW x \in Contents, NEW b \in {"continue", "close"},
             WriteAgentCheckpoint(s, v, x, b)
      PROVE  EpisodeInv' /\ RefsInv'
  <2> DEFINE t == active[s]
             e == OpenEpisode(t)
             row == Checkpoint(e, t, x, b, FALSE)
             k == Len(checkpoints) + 1
             refs == AllRefs(WithOpenEpisode(t)[e])
             ep == IF b = "close" THEN CloseEpisodeVersion(refs, k) ELSE AdvanceEpisodeVersion(refs)
  <2>1. t # 0 /\ checkpoints' = Append(checkpoints, row) /\ episodes' = [WithOpenEpisode(t) EXCEPT ![e] = ep]
    BY <1>5 DEF WriteAgentCheckpoint
  <2>2. IsEpisode(refs) /\ refs.open /\ refs.build = NoBuild
    BY <1>0, OpenedRefs
  <2>whole. /\ refs.intents = Chain(t) /\ refs.task = t /\ Contains(Chain(t), IntentHead(t))
            /\ e \in DOMAIN episodes => episodes[e].task = t
    BY <2>1, HeadIsReferred
  <2> HIDE DEF refs
  <2>3. /\ IsEpisode(ep) /\ ep.build = NoBuild /\ (~ep.open => ep.final = k)
        /\ ep.task = refs.task /\ ep.intents = refs.intents
    <3>1. CASE b = "close"
      BY <2>2, <3>1, CloseShape
    <3>2. CASE b # "close"
      BY <2>2, <3>2, VersionShape
    <3> QED
      BY <3>1, <3>2
  <2>4. /\ row \in CheckpointRow /\ row.episode = e /\ row.operation = FALSE
        /\ row.intent = IntentHead(t)
    BY <2>1, CheckpointShape
  <2>5. e \in Nat /\ (e \in DOMAIN episodes => episodes[e].open)
    BY <1>0, Opened
  <2> HIDE DEF ep, row
  <2>6. Rewritten(e) /\ episodes'[e] = ep
    BY <1>0, <2>1, <2>3, OpenRowWritten
  <2>7. RefsInv'
    BY <1>tasks, <2>1, <2>3, <2>4, <2>6, <2>whole, RefsKept DEF Refers
  <2> QED
    BY <1>0, <2>1, <2>3, <2>4, <2>5, <2>6, <2>7, CheckpointAdded
<1>6. ASSUME NEW s \in Sessions, NEW x \in Contents, SubmitAgentCheckpoint(s, x) PROVE EpisodeInv' /\ RefsInv'
  <2> DEFINE t == active[s]
             e == OpenEpisode(t)
             row == Checkpoint(e, t, x, "close", TRUE)
             k == Len(checkpoints) + 1
             closed == CloseEpisodeVersion(AllRefs(WithOpenEpisode(t)[e]), k)
             build == CheckpointsOf(checkpoints', e)
             ep == [closed EXCEPT !.build = build]
  <2>1. /\ t # 0 /\ SameOperation(t, x) = {} /\ checkpoints' = Append(checkpoints, row)
        /\ episodes' = [WithOpenEpisode(t) EXCEPT ![e] = ep]
    BY <1>6 DEF SubmitAgentCheckpoint
  <2>whole. /\ closed.intents = Chain(t) /\ closed.task = t /\ Contains(Chain(t), IntentHead(t))
            /\ e \in DOMAIN episodes => episodes[e].task = t
    <3>1. IsEpisode(AllRefs(WithOpenEpisode(t)[e]))
      BY <1>0, OpenedRefs
    <3>2. LET refs == AllRefs(WithOpenEpisode(t)[e])
          IN  /\ refs.intents = Chain(t) /\ refs.task = t /\ Contains(Chain(t), IntentHead(t))
              /\ e \in DOMAIN episodes => episodes[e].task = t
      BY <2>1, HeadIsReferred
    <3> DEFINE refs == AllRefs(WithOpenEpisode(t)[e])
    <3>3. closed = CloseEpisodeVersion(refs, k) /\ IsEpisode(refs) /\ refs.intents = Chain(t) /\ refs.task = t
      BY <3>1, <3>2
    <3> HIDE DEF refs, closed
    <3>4. closed.intents = Chain(t) /\ closed.task = t
      BY <3>3, CloseShape
    <3> QED
      BY <3>2, <3>4
  <2>2. IsEpisode(closed) /\ ~closed.open /\ closed.final = k
    <3> DEFINE refs == AllRefs(WithOpenEpisode(t)[e])
    <3>1. IsEpisode(refs)
      BY <1>0, OpenedRefs
    <3> HIDE DEF refs
    <3>2. IsEpisode(CloseEpisodeVersion(refs, k)) /\ ~CloseEpisodeVersion(refs, k).open
          /\ CloseEpisodeVersion(refs, k).final = k
      BY <3>1, CloseShape
    <3> QED
      BY <3>2 DEF refs
  <2> HIDE DEF closed, build
  <2>3. /\ IsEpisode(ep) /\ ~ep.open /\ ep.build = build /\ ep.final = k
        /\ ep.task = closed.task /\ ep.intents = closed.intents
    BY <2>2, BuildShape
  <2>4. /\ row \in CheckpointRow /\ row.episode = e /\ row.operation = TRUE
        /\ row.intent = IntentHead(t) /\ row.content = x
    BY <2>1, CheckpointShape
  <2>5. e \in Nat /\ (e \in DOMAIN episodes => episodes[e].open)
    BY <1>0, Opened
  <2> HIDE DEF ep, row
  <2>6. Rewritten(e) /\ episodes'[e] = ep
    BY <1>0, <2>1, <2>3, OpenRowWritten
  <2>7. \A j \in DOMAIN checkpoints :
           ~(/\ checkpoints[j].operation /\ checkpoints[j].intent = row.intent
             /\ checkpoints[j].content = row.content)
    BY <2>1, <2>4 DEF SameOperation
  <2>8. RefsInv'
    BY <1>tasks, <2>1, <2>3, <2>4, <2>6, <2>whole, RefsKept DEF Refers
  <2> QED
    BY <1>0, <2>1, <2>3, <2>4, <2>5, <2>6, <2>7, <2>8, CheckpointAdded DEF build
<1> QED
  BY <1>1, <1>2, <1>3, <1>4, <1>5, <1>6 DEF EpisodeNext

\* Operations on Tasks leave the Episodes as they are.
LEMMA EpisodeStutter == EpisodeInv /\ UNCHANGED episodeVars => EpisodeInv'
<1> SUFFICES ASSUME EpisodeInv, UNCHANGED <<episodes, checkpoints>> PROVE EpisodeInv'
  BY DEF episodeVars
<1>1. EpisodeRows' /\ ClosedFirst'
  BY DEF EpisodeInv, EpisodeRows, ClosedFirst
<1>2. OneCheckpointPerOperation' /\ EveryClaimIsQueued'
  BY DEF EpisodeInv, OneCheckpointPerOperation, EveryClaimIsQueued, CheckpointsOf
<1> QED
  BY <1>1, <1>2 DEF EpisodeInv

\* A revision that is added comes after the revisions of its chain.
LEMMA RevisionsGrow == TaskNext => UNCHANGED revisions \/ \E row : revisions' = Append(revisions, row)
<1> DEFINE Grows == \E row : revisions' = Append(revisions, row)
<1>1. ASSUME NEW c, OpenOrCreate(c) \/ StartNewTask(c) PROVE Grows
  BY <1>1 DEF OpenOrCreate, StartNewTask, WithBackfilledPrompts, InsertTask
<1>2. ASSUME NEW s, NEW r, NEW i, ContinueIntent(s, r, i) PROVE Grows
  BY <1>2 DEF ContinueIntent, AppendRevision
<1>3. ASSUME NEW s, NEW r, NEW i, ForkTask(s, r, i) PROVE Grows
  BY <1>3 DEF ForkTask, InsertTask
<1>4. ASSUME NEW s, NEW r, NEW i, ReselectIntent(s, r, i) PROVE UNCHANGED revisions
  BY <1>4 DEF ReselectIntent
<1>5. ASSUME NEW c, NEW s, NEW i, ReadForNewTask(c, s, i) \/ ReadForHook(c, s, i) PROVE UNCHANGED revisions
  BY <1>5 DEF ReadForNewTask, ReadForHook, taskRows
<1>6. ASSUME NEW c, LeaveCall(c) \/ MergeHookSignals(c) PROVE UNCHANGED revisions
  BY <1>6 DEF LeaveCall, MergeHookSignals, taskRows
<1>7. ASSUME NEW s, NEW n, SwitchActiveTask(s, n) \/ StashPendingPrompt(s, n) \/ SupersedeSignals(s, n)
      PROVE  UNCHANGED revisions
  BY <1>7 DEF SwitchActiveTask, StashPendingPrompt, SupersedeSignals
<1> HIDE DEF Grows
<1>8. TaskNext => UNCHANGED revisions \/ Grows
  BY <1>1, <1>2, <1>3, <1>4, <1>5, <1>6, <1>7 DEF TaskNext
<1> QED
  BY <1>8 DEF Grows

\* The chain of a Task stays, or is prolonged at its end.
LEMMA ChainGrows ==
    ASSUME TaskInv, NEW t, NEW row, revisions' = Append(revisions, row)
    PROVE  /\ Len(Chain(t)) \in Nat /\ Len(Chain(t)') \in Nat /\ Len(Chain(t)) <= Len(Chain(t)')
           /\ \A i \in 1..Len(Chain(t)) : Chain(t)'[i] = Chain(t)[i]
<1> DEFINE r == Len(revisions) + 1
           len == Len(revisions)
           old == {q \in DOMAIN revisions : revisions[q].task = t}
           new == {q \in DOMAIN revisions' : revisions'[q].task = t}
<1>1. revisions \in Seq(RevisionRow) /\ len \in Nat /\ DOMAIN revisions = 1..len
  BY DEF TaskInv, RowTypes
<1>2. /\ DOMAIN revisions' = DOMAIN revisions \cup {r} /\ revisions'[r] = row
      /\ \A q \in DOMAIN revisions : revisions'[q] = revisions[q]
  BY <1>1
<1>3. r \in Nat /\ r \notin DOMAIN revisions /\ \A q \in DOMAIN revisions : q < r
  BY <1>1
<1>4. new = old \/ new = old \cup {r}
  <2>1. CASE row.task = t
    BY <1>2, <1>3, <2>1
  <2>2. CASE row.task # t
    BY <1>2, <1>3, <2>2
  <2> QED
    BY <2>1, <2>2
<1>5. old \in SUBSET (1..len) /\ \A q \in old : q < r
  BY <1>1, <1>3
<1>6. PICK S, T : S = InOrder(old) /\ T = InOrder(new)
  OBVIOUS
<1>7. Chain(t) = S /\ Chain(t)' = T
  BY <1>6 DEF Chain
<1> HIDE DEF old, new, r, len
<1>8. IsFiniteSet(old) /\ old \in SUBSET Nat
  BY <1>1, <1>5, RowsAreFinite
<1>9. Len(S) \in Nat
  BY <1>6, <1>8, Ordered
<1>10. Len(T) \in Nat /\ Len(S) <= Len(T) /\ \A i \in 1..Len(S) : T[i] = S[i]
  <2>1. CASE new = old
    BY <1>6, <1>9, <2>1
  <2>2. CASE new = old \cup {r}
    <3>1. Len(T) = Len(S) + 1 /\ \A i \in 1..Len(S) : T[i] = S[i]
      BY <1>3, <1>5, <1>6, <1>8, <2>2, OrderGrows
    <3> QED
      BY <1>9, <3>1
  <2> QED
    BY <1>4, <2>1, <2>2
<1> QED
  BY <1>7, <1>9, <1>10

\* What Episodes refer to stays the beginning of the chain while Tasks move on.
LEMMA RefsThroughTasks ==
    TaskInv /\ RefsInv /\ (TaskNext \/ UNCHANGED taskVars) /\ UNCHANGED episodeVars => RefsInv'
<1> SUFFICES ASSUME TaskInv, RefsInv, TaskNext \/ UNCHANGED taskVars, UNCHANGED <<episodes, checkpoints>>
             PROVE  RefsInv'
  BY DEF episodeVars
<1>1. UNCHANGED revisions \/ \E row : revisions' = Append(revisions, row)
  BY RevisionsGrow DEF taskVars, taskRows
<1>2. \A t : /\ Len(Chain(t)) \in Nat /\ Len(Chain(t)') \in Nat /\ Len(Chain(t)) <= Len(Chain(t)')
              /\ \A i \in 1..Len(Chain(t)) : Chain(t)'[i] = Chain(t)[i]
  <2>1. CASE UNCHANGED revisions
    <3>1. \A t : Chain(t)' = Chain(t)
      BY <2>1 DEF Chain
    <3>2. \A t : Chain(t) \in Seq(Nat)
      BY ChainShape
    <3>3. \A t : Len(Chain(t)) \in Nat
      BY <3>2
    <3> QED
      BY <3>1, <3>3
  <2>2. CASE \E row : revisions' = Append(revisions, row)
    BY <2>2, ChainGrows
  <2> QED
    BY <1>1, <2>1, <2>2
<1>3. ASSUME NEW e \in DOMAIN episodes PROVE Follows(episodes[e])'
  <2>1. PICK ep : ep = episodes[e] /\ ep = episodes'[e]
    OBVIOUS
  <2>2. /\ ep.intents \in Seq(Nat) /\ Len(ep.intents) <= Len(Chain(ep.task))
        /\ \A i \in 1..Len(ep.intents) : ep.intents[i] = Chain(ep.task)[i]
    BY <2>1 DEF RefsInv, Follows
  <2>3. PICK t : t = ep.task
    OBVIOUS
  <2>4. PICK old, new : old = Chain(t) /\ new = Chain(t)'
    OBVIOUS
  <2>5. /\ Len(old) \in Nat /\ Len(new) \in Nat /\ Len(old) <= Len(new)
        /\ \A i \in 1..Len(old) : new[i] = old[i]
    BY <1>2, <2>4
  <2>6. Len(ep.intents) \in Nat
    BY <2>2
  <2>7. Len(ep.intents) <= Len(new) /\ \A i \in 1..Len(ep.intents) : ep.intents[i] = new[i]
    BY <2>2, <2>3, <2>4, <2>5, <2>6
  <2>8. Chain(episodes[e].task)' = new
    BY <2>1, <2>3, <2>4 DEF Chain
  <2> QED
    BY <2>1, <2>2, <2>7, <2>8 DEF Follows
<1> QED
  BY <1>3 DEF RefsInv

\* Empty tables.
LEMMA Initially == Init => IInv
<1> SUFFICES ASSUME Init PROVE IInv
  OBVIOUS
<1>1. TaskInv
  BY DEF Init, TaskInit, TaskInv, RowTypes, TasksAreThere, IntentChains, Call
<1>2. EpisodeInv
  BY DEF Init, EpisodeInv, EpisodeRows, ClosedFirst, OneCheckpointPerOperation, EveryClaimIsQueued
<1>3. PromptInv /\ RefsInv
  BY DEF Init, TaskInit, PromptInv, RefsInv
<1> QED
  BY <1>1, <1>2, <1>3 DEF IInv

\* The inductive invariant holds in every behaviour: the rows of the Task runtime's tables fit
\* together after any sequence of its transactions.
THEOREM Invariance == Spec => []IInv
<1>1. IInv /\ [Next]_vars => IInv'
  <2> SUFFICES ASSUME IInv, [Next]_vars PROVE IInv'
    OBVIOUS
  <2>1. TaskInv'
    BY TaskStep, EpisodeLeavesTasks DEF IInv, Next, vars
  <2>2. EpisodeInv'
    BY EpisodeStep, EpisodeStutter DEF IInv, Next, vars
  <2>3. PromptInv'
    <3>1. CASE TaskNext
      BY <3>1, PromptStep DEF IInv
    <3>2. CASE UNCHANGED taskVars
      BY <3>2 DEF IInv, PromptInv, taskVars, taskRows
    <3> QED
      BY <3>1, <3>2, EpisodeLeavesTasks DEF Next, vars
  <2>4. RefsInv'
    BY EpisodeStep, RefsThroughTasks DEF IInv, Next, vars
  <2> QED
    BY <2>1, <2>2, <2>3, <2>4 DEF IInv
<1> QED
  BY Initially, <1>1, PTL DEF Spec

\* However many Agents write to one Session, and whatever each read before, the revisions of a
\* Task are one chain that ends in its Head, and no successor was written unread
\* (continue_working_intent, start_new_task, open_or_create_task_session).
THEOREM IntentsAlwaysChain == Spec => []IntentChains
<1>1. IInv => IntentChains
  BY DEF IInv, TaskInv
<1> QED
  BY Invariance, <1>1, PTL

\* One Task, Intent and content has one Checkpoint of task_checkpoint for good, whichever Episode
\* it closed and whatever became of the Task since (submit_agent_checkpoint).
THEOREM OneCheckpointAlways == Spec => []OneCheckpointPerOperation
<1>1. IInv => OneCheckpointPerOperation
  BY DEF IInv, EpisodeInv
<1> QED
  BY Invariance, <1>1, PTL

\* The Build of an Episode always covers all its Checkpoints, and none comes after the one that
\* closed it (reserve Candidate Build outbox item).
THEOREM ClaimsAlwaysQueued == Spec => []EveryClaimIsQueued
<1>1. IInv => EveryClaimIsQueued
  BY DEF IInv, EpisodeInv
<1> QED
  BY Invariance, <1>1, PTL

\* The references of an Episode are always a beginning of its Task's chain, whatever revisions
\* came after it was closed, and hold the Intents of its Checkpoints
\* (insert_all_missing_episode_refs, AgentCheckpoint::validate_against_episode).
THEOREM EpisodesAlwaysFollow == Spec => []EpisodesFollowTheChain
<1>1. IInv => EpisodesFollowTheChain
  <2> SUFFICES ASSUME IInv PROVE EpisodesFollowTheChain
    OBVIOUS
  <2>1. ASSUME NEW e \in DOMAIN episodes PROVE IsPrefix(episodes[e].intents, Chain(episodes[e].task))
    <3> DEFINE refs == episodes[e].intents
               chain == Chain(episodes[e].task)
    <3>1. /\ refs \in Seq(Nat) /\ chain \in Seq(Nat) /\ Len(refs) <= Len(chain)
          /\ \A i \in 1..Len(refs) : refs[i] = chain[i]
      BY ChainShape DEF IInv, RefsInv, Follows
    <3> HIDE DEF refs, chain
    <3>2. Len(refs) \in Nat /\ Len(chain) \in Nat
      BY <3>1
    <3>3. /\ SubSeq(refs, 1, Len(refs)) \in Seq(Nat) /\ Len(SubSeq(refs, 1, Len(refs))) = Len(refs)
          /\ SubSeq(chain, 1, Len(refs)) \in Seq(Nat) /\ Len(SubSeq(chain, 1, Len(refs))) = Len(refs)
          /\ \A i \in 1..Len(refs) : SubSeq(refs, 1, Len(refs))[i] = refs[i]
          /\ \A i \in 1..Len(refs) : SubSeq(chain, 1, Len(refs))[i] = chain[i]
      BY <3>1, <3>2
    <3>4. SubSeq(refs, 1, Len(refs)) = SubSeq(chain, 1, Len(refs))
      BY <3>1, <3>3, SeqEqual
    <3> QED
      BY <3>1, <3>4 DEF IsPrefix, refs, chain
  <2> QED
    BY <2>1 DEF IInv, RefsInv, EpisodesFollowTheChain
<1> QED
  BY Invariance, <1>1, PTL

\* No step loses a held prompt: the Task that is created next has it, or it is held still, or a
\* later prompt displaced it and all older ones (drain_pending_prompt_signals, stash_pending_prompt).
THEOREM PromptsAlwaysKept == Spec => PromptsAreKept
<1>1. IInv /\ [Next]_vars => [\A n \in DOMAIN pending : Kept(n) \/ Taken(n) \/ Displaced(n)]_vars
  <2> SUFFICES ASSUME IInv, Next
               PROVE  \A n \in DOMAIN pending : Kept(n) \/ Taken(n) \/ Displaced(n)
    OBVIOUS
  <2>1. CASE TaskNext
    BY <2>1, PromptStep DEF IInv
  <2>2. CASE UNCHANGED taskVars
    <3>1. pending' = pending /\ pending \in Seq(PromptRow)
      BY <2>2 DEF IInv, PromptInv, taskVars, taskRows
    <3> QED
      BY <3>1 DEF Kept, Contains
  <2> QED
    BY <2>1, <2>2, EpisodeLeavesTasks DEF Next
<1> QED
  BY Invariance, <1>1, PTL DEF Spec, PromptsAreKept
=================================================================================
