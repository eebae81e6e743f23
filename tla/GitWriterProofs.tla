-------------------------- MODULE GitWriterProofs --------------------------
(***************************************************************************)
(* Theorems about GitWriter for every set of processes, batches and paths  *)
(* and any number of crashes.                                              *)
(***************************************************************************)
EXTENDS GitWriter, SequenceTheorems, TLAPS

(***************************************************************************)
(* Facts about the operators.                                              *)
(***************************************************************************)
\* A file is in the n-th tree exactly when one of the first n commits added it.
LEMMA TreeMembership ==
  ASSUME NEW n \in Nat, NEW f
  PROVE  f \in TreeAt(n) <=> \E i \in 1 .. n : f \in commits[i].files
  BY DEF TreeAt

\* The trees of HEAD's history hold managed paths only.
LEMMA TreeIsManaged ==
  ASSUME commits \in Seq(Commit), NEW n \in 0 .. Len(commits)
  PROVE  TreeAt(n) \subseteq Path
  <1>1. ASSUME NEW i \in 1 .. n
        PROVE  commits[i].files \subseteq Path
    <2>1. commits[i] \in Commit
      OBVIOUS
    <2>2. QED
      BY <2>1 DEF Commit
  <1>2. QED
    BY <1>1, TreeMembership

(***************************************************************************)
(* A call in progress has the batch its step needs: the part of the        *)
(* inductive invariant that type correctness rests on.                     *)
(***************************************************************************)
CurPcs == Locked \ {"recovering"}

HasBatch ==
  \A p \in Process :
    /\ pc[p] \in {"preparing", "prepared"} => own[p] \in Batch
    /\ pc[p] \in CurPcs \cup {"loaded"} => cur[p] \in Batch
    /\ pc[p] \in {"idle", "preparing", "prepared"} => cur[p] = None
    /\ pc[p] \in {"idle", "loaded"} => own[p] = None

TypeInv == TypeOK /\ HasBatch

LEMMA TypeInit == Init => TypeInv
  BY BoundAssumption
     DEF Init, TypeInv, TypeOK, HasBatch, Unlocked, Locked, CurPcs, Phases,
         NoBase, Commit
LEMMA TypeNext == TypeInv /\ [Next]_vars => TypeInv'
  <1> SUFFICES ASSUME TypeInv, [Next]_vars
               PROVE  TypeInv'
    OBVIOUS
  <1> USE BatchAssumption, BoundAssumption
      DEF TypeInv, TypeOK, HasBatch, Unlocked, Locked, CurPcs, Phases, Goto,
          disk, local, NoBase
  <1>1. ASSUME NEW p \in Process, PersistJournal(p)
        PROVE  TypeInv'
    BY <1>1 DEF PersistJournal
  <1>2. ASSUME NEW p \in Process, AcquireForAppend(p)
        PROVE  TypeInv'
    BY <1>2 DEF AcquireForAppend, Durable
  <1>3. ASSUME NEW p \in Process, AcquireForCommit(p)
        PROVE  TypeInv'
    BY <1>3 DEF AcquireForCommit
  <1>4. ASSUME NEW p \in Process, PickJournal(p)
        PROVE  TypeInv'
    BY <1>4 DEF PickJournal, Eligible
  <1>5. ASSUME NEW p \in Process, PickOwn(p)
        PROVE  TypeInv'
    BY <1>5 DEF PickOwn
  <1>6. ASSUME NEW p \in Process, RecoveryDone(p)
        PROVE  TypeInv'
    BY <1>6 DEF RecoveryDone, Leave
  <1>7. ASSUME NEW p \in Process, AlreadyCommitted(p)
        PROVE  TypeInv'
    BY <1>7 DEF AlreadyCommitted
  <1>8. ASSUME NEW p \in Process, RecordBase(p)
        PROVE  TypeInv'
    <2>1. Len(commits) \in Int
      OBVIOUS
    <2>2. CASE UNCHANGED <<base, phase, memBase>>
      BY <1>8, <2>2 DEF RecordBase
    <2>3. CASE /\ base' = [base EXCEPT ![cur[p]] = Len(commits)]
               /\ phase' = [phase EXCEPT ![cur[p]] = "Prepared"]
               /\ memBase' = [memBase EXCEPT ![p] = Len(commits)]
      BY <1>8, <2>1, <2>3 DEF RecordBase
    <2>4. QED
      BY <1>8, <2>2, <2>3 DEF RecordBase
  <1>9. ASSUME NEW p \in Process, CheckReusable(p)
        PROVE  TypeInv'
    BY <1>9 DEF CheckReusable, Missing
  <1>10. ASSUME NEW p \in Process, CreateFile(p)
        PROVE  TypeInv'
    BY <1>10 DEF CreateFile
  <1>11. ASSUME NEW p \in Process, AcceptFile(p)
        PROVE  TypeInv'
    BY <1>11 DEF AcceptFile
  <1>12. ASSUME NEW p \in Process, MarkCreated(p)
        PROVE  TypeInv'
    BY <1>12 DEF MarkCreated
  <1>13. ASSUME NEW p \in Process, GitAdd(p)
        PROVE  TypeInv'
    BY <1>13 DEF GitAdd, Missing
  <1>14. ASSUME NEW p \in Process, VerifyStaged(p)
        PROVE  TypeInv'
    BY <1>14 DEF VerifyStaged
  <1>15. ASSUME NEW p \in Process, GitCommit(p)
        PROVE  TypeInv'
    BY <1>15 DEF GitCommit, Missing, Commit
  <1>16. ASSUME NEW p \in Process, MarkCommitted(p)
        PROVE  TypeInv'
    BY <1>16 DEF MarkCommitted
  <1>17. ASSUME NEW p \in Process, MarkIndexed(p)
        PROVE  TypeInv'
    BY <1>17 DEF MarkIndexed
  <1>18. ASSUME NEW p \in Process, RemovePayload(p)
        PROVE  TypeInv'
    BY <1>18 DEF RemovePayload
  <1>19. ASSUME NEW p \in Process, RemoveJournal(p)
        PROVE  TypeInv'
    <2>1. CASE journal[cur[p]] = "durable"
      <3>1. /\ journal' = [journal EXCEPT ![cur[p]] = "gone"]
            /\ payload' = payload \ {cur[p]}
            /\ UNCHANGED <<base, phase, tree, index, commits>>
            /\ UNCHANGED <<lock, own, cur, todo, memBase, left, acked, crashes>>
            /\ pc[p] = "cleanup" /\ pc' = [pc EXCEPT ![p] = "done"]
        BY <1>19, <2>1, Zenon DEF RemoveJournal
      <3>2. QED
        BY <3>1
    <2>2. CASE journal[cur[p]] # "durable"
      <3>1. /\ UNCHANGED <<journal, payload, base, phase, tree, index, commits>>
            /\ UNCHANGED <<lock, own, cur, todo, memBase, left, acked, crashes>>
            /\ pc[p] = "cleanup" /\ pc' = [pc EXCEPT ![p] = "done"]
        BY <1>19, <2>2, Zenon DEF RemoveJournal
      <3>2. QED
        BY <3>1
    <2>3. QED
      BY <2>1, <2>2
  <1>20. ASSUME NEW p \in Process, FinishBatch(p)
        PROVE  TypeInv'
    <2>1. CASE Recovered(p)
      <3>1. /\ UNCHANGED <<journal, payload, base, phase, tree, index, commits>>
            /\ UNCHANGED <<lock, own, cur, todo, memBase, left, acked, crashes>>
            /\ pc[p] = "done" /\ pc' = [pc EXCEPT ![p] = "recovering"]
        BY <1>20, <2>1, Zenon DEF FinishBatch
      <3>2. QED
        BY <3>1
    <2>2. CASE ~Recovered(p)
      <3>1. own[p] \in Batch
        BY <1>20, <2>2 DEF FinishBatch, Recovered
      <3>2. Leave(p) /\ acked' = acked \cup {own[p]} /\ UNCHANGED <<disk, crashes>>
        BY <1>20, <2>2, Zenon DEF FinishBatch
      <3>3. QED
        BY <3>1, <3>2 DEF Leave
    <2>3. QED
      BY <2>1, <2>2
  <1>21. ASSUME NEW p \in Process, Refuse(p)
        PROVE  TypeInv'
    BY <1>21 DEF Refuse, Leave
  <1>22. ASSUME NEW p \in Process, StartRecovery(p)
        PROVE  TypeInv'
    BY <1>22 DEF StartRecovery, Durable
  <1>23. ASSUME NEW p \in Process, Crash(p)
        PROVE  TypeInv'
    BY <1>23 DEF Crash, Leave
  <1>24. ASSUME NEW p \in Process, CrashInWrite(p)
        PROVE  TypeInv'
    BY <1>24 DEF CrashInWrite, Leave
  <1>25. ASSUME NEW p \in Process, NEW b \in Batch, BeginPrepare(p, b)
        PROVE  TypeInv'
    BY <1>25 DEF BeginPrepare
  <1>26. ASSUME NEW p \in Process, NEW b \in Batch, ReadPending(p, b)
        PROVE  TypeInv'
    BY <1>26 DEF ReadPending
  <1>27. ASSUME NEW b \in Batch, MoveAside(b)
        PROVE  TypeInv'
    BY <1>27 DEF MoveAside
  <1>28. CASE UNCHANGED vars
    BY <1>28 DEF vars
  <1>29. QED
    BY <1>1, <1>2, <1>3, <1>4, <1>5, <1>6, <1>7, <1>8, <1>9, <1>10, <1>11,
       <1>12, <1>13, <1>14, <1>15, <1>16, <1>17, <1>18, <1>19, <1>20, <1>21,
       <1>22, <1>23, <1>24, <1>25, <1>26, <1>27, <1>28 DEF Next, Step


\* Every variable keeps its type, and a call in progress has the batch it
\* works on (PickOwn, Leave and the early returns never mix them up).
THEOREM TypeCorrectness == Spec => []TypeOK
  <1>1. Spec => []TypeInv
    BY TypeInit, TypeNext, PTL DEF Spec
  <1>2. TypeInv => TypeOK
    BY DEF TypeInv
  <1>3. QED
    BY <1>1, <1>2, PTL

(***************************************************************************)
(* Mutual exclusion: writer.lock, dropped by every return and every crash. *)
(***************************************************************************)
Exclusive == \A p \in Process : pc[p] \in Locked => lock = p

LEMMA ExclusiveNext == TypeInv /\ Exclusive /\ [Next]_vars => Exclusive'
  <1> SUFFICES ASSUME TypeInv, Exclusive, [Next]_vars
               PROVE  Exclusive'
    OBVIOUS
  <1> USE BoundAssumption DEF TypeInv, TypeOK, Exclusive, Locked, Goto, disk, local
  <1>1. ASSUME NEW p \in Process, PersistJournal(p)
        PROVE  Exclusive'
    BY <1>1 DEF PersistJournal
  <1>2. ASSUME NEW p \in Process, AcquireForAppend(p)
        PROVE  Exclusive'
    BY <1>2 DEF AcquireForAppend
  <1>3. ASSUME NEW p \in Process, AcquireForCommit(p)
        PROVE  Exclusive'
    BY <1>3 DEF AcquireForCommit
  <1>4. ASSUME NEW p \in Process, PickJournal(p)
        PROVE  Exclusive'
    BY <1>4 DEF PickJournal
  <1>5. ASSUME NEW p \in Process, PickOwn(p)
        PROVE  Exclusive'
    BY <1>5 DEF PickOwn
  <1>6. ASSUME NEW p \in Process, RecoveryDone(p)
        PROVE  Exclusive'
    BY <1>6 DEF RecoveryDone, Leave
  <1>7. ASSUME NEW p \in Process, AlreadyCommitted(p)
        PROVE  Exclusive'
    BY <1>7 DEF AlreadyCommitted
  <1>8. ASSUME NEW p \in Process, RecordBase(p)
        PROVE  Exclusive'
    BY <1>8 DEF RecordBase
  <1>9. ASSUME NEW p \in Process, CheckReusable(p)
        PROVE  Exclusive'
    BY <1>9 DEF CheckReusable
  <1>10. ASSUME NEW p \in Process, CreateFile(p)
        PROVE  Exclusive'
    BY <1>10 DEF CreateFile
  <1>11. ASSUME NEW p \in Process, AcceptFile(p)
        PROVE  Exclusive'
    BY <1>11 DEF AcceptFile
  <1>12. ASSUME NEW p \in Process, MarkCreated(p)
        PROVE  Exclusive'
    BY <1>12 DEF MarkCreated
  <1>13. ASSUME NEW p \in Process, GitAdd(p)
        PROVE  Exclusive'
    BY <1>13 DEF GitAdd
  <1>14. ASSUME NEW p \in Process, VerifyStaged(p)
        PROVE  Exclusive'
    BY <1>14 DEF VerifyStaged
  <1>15. ASSUME NEW p \in Process, GitCommit(p)
        PROVE  Exclusive'
    BY <1>15 DEF GitCommit
  <1>16. ASSUME NEW p \in Process, MarkCommitted(p)
        PROVE  Exclusive'
    BY <1>16 DEF MarkCommitted
  <1>17. ASSUME NEW p \in Process, MarkIndexed(p)
        PROVE  Exclusive'
    BY <1>17 DEF MarkIndexed
  <1>18. ASSUME NEW p \in Process, RemovePayload(p)
        PROVE  Exclusive'
    BY <1>18 DEF RemovePayload
  <1>19. ASSUME NEW p \in Process, RemoveJournal(p)
        PROVE  Exclusive'
    BY <1>19 DEF RemoveJournal
  <1>20. ASSUME NEW p \in Process, FinishBatch(p)
        PROVE  Exclusive'
    <2>1. /\ pc[p] = "done"
          /\ (Goto(p, "recovering") /\ lock' = lock) \/ Leave(p)
      BY <1>20, Zenon DEF FinishBatch
    <2>2. QED
      BY <2>1 DEF Leave
  <1>21. ASSUME NEW p \in Process, Refuse(p)
        PROVE  Exclusive'
    BY <1>21 DEF Refuse, Leave
  <1>22. ASSUME NEW p \in Process, StartRecovery(p)
        PROVE  Exclusive'
    BY <1>22 DEF StartRecovery
  <1>23. ASSUME NEW p \in Process, Crash(p)
        PROVE  Exclusive'
    BY <1>23 DEF Crash, Leave
  <1>24. ASSUME NEW p \in Process, CrashInWrite(p)
        PROVE  Exclusive'
    BY <1>24 DEF CrashInWrite, Leave
  <1>25. ASSUME NEW p \in Process, NEW b \in Batch, BeginPrepare(p, b)
        PROVE  Exclusive'
    BY <1>25 DEF BeginPrepare
  <1>26. ASSUME NEW p \in Process, NEW b \in Batch, ReadPending(p, b)
        PROVE  Exclusive'
    BY <1>26 DEF ReadPending
  <1>27. ASSUME NEW b \in Batch, MoveAside(b)
        PROVE  Exclusive'
    BY <1>27 DEF MoveAside
  <1>28. CASE UNCHANGED vars
    BY <1>28 DEF vars
  <1>29. QED
    BY <1>1, <1>2, <1>3, <1>4, <1>5, <1>6, <1>7, <1>8, <1>9, <1>10, <1>11,
       <1>12, <1>13, <1>14, <1>15, <1>16, <1>17, <1>18, <1>19, <1>20, <1>21,
       <1>22, <1>23, <1>24, <1>25, <1>26, <1>27, <1>28 DEF Next, Step

(***************************************************************************)
(* The history of HEAD.                                                    *)
(***************************************************************************)
\* A commit adds exactly what its batch lacks, and the primary event is new.
LogShape ==
  \A i \in 1 .. Len(commits) :
    /\ commits[i].files = FilesOf[commits[i].batch] \ TreeAt(i - 1)
    /\ EventOf[commits[i].batch] \notin TreeAt(i - 1)

\* Up to its commit the batch is not in HEAD; from then on it is, as a whole.
Progress ==
  \A p \in Process :
    /\ pc[p] \in {"check", "create", "add", "verify", "commit"} => ~InHead(cur[p])
    /\ pc[p] \in {"record", "observe", "cleanup", "done"}
         => FilesOf[cur[p]] \subseteq HeadTree

LogInv ==
  Exclusive /\ LogShape /\ Progress /\ NothingDurableIsLost /\ AckedIsCommitted

\* A step that makes no commit leaves the history as it is.
LEMMA SameHistory ==
  ASSUME commits' = commits
  PROVE  /\ HeadTree' = HeadTree
         /\ \A b : InHead(b)' <=> InHead(b)
         /\ LogShape => LogShape'
  BY DEF HeadTree, TreeAt, InHead, LogShape

\* A commit extends the history and changes none of its earlier trees.
LEMMA CommitHistory ==
  ASSUME commits \in Seq(Commit), NEW c \in Commit, commits' = Append(commits, c)
  PROVE  /\ \A n \in 0 .. Len(commits) : TreeAt(n)' = TreeAt(n)
         /\ HeadTree' = HeadTree \cup c.files
         /\ Len(commits') = Len(commits) + 1
         /\ commits'[Len(commits) + 1] = c
         /\ \A i \in 1 .. Len(commits) : commits'[i] = commits[i]
  <1>1. /\ Len(commits) \in Nat
        /\ Len(commits') = Len(commits) + 1
        /\ commits'[Len(commits) + 1] = c
        /\ \A i \in 1 .. Len(commits) : commits'[i] = commits[i]
    OBVIOUS
  <1>2. \A n \in 0 .. Len(commits) : TreeAt(n)' = TreeAt(n)
    <2>1. TAKE n \in 0 .. Len(commits)
    <2>2. \A i \in 1 .. n : commits'[i].files = commits[i].files
      BY <1>1
    <2>3. {commits'[i].files : i \in 1 .. n} = {commits[i].files : i \in 1 .. n}
      BY <2>2
    <2>4. QED
      BY <2>3 DEF TreeAt
  <1>3. HeadTree' = HeadTree \cup c.files
    <2>1. ASSUME NEW f
          PROVE  f \in HeadTree' <=> f \in HeadTree \/ f \in c.files
      <3>1. f \in HeadTree' <=> \E i \in 1 .. Len(commits) + 1 : f \in commits'[i].files
        BY <1>1 DEF HeadTree, TreeAt
      <3>2. f \in HeadTree <=> \E i \in 1 .. Len(commits) : f \in commits[i].files
        BY DEF HeadTree, TreeAt
      <3>3. QED
        BY <1>1, <3>1, <3>2
    <2>2. QED
      BY <2>1
  <1>4. QED
    BY <1>1, <1>2, <1>3

LEMMA LogNext == TypeInv /\ LogInv /\ [Next]_vars => LogInv'
  <1> SUFFICES ASSUME TypeInv, LogInv, [Next]_vars
               PROVE  LogInv'
    OBVIOUS
  <1> USE BatchAssumption, BoundAssumption
  <1>1. Exclusive'
    BY ExclusiveNext DEF LogInv
  <1>2. ASSUME NEW p \in Process, GitCommit(p)
        PROVE  LogInv'
    <2> DEFINE b == cur[p]
               c == [batch |-> b, files |-> Missing(b)]
               n == Len(commits)
    <2>1. /\ b \in Batch /\ c \in Commit /\ n \in Nat
          /\ commits \in Seq(Commit) /\ commits' = Append(commits, c)
          /\ pc[p] = "commit" /\ pc' = [pc EXCEPT ![p] = "record"]
          /\ UNCHANGED <<journal, cur, acked>>
      BY <1>2 DEF GitCommit, Goto, local, TypeInv, TypeOK, HasBatch, CurPcs,
                  Locked, Missing, Commit
    <2>2. /\ \A k \in 0 .. n : TreeAt(k)' = TreeAt(k)
          /\ HeadTree' = HeadTree \cup Missing(b)
          /\ Len(commits') = n + 1 /\ commits'[n + 1] = c
          /\ \A i \in 1 .. n : commits'[i] = commits[i]
      BY <2>1, CommitHistory
    <2>3. ~InHead(b) /\ HeadTree = TreeAt(n)
      BY <2>1 DEF LogInv, Progress, HeadTree
    <2>4. LogShape'
      <3> SUFFICES ASSUME NEW i \in 1 .. n + 1
                   PROVE /\ commits'[i].files = FilesOf[commits'[i].batch] \ TreeAt(i - 1)'
                         /\ EventOf[commits'[i].batch] \notin TreeAt(i - 1)'
        BY <2>2 DEF LogShape
      <3>1. i - 1 \in 0 .. n /\ TreeAt(i - 1)' = TreeAt(i - 1)
        BY <2>1, <2>2
      <3>2. CASE i = n + 1
        BY <2>1, <2>2, <2>3, <3>1, <3>2 DEF Missing, InHead
      <3>3. CASE i \in 1 .. n
        BY <2>2, <3>1, <3>3 DEF LogInv, LogShape
      <3>4. QED
        BY <2>1, <3>2, <3>3
    <2>5. Progress'
      <3>1. FilesOf[b] \subseteq HeadTree'
        BY <2>2 DEF Missing
      <3>2. ASSUME NEW q \in Process, q # p
            PROVE  pc[q] \notin Locked
        BY <2>1, <3>2 DEF LogInv, Exclusive, Locked
      <3>3. QED
        BY <2>1, <3>1, <3>2 DEF Progress, Locked, TypeInv, TypeOK
    <2>6. NothingDurableIsLost' /\ AckedIsCommitted'
      BY <2>1, <2>2 DEF LogInv, NothingDurableIsLost, AckedIsCommitted
    <2>7. QED
      BY <1>1, <2>4, <2>5, <2>6 DEF LogInv
  <1>3. ASSUME commits' = commits,
               Progress', NothingDurableIsLost', AckedIsCommitted'
        PROVE  LogInv'
    BY <1>1, <1>3, SameHistory DEF LogInv
  <1> USE DEF LogInv, Exclusive, Progress, NothingDurableIsLost, AckedIsCommitted,
              TypeInv, TypeOK, Locked, Goto, disk, local
  <1>4. ASSUME NEW p \in Process, PersistJournal(p)
        PROVE  LogInv'
    <2>1. commits' = commits
      BY <1>4 DEF PersistJournal
    <2>2. Progress' /\ NothingDurableIsLost' /\ AckedIsCommitted'
      BY <1>4, <2>1, SameHistory DEF PersistJournal
    <2>3. QED
      BY <1>3, <2>1, <2>2
  <1>5. ASSUME NEW p \in Process, AcquireForAppend(p)
        PROVE  LogInv'
    <2>1. commits' = commits
      BY <1>5 DEF AcquireForAppend
    <2>2. Progress' /\ NothingDurableIsLost' /\ AckedIsCommitted'
      BY <1>5, <2>1, SameHistory DEF AcquireForAppend
    <2>3. QED
      BY <1>3, <2>1, <2>2
  <1>6. ASSUME NEW p \in Process, AcquireForCommit(p)
        PROVE  LogInv'
    <2>1. commits' = commits
      BY <1>6 DEF AcquireForCommit
    <2>2. Progress' /\ NothingDurableIsLost' /\ AckedIsCommitted'
      BY <1>6, <2>1, SameHistory DEF AcquireForCommit
    <2>3. QED
      BY <1>3, <2>1, <2>2
  <1>7. ASSUME NEW p \in Process, PickJournal(p)
        PROVE  LogInv'
    <2>1. commits' = commits
      BY <1>7 DEF PickJournal
    <2>2. Progress' /\ NothingDurableIsLost' /\ AckedIsCommitted'
      BY <1>7, <2>1, SameHistory DEF PickJournal
    <2>3. QED
      BY <1>3, <2>1, <2>2
  <1>8. ASSUME NEW p \in Process, PickOwn(p)
        PROVE  LogInv'
    <2>1. commits' = commits
      BY <1>8 DEF PickOwn
    <2>2. Progress' /\ NothingDurableIsLost' /\ AckedIsCommitted'
      BY <1>8, <2>1, SameHistory DEF PickOwn
    <2>3. QED
      BY <1>3, <2>1, <2>2
  <1>9. ASSUME NEW p \in Process, RecoveryDone(p)
        PROVE  LogInv'
    <2>1. commits' = commits
      BY <1>9 DEF RecoveryDone
    <2>2. Progress' /\ NothingDurableIsLost' /\ AckedIsCommitted'
      BY <1>9, <2>1, SameHistory DEF RecoveryDone, Leave
    <2>3. QED
      BY <1>3, <2>1, <2>2
  <1>10. ASSUME NEW p \in Process, AlreadyCommitted(p)
        PROVE  LogInv'
    <2>1. commits' = commits
      BY <1>10 DEF AlreadyCommitted
    <2>2. Progress' /\ NothingDurableIsLost' /\ AckedIsCommitted'
      BY <1>10, <2>1, SameHistory DEF AlreadyCommitted
    <2>3. QED
      BY <1>3, <2>1, <2>2
  <1>11. ASSUME NEW p \in Process, RecordBase(p)
        PROVE  LogInv'
    <2>1. commits' = commits
      BY <1>11 DEF RecordBase
    <2>2. Progress' /\ NothingDurableIsLost' /\ AckedIsCommitted'
      BY <1>11, <2>1, SameHistory DEF RecordBase
    <2>3. QED
      BY <1>3, <2>1, <2>2
  <1>12. ASSUME NEW p \in Process, CheckReusable(p)
        PROVE  LogInv'
    <2>1. commits' = commits
      BY <1>12 DEF CheckReusable
    <2>2. Progress' /\ NothingDurableIsLost' /\ AckedIsCommitted'
      BY <1>12, <2>1, SameHistory DEF CheckReusable
    <2>3. QED
      BY <1>3, <2>1, <2>2
  <1>13. ASSUME NEW p \in Process, CreateFile(p)
        PROVE  LogInv'
    <2>1. commits' = commits
      BY <1>13 DEF CreateFile
    <2>2. Progress' /\ NothingDurableIsLost' /\ AckedIsCommitted'
      BY <1>13, <2>1, SameHistory DEF CreateFile
    <2>3. QED
      BY <1>3, <2>1, <2>2
  <1>14. ASSUME NEW p \in Process, AcceptFile(p)
        PROVE  LogInv'
    <2>1. commits' = commits
      BY <1>14 DEF AcceptFile
    <2>2. Progress' /\ NothingDurableIsLost' /\ AckedIsCommitted'
      BY <1>14, <2>1, SameHistory DEF AcceptFile
    <2>3. QED
      BY <1>3, <2>1, <2>2
  <1>15. ASSUME NEW p \in Process, MarkCreated(p)
        PROVE  LogInv'
    <2>1. commits' = commits
      BY <1>15 DEF MarkCreated
    <2>2. Progress' /\ NothingDurableIsLost' /\ AckedIsCommitted'
      BY <1>15, <2>1, SameHistory DEF MarkCreated
    <2>3. QED
      BY <1>3, <2>1, <2>2
  <1>16. ASSUME NEW p \in Process, GitAdd(p)
        PROVE  LogInv'
    <2>1. commits' = commits
      BY <1>16 DEF GitAdd
    <2>2. Progress' /\ NothingDurableIsLost' /\ AckedIsCommitted'
      BY <1>16, <2>1, SameHistory DEF GitAdd
    <2>3. QED
      BY <1>3, <2>1, <2>2
  <1>17. ASSUME NEW p \in Process, VerifyStaged(p)
        PROVE  LogInv'
    <2>1. commits' = commits
      BY <1>17 DEF VerifyStaged
    <2>2. Progress' /\ NothingDurableIsLost' /\ AckedIsCommitted'
      BY <1>17, <2>1, SameHistory DEF VerifyStaged
    <2>3. QED
      BY <1>3, <2>1, <2>2
  <1>18. ASSUME NEW p \in Process, MarkCommitted(p)
        PROVE  LogInv'
    <2>1. commits' = commits
      BY <1>18 DEF MarkCommitted
    <2>2. Progress' /\ NothingDurableIsLost' /\ AckedIsCommitted'
      BY <1>18, <2>1, SameHistory DEF MarkCommitted
    <2>3. QED
      BY <1>3, <2>1, <2>2
  <1>19. ASSUME NEW p \in Process, MarkIndexed(p)
        PROVE  LogInv'
    <2>1. commits' = commits
      BY <1>19 DEF MarkIndexed
    <2>2. Progress' /\ NothingDurableIsLost' /\ AckedIsCommitted'
      BY <1>19, <2>1, SameHistory DEF MarkIndexed
    <2>3. QED
      BY <1>3, <2>1, <2>2
  <1>20. ASSUME NEW p \in Process, RemovePayload(p)
        PROVE  LogInv'
    <2>1. commits' = commits
      BY <1>20 DEF RemovePayload
    <2>2. Progress' /\ NothingDurableIsLost' /\ AckedIsCommitted'
      BY <1>20, <2>1, SameHistory DEF RemovePayload
    <2>3. QED
      BY <1>3, <2>1, <2>2
  <1>21. ASSUME NEW p \in Process, RemoveJournal(p)
        PROVE  LogInv'
    <2>1. commits' = commits
      BY <1>21 DEF RemoveJournal
    <2>2. Progress' /\ NothingDurableIsLost' /\ AckedIsCommitted'
      BY <1>21, <2>1, SameHistory DEF RemoveJournal
    <2>3. QED
      BY <1>3, <2>1, <2>2
  <1>22. ASSUME NEW p \in Process, FinishBatch(p)
        PROVE  LogInv'
    <2>1. commits' = commits
      BY <1>22 DEF FinishBatch
    <2>2. /\ pc[p] = "done" /\ journal' = journal
          /\ \/ Goto(p, "recovering") /\ UNCHANGED <<own, cur, acked>>
             \/ /\ Leave(p) /\ acked' = acked \cup {own[p]} /\ own[p] = cur[p]
      BY <1>22, Zenon DEF FinishBatch, Recovered
    <2>3. Progress' /\ NothingDurableIsLost' /\ AckedIsCommitted'
      <3>1. CASE Goto(p, "recovering") /\ UNCHANGED <<own, cur, acked>>
        BY <2>1, <2>2, <3>1, SameHistory
      <3>2. CASE Leave(p) /\ acked' = acked \cup {own[p]} /\ own[p] = cur[p]
        <4>1. FilesOf[own[p]] \subseteq HeadTree
          BY <2>2, <3>2
        <4>2. Progress'
          BY <2>1, <2>2, <3>2, SameHistory DEF Leave
        <4>3. NothingDurableIsLost' /\ AckedIsCommitted'
          BY <2>1, <2>2, <3>2, <4>1, SameHistory
        <4>4. QED
          BY <4>2, <4>3
      <3>3. QED
        BY <2>2, <3>1, <3>2
    <2>4. QED
      BY <1>3, <2>1, <2>3
  <1>23. ASSUME NEW p \in Process, Refuse(p)
        PROVE  LogInv'
    <2>1. commits' = commits
      BY <1>23 DEF Refuse
    <2>2. Progress' /\ NothingDurableIsLost' /\ AckedIsCommitted'
      BY <1>23, <2>1, SameHistory DEF Refuse, Leave
    <2>3. QED
      BY <1>3, <2>1, <2>2
  <1>24. ASSUME NEW p \in Process, StartRecovery(p)
        PROVE  LogInv'
    <2>1. commits' = commits
      BY <1>24 DEF StartRecovery
    <2>2. Progress' /\ NothingDurableIsLost' /\ AckedIsCommitted'
      BY <1>24, <2>1, SameHistory DEF StartRecovery
    <2>3. QED
      BY <1>3, <2>1, <2>2
  <1>25. ASSUME NEW p \in Process, Crash(p)
        PROVE  LogInv'
    <2>1. commits' = commits
      BY <1>25 DEF Crash
    <2>2. Progress' /\ NothingDurableIsLost' /\ AckedIsCommitted'
      BY <1>25, <2>1, SameHistory DEF Crash, Leave
    <2>3. QED
      BY <1>3, <2>1, <2>2
  <1>26. ASSUME NEW p \in Process, CrashInWrite(p)
        PROVE  LogInv'
    <2>1. commits' = commits
      BY <1>26 DEF CrashInWrite
    <2>2. Progress' /\ NothingDurableIsLost' /\ AckedIsCommitted'
      BY <1>26, <2>1, SameHistory DEF CrashInWrite, Leave
    <2>3. QED
      BY <1>3, <2>1, <2>2
  <1>27. ASSUME NEW p \in Process, NEW b \in Batch, BeginPrepare(p, b)
        PROVE  LogInv'
    <2>1. commits' = commits
      BY <1>27 DEF BeginPrepare
    <2>2. Progress' /\ NothingDurableIsLost' /\ AckedIsCommitted'
      BY <1>27, <2>1, SameHistory DEF BeginPrepare
    <2>3. QED
      BY <1>3, <2>1, <2>2
  <1>28. ASSUME NEW p \in Process, NEW b \in Batch, ReadPending(p, b)
        PROVE  LogInv'
    <2>1. commits' = commits
      BY <1>28 DEF ReadPending
    <2>2. Progress' /\ NothingDurableIsLost' /\ AckedIsCommitted'
      BY <1>28, <2>1, SameHistory DEF ReadPending
    <2>3. QED
      BY <1>3, <2>1, <2>2
  <1>29. ASSUME NEW b \in Batch, MoveAside(b)
        PROVE  LogInv'
    <2>1. commits' = commits
      BY <1>29 DEF MoveAside
    <2>2. Progress' /\ NothingDurableIsLost' /\ AckedIsCommitted'
      BY <1>29, <2>1, SameHistory DEF MoveAside
    <2>3. QED
      BY <1>3, <2>1, <2>2
  <1>30. CASE UNCHANGED vars
    BY <1>30, <1>3, SameHistory DEF vars
  <1>31. QED
    BY <1>2, <1>4, <1>5, <1>6, <1>7, <1>8, <1>9, <1>10, <1>11, <1>12, <1>13,
       <1>14, <1>15, <1>16, <1>17, <1>18, <1>19, <1>20, <1>21, <1>22, <1>23,
       <1>24, <1>25, <1>26, <1>27, <1>28, <1>29, <1>30 DEF Next, Step

LEMMA LogInit == Init => LogInv
  BY DEF Init, LogInv, Exclusive, LogShape, Progress, NothingDurableIsLost,
         AckedIsCommitted, Locked

\* The inductive invariant holds in every reachable state.
LEMMA LogAlways == Spec => [](TypeInv /\ LogInv)
  <1>1. Init => TypeInv /\ LogInv
    BY TypeInit, LogInit
  <1>2. TypeInv /\ LogInv /\ [Next]_vars => (TypeInv /\ LogInv)'
    BY TypeNext, LogNext
  <1>3. QED
    BY <1>1, <1>2, PTL DEF Spec

(***************************************************************************)
(* Torn files.                                                             *)
(***************************************************************************)
\* What p has found or made whole on the way to its commit.
Created(p) ==
  /\ pc[p] = "create" => \A f \in Missing(cur[p]) \ left[p] : tree[f] = "whole"
  /\ pc[p] \in {"add", "verify", "commit"} => \A f \in Missing(cur[p]) : tree[f] = "whole"

WholeFiles ==
  /\ \A f \in HeadTree : tree[f] = "whole"
  /\ \A p \in Process : Created(p)

\* A whole file is never written again, so only the step of p itself matters.
LEMMA WholeKept ==
  ASSUME TypeInv, WholeFiles, commits' = commits,
         \A f : tree[f] = "whole" => tree'[f] = "whole",
         NEW p \in Process, Created(p)',
         \A q \in Process \ {p} : pc'[q] = pc[q] /\ cur'[q] = cur[q] /\ left'[q] = left[q]
  PROVE  WholeFiles'
  <1>1. HeadTree' = HeadTree /\ \A b : Missing(b)' = Missing(b)
    BY SameHistory DEF Missing
  <1>2. ASSUME NEW q \in Process, q # p
        PROVE  Created(q)'
    BY <1>1, <1>2 DEF WholeFiles, Created
  <1>3. QED
    BY <1>1, <1>2 DEF WholeFiles

\* Between two commits p is not creating or adding anything.
LEMMA WholeOutside ==
  ASSUME TypeInv, WholeFiles, commits' = commits, tree' = tree,
         NEW p \in Process, pc'[p] \notin {"create", "add", "verify", "commit"},
         \A q \in Process \ {p} : pc'[q] = pc[q] /\ cur'[q] = cur[q] /\ left'[q] = left[q]
  PROVE  WholeFiles'
  <1>1. Created(p)'
    BY DEF Created
  <1>2. QED
    BY <1>1, WholeKept

LEMMA WholeNext == TypeInv /\ LogInv /\ WholeFiles /\ [Next]_vars => WholeFiles'
  <1> SUFFICES ASSUME TypeInv, LogInv, WholeFiles, [Next]_vars
               PROVE  WholeFiles'
    OBVIOUS
  <1> USE BoundAssumption
  <1>1. ASSUME NEW p \in Process, GitCommit(p)
        PROVE  WholeFiles'
    <2> DEFINE b == cur[p]
               c == [batch |-> b, files |-> Missing(b)]
    <2>1. /\ b \in Batch /\ c \in Commit
          /\ commits \in Seq(Commit) /\ commits' = Append(commits, c)
          /\ pc[p] = "commit" /\ pc' = [pc EXCEPT ![p] = "record"]
          /\ tree' = tree
      BY <1>1, BatchAssumption DEF GitCommit, Goto, local, TypeInv, TypeOK, HasBatch,
                  CurPcs, Locked, Missing, Commit
    <2>2. HeadTree' = HeadTree \cup Missing(b)
      BY <2>1, CommitHistory
    <2>3. \A f \in Missing(b) : tree[f] = "whole"
      BY <2>1 DEF WholeFiles, Created
    <2>4. \A q \in Process : pc'[q] \notin {"create", "add", "verify", "commit"}
      BY <2>1 DEF LogInv, Exclusive, Locked, TypeInv, TypeOK
    <2>5. QED
      BY <2>1, <2>2, <2>3, <2>4 DEF WholeFiles, Created
  <1> USE DEF TypeInv, TypeOK, WholeFiles, Created, Goto, disk, local
  <1>2. ASSUME NEW p \in Process, PersistJournal(p)
        PROVE  WholeFiles'
    BY <1>2, WholeKept, SameHistory DEF PersistJournal
  <1>3. ASSUME NEW p \in Process, AcquireForAppend(p)
        PROVE  WholeFiles'
    BY <1>3, WholeKept, SameHistory DEF AcquireForAppend
  <1>4. ASSUME NEW p \in Process, AcquireForCommit(p)
        PROVE  WholeFiles'
    BY <1>4, WholeKept, SameHistory DEF AcquireForCommit
  <1>5. ASSUME NEW p \in Process, PickJournal(p)
        PROVE  WholeFiles'
    BY <1>5, WholeKept, SameHistory DEF PickJournal
  <1>6. ASSUME NEW p \in Process, PickOwn(p)
        PROVE  WholeFiles'
    BY <1>6, WholeKept, SameHistory DEF PickOwn
  <1>7. ASSUME NEW p \in Process, RecoveryDone(p)
        PROVE  WholeFiles'
    BY <1>7, WholeKept, SameHistory DEF RecoveryDone, Leave
  <1>8. ASSUME NEW p \in Process, AlreadyCommitted(p)
        PROVE  WholeFiles'
    BY <1>8, WholeKept, SameHistory DEF AlreadyCommitted
  <1>9. ASSUME NEW p \in Process, RecordBase(p)
        PROVE  WholeFiles'
    BY <1>9, WholeKept, SameHistory DEF RecordBase
  <1>10. ASSUME NEW p \in Process, CheckReusable(p)
        PROVE  WholeFiles'
    BY <1>10, WholeKept, SameHistory DEF CheckReusable, Missing
  <1>11. ASSUME NEW p \in Process, CreateFile(p)
        PROVE  WholeFiles'
    BY <1>11, WholeKept, SameHistory DEF CreateFile, Missing
  <1>12. ASSUME NEW p \in Process, AcceptFile(p)
        PROVE  WholeFiles'
    BY <1>12, WholeKept, SameHistory DEF AcceptFile, SameDigest, Missing
  <1>13. ASSUME NEW p \in Process, MarkCreated(p)
        PROVE  WholeFiles'
    BY <1>13, WholeKept, SameHistory DEF MarkCreated, Missing
  <1>14. ASSUME NEW p \in Process, GitAdd(p)
        PROVE  WholeFiles'
    BY <1>14, WholeKept, SameHistory DEF GitAdd, Missing
  <1>15. ASSUME NEW p \in Process, VerifyStaged(p)
        PROVE  WholeFiles'
    BY <1>15, WholeKept, SameHistory DEF VerifyStaged, Missing
  <1>16. ASSUME NEW p \in Process, MarkCommitted(p)
        PROVE  WholeFiles'
    BY <1>16, WholeKept, SameHistory DEF MarkCommitted
  <1>17. ASSUME NEW p \in Process, MarkIndexed(p)
        PROVE  WholeFiles'
    BY <1>17, WholeKept, SameHistory DEF MarkIndexed
  <1>18. ASSUME NEW p \in Process, RemovePayload(p)
        PROVE  WholeFiles'
    BY <1>18, WholeKept, SameHistory DEF RemovePayload
  <1>19. ASSUME NEW p \in Process, RemoveJournal(p)
        PROVE  WholeFiles'
    BY <1>19, WholeKept, SameHistory DEF RemoveJournal
  <1>20. ASSUME NEW p \in Process, FinishBatch(p)
        PROVE  WholeFiles'
    <2>1. commits' = commits /\ tree' = tree
      BY <1>20 DEF FinishBatch
    <2>2. pc'[p] \in {"recovering", "idle"}
      BY <1>20 DEF FinishBatch, Leave
    <2>3. \A q \in Process \ {p} : pc'[q] = pc[q] /\ cur'[q] = cur[q] /\ left'[q] = left[q]
      BY <1>20 DEF FinishBatch, Leave
    <2> HIDE DEF TypeInv, TypeOK, WholeFiles, Created, Goto, disk, local
    <2>4. QED
      BY <2>1, <2>2, <2>3, WholeOutside
  <1>21. ASSUME NEW p \in Process, Refuse(p)
        PROVE  WholeFiles'
    BY <1>21, WholeKept, SameHistory DEF Refuse, Leave
  <1>22. ASSUME NEW p \in Process, StartRecovery(p)
        PROVE  WholeFiles'
    BY <1>22, WholeKept, SameHistory DEF StartRecovery
  <1>23. ASSUME NEW p \in Process, Crash(p)
        PROVE  WholeFiles'
    BY <1>23, WholeKept, SameHistory DEF Crash, Leave
  <1>24. ASSUME NEW p \in Process, CrashInWrite(p)
        PROVE  WholeFiles'
    BY <1>24, WholeKept, SameHistory DEF CrashInWrite, Leave
  <1>25. ASSUME NEW p \in Process, NEW b \in Batch, BeginPrepare(p, b)
        PROVE  WholeFiles'
    BY <1>25, WholeKept, SameHistory DEF BeginPrepare, Missing
  <1>26. ASSUME NEW p \in Process, NEW b \in Batch, ReadPending(p, b)
        PROVE  WholeFiles'
    BY <1>26, WholeKept, SameHistory DEF ReadPending, Missing
  <1>27. ASSUME NEW b \in Batch, MoveAside(b)
        PROVE  WholeFiles'
    BY <1>27, WholeKept, SameHistory DEF MoveAside, Missing
  <1>28. CASE UNCHANGED vars
    BY <1>28, SameHistory DEF vars, Missing
  <1>29. QED
    BY <1>1, <1>2, <1>3, <1>4, <1>5, <1>6, <1>7, <1>8, <1>9, <1>10, <1>11,
       <1>12, <1>13, <1>14, <1>15, <1>16, <1>17, <1>18, <1>19, <1>20, <1>21,
       <1>22, <1>23, <1>24, <1>25, <1>26, <1>27, <1>28 DEF Next, Step

\* No torn file ever gets into HEAD.
LEMMA WholeAlways == Spec => []WholeFiles
  <1>1. Init => WholeFiles
    BY DEF Init, WholeFiles, Created, HeadTree, TreeAt
  <1>2. QED
    BY <1>1, LogAlways, WholeNext, PTL DEF Spec

(***************************************************************************)
(* The safety properties.                                                  *)
(***************************************************************************)
\* The trees of HEAD's history only grow.
LEMMA TreesGrow ==
  ASSUME NEW m \in Nat, NEW n \in Nat, m <= n
  PROVE  TreeAt(m) \subseteq TreeAt(n)
  BY TreeMembership

\* Every commit of HEAD holds the whole batch it names: what a batch's commit
\* leaves out (Missing) is in the tree below it; and no torn file gets into HEAD.
THEOREM WholeBatches == Spec => []BatchAtomicity
  <1>1. ASSUME TypeInv, LogInv, NEW i \in 1 .. Len(commits)
        PROVE  FilesOf[commits[i].batch] \subseteq TreeAt(i)
    <2>1. Len(commits) \in Nat /\ i \in Nat /\ i - 1 \in Nat
      BY <1>1 DEF TypeInv, TypeOK
    <2>2. commits[i].files = FilesOf[commits[i].batch] \ TreeAt(i - 1)
      BY <1>1 DEF LogInv, LogShape
    <2>3. commits[i].files \subseteq TreeAt(i)
      BY <2>1, TreeMembership
    <2>4. TreeAt(i - 1) \subseteq TreeAt(i)
      BY <2>1, TreesGrow
    <2>5. QED
      BY <2>2, <2>3, <2>4
  <1>2. TypeInv /\ LogInv /\ WholeFiles => BatchAtomicity
    BY <1>1 DEF BatchAtomicity, WholeFiles
  <1>3. QED
    BY <1>2, LogAlways, WholeAlways, PTL

\* No batch has two commits, whoever commits it: its event is new to the tree
\* below its commit (InHead), and every later tree holds it.
THEOREM CommittedOnce == Spec => []AtMostOneCommit
  <1>1. TypeInv /\ LogInv => AtMostOneCommit
    <2> SUFFICES ASSUME TypeInv, LogInv,
                        NEW i \in 1 .. Len(commits), NEW j \in 1 .. Len(commits),
                        commits[i].batch = commits[j].batch, i < j
                 PROVE  FALSE
      BY DEF AtMostOneCommit, TypeInv, TypeOK
    <2> DEFINE b == commits[i].batch
    <2>1. /\ Len(commits) \in Nat /\ i \in Nat /\ j \in Nat
          /\ i - 1 \in Nat /\ j - 1 \in Nat /\ i <= j - 1
      BY DEF TypeInv, TypeOK
    <2>2. commits[i] \in Commit
      BY DEF TypeInv, TypeOK
    <2>3. b \in Batch
      BY <2>2 DEF Commit
    <2>4. EventOf[b] \in FilesOf[b]
      BY <2>3, BatchAssumption
    <2>5. /\ commits[i].files = FilesOf[b] \ TreeAt(i - 1)
          /\ EventOf[b] \notin TreeAt(i - 1)
          /\ EventOf[b] \notin TreeAt(j - 1)
      BY DEF LogInv, LogShape
    <2>6. EventOf[b] \in commits[i].files
      BY <2>4, <2>5
    <2>7. EventOf[b] \in TreeAt(j - 1)
      BY <2>1, <2>6, TreeMembership
    <2>8. QED
      BY <2>5, <2>7
  <1>2. QED
    BY <1>1, LogAlways, PTL

\* cleanup removes a journal only after HEAD has the batch, as a whole.
THEOREM DurableIsKept == Spec => []NothingDurableIsLost
  <1>1. LogInv => NothingDurableIsLost
    BY DEF LogInv
  <1>2. QED
    BY <1>1, LogAlways, PTL

\* append_event returns success only for a batch that HEAD holds.
THEOREM AckIsCommitted == Spec => []AckedIsCommitted
  <1>1. LogInv => AckedIsCommitted
    BY DEF LogInv
  <1>2. QED
    BY <1>1, LogAlways, PTL

(***************************************************************************)
(* The abstract log.                                                       *)
(***************************************************************************)
\* Once its payloads are checked, the journal stays until its commit: to move
\* it aside the operator would need the lock.
Protected ==
  \A p \in Process :
    pc[p] \in {"create", "add", "verify", "commit"} => journal[cur[p]] = "durable"

LEMMA ProtectedNext == TypeInv /\ LogInv /\ Protected /\ [Next]_vars => Protected'
  <1> SUFFICES ASSUME TypeInv, LogInv, Protected, [Next]_vars
               PROVE  Protected'
    OBVIOUS
  <1> USE BatchAssumption, BoundAssumption
      DEF LogInv, Exclusive, Protected, TypeInv, TypeOK, HasBatch, CurPcs, Locked, Goto,
          disk, local
  <1>1. ASSUME NEW p \in Process, PersistJournal(p)
        PROVE  Protected'
    BY <1>1 DEF PersistJournal
  <1>2. ASSUME NEW p \in Process, AcquireForAppend(p)
        PROVE  Protected'
    BY <1>2 DEF AcquireForAppend
  <1>3. ASSUME NEW p \in Process, AcquireForCommit(p)
        PROVE  Protected'
    BY <1>3 DEF AcquireForCommit
  <1>4. ASSUME NEW p \in Process, PickJournal(p)
        PROVE  Protected'
    BY <1>4 DEF PickJournal
  <1>5. ASSUME NEW p \in Process, PickOwn(p)
        PROVE  Protected'
    BY <1>5 DEF PickOwn
  <1>6. ASSUME NEW p \in Process, RecoveryDone(p)
        PROVE  Protected'
    BY <1>6 DEF RecoveryDone, Leave
  <1>7. ASSUME NEW p \in Process, AlreadyCommitted(p)
        PROVE  Protected'
    BY <1>7 DEF AlreadyCommitted
  <1>8. ASSUME NEW p \in Process, RecordBase(p)
        PROVE  Protected'
    BY <1>8 DEF RecordBase
  <1>9. ASSUME NEW p \in Process, CheckReusable(p)
        PROVE  Protected'
    BY <1>9 DEF CheckReusable, Restorable
  <1>10. ASSUME NEW p \in Process, CreateFile(p)
        PROVE  Protected'
    BY <1>10 DEF CreateFile
  <1>11. ASSUME NEW p \in Process, AcceptFile(p)
        PROVE  Protected'
    BY <1>11 DEF AcceptFile
  <1>12. ASSUME NEW p \in Process, MarkCreated(p)
        PROVE  Protected'
    BY <1>12 DEF MarkCreated
  <1>13. ASSUME NEW p \in Process, GitAdd(p)
        PROVE  Protected'
    BY <1>13 DEF GitAdd
  <1>14. ASSUME NEW p \in Process, VerifyStaged(p)
        PROVE  Protected'
    BY <1>14 DEF VerifyStaged
  <1>15. ASSUME NEW p \in Process, GitCommit(p)
        PROVE  Protected'
    BY <1>15 DEF GitCommit
  <1>16. ASSUME NEW p \in Process, MarkCommitted(p)
        PROVE  Protected'
    BY <1>16 DEF MarkCommitted
  <1>17. ASSUME NEW p \in Process, MarkIndexed(p)
        PROVE  Protected'
    BY <1>17 DEF MarkIndexed
  <1>18. ASSUME NEW p \in Process, RemovePayload(p)
        PROVE  Protected'
    BY <1>18 DEF RemovePayload
  <1>19. ASSUME NEW p \in Process, RemoveJournal(p)
        PROVE  Protected'
    BY <1>19 DEF RemoveJournal
  <1>20. ASSUME NEW p \in Process, FinishBatch(p)
        PROVE  Protected'
    BY <1>20 DEF FinishBatch, Leave
  <1>21. ASSUME NEW p \in Process, Refuse(p)
        PROVE  Protected'
    BY <1>21 DEF Refuse, Leave
  <1>22. ASSUME NEW p \in Process, StartRecovery(p)
        PROVE  Protected'
    BY <1>22 DEF StartRecovery
  <1>23. ASSUME NEW p \in Process, Crash(p)
        PROVE  Protected'
    BY <1>23 DEF Crash, Leave
  <1>24. ASSUME NEW p \in Process, CrashInWrite(p)
        PROVE  Protected'
    BY <1>24 DEF CrashInWrite, Leave
  <1>25. ASSUME NEW p \in Process, NEW b \in Batch, BeginPrepare(p, b)
        PROVE  Protected'
    BY <1>25 DEF BeginPrepare
  <1>26. ASSUME NEW p \in Process, NEW b \in Batch, ReadPending(p, b)
        PROVE  Protected'
    BY <1>26 DEF ReadPending
  <1>27. ASSUME NEW b \in Batch, MoveAside(b)
        PROVE  Protected'
    BY <1>27 DEF MoveAside
  <1>28. CASE UNCHANGED vars
    BY <1>28 DEF vars
  <1>29. QED
    BY <1>1, <1>2, <1>3, <1>4, <1>5, <1>6, <1>7, <1>8, <1>9, <1>10,
       <1>11, <1>12, <1>13, <1>14, <1>15, <1>16, <1>17, <1>18, <1>19,
       <1>20, <1>21, <1>22, <1>23, <1>24, <1>25, <1>26, <1>27, <1>28 DEF Next, Step

\* Only its own commit brings the event of a batch into HEAD.
LEMMA OthersStayOut ==
  ASSUME TypeInv, NEW p \in Process, GitCommit(p), NEW b \in Batch, b # cur[p]
  PROVE  InHead(b)' <=> InHead(b)
  <1> DEFINE c == [batch |-> cur[p], files |-> Missing(cur[p])]
  <1>1. cur[p] \in Batch /\ c \in Commit /\ commits' = Append(commits, c) /\ commits \in Seq(Commit)
    BY BatchAssumption DEF GitCommit, TypeInv, TypeOK, HasBatch, CurPcs, Locked, Missing, Commit
  <1>2. HeadTree' = HeadTree \cup Missing(cur[p])
    BY <1>1, CommitHistory
  <1>3. EventOf[b] \notin FilesOf[cur[p]]
    BY <1>1, BatchAssumption
  <1>4. QED
    BY <1>2, <1>3 DEF InHead, Missing

\* Every other step leaves HEAD alone.
LEMMA OnlyCommitsCommit ==
  ASSUME [Next]_vars
  PROVE  commits' = commits \/ \E p \in Process : GitCommit(p)
<1> USE DEF vars, disk, local, Leave
<1>1. ASSUME NEW p \in Process, Step(p)
      PROVE  commits' = commits \/ GitCommit(p)
  <2>1. CASE \/ PersistJournal(p) \/ AcquireForAppend(p) \/ AcquireForCommit(p)
             \/ PickJournal(p) \/ PickOwn(p) \/ RecoveryDone(p)
    BY <2>1 DEF PersistJournal, AcquireForAppend, AcquireForCommit, PickJournal, PickOwn, RecoveryDone
  <2>2. CASE \/ AlreadyCommitted(p) \/ RecordBase(p) \/ CheckReusable(p)
             \/ CreateFile(p) \/ AcceptFile(p) \/ MarkCreated(p)
    BY <2>2 DEF AlreadyCommitted, RecordBase, CheckReusable, CreateFile, AcceptFile, MarkCreated
  <2>3. CASE \/ GitAdd(p) \/ VerifyStaged(p) \/ MarkCommitted(p) \/ MarkIndexed(p)
    BY <2>3 DEF GitAdd, VerifyStaged, MarkCommitted, MarkIndexed
  <2>4. CASE RemovePayload(p) \/ RemoveJournal(p) \/ FinishBatch(p) \/ Refuse(p)
    BY <2>4 DEF RemovePayload, RemoveJournal, FinishBatch, Refuse
  <2> QED
    BY <1>1, <2>1, <2>2, <2>3, <2>4 DEF Step
<1>2. ASSUME NEW p \in Process, StartRecovery(p) \/ Crash(p) \/ CrashInWrite(p)
      PROVE  commits' = commits
  BY <1>2 DEF StartRecovery, Crash, CrashInWrite
<1>3. ASSUME NEW p \in Process, NEW b \in Batch, BeginPrepare(p, b) \/ ReadPending(p, b)
      PROVE  commits' = commits
  BY <1>3 DEF BeginPrepare, ReadPending
<1>4. ASSUME NEW b \in Batch, MoveAside(b)
      PROVE  commits' = commits
  BY <1>4 DEF MoveAside
<1>5. CASE UNCHANGED vars
  BY <1>5
<1> QED
  BY <1>1, <1>2, <1>3, <1>4, <1>5 DEF Next

\* The operator's decision lasts: no writer that read or prepared the journal
\* before it was moved aside commits it afterwards (CheckReusable reads the
\* pending directory again, under the lock that move_pending_aside needs).
THEOREM AsideIsRespected == Spec => AsideStaysOut
  <1> DEFINE Kept == \A b \in Batch : journal[b] = "aside" /\ ~InHead(b) => EventOf[b] \notin HeadTree'
  <1>1. TypeInv /\ LogInv /\ Protected /\ [Next]_vars => Kept
    <2> SUFFICES ASSUME TypeInv, LogInv, Protected, [Next]_vars,
                        NEW b \in Batch, journal[b] = "aside", ~InHead(b)
                 PROVE  ~InHead(b)'
      BY DEF InHead
    <2>1. CASE commits' = commits
      BY <2>1, SameHistory
    <2>2. ASSUME NEW p \in Process, GitCommit(p)
          PROVE  ~InHead(b)'
      <3>1. cur[p] # b
        BY <2>2 DEF GitCommit, Protected
      <3>2. QED
        BY <2>2, <3>1, OthersStayOut
    <2>3. QED
      BY <2>1, <2>2, OnlyCommitsCommit
  <1>2. Init => Protected
    BY DEF Init, Protected
  <1>3. QED
    BY <1>1, <1>2, LogAlways, ProtectedNext, PTL DEF Spec, AsideStaysOut

\* What a step that makes no commit may do to the journals.
LEMMA JournalSteps ==
  ASSUME TypeInv, LogInv, [Next]_vars, commits' = commits
  PROVE  \/ journal' = journal
         \/ \E b \in Batch :
              \/ journal[b] = "absent" /\ journal' = [journal EXCEPT ![b] = "preparing"]
              \/ journal[b] = "preparing" /\ journal' = [journal EXCEPT ![b] = "durable"]
              \/ /\ journal[b] \in {"preparing", "durable"}
                 /\ journal' = [journal EXCEPT ![b] = "aside"]
              \/ InHead(b) /\ journal' = [journal EXCEPT ![b] = "gone"]
  <1>1. ASSUME NEW p \in Process, NEW b \in Batch, BeginPrepare(p, b)
        PROVE  journal[b] = "absent" /\ journal' = [journal EXCEPT ![b] = "preparing"]
    BY <1>1 DEF BeginPrepare
  <1>2. ASSUME NEW p \in Process, PersistJournal(p)
        PROVE  /\ own[p] \in Batch /\ journal[own[p]] = "preparing"
               /\ journal' = [journal EXCEPT ![own[p]] = "durable"]
    BY <1>2 DEF PersistJournal, TypeInv, HasBatch
  <1>3. ASSUME NEW b \in Batch, MoveAside(b)
        PROVE  /\ journal[b] \in {"preparing", "durable"}
               /\ journal' = [journal EXCEPT ![b] = "aside"]
    BY <1>3 DEF MoveAside
  <1>4. ASSUME NEW p \in Process, RemoveJournal(p)
        PROVE  \/ journal' = journal
               \/ /\ cur[p] \in Batch /\ InHead(cur[p])
                  /\ journal' = [journal EXCEPT ![cur[p]] = "gone"]
    <2>1. cur[p] \in Batch /\ FilesOf[cur[p]] \subseteq HeadTree
      BY <1>4 DEF RemoveJournal, TypeInv, HasBatch, CurPcs, Locked, LogInv, Progress
    <2>2. InHead(cur[p])
      BY <2>1, BatchAssumption DEF InHead
    <2>3. QED
      BY <1>4, <2>1, <2>2 DEF RemoveJournal
  <1>5. \/ journal' = journal
        \/ \E p \in Process : \/ PersistJournal(p) \/ RemoveJournal(p)
                              \/ \E b \in Batch : BeginPrepare(p, b)
        \/ \E b \in Batch : MoveAside(b)
    <2>1. ASSUME NEW p \in Process, Step(p)
          PROVE  journal' = journal \/ PersistJournal(p) \/ RemoveJournal(p)
      <3>1. CASE \/ AcquireForAppend(p) \/ AcquireForCommit(p) \/ PickJournal(p) \/ PickOwn(p)
                 \/ RecoveryDone(p) \/ AlreadyCommitted(p) \/ RecordBase(p) \/ CheckReusable(p)
        BY <3>1 DEF AcquireForAppend, AcquireForCommit, PickJournal, PickOwn, RecoveryDone,
                    AlreadyCommitted, RecordBase, CheckReusable, disk
      <3>2. CASE \/ CreateFile(p) \/ AcceptFile(p) \/ MarkCreated(p) \/ GitAdd(p) \/ VerifyStaged(p)
                 \/ GitCommit(p)
        BY <3>2 DEF CreateFile, AcceptFile, MarkCreated, GitAdd, VerifyStaged, GitCommit, disk
      <3>3. CASE \/ MarkCommitted(p) \/ MarkIndexed(p) \/ RemovePayload(p) \/ FinishBatch(p) \/ Refuse(p)
        BY <3>3 DEF MarkCommitted, MarkIndexed, RemovePayload, FinishBatch, Refuse, disk
      <3>4. QED
        BY <2>1, <3>1, <3>2, <3>3 DEF Step
    <2>2. ASSUME NEW p \in Process, StartRecovery(p) \/ Crash(p) \/ CrashInWrite(p)
          PROVE  journal' = journal
      BY <2>2 DEF StartRecovery, Crash, CrashInWrite, disk
    <2>3. ASSUME NEW p \in Process, NEW b \in Batch, ReadPending(p, b)
          PROVE  journal' = journal
      BY <2>3 DEF ReadPending, disk
    <2>4. CASE UNCHANGED vars
      BY <2>4 DEF vars, disk
    <2>5. QED
      BY <2>1, <2>2, <2>3, <2>4 DEF Next
  <1>6. QED
    BY <1>1, <1>2, <1>3, <1>4, <1>5

LEMMA StatusIs ==
  ASSUME NEW b
  PROVE  /\ InHead(b) => StatusOf(b) = "committed"
         /\ ~InHead(b) /\ journal[b] = "durable" => StatusOf(b) = "pending"
         /\ ~InHead(b) /\ journal[b] = "aside" => StatusOf(b) = "aside"
         /\ ~InHead(b) /\ journal[b] \notin {"durable", "aside"} => StatusOf(b) = "none"
  BY DEF StatusOf

LEMMA StatusIsNext ==
  ASSUME NEW b
  PROVE  /\ InHead(b)' => StatusOf(b)' = "committed"
         /\ ~InHead(b)' /\ journal'[b] = "durable" => StatusOf(b)' = "pending"
         /\ ~InHead(b)' /\ journal'[b] = "aside" => StatusOf(b)' = "aside"
         /\ ~InHead(b)' /\ journal'[b] \notin {"durable", "aside"} => StatusOf(b)' = "none"
  BY DEF StatusOf

statusBar == [b \in Batch |-> StatusOf(b)]
logBar == [i \in 1 .. Len(commits) |-> commits[i].batch]

\* A change of one batch, seen from the abstract log.
LEMMA StatusChange ==
  ASSUME NEW b \in Batch, \A c \in Batch \ {b} : StatusOf(c)' = StatusOf(c)
  PROVE  statusBar' = [statusBar EXCEPT ![b] = StatusOf(b)']
  BY DEF statusBar

LEMMA AbstractInit == Init => Abstract!Init
  <1> SUFFICES ASSUME Init PROVE Abstract!Init
    OBVIOUS
  <1>1. \A b \in Batch : ~InHead(b) /\ journal[b] = "absent"
    BY DEF Init, InHead, HeadTree, TreeAt
  <1>2. \A b \in Batch : StatusOf(b) = "none"
    BY <1>1, StatusIs
  <1>3. [i \in 1 .. Len(commits) |-> commits[i].batch] = << >>
    BY DEF Init
  <1>4. QED
    BY <1>2, <1>3 DEF Abstract!Init

\* Every step of the writer is a step of the abstract log, or none.
LEMMA AbstractStep ==
  TypeInv /\ LogInv /\ Protected /\ [Next]_vars => [Abstract!Next]_<<statusBar, logBar>>
  <1> SUFFICES ASSUME TypeInv, LogInv, Protected, [Next]_vars
               PROVE  Abstract!Next \/ UNCHANGED <<statusBar, logBar>>
    OBVIOUS
  <1>1. CASE commits' = commits
    <2>1. logBar' = logBar /\ \A b \in Batch : InHead(b)' <=> InHead(b)
      BY <1>1, SameHistory DEF logBar
    <2>2. CASE journal' = journal
      <3>1. \A b \in Batch : StatusOf(b)' = StatusOf(b)
        BY <2>1, <2>2 DEF StatusOf
      <3>2. QED
        BY <2>1, <3>1 DEF statusBar
    <2>3. ASSUME NEW b \in Batch, NEW j, journal' = [journal EXCEPT ![b] = j],
                 \/ journal[b] = "absent" /\ j = "preparing"
                 \/ journal[b] = "preparing" /\ j = "durable"
                 \/ journal[b] \in {"preparing", "durable"} /\ j = "aside"
                 \/ InHead(b) /\ j = "gone"
          PROVE  Abstract!Next \/ UNCHANGED <<statusBar, logBar>>
      <3>1. journal'[b] = j /\ \A c \in Batch \ {b} : journal'[c] = journal[c]
        BY <2>3 DEF TypeInv, TypeOK
      <3>2. \A c \in Batch \ {b} : StatusOf(c)' = StatusOf(c)
        BY <2>1, <3>1 DEF StatusOf
      <3>3. statusBar' = [statusBar EXCEPT ![b] = StatusOf(b)'] /\ statusBar[b] = StatusOf(b)
        BY <3>2, StatusChange DEF statusBar
      <3>4. \/ StatusOf(b)' = StatusOf(b)
            \/ StatusOf(b) = "none" /\ StatusOf(b)' = "pending"
            \/ StatusOf(b) \in {"none", "pending"} /\ StatusOf(b)' = "aside"
        BY <2>1, <2>3, <3>1, StatusIs, StatusIsNext
      <3>5. CASE StatusOf(b)' = StatusOf(b)
        BY <2>1, <3>2, <3>5 DEF statusBar
      <3>6. CASE StatusOf(b) = "none" /\ StatusOf(b)' = "pending"
        BY <2>1, <3>3, <3>6 DEF Abstract!Next, Abstract!Accept, statusBar, logBar
      <3>7. CASE StatusOf(b) \in {"none", "pending"} /\ StatusOf(b)' = "aside"
        BY <2>1, <3>3, <3>7 DEF Abstract!Next, Abstract!SetAside, statusBar, logBar
      <3>8. QED
        BY <3>4, <3>5, <3>6, <3>7
    <2>4. QED
      BY <1>1, <2>2, <2>3, JournalSteps
  <1>2. ASSUME NEW p \in Process, GitCommit(p), NEW b \in Batch, b = cur[p]
        PROVE  Abstract!Next
    <2> DEFINE c == [batch |-> b, files |-> Missing(b)]
    <2>1. /\ c \in Commit /\ commits \in Seq(Commit) /\ commits' = Append(commits, c)
          /\ pc[p] = "commit" /\ journal' = journal
      BY <1>2, BatchAssumption DEF GitCommit, TypeInv, TypeOK, Missing, Commit
    <2>2. ~InHead(b) /\ journal[b] = "durable"
      BY <1>2, <2>1 DEF LogInv, Progress, Protected
    <2>3. InHead(b)'
      <3>1. HeadTree' = HeadTree \cup Missing(b)
        BY <2>1, CommitHistory
      <3>2. EventOf[b] \in FilesOf[b]
        BY <2>1, BatchAssumption
      <3>3. QED
        BY <3>1, <3>2 DEF InHead, Missing
    <2>4. StatusOf(b) = "pending" /\ StatusOf(b)' = "committed"
      BY <2>2, <2>3, StatusIs, StatusIsNext
    <2>5. ASSUME NEW d \in Batch \ {b}
          PROVE  StatusOf(d)' = StatusOf(d)
      <3>1. InHead(d)' <=> InHead(d)
        BY <1>2, OthersStayOut
      <3>2. QED
        BY <2>1, <3>1 DEF StatusOf
    <2>6. statusBar' = [statusBar EXCEPT ![b] = "committed"] /\ statusBar[b] = "pending"
      <3>1. statusBar' = [statusBar EXCEPT ![b] = StatusOf(b)']
        BY <2>1, <2>5, StatusChange
      <3>2. QED
        BY <2>1, <2>4, <3>1 DEF statusBar
    <2>7. logBar' = Append(logBar, b)
      <3> DEFINE n == Len(commits)
      <3>1. n \in Nat /\ \A i \in 1 .. n : commits[i].batch \in Batch
        <4>1. n \in Nat /\ \A i \in 1 .. n : commits[i] \in Commit
          BY <2>1
        <4>2. QED
          BY <4>1 DEF Commit
      <3>2. /\ Len(commits') = n + 1 /\ commits'[n + 1] = c
            /\ \A i \in 1 .. n : commits'[i] = commits[i]
        BY <2>1, CommitHistory
      <3>3. c.batch = b
        OBVIOUS
      <3> HIDE DEF n, c
      <3>4. logBar' = [i \in 1 .. n + 1 |-> IF i = n + 1 THEN b ELSE commits[i].batch]
        BY <3>1, <3>2, <3>3 DEF logBar
      <3>5. logBar \in Seq(Batch) /\ Len(logBar) = n /\ \A i \in 1 .. n : logBar[i] = commits[i].batch
        BY <3>1 DEF logBar, n
      <3>6. /\ Append(logBar, b) \in Seq(Batch) /\ Len(Append(logBar, b)) = n + 1
            /\ \A i \in 1 .. n : Append(logBar, b)[i] = logBar[i]
            /\ Append(logBar, b)[n + 1] = b
        BY <3>5, AppendProperties
      <3>7. /\ logBar' \in Seq(Batch) /\ Len(logBar') = n + 1
            /\ \A i \in 1 .. n + 1 : logBar'[i] = Append(logBar, b)[i]
        BY <3>1, <3>4, <3>5, <3>6
      <3>8. QED
        BY <3>6, <3>7, SeqEqual
    <2>8. QED
      BY <2>1, <2>6, <2>7 DEF Abstract!Next, Abstract!Commit, statusBar, logBar
  <1>3. \A p \in Process : GitCommit(p) => cur[p] \in Batch
    BY DEF GitCommit, TypeInv, HasBatch, CurPcs, Locked
  <1>4. QED
    BY <1>1, <1>2, <1>3, OnlyCommitsCommit

\* The writer implements the abstract log: through every crash, foreign recovery
\* and refused journal each step accepts one batch, commits one batch as a whole
\* and once, sets one aside before it is committed, or changes nothing a caller
\* could see (append_event, recover_pending, move_pending_aside).
THEOREM WriterImplementsLog == Spec => ImplementsAppendLog
  <1>1. Init => Protected
    BY DEF Init, Protected
  <1>2. TypeInv /\ LogInv /\ Protected /\ [Next]_vars => [Abstract!Next]_<<statusBar, logBar>>
    BY AbstractStep
  <1>3. QED
    BY <1>1, <1>2, AbstractInit, LogAlways, ProtectedNext, PTL
       DEF Spec, ImplementsAppendLog, Abstract!Spec, statusBar, logBar

=============================================================================
