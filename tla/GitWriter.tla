----------------------------- MODULE GitWriter -----------------------------
(***************************************************************************)
(* The append path of the Git knowledge store (crates/git-store).          *)
(*                                                                         *)
(* Several processes (CLI commands, MCP servers, Hooks) open one           *)
(* installation directory.  A batch of immutable files is first made       *)
(* durable as a journal under state/pending/<batch>, WITHOUT any lock;     *)
(* then, under writer.lock, the writer commits every other journal it      *)
(* finds, and its own, each in one Git commit, and removes the journal.    *)
(* A crash at any step leaves the journal, the working tree, the Git       *)
(* index and HEAD as they are; the operating system drops writer.lock.     *)
(*                                                                         *)
(* Content is abstracted by path: an object path is the digest of its      *)
(* content and an event path is a fresh event id, so a file present under  *)
(* a path is either torn or is that content.  HEAD is a sequence of        *)
(* commits; commit 0 is the bootstrap commit and a base_head_oid is the    *)
(* number of commits on top of it.                                         *)
(***************************************************************************)
EXTENDS Integers, Sequences

CONSTANTS
  Process,     \* processes that share one installation directory
  Batch,       \* batch ids (bat_<uuid>), each prepared at most once
  Path,        \* managed paths: events/... and objects/...
  Object,      \* the paths that are content-addressed objects
  FilesOf,     \* the target paths of each batch's journal
  EventOf,     \* the primary event path of each batch
  MaxCrashes,  \* bound: number of crashes in a behaviour
  None

ASSUME BatchAssumption ==
  /\ Object \subseteq Path
  /\ FilesOf \in [Batch -> SUBSET Path]
  /\ EventOf \in [Batch -> Path]
  /\ \A b \in Batch : EventOf[b] \in FilesOf[b] \ Object
  /\ \A a, b \in Batch : a # b => FilesOf[a] \cap FilesOf[b] \subseteq Object

ASSUME BoundAssumption ==
  /\ MaxCrashes \in Nat
  /\ None \notin Batch
  /\ None \notin Process

VARIABLES
  journal,   \* state/pending/<batch>: absent, preparing, durable, gone, aside
  base,      \* base_head_oid persisted in journal.json
  phase,     \* phase persisted in journal.json
  payload,   \* batches whose payload files are complete
  tree,      \* the files of the working tree
  index,     \* paths in the Git index
  commits,   \* the commits reachable from HEAD, oldest first
  lock,      \* holder of writer.lock
  pc,        \* where each process is
  own,       \* the batch a process is appending
  cur,       \* the journal a process is committing
  todo,      \* journals its recovery has still to commit
  memBase,   \* base_head_oid of cur in memory
  left,      \* files of cur it has still to create
  acked,     \* batches whose append returned success
  crashes    \* crashes so far

disk  == <<journal, base, phase, payload, tree, index, commits>>
local == <<own, cur, todo, memBase, left>>
vars  == <<disk, lock, pc, local, acked, crashes>>

NoBase == -1

Phases == {"Prepared", "Created", "Staged", "Committed", "Indexed"}

Unlocked == {"idle", "preparing", "prepared", "loaded"}
Locked   == {"recovering", "reconcile", "check", "create", "add", "verify",
             "commit", "record", "observe", "cleanup", "done"}

(***************************************************************************)
(* What Git reports.                                                       *)
(***************************************************************************)
\* The tree of the n-th commit: git show <oid>:<path>.
TreeAt(n) == UNION {commits[i].files : i \in 1 .. n}

\* Mutant: HEAD as it was before the last commit.
StaleHeadTree == TreeAt(Len(commits) - 1)

HeadTree == TreeAt(Len(commits))

\* git diff --cached --name-status HEAD.
Staged == index \ HeadTree

\* The journals read_journals returns.
Durable == {b \in Batch : journal[b] = "durable"}

\* Mutant: the objects of the batch are forgotten.
MissingEventOnly(b) == {EventOf[b]} \ HeadTree

\* The paths of b that its commit has to add.
Missing(b) == FilesOf[b] \ HeadTree

\* The primary event decides whether a batch is in HEAD.
InHead(b) == EventOf[b] \in HeadTree

\* Mutant: any file under the path is accepted.
FileExists(f) == tree[f] # "absent"

\* A file an interrupted attempt has left counts only with the right digest.
SameDigest(f) == tree[f] = "whole"

\* Every journal but the one its own append is committing is `recovered`.
Recovered(p) == cur[p] # own[p]

Init ==
  /\ journal = [b \in Batch |-> "absent"]
  /\ base = [b \in Batch |-> NoBase]
  /\ phase = [b \in Batch |-> "Prepared"]
  /\ payload = {}
  /\ tree = [f \in Path |-> "absent"]
  /\ index = {}
  /\ commits = << >>
  /\ lock = None
  /\ pc = [p \in Process |-> "idle"]
  /\ own = [p \in Process |-> None]
  /\ cur = [p \in Process |-> None]
  /\ todo = [p \in Process |-> {}]
  /\ memBase = [p \in Process |-> NoBase]
  /\ left = [p \in Process |-> {}]
  /\ acked = {}
  /\ crashes = 0

Goto(p, label) == pc' = [pc EXCEPT ![p] = label]

\* p returns, or dies: its memory is gone and writer.lock is released.
Leave(p) ==
  /\ pc' = [pc EXCEPT ![p] = "idle"]
  /\ own' = [own EXCEPT ![p] = None]
  /\ cur' = [cur EXCEPT ![p] = None]
  /\ todo' = [todo EXCEPT ![p] = {}]
  /\ memBase' = [memBase EXCEPT ![p] = NoBase]
  /\ left' = [left EXCEPT ![p] = {}]
  /\ lock' = IF lock = p THEN None ELSE lock

-----------------------------------------------------------------------------
(***************************************************************************)
(* Preparing a batch: no lock is held.                                     *)
(***************************************************************************)
\* create_dir(pending/<batch>), then its payloads; journal.json comes last.
BeginPrepare(p, b) ==
  /\ pc[p] = "idle"
  /\ journal[b] = "absent"
  /\ journal' = [journal EXCEPT ![b] = "preparing"]
  /\ own' = [own EXCEPT ![p] = b]
  /\ Goto(p, "preparing")
  /\ UNCHANGED <<base, phase, payload, tree, index, commits, lock, cur, todo,
                 memBase, left, acked, crashes>>

\* write_journal renames journal.json into place.
PersistJournal(p) ==
  /\ pc[p] = "preparing"
  /\ journal[own[p]] = "preparing"
  /\ journal' = [journal EXCEPT ![own[p]] = "durable"]
  /\ payload' = payload \cup {own[p]}
  /\ Goto(p, "prepared")
  /\ UNCHANGED <<base, phase, tree, index, commits, lock, local, acked,
                 crashes>>

(***************************************************************************)
(* Entering the critical section.                                          *)
(***************************************************************************)
\* append_event: writer_lock, then recover_all_locked(Some(own)).
AcquireForAppend(p) ==
  /\ pc[p] = "prepared"
  /\ lock = None
  /\ lock' = p
  /\ todo' = [todo EXCEPT ![p] = Durable \ {own[p]}]
  /\ Goto(p, "recovering")
  /\ UNCHANGED <<disk, own, cur, memBase, left, acked, crashes>>

\* recover_pending, and the recovery a Candidate submission starts with.
StartRecovery(p) ==
  /\ pc[p] = "idle"
  /\ lock = None
  /\ Durable # {}
  /\ lock' = p
  /\ todo' = [todo EXCEPT ![p] = Durable]
  /\ Goto(p, "recovering")
  /\ UNCHANGED <<disk, own, cur, memBase, left, acked, crashes>>

\* commit_pending reads the journal before it takes the lock.
ReadPending(p, b) ==
  /\ pc[p] = "idle"
  /\ journal[b] = "durable"
  /\ cur' = [cur EXCEPT ![p] = b]
  /\ memBase' = [memBase EXCEPT ![p] = base[b]]
  /\ Goto(p, "loaded")
  /\ UNCHANGED <<disk, lock, own, todo, left, acked, crashes>>

AcquireForCommit(p) ==
  /\ pc[p] = "loaded"
  /\ lock = None
  /\ lock' = p
  /\ Goto(p, "reconcile")
  /\ UNCHANGED <<disk, local, acked, crashes>>

\* move_pending_aside: a rename under writer.lock; the repository is untouched.
\* The directory is enough: its journal may not be written yet.
MoveAside(b) ==
  /\ lock = None
  /\ journal[b] \in {"preparing", "durable"}
  /\ journal' = [journal EXCEPT ![b] = "aside"]
  /\ UNCHANGED <<base, phase, payload, tree, index, commits, lock, pc, local,
                 acked, crashes>>

(***************************************************************************)
(* recover_all_locked.                                                     *)
(***************************************************************************)
\* Mutant: the journals are committed in directory order only.
EligibleInDirectoryOrder(p) == todo[p]

\* The journal that accounts for the staged paths, if there is one, comes
\* first.  Batch ids are random, so any order of the others is possible.
Eligible(p) ==
  LET covering == {b \in todo[p] : Staged \subseteq FilesOf[b]}
  IN  IF Staged = {} \/ covering = {} THEN todo[p] ELSE covering

PickJournal(p) ==
  /\ pc[p] = "recovering"
  /\ \E b \in Eligible(p) :
       /\ cur' = [cur EXCEPT ![p] = b]
       /\ memBase' = [memBase EXCEPT ![p] = base[b]]
       /\ todo' = [todo EXCEPT ![p] = @ \ {b}]
  /\ Goto(p, "reconcile")
  /\ UNCHANGED <<disk, lock, own, left, acked, crashes>>

\* Mutant: the recovery is taken to have committed the own batch too.
PickOwnWithoutCommit(p) ==
  /\ pc[p] = "recovering"
  /\ todo[p] = {}
  /\ own[p] # None
  /\ cur' = [cur EXCEPT ![p] = own[p]]
  /\ Goto(p, "done")
  /\ UNCHANGED <<disk, lock, own, todo, memBase, left, acked, crashes>>

\* The others are done: now the batch this process prepared, whose journal in
\* memory has no base.
PickOwn(p) ==
  /\ pc[p] = "recovering"
  /\ todo[p] = {}
  /\ own[p] # None
  /\ cur' = [cur EXCEPT ![p] = own[p]]
  /\ memBase' = [memBase EXCEPT ![p] = NoBase]
  /\ Goto(p, "reconcile")
  /\ UNCHANGED <<disk, lock, own, todo, left, acked, crashes>>

RecoveryDone(p) ==
  /\ pc[p] = "recovering"
  /\ todo[p] = {}
  /\ own[p] = None
  /\ Leave(p)
  /\ UNCHANGED <<disk, acked, crashes>>

(***************************************************************************)
(* commit_journal_locked.                                                  *)
(***************************************************************************)

\* reject_managed_changes: only this journal's paths may differ from HEAD.
NoForeignChange(b) == Staged \subseteq FilesOf[b]

\* The primary event is in HEAD with every other file: nothing to commit.
AlreadyCommitted(p) ==
  /\ pc[p] = "reconcile"
  /\ NoForeignChange(cur[p])
  /\ InHead(cur[p])
  /\ FilesOf[cur[p]] \subseteq HeadTree
  /\ Goto(p, "cleanup")
  /\ UNCHANGED <<disk, lock, local, acked, crashes>>

\* Keep the recorded base, or persist the current HEAD as the base.  A journal
\* without a base is a Prepared one.
RecordBase(p) ==
  LET b == cur[p] IN
  /\ pc[p] = "reconcile"
  /\ NoForeignChange(b)
  /\ ~InHead(b)
  /\ \/ /\ memBase[p] \in 0 .. Len(commits)
        /\ UNCHANGED <<base, phase, memBase>>
     \/ /\ memBase[p] = NoBase
        /\ journal[b] = "durable"
        /\ base' = [base EXCEPT ![b] = Len(commits)]
        /\ phase' = [phase EXCEPT ![b] = "Prepared"]
        /\ memBase' = [memBase EXCEPT ![p] = Len(commits)]
  /\ Goto(p, "check")
  /\ UNCHANGED <<journal, payload, tree, index, commits, lock, own, cur, todo,
                 left, acked, crashes>>

\* Mutant: the payloads are not required once the files look present.
RestorableWithoutPayload(b, from) ==
  FilesOf[b] \cap HeadTree \subseteq TreeAt(from) \cap Object

\* A path already in HEAD must be an object of the base tree, and every
\* payload must be readable from the pending directory.
Restorable(b, from) ==
  /\ FilesOf[b] \cap HeadTree \subseteq TreeAt(from) \cap Object
  /\ journal[b] = "durable"
  /\ b \in payload

CheckReusable(p) ==
  /\ pc[p] = "check"
  /\ Restorable(cur[p], memBase[p])
  /\ left' = [left EXCEPT ![p] = Missing(cur[p])]
  /\ Goto(p, "create")
  /\ UNCHANGED <<disk, lock, own, cur, todo, memBase, acked, crashes>>

\* write_new_synced: create_new, write, fsync.
CreateFile(p) ==
  /\ pc[p] = "create"
  /\ \E f \in left[p] :
       /\ tree[f] = "absent"
       /\ tree' = [tree EXCEPT ![f] = "whole"]
       /\ left' = [left EXCEPT ![p] = @ \ {f}]
  /\ UNCHANGED <<journal, base, phase, payload, index, commits, lock, pc, own,
                 cur, todo, memBase, acked, crashes>>

\* Recovery accepts a file an interrupted attempt has left, if it is whole.
AcceptFile(p) ==
  /\ pc[p] = "create"
  /\ Recovered(p)
  /\ \E f \in left[p] :
       /\ SameDigest(f)
       /\ left' = [left EXCEPT ![p] = @ \ {f}]
  /\ UNCHANGED <<disk, lock, pc, own, cur, todo, memBase, acked, crashes>>

MarkCreated(p) ==
  /\ pc[p] = "create"
  /\ left[p] = {}
  /\ phase' = [phase EXCEPT ![cur[p]] = "Created"]
  /\ Goto(p, "add")
  /\ UNCHANGED <<journal, base, payload, tree, index, commits, lock, local,
                 acked, crashes>>

\* git add -- <paths>.
GitAdd(p) ==
  /\ pc[p] = "add"
  /\ index' = index \cup Missing(cur[p])
  /\ Goto(p, "verify")
  /\ UNCHANGED <<journal, base, phase, payload, tree, commits, lock, local,
                 acked, crashes>>

\* update_phase(Staged), then verify_exact_staged.
VerifyStaged(p) ==
  /\ pc[p] = "verify"
  /\ phase' = [phase EXCEPT ![cur[p]] = "Staged"]
  /\ Staged = Missing(cur[p])
  /\ Goto(p, "commit")
  /\ UNCHANGED <<journal, base, payload, tree, index, commits, lock, local,
                 acked, crashes>>

\* git commit --only -- <paths>; the message names the batch.
GitCommit(p) ==
  /\ pc[p] = "commit"
  /\ commits' = Append(commits, [batch |-> cur[p], files |-> Missing(cur[p])])
  /\ Goto(p, "record")
  /\ UNCHANGED <<journal, base, phase, payload, tree, index, lock, local,
                 acked, crashes>>

MarkCommitted(p) ==
  /\ pc[p] = "record"
  /\ phase' = [phase EXCEPT ![cur[p]] = "Committed"]
  /\ Goto(p, "observe")
  /\ UNCHANGED <<journal, base, payload, tree, index, commits, lock, local,
                 acked, crashes>>

\* The production observer does nothing: indexing is lazy.
MarkIndexed(p) ==
  /\ pc[p] = "observe"
  /\ phase' = [phase EXCEPT ![cur[p]] = "Indexed"]
  /\ Goto(p, "cleanup")
  /\ UNCHANGED <<journal, base, payload, tree, index, commits, lock, local,
                 acked, crashes>>

\* remove_dir_all is not atomic: the payloads may go before journal.json ...
RemovePayload(p) ==
  /\ pc[p] = "cleanup"
  /\ cur[p] \in payload
  /\ journal[cur[p]] = "durable"
  /\ payload' = payload \ {cur[p]}
  /\ UNCHANGED <<journal, base, phase, tree, index, commits, lock, pc, local,
                 acked, crashes>>

\* ... and once journal.json is gone read_journals skips the directory.
RemoveJournal(p) ==
  LET b == cur[p] IN
  /\ pc[p] = "cleanup"
  /\ IF journal[b] = "durable"
     THEN /\ journal' = [journal EXCEPT ![b] = "gone"]
          /\ payload' = payload \ {b}
     ELSE UNCHANGED <<journal, payload>>
  /\ Goto(p, "done")
  /\ UNCHANGED <<base, phase, tree, index, commits, lock, local, acked,
                 crashes>>

\* One more recovered journal, or the end of the append.
FinishBatch(p) ==
  /\ pc[p] = "done"
  /\ IF Recovered(p)
     THEN /\ Goto(p, "recovering")
          /\ UNCHANGED <<lock, local, acked>>
     ELSE /\ acked' = acked \cup {own[p]}
          /\ Leave(p)
  /\ UNCHANGED <<disk, crashes>>

\* An early return: write_journal has lost its directory, or `?` in
\* commit_journal_locked drops the lock and gives the error to the caller; the
\* journal stays.
Refused(p) ==
  \/ pc[p] = "preparing" /\ journal[own[p]] # "preparing"
  \/ /\ pc[p] = "reconcile"
     /\ \/ ~NoForeignChange(cur[p])
        \/ InHead(cur[p]) /\ ~(FilesOf[cur[p]] \subseteq HeadTree)
        \/ /\ ~InHead(cur[p])
           /\ memBase[p] = NoBase
           /\ journal[cur[p]] # "durable"
  \/ pc[p] = "check" /\ ~Restorable(cur[p], memBase[p])
  \/ /\ pc[p] = "create"
     /\ \E f \in left[p] : /\ tree[f] # "absent"
                           /\ ~SameDigest(f) \/ ~Recovered(p)

\* Mutant: the pending directory is removed on the error path as well.
RefuseAndCleanup(p) ==
  /\ Refused(p)
  /\ cur[p] # None
  /\ journal' = [journal EXCEPT ![cur[p]] = "gone"]
  /\ Leave(p)
  /\ UNCHANGED <<base, phase, payload, tree, index, commits, acked, crashes>>

Refuse(p) ==
  /\ Refused(p)
  /\ Leave(p)
  /\ UNCHANGED <<disk, acked, crashes>>

(***************************************************************************)
(* Crashes.                                                                *)
(***************************************************************************)
Crash(p) ==
  /\ pc[p] # "idle"
  /\ crashes < MaxCrashes
  /\ crashes' = crashes + 1
  /\ Leave(p)
  /\ UNCHANGED <<disk, acked>>

\* ... between create_new and the end of the write: the file is left torn.
CrashInWrite(p) ==
  /\ pc[p] = "create"
  /\ crashes < MaxCrashes
  /\ crashes' = crashes + 1
  /\ \E f \in left[p] :
       /\ tree[f] = "absent"
       /\ tree' = [tree EXCEPT ![f] = "torn"]
  /\ Leave(p)
  /\ UNCHANGED <<journal, base, phase, payload, index, commits, acked>>

-----------------------------------------------------------------------------
\* The steps of a call in progress.
Step(p) ==
  \/ PersistJournal(p) \/ AcquireForAppend(p) \/ AcquireForCommit(p)
  \/ PickJournal(p) \/ PickOwn(p) \/ RecoveryDone(p)
  \/ AlreadyCommitted(p) \/ RecordBase(p) \/ CheckReusable(p)
  \/ CreateFile(p) \/ AcceptFile(p) \/ MarkCreated(p)
  \/ GitAdd(p) \/ VerifyStaged(p) \/ GitCommit(p)
  \/ MarkCommitted(p) \/ MarkIndexed(p)
  \/ RemovePayload(p) \/ RemoveJournal(p) \/ FinishBatch(p)
  \/ Refuse(p)

Next ==
  \/ \E p \in Process : Step(p) \/ StartRecovery(p) \/ Crash(p) \/ CrashInWrite(p)
  \/ \E p \in Process, b \in Batch : BeginPrepare(p, b) \/ ReadPending(p, b)
  \/ \E b \in Batch : MoveAside(b)

Spec == Init /\ [][Next]_vars

-----------------------------------------------------------------------------
Commit == [batch : Batch, files : SUBSET Path]

\* Every variable has its type.
TypeOK ==
  /\ journal \in [Batch -> {"absent", "preparing", "durable", "gone", "aside"}]
  /\ base \in [Batch -> Int]
  /\ phase \in [Batch -> Phases]
  /\ payload \subseteq Batch
  /\ tree \in [Path -> {"absent", "torn", "whole"}]
  /\ index \subseteq Path
  /\ commits \in Seq(Commit)
  /\ lock \in Process \cup {None}
  /\ pc \in [Process -> Unlocked \cup Locked]
  /\ own \in [Process -> Batch \cup {None}]
  /\ cur \in [Process -> Batch \cup {None}]
  /\ todo \in [Process -> SUBSET Batch]
  /\ memBase \in [Process -> Int]
  /\ left \in [Process -> SUBSET Path]
  /\ acked \subseteq Batch
  /\ crashes \in Nat

\* At every commit of HEAD the batch it names is complete in its tree, and no
\* file of HEAD is a torn one, whatever crashes, foreign recoveries and stale
\* journals preceded it: no reader of any revision sees an event without the
\* objects it refers to.
BatchAtomicity ==
  /\ \A i \in 1 .. Len(commits) : FilesOf[commits[i].batch] \subseteq TreeAt(i)
  /\ \A f \in HeadTree : tree[f] = "whole"

\* A batch is committed at most once, although its own writer, any number of
\* recovering processes and commit_pending may all try.  (ImplementsAppendLog
\* below contains it: the abstract log commits pending batches only.)
AtMostOneCommit ==
  \A i, j \in 1 .. Len(commits) :
    commits[i].batch = commits[j].batch => i = j

\* A journal is removed only when HEAD holds its batch: what was made durable
\* is still pending, committed, or moved aside by the operator.
NothingDurableIsLost ==
  \A b \in Batch : journal[b] = "gone" => FilesOf[b] \subseteq HeadTree

\* append_event returns success only for a batch that HEAD holds.
AckedIsCommitted ==
  \A b \in acked : FilesOf[b] \subseteq HeadTree

-----------------------------------------------------------------------------
(***************************************************************************)
(* The abstract log this module implements: batches accepted, committed    *)
(* once and atomically, or set aside.                                      *)
(***************************************************************************)
StatusOf(b) ==
  CASE InHead(b) -> "committed"
    [] ~InHead(b) /\ journal[b] = "durable" -> "pending"
    [] ~InHead(b) /\ journal[b] = "aside" -> "aside"
    [] OTHER -> "none"

Abstract == INSTANCE AppendLog WITH
  status <- [b \in Batch |-> StatusOf(b)],
  log    <- [i \in 1 .. Len(commits) |-> commits[i].batch]

\* Crashes, recoveries by other processes and the lock are invisible in the
\* abstract log: every step accepts, commits or sets aside one batch, or none.
ImplementsAppendLog == Abstract!Spec

\* A batch the operator moved aside before it was committed stays out of HEAD,
\* even when its writer or commit_pending holds its journal in memory.
AsideStaysOut ==
  [][\A b \in Batch : journal[b] = "aside" /\ ~InHead(b)
                        => EventOf[b] \notin HeadTree']_vars

-----------------------------------------------------------------------------
(***************************************************************************)
(* Liveness.  The lock holder and a caller in progress keep running, and   *)
(* the installation stays in use: some process runs the recovery that      *)
(* starts every Candidate submission, and lock_exclusive, on which it      *)
(* blocks while others come and go, grants it the lock some time (strong   *)
(* fairness).  Crashes are finitely many.                                  *)
(***************************************************************************)
Fairness ==
  /\ \A p \in Process : WF_vars(Step(p))
  /\ SF_vars(\E p \in Process : StartRecovery(p))

FairSpec == Spec /\ Fairness

\* The base of b was recorded and another batch then committed a shared object.
Poisoned(b) ==
  /\ journal[b] = "durable"
  /\ ~InHead(b)
  /\ base[b] # NoBase
  /\ ~(FilesOf[b] \cap HeadTree \subseteq TreeAt(base[b]))

\* The only states from which recovery does not proceed by itself.
Blocked ==
  \/ \E f \in Path : tree[f] = "torn"
  \/ \E b \in Batch : journal[b] = "aside" /\ FilesOf[b] \cap Staged # {}
  \/ \E b \in Batch : Poisoned(b)

\* Every durable batch is eventually committed unless the operator moves it
\* aside or one of the three blocking conditions holds: a journal, a lock or a
\* half-created file left by a crash never blocks the store on its own.
EventuallySettled ==
  \A b \in Batch :
    journal[b] = "durable" ~>
      EventOf[b] \in HeadTree \/ journal[b] = "aside" \/ Blocked

=============================================================================
