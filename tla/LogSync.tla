------------------------------- MODULE LogSync -------------------------------
(***************************************************************************)
(* Uploading sealed log batches to a Git remote (crate log-sync).          *)
(*                                                                         *)
(* The collector seals batches into spool/ready.  One sync at a time (an   *)
(* exclusive file lock; a second caller just leaves) groups the oldest     *)
(* ones, writes an upload journal, clones the current shard branch into a  *)
(* cache, commits, pushes, VERIFIES what the remote really holds, writes a *)
(* receipt per batch and only then deletes the sources.  The journal, the  *)
(* shard state and the receipts are each replaced atomically, but a sync   *)
(* is cut short between any two of them: by a crash, by its 60 s deadline, *)
(* by an error of Git.  A push may reach the remote although its answer is *)
(* lost, or long after the sync that sent it.  Others may write to, rewind *)
(* or delete the branch.                                                   *)
(***************************************************************************)
EXTENDS Integers, Sequences, FiniteSets, FiniteSetsExt

CONSTANTS
  Batches,      \* number of batches ever sealed; a batch is its place in seal order
  ShardCap,     \* shard_max_files, in batches
  MaxRetries,   \* max_retry_count of the configuration
  Months,       \* number of UTC months the model sees
  MaxIndex,     \* bound: shards of one month
  MaxCuts,      \* bound: crashes, deadlines, failures of Git, lost pushes
  MaxForeign,   \* bound: commits of others on the remote, receipts lost
  MaxRewrites,  \* bound: branches others delete or force back
  Tears,        \* whether a crash may fall inside a recursive delete
  None

ASSUME SyncAssumption ==
  /\ {Batches, ShardCap, Months, MaxIndex} \subseteq Nat \ {0}
  /\ {MaxRetries, MaxCuts, MaxForeign, MaxRewrites} \subseteq Nat
  /\ Tears \in BOOLEAN

VARIABLES
  sealed,    \* batches sealed so far
  ready,     \* spool/ready: whole batch directories
  torn,      \* spool/ready: directories a crash left half deleted
  month,     \* the current UTC month
  shard,     \* state/shards: None, or [branch, confirmed]
  journal,   \* state/upload-journal.json: None, or [group, branch, phase, oid]
  receipts,  \* state/receipts: None, or [branch, oid], of each batch
  cache,     \* repository/: None, or [branch, head, state]; marker and .git may be gone
  staging,   \* repository.staging/: None, or [owner], None without ownership.json
  objects,   \* commits, an oid is a position: [parent, tree, extra, ours]
  remote,    \* branch -> oid at its tip, 0 when the branch is missing
  inflight,  \* a push whose sync gave up waiting: None, or [branch, oid]
  landed,    \* batches that were at some branch's tip, whole, at some time
  status,    \* state/upload-status.json: result of the last finished sync
  sync,      \* the running sync: None, or [at, local, found, todo, retries]
  cuts, foreign, rewrites

spool  == <<sealed, ready, torn, month>>
state  == <<shard, journal, receipts>>
local  == <<cache, staging>>
git    == <<objects, remote, inflight, landed>>
faults == <<cuts, foreign, rewrites>>
vars   == <<spool, state, local, git, status, sync, faults>>

(***************************************************************************)
(* Values.                                                                 *)
(***************************************************************************)
Batch  == 1 .. Batches
Branch == (1 .. Months) \X (1 .. MaxIndex)
Oid    == 1 .. Len(objects)

\* What a tree has at a batch's two paths.
Content == {"absent", "same", "different"}

Phase == {"Prepared", "Committed", "RemoteConfirmed", "ReceiptDurable"}

Blocking  == {"conflict", "history_missing", "invalid_batch", "invalid_root"}
Retryable == {"git", "io", "storage", "timeout"}

Tree(oid) == IF oid = 0 THEN [b \in Batch |-> "absent"] ELSE objects[oid].tree
Tip(br)   == Tree(remote[br])

\* Files in a commit, counted in batches; an unborn HEAD lists none.
Size(oid) ==
  Cardinality({b \in Batch : Tree(oid)[b] # "absent"})
    + IF oid = 0 THEN 0 ELSE objects[oid].extra

\* The journal of a group: its batches, the branch they go to, how far it is, and its commit, 0 before.
Journal == [group : SUBSET Batch, branch : Branch, phase : Phase, oid : Nat]

\* No journal is a state of its own.
ASSUME NoneAssumption == None \notin Journal

Init ==
  /\ sealed = 0 /\ ready = {} /\ torn = {} /\ month = 1
  /\ shard = None /\ journal = None /\ receipts = [b \in Batch |-> None]
  /\ cache = None /\ staging = None
  /\ objects = <<>> /\ remote = [br \in Branch |-> 0] /\ inflight = None
  /\ landed = {}
  /\ status = "none" /\ sync = None
  /\ cuts = 0 /\ foreign = 0 /\ rewrites = 0

(***************************************************************************)
(* The running sync.                                                       *)
(***************************************************************************)
At(where) == sync # None /\ sync.at = where

Go(where) == sync' = [sync EXCEPT !.at = where]

\* record_upload_status_locked, then the lock is released.
End(result) == status' = result /\ sync' = None

\* retryable_in_attempt: another attempt while retries remain.
Failed(result) ==
  IF result \in {"git", "io"} /\ sync.retries < MaxRetries
  THEN /\ sync' = [sync EXCEPT !.at = "attempt", !.retries = @ + 1]
       /\ UNCHANGED status
  ELSE End(result)

Write(field, value) == journal' = [journal EXCEPT ![field] = value]

BackToPrepared == [journal EXCEPT !.phase = "Prepared", !.oid = 0]

Exists(br) == remote[br] # 0

\* Scheduled runs stay away from a permanent error until a manual one.
Start(manual) ==
  /\ sync = None
  /\ manual \/ status \notin Blocking
  /\ sync' = [at |-> "list", local |-> FALSE, found |-> 0, todo |-> {}, retries |-> 0]
  /\ UNCHANGED <<spool, state, local, git, status, faults>>

ValidReceipt(b) == receipts[b] # None /\ receipts[b].branch = journal.branch

AllReceipts == \A b \in journal.group : ValidReceipt(b)

\* One unreadable directory fails the whole listing, journal or not.
SpoolCorrupt ==
  /\ At("list")
  /\ torn # {}
  /\ End("invalid_batch")
  /\ UNCHANGED <<spool, state, local, git, faults>>

NothingToDo ==
  /\ At("list") /\ torn = {}
  /\ journal = None /\ ready = {}
  /\ End("ok")
  /\ UNCHANGED <<spool, state, local, git, faults>>

\* recover_pending_journal.
Recoverable == journal.phase = "ReceiptDurable" /\ AllReceipts

ListReady ==
  /\ At("list") /\ torn = {}
  /\ \/ /\ journal = None /\ ready # {}
        /\ Go("select")
        /\ UNCHANGED status
     \/ /\ journal # None /\ Recoverable
        /\ Go("check_tip")
        /\ UNCHANGED status
     \/ /\ journal # None /\ ~Recoverable
        /\ IF journal.group \subseteq ready
           THEN Go("protect") /\ UNCHANGED status
           ELSE End("invalid_batch")
  /\ UNCHANGED <<spool, state, local, git, faults>>

\* The receipts must name the exact tip before the sources go.
CheckTip ==
  /\ At("check_tip")
  /\ IF \A b \in journal.group : receipts[b].oid = remote[journal.branch]
     THEN Go("confirm_shard") /\ UNCHANGED status
     ELSE End("history_missing")
  /\ UNCHANGED <<spool, state, local, git, faults>>

(***************************************************************************)
(* A new group: its shard, then its journal.                               *)
(***************************************************************************)
\* discover_latest_shard, 1 when the month has none.
LatestIndex ==
  LET found == {i \in 1 .. MaxIndex : Exists(<<month, i>>)}
  IN IF found = {} THEN 1 ELSE Max(found)

SelectShard ==
  /\ At("select")
  /\ IF shard # None /\ shard.branch[1] = month
     THEN /\ IF shard.confirmed /\ ~Exists(shard.branch)
             THEN End("history_missing")
             ELSE Go("journal") /\ UNCHANGED status
          /\ UNCHANGED shard
     ELSE /\ shard' = [branch |-> <<month, LatestIndex>>,
                       confirmed |-> LatestIndex > 1 \/ Exists(<<month, LatestIndex>>)]
          /\ Go("journal")
          /\ UNCHANGED status
  /\ UNCHANGED <<spool, journal, receipts, local, git, faults>>

\* select_group_end: the oldest batches, at most a shard's worth of them.
Groups ==
  {g \in SUBSET ready :
     /\ g # {} /\ Cardinality(g) <= ShardCap
     /\ \A b \in g, c \in ready \ g : b < c}

WriteJournal ==
  /\ At("journal")
  /\ \E g \in Groups :
       journal' = [group |-> g, branch |-> shard.branch, phase |-> "Prepared", oid |-> 0]
  /\ Go("protect")
  /\ UNCHANGED <<spool, shard, receipts, local, git, status, faults>>

\* protect_confirmed_history, for a journal just written or found.
ShardAgrees == shard.branch = journal.branch

HistoryMissing ==
  /\ shard.confirmed \/ journal.phase \in {"RemoteConfirmed", "ReceiptDurable"}
  /\ ~Exists(journal.branch)

Protect ==
  /\ At("protect")
  /\ IF ~ShardAgrees THEN End("conflict") /\ UNCHANGED journal
     ELSE IF HistoryMissing THEN End("history_missing") /\ UNCHANGED journal
     ELSE /\ Go("attempt")
          /\ IF journal.phase = "ReceiptDurable"
             THEN Write("phase", "Committed")
             ELSE UNCHANGED journal
          /\ UNCHANGED status
  /\ UNCHANGED <<spool, shard, receipts, local, git, faults>>

(***************************************************************************)
(* One attempt: cache, verification, capacity, commit, push.               *)
(***************************************************************************)
\* local_commit_available.
LocalCommit ==
  /\ journal.phase = "Committed"
  /\ cache # None /\ cache.state = "ok"
  /\ cache.branch = journal.branch /\ cache.head = journal.oid

\* read_cache_ownership: without .git the root is invalid, without its marker
\* the owner of the cache cannot be read, which is retried.
RootInvalid == cache # None /\ cache.state = "unowned"
MarkerMissing == cache # None /\ cache.state = "unmarked"

Attempt ==
  /\ At("attempt")
  /\ IF RootInvalid THEN End("invalid_root")
     ELSE IF MarkerMissing THEN Failed("io")
     ELSE /\ sync' = [sync EXCEPT !.at = IF LocalCommit THEN "verify" ELSE "prepare",
                                  !.local = LocalCommit]
          /\ UNCHANGED status
  /\ UNCHANGED <<spool, state, local, git, faults>>

\* prepare_cache on a cache it can keep: fetch the tip and check it out.
CacheUsable == cache # None /\ cache.branch = journal.branch /\ Exists(journal.branch)

RefreshCache ==
  /\ At("prepare") /\ CacheUsable
  /\ IF cache.state = "gutted" THEN Failed("git") /\ UNCHANGED cache
     ELSE /\ cache' = [cache EXCEPT !.head = remote[journal.branch]]
          /\ Go("verify")
          /\ UNCHANGED status
  /\ UNCHANGED <<spool, state, staging, git, faults>>

DropCache ==
  /\ At("prepare") /\ ~CacheUsable
  /\ cache' = None
  /\ Go("stage")
  /\ UNCHANGED <<spool, state, staging, git, status, faults>>

\* cleanup_cache_staging, then create_dir: not owned yet.
Unowned == [owner |-> None]
StagingOurs == staging \in {None, [owner |-> journal.branch]}

CreateStaging ==
  /\ At("stage")
  /\ IF StagingOurs THEN staging' = Unowned /\ Go("own") /\ UNCHANGED status
     ELSE /\ IF staging = Unowned THEN Failed("io") ELSE End("invalid_root")
          /\ UNCHANGED staging
  /\ UNCHANGED <<spool, state, cache, git, faults>>

OwnStaging ==
  /\ At("own")
  /\ staging' = [owner |-> journal.branch]
  /\ Go("clone")
  /\ UNCHANGED <<spool, state, cache, git, status, faults>>

\* A clone of the tip, or an orphan when the branch is missing; renamed.
CloneCache ==
  /\ At("clone")
  /\ cache' = [branch |-> journal.branch, head |-> remote[journal.branch], state |-> "ok"]
  /\ Go("unstage")
  /\ UNCHANGED <<spool, state, staging, git, status, faults>>

RemoveStaging ==
  /\ At("unstage")
  /\ staging' = None
  /\ Go("verify")
  /\ UNCHANGED <<spool, state, cache, git, status, faults>>

\* Mutant: the paths are looked up, their content is not compared.
VerifiedPaths == \A b \in journal.group : Tip(journal.branch)[b] # "absent"

\* verify_remote_group on the tip it fetches.
Verified == \A b \in journal.group : Tip(journal.branch)[b] = "same"

\* Something else is at the path of a batch.
Clash == \E b \in journal.group : Tip(journal.branch)[b] = "different"

\* ensure_group_shard_capacity.
Fits == Size(cache.head) + Cardinality(journal.group) <= ShardCap

\* Mutant: a full shard is left before it is verified.
VerifyLast ==
  /\ At("verify")
  /\ IF ~sync.local /\ ~Fits
     THEN Go("fit") /\ UNCHANGED <<journal, status>>
     ELSE IF Verified
     THEN /\ sync' = [sync EXCEPT !.at = "confirm", !.found = remote[journal.branch]]
          /\ UNCHANGED <<journal, status>>
     ELSE IF Clash THEN End("conflict") /\ UNCHANGED journal
     ELSE /\ Go(IF sync.local THEN "push" ELSE "fit")
          /\ UNCHANGED <<journal, status>>
  /\ UNCHANGED <<spool, shard, receipts, local, git, faults>>

Verify ==
  /\ At("verify")
  /\ IF Verified
     THEN /\ sync' = [sync EXCEPT !.at = "confirm", !.found = remote[journal.branch]]
          /\ UNCHANGED <<journal, status>>
     ELSE IF Clash THEN End("conflict") /\ UNCHANGED journal
     ELSE /\ Go(IF sync.local THEN "push" ELSE "fit")
          /\ journal' = IF journal.phase = "Committed" /\ ~sync.local
                        THEN BackToPrepared ELSE journal
          /\ UNCHANGED status
  /\ UNCHANGED <<spool, shard, receipts, local, git, faults>>

NextShard == <<shard.branch[1], shard.branch[2] + 1>>

FitShard ==
  /\ At("fit")
  /\ IF Fits THEN Go("commit") /\ UNCHANGED <<shard, status>>
     ELSE IF Size(cache.head) = 0 THEN End("storage") /\ UNCHANGED shard
     ELSE /\ shard.branch[2] < MaxIndex
          /\ IF Exists(NextShard) THEN End("conflict") /\ UNCHANGED shard
             ELSE /\ shard' = [branch |-> NextShard, confirmed |-> FALSE]
                  /\ Go("rotate")
                  /\ UNCHANGED status
  /\ UNCHANGED <<spool, journal, receipts, local, git, faults>>

\* rotate_journal_shard: the shard state is already written.
RotateJournal ==
  /\ At("rotate")
  /\ journal' = [BackToPrepared EXCEPT !.branch = shard.branch]
  /\ Go("drop_rotated")
  /\ UNCHANGED <<spool, shard, receipts, local, git, status, faults>>

DropRotated ==
  /\ At("drop_rotated")
  /\ cache' = None
  /\ Go("attempt")
  /\ UNCHANGED <<spool, state, staging, git, status, faults>>

\* apply_group copies what the worktree lacks or has differently.
Applied ==
  [parent |-> cache.head,
   tree   |-> [b \in Batch |-> IF b \in journal.group THEN "same" ELSE Tree(cache.head)[b]],
   extra  |-> IF cache.head = 0 THEN 0 ELSE objects[cache.head].extra,
   ours   |-> TRUE]

CommitGroup ==
  /\ At("commit")
  /\ IF Applied.tree = Tree(cache.head)   \* nothing to commit
     THEN Failed("git") /\ UNCHANGED <<objects, cache>>
     ELSE /\ objects' = Append(objects, Applied)
          /\ cache' = [cache EXCEPT !.head = Len(objects) + 1]
          /\ Go("mark_committed")
          /\ UNCHANGED status
  /\ UNCHANGED <<spool, state, staging, remote, inflight, landed, faults>>

MarkCommitted ==
  /\ At("mark_committed")
  /\ journal' = [journal EXCEPT !.phase = "Committed", !.oid = cache.head]
  /\ Go("push")
  /\ UNCHANGED <<spool, shard, receipts, local, git, status, faults>>

\* Without --force, the remote takes a push only on top of its tip.
FastForward(br, oid) == remote[br] \in {0, objects[oid].parent, oid}

Lands(br, oid) ==
  /\ remote' = [remote EXCEPT ![br] = oid]
  /\ landed' = landed \cup {b \in Batch : Tree(oid)[b] = "same"}

\* The answer is ignored: what counts is what the remote holds afterwards.
Push ==
  /\ At("push")
  /\ IF FastForward(journal.branch, cache.head) THEN Lands(journal.branch, cache.head)
     ELSE UNCHANGED <<remote, landed>>
  /\ Go("check")
  /\ UNCHANGED <<spool, state, local, objects, inflight, status, faults>>

\* The push is refused, or killed while the remote is still at it.
PushLost ==
  /\ At("push") /\ cuts < MaxCuts
  /\ \/ UNCHANGED inflight
     \/ inflight' = [branch |-> journal.branch, oid |-> cache.head]
  /\ cuts' = cuts + 1
  /\ Go("check")
  /\ UNCHANGED <<spool, state, local, objects, remote, landed, status, foreign, rewrites>>

LatePush ==
  /\ inflight # None
  /\ IF FastForward(inflight.branch, inflight.oid) THEN Lands(inflight.branch, inflight.oid)
     ELSE UNCHANGED <<remote, landed>>
  /\ inflight' = None
  /\ UNCHANGED <<spool, state, local, objects, status, sync, faults>>

\* Mutant: a branch moved by others is retried with the same commit.
CheckPushAgain ==
  /\ At("check")
  /\ IF Verified
     THEN /\ sync' = [sync EXCEPT !.at = "confirm", !.found = remote[journal.branch]]
          /\ UNCHANGED status
     ELSE IF Clash THEN End("conflict")
     ELSE Failed("git")
  /\ UNCHANGED <<spool, state, local, git, faults>>

\* The verification after the push; a moved branch means starting over.
CheckPush ==
  /\ At("check")
  /\ IF Verified
     THEN /\ sync' = [sync EXCEPT !.at = "confirm", !.found = remote[journal.branch]]
          /\ UNCHANGED <<journal, status>>
     ELSE IF Clash THEN End("conflict") /\ UNCHANGED journal
     ELSE IF Exists(journal.branch)
     THEN journal' = BackToPrepared /\ Go("discard") /\ UNCHANGED status
     ELSE Failed("git") /\ UNCHANGED journal
  /\ UNCHANGED <<spool, shard, receipts, local, git, faults>>

Discard ==
  /\ At("discard")
  /\ cache' = None
  /\ Failed("git")
  /\ UNCHANGED <<spool, state, staging, git, faults>>

(***************************************************************************)
(* finish_confirmed_group.                                                 *)
(***************************************************************************)
Confirm ==
  /\ At("confirm")
  /\ journal' = [journal EXCEPT !.phase = "RemoteConfirmed", !.oid = sync.found]
  /\ sync' = [sync EXCEPT !.at = "receipts", !.todo = journal.group]
  /\ UNCHANGED <<spool, shard, receipts, local, git, status, faults>>

WriteReceipt ==
  /\ At("receipts") /\ sync.todo # {}
  /\ LET b == Min(sync.todo)
     IN /\ receipts' = [receipts EXCEPT ![b] = [branch |-> journal.branch, oid |-> sync.found]]
        /\ sync' = [sync EXCEPT !.todo = @ \ {b}]
  /\ UNCHANGED <<spool, shard, journal, local, git, status, faults>>

ReceiptsDurable ==
  /\ At("receipts") /\ sync.todo = {}
  /\ Write("phase", "ReceiptDurable")
  /\ Go("confirm_shard")
  /\ UNCHANGED <<spool, shard, receipts, local, git, status, faults>>

\* mark_shard_remote_confirmed.
ConfirmShard ==
  /\ At("confirm_shard")
  /\ IF ShardAgrees
     THEN /\ shard' = [shard EXCEPT !.confirmed = TRUE]
          /\ sync' = [sync EXCEPT !.at = "delete", !.todo = journal.group \cap ready]
          /\ UNCHANGED status
     ELSE End("conflict") /\ UNCHANGED shard
  /\ UNCHANGED <<spool, journal, receipts, local, git, faults>>

DeleteSource ==
  /\ At("delete") /\ sync.todo # {}
  /\ ready' = ready \ {Min(sync.todo)}
  /\ sync' = [sync EXCEPT !.todo = @ \ {Min(@)}]
  /\ UNCHANGED <<sealed, torn, month, state, local, git, status, faults>>

RemoveJournal ==
  /\ At("delete") /\ sync.todo = {}
  /\ journal' = None
  /\ Go("more")
  /\ UNCHANGED <<spool, shard, receipts, local, git, status, faults>>

\* Another group, or the end: no batch left, the deadline or the byte limit.
More ==
  /\ At("more")
  /\ \/ ready # {} /\ Go("list") /\ UNCHANGED status
     \/ End("ok")
  /\ UNCHANGED <<spool, state, local, git, faults>>

(***************************************************************************)
(* Interruptions.                                                          *)
(***************************************************************************)
\* A crash between two steps leaves only the files.  The deadline ends a sync
\* where it runs Git or asks for the time: retrying a timeout asks for it again.
Cut ==
  /\ sync # None /\ cuts < MaxCuts
  /\ \/ sync' = None /\ UNCHANGED status
     \/ \E where \in {"select", "check_tip", "protect", "attempt", "prepare", "clone",
                    "verify", "fit", "commit", "check"} :
          At(where) /\ End("timeout")
  /\ cuts' = cuts + 1
  /\ UNCHANGED <<spool, state, local, git, foreign, rewrites>>

\* A command of Git fails; before the attempts start there is none to retry.
GitFails ==
  /\ cuts < MaxCuts
  /\ \/ \E where \in {"select", "check_tip", "protect"} : At(where) /\ End("git")
     \/ \E where \in {"prepare", "clone", "verify", "commit", "check"} :
          At(where) /\ Failed("git")
  /\ cuts' = cuts + 1
  /\ UNCHANGED <<spool, state, local, git, foreign, rewrites>>

\* Killed inside remove_dir_all of a source: part of the directory is left.
TearSource ==
  /\ At("delete") /\ sync.todo # {}
  /\ ready' = ready \ {Min(sync.todo)}
  /\ torn' = torn \cup {Min(sync.todo)}
  /\ UNCHANGED <<sealed, month, local>>

\* Killed inside remove_dir_all of the cache: its .git is gone, or its marker,
\* or .git is incomplete; a killed checkout, add or commit leaves index.lock.
TearCache ==
  /\ cache # None
  /\ \/ /\ \/ At("prepare") /\ ~CacheUsable
           \/ At("drop_rotated")
           \/ At("discard")
        /\ \E left \in {"unowned", "unmarked", "gutted"} : cache' = [cache EXCEPT !.state = left]
     \/ /\ \/ At("prepare") /\ CacheUsable
           \/ At("commit")
        /\ cache' = [cache EXCEPT !.state = "gutted"]
  /\ UNCHANGED <<spool, staging>>

TearStaging ==
  /\ At("unstage")
  /\ staging' = Unowned
  /\ UNCHANGED <<spool, cache>>

CutInside ==
  /\ Tears /\ cuts < MaxCuts
  /\ \/ TearSource
     \/ TearCache
     \/ TearStaging
  /\ sync' = None
  /\ cuts' = cuts + 1
  /\ UNCHANGED <<state, git, status, foreign, rewrites>>

(***************************************************************************)
(* The collector, the calendar, pruning and the others.                    *)
(***************************************************************************)
Seal ==
  /\ sealed < Batches
  /\ sealed' = sealed + 1
  /\ ready' = ready \cup {sealed + 1}
  /\ UNCHANGED <<torn, month, state, local, git, status, sync, faults>>

NextMonth ==
  /\ month < Months
  /\ month' = month + 1
  /\ UNCHANGED <<sealed, ready, torn, state, local, git, status, sync, faults>>

\* logs prune --cache, an expired cache, or the storage budget.
PruneCache ==
  /\ sync = None /\ journal = None
  /\ cache # None /\ ~RootInvalid /\ ~MarkerMissing
  /\ cache' = None
  /\ UNCHANGED <<spool, state, staging, git, status, sync, faults>>

\* Another file, or other content at the path of a batch not there yet.
ForeignCommit(br) ==
  /\ Exists(br)
  /\ \/ objects' = Append(objects, [objects[remote[br]] EXCEPT
                       !.parent = remote[br], !.extra = @ + 1, !.ours = FALSE])
     \/ \E b \in Batch :
          /\ Tip(br)[b] = "absent"
          /\ objects' = Append(objects, [objects[remote[br]] EXCEPT
                           !.parent = remote[br], !.tree[b] = "different", !.ours = FALSE])
  /\ remote' = [remote EXCEPT ![br] = Len(objects) + 1]

\* The receipts are only read when a sync starts.
LoseReceipt ==
  /\ sync = None
  /\ \E b \in Batch : receipts[b] # None /\ receipts' = [receipts EXCEPT ![b] = None]

Foreign ==
  /\ foreign < MaxForeign
  /\ \/ /\ \E br \in Branch : ForeignCommit(br)
        /\ UNCHANGED <<receipts, inflight, landed>>
     \/ LoseReceipt /\ UNCHANGED git
  /\ foreign' = foreign + 1
  /\ UNCHANGED <<spool, shard, journal, local, status, sync, cuts, rewrites>>

\* The branch is deleted, or forced back.
Rewrite ==
  /\ rewrites < MaxRewrites
  /\ \E br \in Branch :
       /\ Exists(br)
       /\ \E oid \in {0, objects[remote[br]].parent} : remote' = [remote EXCEPT ![br] = oid]
  /\ rewrites' = rewrites + 1
  /\ UNCHANGED <<spool, state, local, objects, inflight, landed, status, sync, cuts, foreign>>

SyncStep ==
  \/ SpoolCorrupt \/ NothingToDo \/ ListReady \/ CheckTip
  \/ SelectShard \/ WriteJournal \/ Protect
  \/ Attempt \/ RefreshCache \/ DropCache \/ CreateStaging \/ OwnStaging
  \/ CloneCache \/ RemoveStaging \/ Verify \/ FitShard \/ RotateJournal
  \/ DropRotated \/ CommitGroup \/ MarkCommitted \/ Push \/ CheckPush \/ Discard
  \/ Confirm \/ WriteReceipt \/ ReceiptsDurable \/ ConfirmShard
  \/ DeleteSource \/ RemoveJournal \/ More

Next ==
  \/ \E manual \in BOOLEAN : Start(manual)
  \/ SyncStep
  \/ Cut \/ GitFails \/ CutInside \/ PushLost \/ LatePush
  \/ Seal \/ NextMonth \/ PruneCache \/ Foreign \/ Rewrite

Spec == Init /\ [][Next]_vars

\* launchd starts the scheduled sync every minute and a sync keeps running;
\* nothing is asked of the users, the calendar, the collector or the faults.
FairSpec == Spec /\ WF_vars(SyncStep) /\ WF_vars(Start(FALSE))

(***************************************************************************)
(* Properties.                                                             *)
(***************************************************************************)
TypeOK ==
  /\ sealed \in 0 .. Batches /\ month \in 1 .. Months
  /\ ready \subseteq 1 .. sealed /\ torn \subseteq 1 .. sealed
  /\ shard \in {None} \cup [branch : Branch, confirmed : BOOLEAN]
  /\ journal \in {None} \cup
       [group : SUBSET (1 .. sealed) \ {{}}, branch : Branch, phase : Phase, oid : {0} \cup Oid]
  /\ receipts \in [Batch -> {None} \cup [branch : Branch, oid : Oid]]
  /\ cache \in {None} \cup
       [branch : Branch, head : {0} \cup Oid, state : {"ok", "unowned", "unmarked", "gutted"}]
  /\ staging \in {None} \cup [owner : {None} \cup Branch]
  /\ remote \in [Branch -> {0} \cup Oid]
  /\ inflight \in {None} \cup [branch : Branch, oid : Oid]
  /\ landed \subseteq Batch
  /\ status \in {"none", "ok"} \cup Blocking \cup Retryable
  /\ sync # None => sync.found \in {0} \cup Oid /\ sync.retries \in 0 .. MaxRetries
  /\ cuts \in 0 .. MaxCuts /\ foreign \in 0 .. MaxForeign /\ rewrites \in 0 .. MaxRewrites

\* A log batch whose source is gone, wholly or partly, was on the remote with
\* its exact content: delete_confirmed_batch never runs on anything else.
NothingIsLost == (1 .. sealed) \ ready \subseteq landed

\* Whatever is retried, rotated or answered late, a batch is never on two
\* branches: readers of the log repository would count its events twice.  A
\* branch taken away by others may come back by a late push.
OneCopyPerRemote ==
  rewrites = 0 =>
    \A b \in Batch : Cardinality({br \in Branch : Tip(br)[b] = "same"}) <= 1

Uploaded == ready = {} /\ journal = None

\* What keeps the code from ever finishing: an error it reports as permanent,
\* or leftovers of an interrupted rebuild of the cache.
Stopped ==
  \/ status \in Blocking
  \/ staging # None
  \/ cache # None /\ cache.state # "ok"

\* Every sealed batch is uploaded in the end, unless the code is stopped.
EventuallyUploaded == <>[](Uploaded \/ Stopped)

\* docs/logging-execution-plan.md:246, "every crash point is recoverable":
\* a conflict is what another writer caused, not where a sync was cut short.
ConflictNeedsAnotherWriter ==
  status = "conflict" => foreign + rewrites > 0

\* log-sync/src/sync.rs:3815, a group "recovers after partial source cleanup":
\* no sync finds its own half deleted batch to be an invalid one.
PartialCleanupRecovers == status # "invalid_batch"
=============================================================================
