----------------------------- MODULE KnowledgeSync -----------------------------
(***************************************************************************)
(* Knowledge synchronization: fetch of the default and of the installation *)
(* work branch, merge of both into HEAD, validation, and push of the work  *)
(* branch with retries, under the exclusive maintenance lock, while other  *)
(* people push, merge and delete branches on the remote.  A commit is the  *)
(* files it adds; a branch is the set of files reachable from it.  Merge   *)
(* commits are not counted: what they reach is the union of their parents. *)
(***************************************************************************)
EXTENDS Integers, FiniteSets

CONSTANTS Local,     \* files this installation appends
          Others,    \* files others commit
          Invalid,   \* those of them that no validation lets pass, like a quarantined Event
          Foreign,   \* those that only validate_append_only_since rejects, like a foreign path
          Clash,     \* pairs of files that cannot be merged: one path, other bytes
          NoBranch,  \* the work branch does not exist
          PushAttempts, \* KNOWLEDGE_SYNC_PUSH_ATTEMPTS
          MaxFailures, MaxDeaths \* bounds of the instance

KnowledgeFile == Local \cup Others

ASSUME KnowledgeAssumption ==
    /\ Local \cap Others = {} /\ Invalid \subseteq Others /\ Foreign \subseteq Others
    /\ Clash \subseteq SUBSET KnowledgeFile
    /\ PushAttempts \in Nat \ {0}

VARIABLES
    head,       \* HEAD of the local work branch
    pending,    \* appended files whose batch is not committed yet
    merging,    \* MERGE_HEAD exists, the worktree is not clean
    baseRef,    \* refs/remotes/origin/<default>
    workRef,    \* refs/remotes/origin/<work>
    pc,         \* where the synchronization is that holds the lock, "idle" without one
    original,   \* its original_head
    attempt,    \* its pushes so far
    default,    \* the default branch on the remote
    work,       \* the work branch on the remote
    published,  \* all that this installation ever pushed
    failures, deaths

localVars == <<head, pending, merging>>
refs == <<baseRef, workRef>>
control == <<pc, original, attempt>>
remote == <<default, work>>
mishaps == <<failures, deaths>>
knowledgeVars == <<localVars, refs, control, remote, published, mishaps>>

KnowledgeInit ==
    /\ head = {} /\ pending = {} /\ merging = FALSE
    /\ baseRef = {} /\ workRef = NoBranch
    /\ pc = "idle" /\ original = {} /\ attempt = 0
    /\ default = {} /\ work = NoBranch
    /\ published = {} /\ failures = 0 /\ deaths = 0

Branch == SUBSET KnowledgeFile
MaybeBranch(branch) == branch = NoBranch \/ branch \in Branch
Reach(branch) == IF branch = NoBranch THEN {} ELSE branch
Mergeable(a, b) == \A f \in a \ b, g \in b \ a : {f, g} \notin Clash

\* validate_sync_head without and with the revision it is compared with.
Valid == head \cap Invalid = {} /\ ~merging
AppendOnly == (head \ original) \cap Foreign = {}

\* Git or the network fails: a bounded number of times.
Fail == failures < MaxFailures /\ failures' = failures + 1
Return == pc' = "idle" /\ original' = {} /\ attempt' = 0

(***************************************************************************)
(* Business operations, under the shared lock.                             *)
(***************************************************************************)
\* Mutant: appends do not take the maintenance lock.
AppendAnytime(f) ==
    /\ f \in Local /\ f \notin head \cup pending \cup original
    /\ head' = head \cup {f}
    /\ UNCHANGED <<pending, merging, refs, control, remote, published, mishaps>>

\* A commit --only of git refuses while a merge is in progress; so may any other append fail.
AppendFile(f) ==
    /\ pc = "idle" /\ f \in Local /\ f \notin head \cup pending
    /\ IF merging THEN UNCHANGED head ELSE head' = head \cup {f}
    /\ pending' = IF merging THEN pending \cup {f} ELSE pending
    /\ UNCHANGED <<merging, refs, control, remote, published, mishaps>>

AppendCutShort(f) ==
    /\ pc = "idle" /\ f \in Local /\ f \notin head \cup pending /\ Fail
    /\ pending' = pending \cup {f}
    /\ UNCHANGED <<head, merging, refs, control, remote, published, deaths>>

RecoverPending ==
    /\ pc = "idle" /\ pending # {} /\ ~merging
    /\ head' = head \cup pending /\ pending' = {}
    /\ UNCHANGED <<merging, refs, control, remote, published, mishaps>>

(***************************************************************************)
(* sync_knowledge_locked.                                                  *)
(***************************************************************************)
Start ==
    /\ pc = "idle" /\ pending = {} /\ Valid
    /\ pc' = "fetch" /\ original' = head /\ attempt' = 0
    /\ UNCHANGED <<localVars, refs, remote, published, mishaps>>

FetchDefault ==
    /\ pc = "fetch"
    /\ baseRef' = default /\ pc' = "fetch_work"
    /\ UNCHANGED <<localVars, workRef, original, attempt, remote, published, mishaps>>

\* fetch_optional_work_branch; a branch that is gone takes its tracking ref with it.
FetchWork(from, to) ==
    /\ pc = from
    /\ workRef' = work /\ pc' = to
    /\ UNCHANGED <<localVars, baseRef, original, attempt, remote, published, mishaps>>

\* A fetch that fails ends the synchronization with HEAD as it is.
FetchFails ==
    /\ pc \in {"fetch", "fetch_work", "refetch"} /\ Fail
    /\ Return
    /\ UNCHANGED <<localVars, refs, remote, published, deaths>>

\* Mutant: what a lost push race brings in is pushed unvalidated.
MergeRetryUnchecked(from, branch, to) ==
    /\ pc = from
    /\ IF Mergeable(head, Reach(branch))
       THEN /\ head' = head \cup Reach(branch)
            /\ pc' = IF from = "remerge" THEN "push" ELSE to
            /\ UNCHANGED merging
       ELSE merging' = TRUE /\ pc' = "abort" /\ UNCHANGED head
    /\ UNCHANGED <<pending, refs, original, attempt, remote, published, mishaps>>

\* merge_sync_ref: a conflict leaves the merge in progress until it is aborted.
Merge(from, branch, to) ==
    /\ pc = from
    /\ IF Mergeable(head, Reach(branch))
       THEN head' = head \cup Reach(branch) /\ pc' = to /\ UNCHANGED merging
       ELSE merging' = TRUE /\ pc' = "abort" /\ UNCHANGED head
    /\ UNCHANGED <<pending, refs, original, attempt, remote, published, mishaps>>

AbortMerge ==
    /\ pc = "abort"
    /\ merging' = FALSE /\ pc' = "rollback"
    /\ UNCHANGED <<head, pending, refs, original, attempt, remote, published, mishaps>>

Validate ==
    /\ pc = "validate"
    /\ pc' = IF Valid /\ AppendOnly THEN "push" ELSE "rollback"
    /\ UNCHANGED <<localVars, refs, original, attempt, remote, published, mishaps>>

Rollback ==
    /\ pc = "rollback"
    /\ head' = original
    /\ Return
    /\ UNCHANGED <<pending, merging, refs, remote, published, mishaps>>

(***************************************************************************)
(* push_synchronized_work_branch.                                          *)
(***************************************************************************)
\* Mutant: a work branch that exists is taken for published.
BranchIsThere ==
    /\ pc = "push" /\ workRef # NoBranch
    /\ Return
    /\ UNCHANGED <<localVars, refs, remote, published, mishaps>>

AlreadyPublished ==
    /\ pc = "push" /\ workRef = head
    /\ Return
    /\ UNCHANGED <<localVars, refs, remote, published, mishaps>>

FastForward == Reach(work) \subseteq head
PushLands == work' = head /\ published' = published \cup head

\* After a push that did not succeed: the next attempt, or the end of all attempts.
RetryOrGiveUp ==
    IF attempt + 1 < PushAttempts
    THEN attempt' = attempt + 1 /\ pc' = "refetch" /\ UNCHANGED original
    ELSE Return

Push ==
    /\ pc = "push" /\ workRef # head /\ FastForward
    /\ PushLands /\ workRef' = head /\ Return
    /\ UNCHANGED <<localVars, baseRef, default, mishaps>>

PushRefused ==
    /\ pc = "push" /\ workRef # head /\ ~FastForward
    /\ RetryOrGiveUp
    /\ UNCHANGED <<localVars, refs, remote, published, mishaps>>

\* git fails, before or after the remote took the push: the next attempt; or the network budget
\* runs out, which ends the synchronization at once.
PushBreaks ==
    /\ pc = "push" /\ workRef # head /\ Fail
    /\ (FastForward /\ PushLands) \/ UNCHANGED <<work, published>>
    /\ RetryOrGiveUp \/ Return
    /\ UNCHANGED <<localVars, refs, default, deaths>>

Die ==
    /\ pc # "idle" /\ deaths < MaxDeaths
    /\ deaths' = deaths + 1 /\ Return
    /\ UNCHANGED <<localVars, refs, remote, published, failures>>

(***************************************************************************)
(* The remote: pushes by others, merged pull requests, a deleted branch.   *)
(***************************************************************************)
RemoteHas == default \cup Reach(work) \cup published

OthersMerge(f) ==
    /\ f \in Others \ RemoteHas
    /\ default' = default \cup {f}
    /\ UNCHANGED <<localVars, refs, control, work, published, mishaps>>

OthersPushToWork(f) ==
    /\ f \in Others \ RemoteHas /\ work # NoBranch
    /\ work' = work \cup {f}
    /\ UNCHANGED <<localVars, refs, control, default, published, mishaps>>

MergePullRequest ==
    /\ ~(Reach(work) \subseteq default) /\ Mergeable(default, Reach(work))
    /\ default' = default \cup work
    /\ UNCHANGED <<localVars, refs, control, work, published, mishaps>>

DeleteWorkBranch ==
    /\ work # NoBranch /\ work \subseteq default
    /\ work' = NoBranch
    /\ UNCHANGED <<localVars, refs, control, default, published, mishaps>>

SyncStep ==
    \/ FetchDefault \/ FetchWork("fetch_work", "merge_work")
    \/ Merge("merge_work", workRef, "merge_base") \/ Merge("merge_base", baseRef, "validate")
    \/ AbortMerge \/ Validate \/ Rollback
    \/ AlreadyPublished \/ Push \/ PushRefused
    \/ FetchWork("refetch", "remerge") \/ Merge("remerge", workRef, "validate")
Faults == FetchFails \/ PushBreaks \/ Die
AppendNext == RecoverPending \/ \E f \in Local : AppendFile(f) \/ AppendCutShort(f)
RemoteNext ==
    \/ \E f \in Others : OthersMerge(f) \/ OthersPushToWork(f)
    \/ MergePullRequest \/ DeleteWorkBranch

KnowledgeNext == Start \/ SyncStep \/ Faults \/ AppendNext \/ RemoteNext
KnowledgeSpec == KnowledgeInit /\ [][KnowledgeNext]_knowledgeVars

\* launchd runs the maintenance every day, the hooks recover pending batches, git and the network
\* take their steps; nobody has to push, merge or delete anything on the remote.
FairKnowledgeSpec ==
    KnowledgeSpec /\ WF_knowledgeVars(Start) /\ WF_knowledgeVars(SyncStep) /\ WF_knowledgeVars(RecoverPending)

(***************************************************************************)
(* Properties.                                                             *)
(***************************************************************************)
KnowledgeTypeOK ==
    /\ head \in Branch /\ pending \in SUBSET Local /\ merging \in BOOLEAN
    /\ baseRef \in Branch /\ MaybeBranch(workRef)
    /\ pc \in {"idle", "fetch", "fetch_work", "merge_work", "merge_base", "validate", "abort",
               "rollback", "push", "refetch", "remerge"}
    /\ original \in Branch /\ attempt \in 0..PushAttempts
    /\ default \in Branch /\ MaybeBranch(work) /\ published \in Branch
    /\ failures \in Nat /\ deaths \in Nat

\* What this installation appended is never lost, whatever a synchronization merges, aborts or rolls
\* back, at whatever step it dies: reset --hard goes back to a HEAD nobody could append to since.
AppendedIsKept == [][head \cap Local \subseteq head' \cap Local]_knowledgeVars

\* Nothing that fails validation is ever published, and nothing that is not an addition, unless an
\* earlier synchronization died between its merge and its validation (lib.rs 2088-2098).
PublishedIsSound ==
    /\ published \cap Invalid = {}
    /\ deaths = 0 => published \cap Foreign = {}

\* What stands in the way of publishing for good: something on the remote or in HEAD that the
\* synchronization must refuse, or a merge that nobody aborts any more.
Blocked ==
    \/ merging
    \/ (RemoteHas \cup head) \cap (Invalid \cup Foreign) # {}
    \/ \E c \in Clash : c \subseteq RemoteHas \cup head

\* What is appended is published in the end, through races, timeouts and deaths, or something is in
\* the way that a person must settle.
EventuallyPublished ==
    \A f \in Local : f \in head \cup pending ~> (f \in published \/ Blocked)

\* Published is only what is an addition to the tree the synchronization began with.
PublishedIsAppendOnly == published \cap Foreign = {}
=============================================================================
