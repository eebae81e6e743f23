# TLA+ models of Shared Context

These modules model the parts of `src/` where several processes, two stores, a crash or a network can
put the program into a state nobody tested: the append path of the Git knowledge store and its
synchronization with a remote, Tasks, Work Episodes and Checkpoints, the building and the confirmation
of Candidates, the leases of Agent Sessions, setup and data reset, the collection and the upload of logs;
and the reducer, which turns whatever Events several clones have merged into one projection. They are
checked with TLC on small instances; the safety properties of all of them are also proved with TLAPS,
for any number of processes, batches, files, shards, crashes, Events, Candidates, Sessions and calls, and
so is that the Git writer implements the abstract log and the log spool the abstract queue.

Contents: [the system](#1-the-system) · [the modules](#2-the-modules) · [the runs](#3-the-runs) ·
[fairness](#4-fairness) · [what is proved](#5-what-is-proved) ·
[where code and words differ](#6-where-the-code-and-its-words-differ) ·
[what is not modelled](#7-what-is-not-modelled) · [the plan](#8-the-plan)

## 1. The system

One installation directory per user (`~/.shared-context`) is shared by many short-lived processes:
`sctx` commands, MCP servers (one per Agent window), Agent hooks, `sctx setup`, and two launchd jobs
(maintenance, log sync). There is no daemon in the middle. They meet in files, in SQLite
transactions, in Git and in `flock` locks, and any of them may be killed at any time.

| Component | State | Operations | Talks to |
| --- | --- | --- | --- |
| **Git writer** `git-store/src/store.rs` | `repository/` (working tree, index, HEAD), `state/pending/<batch>/`, `pending-aside/`, `writer.lock` | append_event, submit_candidate_requests, confirm_candidate_plans, recover_pending, commit_pending, move_pending_aside, bootstrap, validate | Git; every writer of knowledge |
| **Candidate confirmation** `mcp` + `task-runtime` + `git-store` | `candidate_review`, `candidate_analysis`, `candidate_confirmation_operation`, `proposed_space_group`; confirmation Events in Git | candidate_confirm(_batch), candidate_discard(_batch), TTL cleanup, candidate_analyze | Runtime, then Git, then Runtime |
| **Candidate builder** `mcp` + `task-runtime` + `git-store` | `candidate_build`, `candidate_build_item`, `candidate_build_duplicate`; Candidate Events in Git | build_closed_episode, recover_candidate_builds, record results | Runtime, Git, Runtime |
| **Tasks and Intents** `task-runtime`, `domain/task.rs` | `external_session`, `task_session`, `intent_revision`, signals | open_or_create, start_new_task, switch_active_task, append_intent_revision, continue_working_intent, merge_signals | MCP, hooks |
| **Episodes and Checkpoints** `task-runtime`, `domain/episode.rs` | `work_episode`, `checkpoint`, checkpoint operations, reminder counters | open, append, submit_agent_checkpoint, close | MCP, hooks, builder |
| **Session scopes** `local-state/session_scope.rs` | one lease per Session in `authorized-session-scopes/` | authorize, reconcile, notify once, remove, evict, reclaim | hooks, MCP, setup |
| **User configuration** `local-state/config.rs` | `config.toml` | add_repository, settings | everything |
| **Maintenance lock** `local-state/maintenance.rs` | `maintenance.lock`, reset marker | try_shared, try_exclusive | everything |
| **Installer** `installer` | setup journals in `backups/`, data reset journal, manifest, owned configs and skills | setup, upgrade, uninstall, reset_data, sync_knowledge | Git remote, launchd, Agents |
| **Reducer, event schema** `domain`, `event-schema` | none (pure) | fold of the Events of a tree into Spaces, Statements, quarantines | index |
| **Projection index** `index` | `index.sqlite`, `index.lock` | synchronize, snapshot reads | Git HEAD; search, MCP |
| **Search, engineering graph** `search`, `engineering-graph` | rebuildable SQLite projections | rank, associate, render Context Packs | index |
| **Telemetry** `telemetry` | a FIFO | emit (one non-blocking write) | collector |
| **Collector and spool** `log-service` | `spool/active`, `spool/ready`, seal request and acknowledgement | append, seal, recover | telemetry, log sync |
| **Log sync** `log-sync` | `state/shards`, `upload-journal.json`, `receipts/`, `upload-status.json`, `repository/`, `repository.staging/` | sync, prune, schedule | spool, Git remote |
| **Adapters, CLI, scenario-\*** | none of their own | translate, dispatch, test | all |

`PROJECT.json` lists every component with its status and, under `hazards`, the places where it is
hard to test, each with the properties that guard it.

**What is hard in it.**

* *Locks are narrow.* `append_event` makes its journal durable before it takes `writer.lock`
  (`store.rs:825-827`), so a batch is often committed by somebody else.
* *Two stores, no common transaction.* A Confirmation is reserved in SQLite, written to Git and
  finalized in SQLite, and any other call may come in between.
* *Everything is retried.* After an error or a crash the caller repeats the call, or the next reader
  resumes the work. The code relies on stored identities (batch id, SubmissionId, reserved plan,
  upload journal) to do it once.
* *The remote answers late, or lies.* A push may land after its process gave up, and others write to
  the branch.
* *Multi-file steps.* `remove_dir_all`, `mkdir` followed by a marker file, and two `atomic_write_json`
  in a row can be cut in the middle.

**What makes each part correct.** The Git writer: a batch is committed whole, once, and never lost
once durable, and nothing blocks the store for good. Confirmation: one Confirmation per Candidate,
the one that was reserved; the Runtime never claims more than Git holds; decisions are final. The
builder: one Candidate per Claim, every Claim accounted for. Log sync: nothing deleted locally before
it is on the remote, nothing uploaded twice, nothing of others overwritten, and every batch uploaded
in the end. Tasks: a stale compare-and-set changes nothing, the revisions of a Task are one chain, a
held prompt is neither lost nor doubled. Episodes: a replay returns the same Checkpoint, and a Build
covers all the Claims of its Episode. Installer: setup and reset leave everything old or everything
new, whatever cut them or their recovery short. Knowledge synchronization: nothing appended is lost,
nothing unsound is published, everything appended is published in the end. Leases: one that is gone never comes back through an
overlapping call, and what it says a Session was shown, it was shown. Collector: what is
persisted gets published whole, once, under its own target. Reducer: the projection is a function of
the set of Events; nothing is dropped in silence, nothing projected hangs in the air, and no order of
arrival decides a dispute.

## 2. The modules

| Module | What it is |
| --- | --- |
| `AppendLog` | What the knowledge store promises: each batch is accepted, then committed once as a whole, or set aside. |
| `GitWriter` | The append path step by step, with crashes; implements `AppendLog`. |
| `GitWriterProofs` | TLAPS theorems about `GitWriter`, and its refinement of `AppendLog`. |
| `CandidateConfirmation` | The reserve / write / finalize protocol. |
| `CandidateConfirmationProofs` | TLAPS theorems about `CandidateConfirmation`. |
| `CandidateBuild` | The outbox of one Episode. |
| `CandidateBuildProofs` | TLAPS theorems about `CandidateBuild`. |
| `TaskRuntime` | Tasks, Intents, Signals and held prompts, under several callers with stale snapshots. |
| `WorkEpisodes` | Extends `TaskRuntime` with Work Episodes, Checkpoints and the reservation of Builds. |
| `WorkEpisodesProofs` | TLAPS theorems about `WorkEpisodes` (and so `TaskRuntime`). |
| `Installation` | Business, setup, data reset and their recoveries under the maintenance lock. |
| `KnowledgeSync` | Synchronization of the Knowledge Store with a remote that others write to. |
| `InstallerProofs` | TLAPS theorems about `Installation` and `KnowledgeSync`. |
| `Reducer` | The projection as a function of the set of Events, while the set grows. |
| `ReducerProofs` | TLAPS theorems about `Reducer`. |
| `SessionScope` | The activation leases under overlapping Hooks and MCP calls. |
| `SessionScopeProofs` | TLAPS theorems about `SessionScope`. |
| `EventQueue` | What the log spool promises: events in the order of emission, handed over once, in whole batches. |
| `LogSpool` | Log collector, active and ready batches, seal requests, first assignment; implements `EventQueue`. |
| `LogSync` | The upload of log batches. |
| `LogProofs` | TLAPS theorems about `LogSpool` and `LogSync`. |
| `MC*` | Instances for TLC. |

Definitions carry the names of the source where that is possible. The definitions marked
`\* Mutant:` are not part of the models: each is a plausible bug, and a property is only kept if TLC
finds it violated when the definition below the mutant is replaced by it.

### GitWriter

`journal`, `base`, `phase` and `payload` are what is in `state/pending/<batch>/` (`journal.json` with
its `base_head_oid` and `phase`, and the payload files); `tree`, `index` and `commits` are the working
tree, the Git index and the history of HEAD; `lock` is `writer.lock`; the other variables are what a
running call remembers.

| Action | Code |
| --- | --- |
| `BeginPrepare`, `PersistJournal` | prepare_serialized_with_batch: the directory and payload, then `journal.json` |
| `AcquireForAppend`, `StartRecovery`, `AcquireForCommit` | append_event, recover_pending and commit_pending taking the lock and (the first two) reading the journals |
| `PickJournal`, `PickOwn`, `RecoveryDone` | the loop of recover_all_locked, staged journal first |
| `AlreadyCommitted` … `MarkIndexed` | commit_journal_locked: reconcile with HEAD, record the base, check what can be reused, create files, `git add`, verify what is staged, commit, persist the phase |
| `Refuse` | every early `Err` of commit_journal_locked, which ends the whole call |
| `RemovePayload`, `RemoveJournal` | remove_dir_all of cleanup, in either order of its entries |
| `MoveAside` | move_pending_aside |
| `Crash`, `CrashInWrite` | a crash between two steps, or inside the write of a file |

Content is abstracted by path: object paths are content digests and event paths contain a fresh id, so
a file at a path is absent, torn or exactly that content. Digest checks become `tree[f] = "whole"`.

### CandidateConfirmation

The variables are the rows of the Runtime (`review`, `analysis`, `operation`, `group`, `intent`), the
durable and the committed batches (`journals`, `git`), `candidate-confirmation.lock`, and what each
caller carries (`call`). Every Runtime action is one IMMEDIATE transaction. The Git writer appears
through what `GitWriter` establishes about it: a batch becomes durable, and is then committed as a whole
by its writer or by whoever recovers first (`CommitBatch`, `RecoverPending`), or is moved aside. A decision is abstracted to what its
operation hash binds: the Review version, the analysis generation and the primary Space; the
identities a plan generates are one number, drawn when the plan is made, so "a retry under other
identities" is visible.

`Prepare` (validate and plan) → `Reserve` or `ReserveRefused` (one transaction per member, as
`candidate_confirm_batch` does it) → `LockAndLookUp` (recover what is pending, look up what is in Git,
refuse what conflicts, make the rest durable) → `CommitBatch` → `Finalize`. `CutShort` ends a call anywhere.
Around them: `Discard`, `CleanupExpired`, `Analyze`, `AppendIntentRevision`.

### CandidateBuild

The variables are the outbox (`item`, `duplicate`, and the SubmissionIds `issued`), the Git side, and
the builds under way. `Decide` reads the Episode, the store and the reviewed Candidates;
`Prepare` is prepare_candidate_build_with_duplicates in one transaction, with its coverage check;
`SubmitSlice`, `CommitSlice`, `SliceRefused` and `AllSubmitted` are submit_candidate_chunk and its
fallback to one batch per Claim; `RecordResult` is one transaction per result. Whether Evidence
resolves is a free choice at each read, since the repositories it is resolved in change.

### LogSync

Each step of `sync_mode` that leaves something behind on disk or on the remote is an action, in the
order of the code; the journal's `phase` is the one of `upload-journal.json`. Git is a list of
commits with parents; a commit's tree says for each batch whether its paths are absent, hold its
content, or something else, and `extra` counts the files of others. `PushLost` sends a push and gives
up waiting, `LatePush` lets it land at any later time; `Foreign` and `Rewrite` are other writers of
the branch; `Cut` is a crash between two steps, or the deadline where the sync runs Git or asks for the
time, which it records as a retryable `timeout`; `CutInside` is a crash in the middle of a recursive
delete. Of a cache such a crash leaves one without `.git` (`RootInvalid`, permanent), without its marker
(`MarkerMissing`, an `Io` error that is retried), or with a `.git` in parts, on which Git fails.
`GitFails` is a failure of Git, retried as retry_transient does.

### TaskRuntime and WorkEpisodes

Each variable is a table of `runtime.sqlite`, as the sequence of its rows in the order of their
ordinals; each action is one IMMEDIATE transaction. A query that ends in ORDER BY an ordinal is
`InOrder` of the set of ordinals it selects, and `RowsAt` their rows. `call` holds what a caller has read and not acted
on yet: hooks and `task_intent_update` decide on a snapshot and write later, and several Agents that
share one ExternalSession cannot be told apart. `OpenOrCreate`, `StartNewTask` and `SwitchActiveTask`
compare the ActiveTask the caller named; `ContinueIntent`, `ReselectIntent` and `ForkTask` are the
branches of append_intent_revision and continue_working_intent; `StashPendingPrompt` holds a prompt
for a Session without a Task and `Drained` turns it into a Signal; `EnforceSignalRetention` is part of
every write of a Signal. In `WorkEpisodes` an Episode carries its version and its reference tables;
`AllRefs` (insert_all_missing_episode_refs) is part of every write that calls it;
`WriteAgentCheckpoint` and `SubmitAgentCheckpoint` are the two ways to write a Checkpoint, told apart
by `operation`, with the replays of both: a replay of the first is a row of the same parent version with
the same Task, Intent, boundary and content (`SameSemantics`), one of the second has the same Task, Intent
and content (`SameOperation`); `build` is the set of Checkpoints of the candidate_build row.

### Installation

`Files` stand for what the operations touch: the Task runtime, a legacy directory, the Knowledge Store
and the install manifest. A setup writes to a journal what it is about to change (`Record`,
`RecordClone`, `RecordDirectory`) before it changes it (`Install`, `RenameClone`, `MoveDirectory`); a
reset writes its marker, moves the originals away and the replacements in. `Crash` ends the holder of
the lock between any two steps. The next operation that takes the lock exclusively begins with
recover_incomplete_data_reset (`RemoveReplacement` … `RemoveMarker`) and recover_incomplete_journals
(`TakeOpenJournal` … `CloseJournal`), each a step at a time and possibly cut short too. `CheckMarker`
and `TryLock` are the two halves of `try_shared`.

### KnowledgeSync

A commit is the files it adds and a branch is the set of files reachable from it: merges are unions,
and what Git would call a conflict is a pair in `Clash`. `Start` … `PushBreaks` are
sync_knowledge_locked and what it calls, in order: both fetches, both merges with the abort of a
conflicting one, validation, rollback of HEAD, and the push with re-fetch and re-merge, up to
`PushAttempts`. `AppendFile`, `AppendCutShort` and `RecoverPending` are the Git writer between
synchronizations; `Others*`, `MergePullRequest` and `DeleteWorkBranch` are people on the remote;
`Die` kills the synchronization at any step.

### Reducer

`Reduce` composes the phases of `reduce` as functions of the set of Events: duplicates of one identity
(`Disputed`), Contexts claimed by two Spaces (`Owners`), the acyclic rounds of Intents and revisions
(`Causal`), relations between revisions (`Related`), reviews, publications and their heads,
associations, Confirmations, conflicts and resolutions, and for what is left out the diagnostics
(`Diagnosed`). The rounds of the code, which repeat until nothing changes, are fixed points written as
unions or intersections of sets that are closed under the rule, so the module needs no recursion and
can be proved about. `Arrive` is a commit or a merge that brings a batch of Events and a new projection.

### LogSpool

`building` is the directory in `spool/active`, with its lines, its manifest and what a write that was cut
short left behind them: `torn` says that there is a rest of a line, and `unended` is the event of it when
only the newline is missing, 0 otherwise. Such a rest parses: a seal counts it (`Intact`, `EventCount`)
and renames the batch, which does not load any more afterwards (`Loads`), and while one batch does not,
no listing succeeds (`Listed`): nothing is bound any more, and no sync gets as far as an upload. A batch of more than `ReadMax` lines
stands for one over `MAX_BATCH_READ_BYTES`, which neither a seal nor a recovery reads (`Readable`).
`published` is `spool/ready`; `config` and `known` are config.toml and the collector's copy of it. `pc` and `why` say
where the collector is: it opens (`Recover`, `CreateDirectory`, `CreateFiles`), reads and appends,
seals (`RemoveEvents`, `RemoveDirectory` for an empty batch; `WriteManifest`, `Publish` for another)
because the batch is `"due"`, for a `"request"`, for a new `"config"` or before its `"exit"`, and each
of these goes on differently when the seal fails. `InitWrite` and `InitBind` are `sctx logs init`;
`RequestSeal`, `Answered` and `TakeBatch` are the sync as far as it touches the spool, which `LogSync`
takes as given (`Seal`). For `EventQueue`, what
is collected are the events of `building` that are not in doubt, and the batches are those of `published`. An event that was
appended without its newline is none of them: its append failed, and the batch it is published in is never taken.

### SessionScope

`lease` is the directory of records, `leftover` its temporary files of writers that were killed,
`call` what each Hook process or MCP call carries. `Begin` freezes the Catalog; `ReadLease`,
`ReadMissing`, `Rewrite` are try_read_reconciled with its two separate locks; `Authorize` and
`AuthorizedAlready` are try_authorize_missing with its eviction; `ActOn…`, `MarkNotified` and
`TaskOperationFails` what an event does before it answers; `Respond` prints the answer and
`MarkDelivered` then records the activation marker; `EndSession` is SessionEnd. `LockBusy`,
`RewriteBusy`, `EndBusy` and `RecordBusy` are the same steps with the lock taken by anybody else, the
first also with `maintenance.lock` taken by a setup. `Reclaim` runs while no call does: setup holds
`maintenance.lock` alone, and Hooks and MCP calls share it. `told`, `reminded`, `granted`, `grants` and
`rewrites` only keep account: who was shown its marker, how often a Session was reminded, and what its
lease was when it was granted. Seconds are the clock's granularity, as in `issued_at_unix_seconds`.

## 3. The runs

| Run | Instance | Shows |
| --- | --- | --- |
| `git_writer` | 2 processes, 2 batches with a common object, 2 crashes | The Git writer properties, the refinement of `AppendLog`, and `EventuallySettled` |
| `confirm_retries` | 2 processes, 2 Candidates, 2 calls, 1 cut, 2 analyses, 2 Intent revisions | One Confirmation per Candidate and one new Space per Task, under the reserved identities; a retry with other semantics is refused; final decisions |
| `candidate_build` | 2 processes, 2 Claims, 3 builds, 3 batches, 2 errors | One fate and at most one Candidate per Claim, no decision revised |
| `task_runtime` | 2 Sessions, 2 callers, 2 goals, 2 prompts, budgets of 1, 6 rows, Episode versions up to 2 | One chain per Task, Episodes that follow it, one Checkpoint per operation, all Claims queued, no prompt lost |
| `installation` | 1 business process, 3 exclusive operations on 4 files, 2 writes, 2 crashes | All old or all new after every recovery |
| `knowledge_sync` | 2 own files; one of others that clashes, one that never validates, one that is no addition; 3 pushes, 1 failure, 1 death | Nothing lost, nothing unsound published, everything published in the end |
| `reducer` | 14 batches: all 16,384 logs they form, in every order of arrival | The five properties of the projection |
| `log_spool` | 2 events, batches and FIFO of 2, reads of 4 lines; 1 fault, 1 crash, 1 init, 1 sync, 1 disable or enable | Nothing persisted is lost or doubled, what is published has the events its manifest counts, a Sealed answer covers what came before, everything is published in the end; the refinement of `EventQueue` |
| `log_sync` | 2 batches, 2 months, up to 3 shards of 2, 2 cuts, 1 foreign change, 1 rewrite | Nothing lost, nothing twice, every batch is uploaded in the end |
| `session_scope` | 2 Sessions, 3 calls of which 2 at a time, 2 directories, 1 Repository, a store for 1 lease; 1 kill, 1 Catalog change, 1 second | Leases as granted, markers told, reminders accounted for |
| `setup_rollback`, `log_unassigned` | small | Counterexamples, see section 6 |

**Why the bounds are enough.** Two processes and two batches give every pair of roles in the Git
writer (appender and recoverer, two appenders, an appender and the operator); a shared object is the
only way two batches interact, and two crashes allow a crash during the recovery from a crash. Two
confirm calls with one cut are a call that was cut short and its retry, or two that race, with a
re-analysis in between; two Candidates are the smallest batch and the smallest group of siblings. In
`task_runtime` every budget is one, so that the second row of a kind displaces the first, and six rows
suffice for two Tasks, a chain of two and a Checkpoint on each; two callers are the smallest number of
stale snapshots. In `installation` one business process is enough since business operations exclude
nobody but the exclusive ones, three operations are one that dies, one whose recovery dies and one
that recovers. In `knowledge_sync` three attempts is the constant of the code. The batches of
`reducer` hold, for each rule of the reducer, Events that follow it and Events that break it. In
`log_spool` two events fill a batch, one may be behind a torn line or be one without its newline, and four lines are more than
a batch ever has, so that everything can be read (`LogOversized.cfg` is the case in which it cannot); in `log_sync` two batches form one
group or two, a month that rolls over gives a second shard and a foreign file fills one up; two cuts
reach a crash during the recovery from a crash, and the number of shards (`MaxIndex`) is chosen so
that no sync runs into it. In `session_scope` two calls are what overlaps, the third creates the lease
they meet, a store for one lease makes every second Session evict the first, and a second is the
least by which two leases of a Session differ. Counters (`calls`, `builds`, `batches`, `errors`, `cuts`, `crashes`,
`deaths`, `failures`, `foreign`, `rewrites`, `syncs`, …) only bound how often the environment acts.

Deadlock checking is off: in every model the system may legitimately come to rest (no more calls, no
more batches).

**The properties that say most.**

* Git writer: `NothingDurableIsLost`, `AckedIsCommitted`, `BatchAtomicity`, `ImplementsAppendLog`: a
  durable batch is committed whole, with whole files, once, by whoever gets to it, and is cleaned up only then.
  `AsideStaysOut`: not even an operator in the middle gets anything else into a commit.
* Confirmation: `GitHoldsReservedPlan`, `OneSpacePerTask`, `DecisionsAreFinal`,
  `DecisionIsCarried`.
* Builder: `OneFatePerClaim`, `DecisionsAreKept`.
* Tasks and Episodes: `IntentChains`, `PromptsAreKept`, `EpisodesFollowTheChain`,
  `OneCheckpointPerOperation`, `EveryClaimIsQueued`.
* Installation: `AllOldOrAllNew`, `RollbackHasItsSource`, `UndoneLeavesNothing`, `RepositoryIsKept`.
* Knowledge synchronization: `AppendedIsKept`, `PublishedIsSound`, `EventuallyPublished`.
* Reducer: `AccountedFor`, `NothingDangles`, `NoWinnerIsPicked`, `ConfirmationsAreKept`, and
  `AcceptedIsNewest`: a Context whose publications do not descend from each other is never shown as if
  one of them were the latest.
* Leases: `LeaseIsAsGranted`, `ToldBeforeRecorded`, `RemindersAreAccounted`: the exact price of writing
  back a record that was read under another lock (section 6).
* Collector: `PersistedIsKept`, `ReadyFitsManifest`, `AckCoversEarlier`, `EventuallyReady`, and
  `ImplementsQueue`: batches go on whole and in order, and what is in doubt never comes back.
* Log sync: `NothingIsLost`, `OneCopyPerRemote`, `EventuallyUploaded`.

`EventuallySettled` names the three conditions under which the store does block: a torn file in the
working tree (a crash inside a write, which recovery refuses to replace), a batch moved aside while
its paths are staged, and a batch whose recorded base lacks a shared object that another batch
committed since. `EventuallyUploaded` likewise excuses an error the code reports as permanent, and
leftovers of an interrupted rebuild of the cache (a `repository.staging` without its ownership file or
owned for an earlier shard, a half-deleted `repository/`), from which the code does not recover either.
`EventuallyPublished` excuses what the code must refuse and a merge that nobody aborts any more.
`PublishedIsSound` and `PersistedIsKept` make one exception each, which section 6 explains: a file
that came in through a merge whose validation a crash prevented, and events appended behind a torn line.

## 4. Fairness

* Git writer: weak fairness of every step of a call in progress (a running process runs on), and
  strong fairness of starting a recovery: the installation stays in use, each Candidate
  submission starts with recover_pending, and it waits for the lock in `lock_exclusive` while other
  processes come and go. Nothing is assumed of new appends, of the operator or of crashes.
* Log sync: weak fairness of the steps of a running sync, and of starting the scheduled one: launchd
  starts it every minute. Nothing is assumed of users, the collector, the calendar or other writers.
  Faults are finite in number.
* Knowledge synchronization: weak fairness of starting it, of its steps and of the recovery of pending
  batches: the daily launchd maintenance runs all three. Nothing is assumed of people, failures or
  crashes, whose number is finite.
* Collector: weak fairness of its start (launchd keeps it alive), of its steps and of its timed
  duties (seal by age, housekeeping), of an init and of a sync that have begun. Nothing is assumed of clients, of who
  calls init, enable, disable and sync, or of faults.
* The other modules state safety only.

## 5. What is proved

Every theorem holds for all values of the constants that satisfy the assumptions named with it; the
runs show the same properties on one instance each. Hardly any of them is inductive by itself; each
proof module introduces the invariant that is, as a conjunction of named
parts, and goes action by action. TLC checks the properties, and has checked the inductive
invariants, on the instances of section 3.

| Module | Theorem | Statement |
| --- | --- | --- |
| `GitWriterProofs` | `TypeCorrectness` | `Spec => []TypeOK` |
| | `WholeBatches` | `Spec => []BatchAtomicity` |
| | `CommittedOnce` | `Spec => []AtMostOneCommit` (the run checks it as a part of `ImplementsAppendLog`) |
| | `DurableIsKept` | `Spec => []NothingDurableIsLost` |
| | `AckIsCommitted` | `Spec => []AckedIsCommitted` |
| | `AsideIsRespected` | `Spec => AsideStaysOut` |
| | `WriterImplementsLog` | `Spec => ImplementsAppendLog` |
| `CandidateConfirmationProofs` | `ConfirmationTypeCorrect` | `Spec => []TypeOK` |
| | `GitAlwaysHoldsReservedPlan` | `Spec => []GitHoldsReservedPlan` |
| | `DecisionAlwaysCarried` | `Spec => []DecisionIsCarried` |
| | `OneSpaceAlways` | `Spec => []OneSpacePerTask` |
| | `DecisionsAlwaysFinal` | `Spec => DecisionsAreFinal` |
| `CandidateBuildProofs` | `BuildTypeCorrect` | `Spec => []TypeOK` |
| | `OneFateAlways` | `Spec => []OneFatePerClaim` |
| | `DecisionsAlwaysKept` | `Spec => DecisionsAreKept` |
| `WorkEpisodesProofs` | `IntentsAlwaysChain` | `Spec => []IntentChains` |
| | `OneCheckpointAlways` | `Spec => []OneCheckpointPerOperation` |
| | `ClaimsAlwaysQueued` | `Spec => []EveryClaimIsQueued` |
| | `EpisodesAlwaysFollow` | `Spec => []EpisodesFollowTheChain` |
| | `PromptsAlwaysKept` | `Spec => PromptsAreKept` |
| `InstallerProofs` | `InstallationTypeCorrect` | `Spec => []TypeOK` |
| | `OldOrNewAlways` | `Spec => []AllOldOrAllNew` |
| | `RollbackAlwaysHasItsSource` | `Spec => []RollbackHasItsSource` |
| | `UndoneAlwaysLeavesNothing` | `Spec => []UndoneLeavesNothing` |
| | `RepositoryAlwaysKept` | `Spec => []RepositoryIsKept` |
| | `KnowledgeTypeCorrect` | `KnowledgeSpec => []KnowledgeTypeOK` |
| | `PublishedAlwaysSound` | `KnowledgeSpec => []PublishedIsSound` |
| | `AppendedAlwaysKept` | `KnowledgeSpec => AppendedIsKept` |
| `ReducerProofs` | `NothingEverDangles` | `Spec => []NothingDangles` |
| | `EveryEventIsAccountedFor` | `Spec => []AccountedFor` |
| | `NoWinnerIsEverPicked` | `Spec => NoWinnerIsPicked` |
| | `ConfirmationsLast` | `Spec => ConfirmationsAreKept` |
| | `AcceptedIsAlwaysNewest` | `Spec => []AcceptedIsNewest` |
| `SessionScopeProofs` | `ScopeTypes` | `Spec => []TypeOK` |
| | `LeasesStayGranted` | `Spec => []LeaseIsAsGranted` |
| | `MarkersAreTold` | `Spec => []ToldBeforeRecorded` |
| | `RemindersAreBounded` | `Spec => []RemindersAreAccounted` |
| `LogProofs` | `LogSpoolInvariant` | `SpoolSpec => []SpoolInv` |
| | `LogReadyFitsManifest` | `SpoolSpec => []ReadyFitsManifest` |
| | `LogPersistedIsKept` | `SpoolSpec => []PersistedIsKept` |
| | `LogAckCoversEarlier` | `SpoolSpec => []AckCoversEarlier` |
| | `LogImplementsQueue` | `SpoolSpec => ImplementsQueue` |
| | `LogSyncInvariant` | `Spec => []SyncInv` |
| | `LogNothingIsLost` | `Spec => []NothingIsLost` |
| | `LogOneCopyPerRemote` | `Spec => []OneCopyPerRemote` |

### Git writer

From `BatchAssumption` (every batch has its own Event path, batches share nothing but objects) and
`BoundAssumption`, for any sets of processes, batches and paths and any number of crashes. The
inductive invariant is `TypeInv /\ LogInv`:

* `HasBatch` (with `TypeOK`): a process at a step that works on a batch has one.
* `Exclusive`: whoever is inside the critical section holds `writer.lock`. So only one process changes HEAD.
* `LogShape`: every commit adds exactly the files of its batch that were not in HEAD before, and its
  Event is one of them, so two commits of one batch would have to add one Event twice.
* `Progress`: what the holder of the lock knows at each step: when it is about to commit, the Event of its
  batch is not in HEAD; after the commit, and until cleanup, all files of its batch are.
* `NothingDurableIsLost` and `AckedIsCommitted` themselves.
* `WholeFiles`, proved on top of it: a file that the holder of the lock has created or accepted on its
  way to the commit is whole, and stays so, so that no torn file gets into HEAD.
* `Protected`, too: from the check of what can be reused up to its commit, the journal of a batch
  stays durable, because move_pending_aside needs the lock. This is what makes the operator's decision
  last (`AsideIsRespected`), and why every commit maps to `Commit` of an accepted batch.

The lemmas at the start say what the tree of a longer history contains. For `WriterImplementsLog` the
mapped state of a batch is a function of its journal and of HEAD (`StatusIs`); each step is sorted by
what it does to those two: only `GitCommit` changes the history (`OnlyCommitsCommit`), a journal is
made durable, moved aside or removed, the last only when HEAD holds its batch, and all the rest is
stuttering (`AbstractStep`).

### Candidate confirmation

From `ConfirmationAssumption` (the bounds are numbers) and `NoneAssumption` (`None` is not a row, a
call or a process), for any processes, Candidates, calls, analyses, Intent revisions and interruptions. The
inductive invariant `CInv` relates three stores that share no transaction:

* every plan that a call carries, or a batch holds on its way to Git or in it, is the one of the
  candidate's row of `candidate_confirmation_operation` (`CallsCarryReserved`, `BatchesHoldReserved`);
* two batches never hold plans of one Candidate (`BatchesAreDisjoint`): a writer looks Git up after it has
  committed everything pending, and puts into its batch only what is not there;
* identities are drawn once (`CallsAreDistinct`, `BatchesAreOfCalls`), so that a call about to commit
  recognizes its own batch, or finds its plans in Git (`WritingIsInItsBatch`, `WrittenIsInGit`);
* the group of proposed Spaces names the one reservation that proposes a Space, and is committed only
  with that plan in Git (`GroupInv`).

`VersionsFollowStatus` (a Review moves from version 1 once) makes decisions final.

### Candidate builder

From `BuildAssumption` and `NoneAssumption`, for any processes, Claims, batches, builds and errors. The
inductive invariant `BInv`: once reserved, the outbox covers every Claim (`Coverage`); a Claim gets one
SubmissionId in its life, and rows, what builds owe and Events all carry that one (`OneNumber`,
`OwedAreFirst`, `EventsAreFirst`); one Event per SubmissionId, in pending batches too
(`OneEventPerSubmission`); and only the holder of `candidate-writer.lock` is committing anything
(`SliceIsOwed`, `WritingHasIdentity`). Without `OneNumber` a second SubmissionId of a Claim would
get past the lookup in Git.

### Tasks and Episodes

From `BudgetAssumption` (the budgets and the two limits of held prompts are at least one, and a Session
may not hold more prompts than a Task may have), for any Sessions, callers, goals, prompts and contents.
The inductive invariant is
`TaskInv /\ EpisodeInv /\ PromptInv /\ RefsInv`. The first two: the types of the rows that
the chains and Builds are made of (`RowTypes`, `EpisodeRows`), every revision is of a Task that is there, no
open Episode has a Build, an operation's Checkpoint ends a closed Episode (`ClosedFirst`), and the
properties `IntentChains`, `OneCheckpointPerOperation` and `EveryClaimIsQueued`. A caller may hold any
snapshot: of what it read earlier only the type is used, and what counts is the compare-and-set inside the transaction. `IntentChains` says that a revision has no successor iff it is its
Task's Head, and that no two of a Task share a predecessor, which makes them one chain.

`RefsInv` is `EpisodesFollowTheChain` in a form that steps preserve: an Episode refers to the first
revisions of its Task's chain, and to the one of each of its Checkpoints. A chain grows at its end only
(`ChainGrows`, since `AppendRevision` makes the greatest ordinal), so what were the first revisions stay
the first; a write to an Episode leaves its references or makes them the whole chain (`Refers`), and then
the Head is among them (`HeadIsReferred`). That insert_all_missing_episode_refs, which appends what is
missing, puts it in the right place is `OrderCompleted`: the first rows of an order followed by
the missing ones are the whole order.

`PromptsAreKept` is about one step: each prompt that was held is still held or has become a Signal of a
Task of its Session, unless newer ones displaced it. The draining takes the prompts of one Session and
leaves the others in their order (`PromptsTaken`); a stash drops the oldest only, those of too great an age
and then what is too much for the table (`PromptHeld`).

Both rest on what ORDER BY computes, for tables of any length: a row's position is the number of rows
up to it (`Ranks`, `Ordered`), and a new row with the greatest ordinal comes last (`OrderGrows`).

### Installer

From `FilesAssumption` (which files a reset and a setup handle; the Knowledge Store is a directory that
business writes and a reset replaces, the manifest a file that setups record), for any files, business
processes, operations and crashes. The inductive invariant `IInv`:

* `Exclusive`, `MarkerIsReset`, `OneOpenJournal`: at most one operation, and at most one of a reset marker and an open
  setup journal, is there to recover from.
* `Eras`, `JournalEras`, `Swap`, `Undo`: for each target, where its old and its new content is, at each point of
  the swap and of its undoing. A reset can be cut, and its recovery be cut, because every file is in a
  state from which what is left to do can be told from the disk.
* `KnownWrites` … `RestoredIsClean`: what a setup wrote is only in entries of its journal, and what
  that journal would restore was not written by it.
* `OldIsKept` … `NotOfThisSetup`: the acknowledged content of the Knowledge Store is in place, or in
  the backup that a recovery would put back (`Old`), or was lost with the setup that had cloned it.

### Knowledge synchronization

From `KnowledgeAssumption`, for any files of this and other installations, any conflicts between
them, any number of push attempts, failures and crashes. The inductive invariant `KInv`: only a HEAD that was
validated and not touched since is pushed (`ValidatedIsPushed`); what a synchronization may roll back to
loses nothing of this installation (`OriginalIsKept`, `UntouchedBeforeMerge`); what the remote has of this
installation is in HEAD (`RemoteIsBehind`), so no merge from it counts as an addition; and until a
death HEAD holds only additions (`NothingForeign`).

### Reducer

From `SchemaAssumption` (an Event is of a known kind and a conflict has participants: what the Event
schema has accepted before) and `BatchAssumption` (an operation writes finitely many Events), for any
number of batches. The inductive invariant is short, `projection = Reduce(log)`; the work is in what `Reduce` does with
every set of Events. What survives a phase is part of what went in and keeps its parents
(`CausalHasParents`) and its relations (`RelatedHolds`): both fixed points are unions of closed sets,
and an Event in the union is in a closed set that supports it. What is disputed or claimed by two
Spaces stays so when Events are added (`DisputesLast`, `ClaimsLast`), which is why no later Event can
pick a winner; an Event that is in no phase has a cause (`NothingIsDropped`), and none has both
(`NothingIsProjectedAndQuarantined`).

`AcceptedIsAlwaysNewest` needs that above every publication there is one that nothing supersedes. The
log stays finite, accepted publications contain no cycle (`NoCycle`), so one with the fewest
descendants among those above it is such a head (`HeadAbove`), and if there is one head only, every
publication is below it.

### Session scopes

From `ScopeAssumption` (the bounds are numbers, a directory covers
Repositories, calls in flight are finite in number) and `NoneAssumption`, for any Sessions, calls,
directories, Repositories and capacity. `LeaseIsAsGranted` needs nothing but the comparison of
try_persist_reconciled. For `ToldBeforeRecorded` a record may be
in flight as well as in the store, so the invariant also says it of the leases calls carry, and of a
call about to record its delivery. For `RemindersAreAccounted` every reminder is charged to the grant or the
rewrite that made its mark possible, counting the reminders that calls have marked and not shown yet:
these are finite in number, whence the assumption.

### Log collector and spool

From `SpoolAssumption` (the sizes are positive, `ReadMax` is any number) and `NothingAssumption` (`Nothing` is not a directory), for
any number of events, faults, crashes, inits, toggles and syncs, and any sizes of batch, FIFO and read. The inductive
invariant `SpoolInv`:

* `SpoolTyped`: for each place of the collector, why it is there, and what it can rely on in
  `spool/active`: it appends only to a directory with both files, and renames only one that has a
  manifest.
* `AllReadyFits`: what is about to be renamed fits its manifest already, and the active directory holds events
  of its own target only; so batches still fit when an unassigned one is bound to the first target. `Unended`: the
  line a batch has no newline for is of an event whose append failed, which has left the FIFO and will never be
  counted (`NeverCounted`). `ReadyFitsManifest` is both for what is in `spool/ready` or was taken from it. That
  such a batch also loads is false in the code, and no theorem (`LogUnended.cfg`, section 6).
* `Keeping`: an event waits once in the FIFO, or was persisted, and then is in one batch
  (`OnePlace`, `SomePlace`), unless it is `doubtful`, that is, was written behind a torn line; an
  event that is not has whole lines only before it, so a recovery that cuts a torn tail cuts none of
  those (`Undoubted`).
* `Nonces` and `Answers`: requests are numbered; while the collector is on its way to answer the one
  that is waiting, nothing of what the sync asked for is left in the FIFO, from the seal on nothing in
  the active batch either, and that is what the answer says. A request that was overtaken by the next
  is answered under its own number, which nobody waits for any more.

Every step is first sorted by what it does to the batches (`SpoolMove`: one step binds, publishes, takes,
removes, creates, touches the manifest, recovers or appends), and then `Keeping` is proved once per kind.

`LogImplementsQueue` uses the same kinds: `Publishes` is `SealBatch`, `Takes` is `HandOver`, `Appends` is
`CollectEvent` or, behind a torn line, nothing, and the others are stuttering. It needs two more
invariants: `InEmissionOrder` (whatever waits in the FIFO is in order and newer than what was persisted), and
`Doomed`, the converse of `Undoubted`: an event in doubt has a torn line before it or is one, so no batch
that holds it is ever sealed, and recovery cuts it off.

### Log upload

From `SyncAssumption` (the bounds are numbers, a shard has room for a batch) and `NoneAssumption`, for any number of
batches, months, shards, retries, cuts, foreign commits and rewrites of history. The inductive invariant
`SyncInv`:

* `Landed`: whatever the sync takes for uploaded was on the remote once: what a tip or the parent of a commit
  holds, what a fresh checkout holds, whatever has a receipt, and the group of the journal from the
  confirmation on. With `Deleting`, nothing else leaves the spool: `NothingIsLost`.
* `Copies`, as long as nobody rewrites history: no batch is at the tips of two branches (`Apart`). A batch is committed
  only while it is in the journal, and a group goes into a commit whole or not at all (`Known`, `WholeGroup`).
  The danger is the push that was given up and lands later, when the group may have been moved to the
  next shard. `Late` says that such a push, if it would still be accepted, brings nothing to
  its branch that another branch has; `Capacity` says why: a group that is moved does not fit on top of the tip that
  was fetched, so an earlier push of it (which fitted on an older tip) must be lost for good; `Checkout` and `Committed`
  relate the clone and the commit in the journal to the tips they were built on, and `Phases` says
  when the group is known to be at the tip.

### Only model-checked

* Liveness (`EventuallySettled`, `EventuallyUploaded`, `EventuallyReady`, `EventuallyPublished`): TLAPS 1.4
  supports neither `ENABLED` nor, therefore, fairness arguments.
* The counterexamples of section 6, by their nature.

## 6. Where the code and its words differ

In each of these runs TLC finds a property violated that a document, a comment or a test of the
repository states. `PROJECT.json` (`findings`) quotes the sentences.

| Run | Behaviour |
| --- | --- |
| `setup_rollback` | A setup dies and leaves the installation open. A Checkpoint is acknowledged into `runtime.sqlite`; the next setup, reset or scheduled synchronization starts by rolling the dead setup back, with its old copy of that file. |
| `log_unassigned` | The log gets its first target while a sync waits for its seal. The collector seals the unassigned batch for the new target, finds `sync.lock` taken and does not bind it, and never tries again: every later sync fails on that batch until somebody runs another init. |

Eight more configurations lie beside the runs, each with a counterexample that takes seconds:

| Configuration | Property | Behaviour |
| --- | --- | --- |
| `CandidateDiscardRace.cfg` | `DiscardedIsNotAccepted` | A Candidate is confirmed up to Git; before the Review is finalized another call discards it (`task-runtime/src/lib.rs:7814`). Git has the accepted Context, the Review says Discarded, and finalizing is refused for good (`CONTEXT.md:144`). |
| `CandidateRetryLost.cfg` | `GitBeforeRuntimeRecovers` | A confirm is cut short between Git and Runtime; candidate_analyze advances the analysis generation; the retry has another operation hash (`lib.rs:3584`) and is a Conflict, always (`docs/technical-design.md:1407`). |
| `CandidateRetracted.cfg` | `SubmittedIsNotRetracted` | A build submits a Claim and is cut short before it records the result. A similar Candidate of another Episode gets a Review. The next build drops the Claim as a duplicate although its Candidate is in Git (`mcp/src/lib.rs:2411` says that this cannot be). |
| `SessionReminder.cfg` | `RemindedOnce` | Two events of a Session read its lease before a change of the Catalog is written into it. One rewrites it, marks the reminder and shows it; the other writes back its unmarked record and shows the "one-shot" reminder again (`session_scope.rs:399`, tests at 1483 and 1528). |
| `LogSyncRotation.cfg` | `ConflictNeedsAnotherWriter` | A sync dies after it wrote the next shard's state and before it wrote the journal (`sync.rs:1495`). Every later sync ends in a permanent conflict (`docs/logging-execution-plan.md:246`). |
| `LogSyncCleanup.cfg` | `PartialCleanupRecovers` | A sync dies inside `remove_dir_all` of an uploaded batch (`sync.rs:1844`). list_ready_batches fails on the remaining file (`spool.rs:306-309`) before the journal that would finish the deletion is looked at, so every later sync ends in `invalid_batch`; the test at `sync.rs:3815` removes whole directories only. |
| `LogUnended.cfg` | `ReadyLoads` | A write stops just before its newline. The rest of the line is a whole JSON object, so a seal counts it, writes a manifest over it and renames the batch (`spool.rs:248-279`); only then load_ready_batch refuses it (`spool.rs:355`). The event was reported as failed and counts for nothing, but the batch stays in `spool/ready`, and every later listing, sync and first assignment fails on it. The doc of seal has it validate before it renames (`collector.rs:141-144`), and `docs/logging-execution-plan.md:168` keeps incomplete tails out of what is uploaded. |
| `LogOversized.cfg` | `EventuallyReady` | `batch_max_mib = 128` is accepted (`config.rs:412`), and 128 MiB is also the most that a seal and a recovery read. The batch is sealed for its size once it has reached the limit, so as a rule it has passed it: it can be neither sealed nor recovered, and nothing is published any more. The default is 5 MiB. `docs/logging-execution-plan.md:160` has a batch sealed for its size, and `config.rs:405-420` is there to refuse inconsistent limits. |

Smaller things the models show, without a sentence of the repository against them:

* `Installation`: try_shared looks for the reset marker before it takes the lock; a reset that takes
  the lock, writes the marker and dies in between leaves business inside an installation that waits
  for recovery (`ClosedWhileMarked`, seven steps). A scheduled synchronization cannot reopen an
  installation whose repository a dead reset had already moved away.
* `KnowledgeSync`: after a death between merge and validation the merged HEAD is what the next
  synchronization counts additions from, so a changed managed file or a foreign path is published
  (`PublishedIsAppendOnly`; `docs/technical-design.md:1281`). A death between a conflicting merge and
  its abort leaves `MERGE_HEAD`, on which appends and synchronizations fail until a person aborts it.
* `TaskRuntime`: an Intent that was superseded may be cited again and its semantics come back as a new
  revision (`lib.rs:1159-1190`). A prompt that is held after the Task was created (`main.rs:2999-3013`)
  becomes a Signal of the next Task.
* `WorkEpisodes`: a retry of write_agent_checkpoint that meets another open Episode of the Task writes
  a second Checkpoint.
* `Reducer`: two clones that confirm the same Candidate leave two accepted Contexts, though neither
  Confirmation counts. One Event that names a Context from another Space, even one that does not
  exist, quarantines the whole Context.
* `SessionScope`: a Session whose lease an event created that could not tell it the marker is never
  offered it again, as `main.rs:2135-2141` says and `main.rs:1994-1995` denies. Two events that overlap
  the authorization may each be told the marker (`main.rs:1997`). A Hook that meets a lease in place of the missing one
  goes by its stored decision, not by the Catalog it froze (`session_scope.rs:521`).
* `LogSpool`: a death inside the creation of a batch, or inside the removal of an empty one, which
  every idle sync causes, leaves a directory that the collector never opens again. Behind a line that was
  written in part, events are counted as persisted and cut off by the next recovery. A seal request
  without an active batch is answered as sealed, and the sync reports `active_included` (`sync.rs:631`).

## 7. What is not modelled

`PROJECT.json` has a reason for each component. In short: search and ranking, engineering graph,
index, adapters, CLI, event parsing and policy text are functions of one input or rebuildable
projections without a protocol; launchd, downloads and terminal output are operating system
interaction; the scenario crates are the repository's own tests.

Left out of modelled components, deliberately:

* Git writer: bootstrap and adoption of a remote, the validation scans; a file is not edited by hand. A crash
  leaves no `index.lock` of Git behind, and Git commands do not fail by themselves: `EventuallySettled` does
  not say what happens then.
* Confirmation: several Tasks or Sessions, the automatic confirmation surface, the contents of plans,
  related Spaces (they only add ways in which two decisions differ).
* Builder: the analysis of Candidates, usage records, and the order in which Episodes are recovered. A
  process that dies during a build never records the recovery attempt (`mcp/src/lib.rs:2736`), so the
  same Episode is first in the queue again: a hazard no module covers yet.
* Tasks and Episodes: reminder counters, the public merge_signals path, injection records and usage;
  close under a compare-and-swap is modelled by its version only. Some operations modelled in
  `WorkEpisodes` (open_work_episode, advance_work_episode_refs, append_work_observation,
  write_agent_checkpoint) are public but called by tests only.
* Installer: what a setup writes into agent configurations, uninstall, deletion of the knowledge.
* Knowledge synchronization: a push that lands after its process was killed; manifest and branch names.
* Reducer: review summaries, possible conflicts, lifecycle; scope has one dimension; that a
  publication reopens a resolved conflict (`reducer.rs:2159`) is modelled but not a property of a run.
* Collector: storage pressure in bytes (an event may be dropped at any time instead), framing,
  retained targets, status and diagnostics, a loss of power, a target that becomes unassigned again, and a
  clock that is set back between two seals: the sync takes batches by their `sealed_at` (`sync.rs:534`).
* Log sync: several streams or remotes at once, byte limits (files are limited in the same way),
  compaction of receipts, failing local writes (only crashes), the due time of scheduled syncs
  (`sync.rs:786`), and a confirmed shard that disappears between its check and the push (`sync.rs:1006`).
* Session scopes: records that are corrupt, unsafe or too large; limits in bytes; a killed authorize
  whose eviction was only half done; nested checkouts, of which only the deepest counts; the deletion of
  all leases by a data reset; events without model context, which never carry the marker.

## 8. The plan

In order of importance:

1. `BuildRecovery`: the queue over Episodes and what a crash does to it (liveness).
2. `SyncSchedule`: backoff, blocked work and what opens the gate again, around `LogSync`.
3. Composition: `KnowledgeSync` over the committed history of `GitWriter`, and `LogSync` over
   `LogSpool`, with the present environment actions as abstract specifications.

Abstract specifications worth stating beside `AppendLog` and `EventQueue`: a Review with one atomic decision
(implemented by `CandidateConfirmation` except where section 6 says otherwise), an outbox that
delivers each Claim once (`CandidateBuild`), and a queue that is moved to the remote batch by batch
(`LogSync`).

Theorems left: that `CandidateConfirmation` and `CandidateBuild` implement the abstract specifications
above.

## Running

    tlc -workers 2 -config GitWriter.cfg MCGitWriter.tla
    tlapm GitWriterProofs.tla

`PROJECT.json` names the module of each run; the six configurations of section 6 belong to
`MCCandidateConfirmation`, `MCCandidateBuild`, `MCSessionScope` and `MCLogSync`. The largest runs take about
two minutes on two cores, the others a minute or less.
