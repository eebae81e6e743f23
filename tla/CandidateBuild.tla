---------------------------- MODULE CandidateBuild ----------------------------
(***************************************************************************)
(* Building the Candidates of one closed Work Episode.                     *)
(*                                                                         *)
(* Closing the Episode reserves an outbox in the Task Runtime: one queued  *)
(* item, with a stable SubmissionId, per Claim.  A build, run by the call  *)
(* that closed the Episode or by any later read that recovers it, decides  *)
(* which Claims only restate a Candidate of another Episode, PREPARES the  *)
(* outbox in one transaction, SUBMITS what is owed to Git (under           *)
(* candidate-writer.lock, one batch, degrading to one batch per Claim) and *)
(* RECORDS each result in a transaction of its own.  Builds overlap, and   *)
(* can be cut short between any two of these.                              *)
(***************************************************************************)
EXTENDS Integers, FiniteSets

CONSTANTS
  Process,      \* MCP servers that may build the Episode
  Claim,        \* the Claims of the Episode's Checkpoints
  MaxBatches,   \* bound: Git batches ever prepared
  MaxBuilds,    \* bound: builds ever started
  MaxErrors,    \* bound: builds cut short and store errors
  None

ASSUME BuildAssumption == {MaxBatches, MaxBuilds, MaxErrors} \subseteq Nat

VARIABLES
  item,       \* candidate_build_item of each Claim: None, or its row
  duplicate,  \* Claims in candidate_build_duplicate
  issued,     \* SubmissionIds generated for each Claim so far
  similar,    \* Claims that restate a reviewed Candidate of another Episode
  journals,   \* durable pending batches of Candidate Events
  git,        \* committed batches of Candidate Events
  batches,    \* batches prepared so far
  lock,       \* holder of candidate-writer.lock
  build,      \* what each process carries: None, or its build
  builds,     \* builds started so far
  errors      \* builds cut short and store errors so far

outbox == <<item, duplicate, issued>>
store  == <<journals, git, batches>>
vars   == <<outbox, similar, store, lock, build, builds, errors>>

(***************************************************************************)
(* Values.                                                                 *)
(***************************************************************************)
\* created stands for already_exists too.
ItemStatus == {"queued", "prepared", "needs_evidence", "created", "failed"}

Submission == [claim : Claim, number : Nat]

\* A CandidateId is generated with the Event that carries it.
Event == [submission : Submission, candidate : 1 .. MaxBatches]

Item == [submission : Submission, status : ItemStatus, candidate : 0 .. MaxBatches]

\* drafted: Claims whose Evidence resolved when the build read the store;
\* restated: those it means to drop; owed: still to submit; degraded: one
\* batch per Claim; slice and writing: what it is committing and its journal;
\* found and failed: results to record.
Build ==
  [step : {"decided", "submitting", "recording"}, drafted : SUBSET Claim,
   restated : SUBSET Claim, owed : SUBSET Submission, degraded : BOOLEAN,
   slice : SUBSET Submission, writing : 0 .. MaxBatches, found : SUBSET Event,
   failed : SUBSET Submission]

BatchRecord == [id : 1 .. MaxBatches, events : SUBSET Event]

ASSUME NoneAssumption == None \notin Process \cup Item \cup Build

Row(k, n, status) ==
  [submission |-> [claim |-> k, number |-> n], status |-> status, candidate |-> 0]

Finalized(k) == item[k] # None /\ item[k].status = "created"

Written == UNION {b.events : b \in git}

\* The Candidate submission index.
Submitted(submission) == {e \in Written : e.submission = submission}

\* submit_agent_checkpoint reserved the outbox, or the Episode was closed
\* without one and the first build will.
Init ==
  /\ \/ /\ item = [k \in Claim |-> Row(k, 1, "queued")]
        /\ issued = [k \in Claim |-> 1]
     \/ /\ item = [k \in Claim |-> None]
        /\ issued = [k \in Claim |-> 0]
  /\ duplicate = {}
  /\ similar = {}
  /\ journals = {}
  /\ git = {}
  /\ batches = 0
  /\ lock = None
  /\ build = [p \in Process |-> None]
  /\ builds = 0
  /\ errors = 0

Return(p) == build' = [build EXCEPT ![p] = None]

Doing(p, step) == build[p] # None /\ build[p].step = step

(***************************************************************************)
(* One build.                                                              *)
(***************************************************************************)
\* Claims a build means to drop as restatements: those drafted, not yet
\* finalized in the outbox, and similar to a reviewed Candidate.
Restated(drafted) == {k \in drafted \cap similar : ~Finalized(k)}

\* Reads the Episode, the store (which Evidence resolves may differ from one
\* read to the next), the outbox and the reviewed Candidates of the Session.
Decide(p, drafted) ==
  /\ build[p] = None
  /\ builds < MaxBuilds
  /\ builds' = builds + 1
  /\ build' = [build EXCEPT ![p] =
       [step |-> "decided", drafted |-> drafted, restated |-> Restated(drafted),
        owed |-> {}, degraded |-> FALSE, slice |-> {}, writing |-> 0, found |-> {}, failed |-> {}]]
  /\ UNCHANGED <<outbox, similar, store, lock, errors>>

\* Restated Claims whose item is released: those still not finalized.
Released(p) == {k \in build[p].restated : ~Finalized(k)}

\* Mutant: a persisted duplicate is prepared again.
PreparedWithDuplicates(p) == Claim \ build[p].restated

\* Claims to prepare: a persisted duplicate keeps that decision.
Prepared(p) == Claim \ (build[p].restated \cup duplicate)

Kept(p) == {k \in Claim \ Released(p) : item[k] # None}

\* Mutant: a finalized item is prepared like any other.
RefreshedWhateverStatus(p, k) ==
  LET status == IF k \in build[p].drafted THEN "prepared" ELSE "needs_evidence" IN
  IF k \notin Kept(p) THEN Row(k, issued[k] + 1, status)
                      ELSE Row(k, item[k].submission.number, status)

\* upsert_candidate_build_items: a new row gets a new SubmissionId, a row that
\* is finalized, or was prepared by a healthier read, is left alone.
Refreshed(p, k) ==
  LET status == IF k \in build[p].drafted THEN "prepared" ELSE "needs_evidence" IN
  IF k \notin Kept(p)
    THEN Row(k, issued[k] + 1, status)
    ELSE IF \/ Finalized(k)
            \/ item[k].status = "prepared" /\ status = "needs_evidence"
      THEN item[k]
      ELSE Row(k, item[k].submission.number, status)

CoverageHolds(p) == Kept(p) # {} => Cardinality(Kept(p)) = Cardinality(Prepared(p))

Owed(p) == {k \in Claim : item'[k] # None /\ item'[k].status = "prepared"}

\* prepare_candidate_build_with_duplicates, one transaction; then the build
\* collects what the outbox owes, and gives up on an item prepared by another
\* build whose Evidence it could not resolve itself.
Prepare(p) ==
  /\ Doing(p, "decided")
  /\ IF CoverageHolds(p)
       THEN /\ item' = [k \in Claim |->
                 IF k \in Prepared(p) THEN Refreshed(p, k)
                 ELSE IF k \in Released(p) THEN None ELSE item[k]]
            /\ issued' = [k \in Claim |->
                 IF k \in Prepared(p) \ Kept(p) THEN issued[k] + 1 ELSE issued[k]]
            /\ duplicate' = duplicate \cup Released(p)
            /\ IF Owed(p) \subseteq build[p].drafted
                 THEN build' = [build EXCEPT ![p].step = "submitting",
                        ![p].owed = {item'[k].submission : k \in Owed(p)}]
                 ELSE Return(p)
       ELSE Return(p) /\ UNCHANGED outbox
  /\ UNCHANGED <<similar, store, lock, builds, errors>>

\* What one call of the store is given: the whole slice, then one by one.
Slices(p) ==
  IF build[p].degraded THEN {{s} : s \in build[p].owed} ELSE {build[p].owed} \ {{}}

\* Mutant: the index is read before what is pending has been committed.
UnwrittenStale(slice) == {s \in slice : Submitted(s) = {}}

Unwritten(slice) == {s \in slice : Submitted(s)' = {}}

\* Under candidate-writer.lock: commit what is pending, look every
\* SubmissionId up, make the new ones one durable batch.
SubmitSlice(p, slice) ==
  /\ Doing(p, "submitting")
  /\ slice \in Slices(p)
  /\ lock = None
  /\ git' = git \cup journals
  /\ IF Unwritten(slice) = {}
       THEN /\ build' = [build EXCEPT ![p].owed = @ \ slice,
                 ![p].found = @ \cup UNION {Submitted(s)' : s \in slice}]
            /\ journals' = {}
            /\ UNCHANGED <<lock, batches>>
       ELSE /\ batches < MaxBatches
            /\ batches' = batches + 1
            /\ lock' = p
            /\ journals' = {[id |-> batches + 1, events |->
                 {[submission |-> s, candidate |-> batches + 1] : s \in Unwritten(slice)}]}
            /\ build' = [build EXCEPT ![p].slice = slice, ![p].writing = batches + 1]
  /\ UNCHANGED <<outbox, similar, builds, errors>>

\* Its batch can be committed, or another writer has committed it.
Stands(p) == \E b \in journals \cup git : b.id = build[p].writing

\* Every member is read back from the index, new or not; a batch that went
\* missing would be answered with the identity it was given.
Answered(p) ==
  {[submission |-> s,
    candidate |-> IF Submitted(s)' = {} THEN build[p].writing
                  ELSE (CHOOSE e \in Submitted(s)' : TRUE).candidate] : s \in build[p].slice}

CommitSlice(p) ==
  /\ Doing(p, "submitting")
  /\ lock = p
  /\ Stands(p)
  /\ lock' = None
  /\ git' = git \cup journals
  /\ journals' = {}
  /\ build' = [build EXCEPT ![p].owed = @ \ build[p].slice,
       ![p].slice = {}, ![p].writing = 0, ![p].found = @ \cup Answered(p)]
  /\ UNCHANGED <<outbox, similar, batches, builds, errors>>

\* The store refuses the slice, before or after its journal is durable: a
\* whole slice degrades to one call per Claim, one Claim is recorded Failed.
SliceRefused(p, slice) ==
  /\ Doing(p, "submitting")
  /\ slice \in Slices(p)
  /\ lock = None \/ (lock = p /\ slice = build[p].slice)
  /\ \/ errors < MaxErrors /\ errors' = errors + 1
     \/ lock = p /\ ~Stands(p) /\ UNCHANGED errors
  /\ lock' = None
  /\ LET refused == [build[p] EXCEPT !.slice = {}, !.writing = 0] IN
     build' = [build EXCEPT ![p] =
       IF build[p].degraded
         THEN [refused EXCEPT !.owed = @ \ slice, !.failed = @ \cup slice]
         ELSE [refused EXCEPT !.degraded = TRUE]]
  /\ UNCHANGED <<outbox, similar, store, builds>>

AllSubmitted(p) ==
  /\ Doing(p, "submitting")
  /\ build[p].owed = {}
  /\ build' = [build EXCEPT ![p].step = "recording"]
  /\ UNCHANGED <<outbox, similar, store, lock, builds, errors>>

\* A finalized row stays as it is.
Records(row, status, candidate) ==
  IF row.status = "created" THEN row
                            ELSE [row EXCEPT !.status = status, !.candidate = candidate]

\* The item must still be there, and a finalized one must agree.
Recordable(submission, candidate) ==
  LET row == item[submission.claim] IN
  /\ row # None
  /\ row.submission = submission
  /\ row.status = "created" => row.candidate = candidate

Record(p, submission, status, candidate) ==
  IF Recordable(submission, candidate)
    THEN /\ item' = [item EXCEPT ![submission.claim] = Records(@, status, candidate)]
         /\ build' = [build EXCEPT
              ![p].found = {e \in @ : e.submission # submission}, ![p].failed = @ \ {submission}]
    ELSE Return(p) /\ UNCHANGED item

RecordResult(p) ==
  /\ Doing(p, "recording")
  /\ \/ \E e \in build[p].found : Record(p, e.submission, "created", e.candidate)
     \/ \E s \in build[p].failed : Record(p, s, "failed", 0)
     \/ build[p].found = {} /\ build[p].failed = {} /\ Return(p) /\ UNCHANGED item
  /\ UNCHANGED <<duplicate, issued, similar, store, lock, builds, errors>>

(***************************************************************************)
(* The rest of the system.                                                 *)
(***************************************************************************)
\* A crash ends the build: its lock is released, its journal stays.
CutShort(p) ==
  /\ build[p] # None
  /\ errors < MaxErrors
  /\ errors' = errors + 1
  /\ lock' = IF lock = p THEN None ELSE lock
  /\ Return(p)
  /\ UNCHANGED <<outbox, similar, store, builds>>

\* Any other writer of the store commits what is pending.
RecoverPending ==
  /\ journals # {}
  /\ git' = git \cup journals
  /\ journals' = {}
  /\ UNCHANGED <<outbox, similar, batches, lock, build, builds, errors>>

\* An operator moves a pending batch aside.
MovePendingAside(b) ==
  /\ b \in journals
  /\ journals' = journals \ {b}
  /\ UNCHANGED <<outbox, similar, git, batches, lock, build, builds, errors>>

\* Another Episode of the Session gets a reviewed Candidate that says the same.
OtherEpisodeBuilt(k) ==
  /\ similar' = similar \cup {k}
  /\ similar' # similar
  /\ UNCHANGED <<outbox, store, lock, build, builds, errors>>

Next ==
  \/ \E p \in Process :
       \/ \E drafted \in SUBSET Claim : Decide(p, drafted)
       \/ Prepare(p)
       \/ /\ build[p] # None
          /\ \E slice \in Slices(p) : SubmitSlice(p, slice) \/ SliceRefused(p, slice)
       \/ CommitSlice(p)
       \/ AllSubmitted(p)
       \/ RecordResult(p)
       \/ CutShort(p)
  \/ RecoverPending
  \/ \E b \in journals : MovePendingAside(b)
  \/ \E k \in Claim : OtherEpisodeBuilt(k)

Spec == Init /\ [][Next]_vars

(***************************************************************************)
(* Properties.                                                             *)
(***************************************************************************)
\* Every row and build keeps its type; a row names a Candidate exactly when
\* it is finalized (the CHECK constraints of candidate_build_item).
TypeOK ==
  /\ item \in [Claim -> Item \cup {None}]
  /\ \A k \in Claim : item[k] # None =>
       /\ item[k].submission.claim = k
       /\ item[k].submission.number \in 1 .. issued[k]
       /\ item[k].candidate # 0 <=> item[k].status = "created"
  /\ issued \in [Claim -> Nat]
  /\ build \in [Process -> Build \cup {None}]
  /\ journals \subseteq BatchRecord
  /\ git \subseteq BatchRecord
  /\ duplicate \subseteq Claim
  /\ similar \subseteq Claim
  /\ batches \in 0 .. MaxBatches
  /\ lock \in Process \cup {None}
  /\ \A p \in Process : lock = p => Doing(p, "submitting") /\ build[p].slice # {}

\* However builds overlap, fail and repeat, a Claim has one fate.  Every Claim of
\* a build is either in the outbox or a recorded duplicate, never both and never
\* neither (validate_build_claim_coverage, upsert_candidate_build_items), and Git
\* holds at most one Candidate of it: one SubmissionId, looked up only after what
\* is pending has been committed (submit_candidate_requests_locked).
OneFatePerClaim ==
  /\ (duplicate # {} \/ \E k \in Claim : item[k] # None) =>
       \A k \in Claim : (item[k] # None) # (k \in duplicate)
  /\ \A k \in Claim : Cardinality({e \in Written : e.submission.claim = k}) <= 1

\* Neither a deduplication decision nor a finalized item is ever revised
\* ("recovery and replay cannot fork one fact into two").
DecisionsAreKept ==
  [][/\ duplicate \subseteq duplicate'
     /\ \A k \in Claim : Finalized(k) => item'[k] = item[k]]_outbox

\* The decision to drop a Claim "never runs on a Claim whose Candidate already
\* reached Git, so it cannot retract a submitted proposal" (comment of
\* deduplicated_claims).  The code looks at the outbox, which learns of the
\* submission only when its result is recorded.
SubmittedIsNotRetracted == \A e \in Written : e.submission.claim \notin duplicate

==============================================================================
