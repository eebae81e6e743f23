------------------------ MODULE CandidateConfirmation ------------------------
(***************************************************************************)
(* Confirming Candidates: one decision over two stores.                    *)
(*                                                                         *)
(* A Candidate Review lives in the local Task Runtime (SQLite); an         *)
(* accepted Confirmation is an immutable fact in Git.  A confirm call      *)
(* validates outside any transaction, RESERVES one complete plan in the    *)
(* Runtime, writes the plan to Git under candidate-confirmation.lock, and  *)
(* FINALIZES the Review in a second Runtime transaction.  It can be cut    *)
(* short between any two of these, and a later call, with the same         *)
(* semantics, is meant to find the reservation and carry it through.       *)
(* Meanwhile other calls discard, expire and re-analyse Candidates, and    *)
(* advance the Working Intent.                                             *)
(*                                                                         *)
(* One ExternalSession with one ActiveTask.  Every action on the Runtime   *)
(* is one IMMEDIATE SQLite transaction.  The Git writer's own steps are    *)
(* those of GitWriter: here a batch is durable (a journal), then committed *)
(* by whoever recovers first.                                              *)
(***************************************************************************)
EXTENDS Integers, FiniteSets

CONSTANTS
  Process,        \* MCP servers and CLI commands confirming concurrently
  Candidate,      \* Candidates built from the ActiveTask
  MaxCalls,       \* bound: confirm calls that pass validation
  MaxGeneration,  \* bound: analyses of one Candidate
  MaxIntent,      \* bound: revisions of the Working Intent
  MaxCuts,        \* bound: calls cut short by a crash or a store error
  None

ASSUME ConfirmationAssumption ==
  /\ {MaxCalls, MaxGeneration, MaxIntent, MaxCuts} \subseteq Nat
  /\ MaxGeneration > 0
  /\ MaxIntent > 0

VARIABLES
  review,     \* candidate_review: status and review_version
  analysis,   \* candidate_analysis: generation (0: no row), complete
  operation,  \* candidate_confirmation_operation: None, or plan and status
  group,      \* proposed_space_group of the Task: None, or its row
  intent,     \* the current Working Intent revision
  journals,   \* durable pending batches of confirmations
  git,        \* committed batches of confirmations
  lock,       \* holder of candidate-confirmation.lock
  call,       \* what each process carries: None, or its call
  calls,      \* confirm calls so far, each with fresh identities
  cuts        \* calls cut short so far

runtime == <<review, analysis, operation, group, intent>>
store   == <<journals, git>>
vars    == <<runtime, store, lock, call, calls, cuts>>

(***************************************************************************)
(* Values.                                                                 *)
(***************************************************************************)
Primary == {"existing", "proposed"}
Version == 1 .. 3

\* What a caller decides; two operations are the same iff their hashes are.
\* Related Spaces and edits only add more ways to differ, as primary does.
Operation ==
  [version : Version, generation : 1 .. MaxGeneration, primary : Primary]

\* A plan adds generated identities: its confirmation, its Context, and, for
\* a proposed primary, the new Space.
Plan == [candidate : Candidate, op : Operation, id : 1 .. MaxCalls]

BatchRecord == [id : 1 .. MaxCalls, plans : SUBSET Plan]

\* asked: the plans its caller decided; plans: those reserved so far, one per
\* Candidate; id: the identities it generates, for its plans and its batch.
Call ==
  [step : {"reserving", "writing", "written"}, intent : 1 .. MaxIntent,
   asked : SUBSET Plan, plans : SUBSET Plan, id : 1 .. MaxCalls]

\* A row of candidate_confirmation_operation, and of proposed_space_group.
OperationRow == [plan : Plan, status : {"reserved", "committed"}]

SpaceGroup ==
  [candidate : Candidate, intent : 1 .. MaxIntent, space : 1 .. MaxCalls,
   status : {"reserved", "committed"}]

ASSUME NoneAssumption == None \notin Process \cup Call \cup OperationRow \cup SpaceGroup

\* Also of a call: the members that have been reserved.
CandidatesOf(batch) == {plan.candidate : plan \in batch.plans}

Written == UNION {b.plans : b \in git}

\* The confirmation index over what is committed.
Recorded(c) == {plan \in Written : plan.candidate = c}

CommittedGroupOfSibling(c) ==
  /\ group # None
  /\ group.status = "committed"
  /\ group.candidate # c
  /\ \E plan \in Written : plan.op.primary = "proposed" /\ plan.id = group.space

Init ==
  /\ review = [c \in Candidate |-> [status |-> "pending", version |-> 1]]
  /\ analysis = [c \in Candidate |-> [generation |-> 1, complete |-> TRUE]]
  /\ operation = [c \in Candidate |-> None]
  /\ group = None
  /\ intent = 1
  /\ journals = {}
  /\ git = {}
  /\ lock = None
  /\ call = [p \in Process |-> None]
  /\ calls = 0
  /\ cuts = 0

(***************************************************************************)
(* A confirm call.                                                         *)
(***************************************************************************)
Confirmable(c) ==
  /\ review[c].status \in {"pending", "confirmed"}
  /\ analysis[c].generation > 0
  /\ analysis[c].complete

\* A proposed Space that a sibling already opened is joined, not opened again.
Resolved(c, primary) ==
  IF primary = "proposed" /\ CommittedGroupOfSibling(c) THEN "existing" ELSE primary

NewPlan(c, version, primary) ==
  [candidate |-> c,
   op |-> [version |-> version, generation |-> analysis[c].generation,
           primary |-> Resolved(c, primary)],
   id |-> calls + 1]

\* candidate_confirm and candidate_confirm_batch validate every member and
\* plan it; a batch has an existing primary Space.  The expected Review version
\* is one the caller has been shown.
Prepare(p, members, version, primary) ==
  /\ call[p] = None
  /\ calls < MaxCalls
  /\ Cardinality(members) > 1 => primary = "existing"
  /\ \A c \in members : Confirmable(c) /\ version <= review[c].version
  /\ calls' = calls + 1
  /\ call' = [call EXCEPT ![p] =
       [step |-> "reserving", intent |-> intent, plans |-> {}, id |-> calls + 1,
        asked |-> {NewPlan(c, version, primary) : c \in members}]]
  /\ UNCHANGED <<runtime, store, lock, cuts>>

\* The call returns an error and keeps nothing.
Return(p) == call' = [call EXCEPT ![p] = None]

GroupRow(plan) ==
  [candidate |-> plan.candidate, intent |-> intent, space |-> plan.id,
   status |-> "reserved"]

\* Mutant: the group is looked up by Task and never by its holder.
GroupAlwaysGranted(plan) == TRUE

\* reserve_proposed_space_group succeeds for this plan.
GroupGranted(plan) ==
  plan.op.primary = "proposed" /\ group # None =>
    [group EXCEPT !.status = "reserved"] = GroupRow(plan)

GroupAfter(plan) ==
  IF plan.op.primary = "proposed" /\ group = None THEN GroupRow(plan) ELSE group

Reservable(plan) ==
  LET c == plan.candidate IN
  /\ review[c] = [status |-> "pending", version |-> plan.op.version]
  /\ analysis[c] = [generation |-> plan.op.generation, complete |-> TRUE]

\* Mutant: an existing reservation is answered with the plan just generated.
ReservedAnew(plan) == plan

\* The plan a reservation answers with: the one already there, or this one.
Reserved(plan) ==
  IF operation[plan.candidate] = None THEN plan ELSE operation[plan.candidate].plan

ToReserve(p) ==
  {plan \in call[p].asked : plan.candidate \notin CandidatesOf(call[p])}

\* Mutant: a reservation answers any decision on its Candidate.
SameCandidate(plan) == TRUE

\* The existing reservation has this operation hash.
SameSemantics(plan) == operation[plan.candidate].plan.op = plan.op

Reserve(p, plan) ==
  /\ call[p] # None
  /\ call[p].step = "reserving"
  /\ plan \in ToReserve(p)
  /\ call[p].intent = intent
  /\ \/ operation[plan.candidate] # None /\ SameSemantics(plan)
     \/ operation[plan.candidate] = None /\ Reservable(plan)
  /\ GroupGranted(Reserved(plan))
  /\ group' = GroupAfter(Reserved(plan))
  /\ operation' =
       IF operation[plan.candidate] = None
         THEN [operation EXCEPT ![plan.candidate] = [plan |-> plan, status |-> "reserved"]]
         ELSE operation
  /\ call' = [call EXCEPT ![p].plans = @ \cup {Reserved(plan)}]
  /\ UNCHANGED <<review, analysis, intent, store, lock, calls, cuts>>

\* The reservation transaction rolls back; the members reserved before stay.
ReserveRefused(p, plan) ==
  /\ call[p] # None
  /\ call[p].step = "reserving"
  /\ plan \in ToReserve(p)
  /\ \/ call[p].intent # intent
     \/ operation[plan.candidate] # None /\ ~SameSemantics(plan)
     \/ operation[plan.candidate] = None /\ ~Reservable(plan)
     \/ ~GroupGranted(Reserved(plan))
  /\ Return(p)
  /\ UNCHANGED <<runtime, store, lock, calls, cuts>>

(***************************************************************************)
(* The Git half, under candidate-confirmation.lock: commit what is         *)
(* pending, look every Candidate up, make the unwritten ones one batch.    *)
(***************************************************************************)
\* Mutant: the index is read before what is pending has been committed.
UnwrittenStale(p) == {plan \in call[p].plans : Recorded(plan.candidate) = {}}

Unwritten(p) == {plan \in call[p].plans : Recorded(plan.candidate)' = {}}

Conflicts(p) ==
  \E plan \in call[p].plans : \E other \in Recorded(plan.candidate)' : other # plan

LockAndLookUp(p) ==
  /\ call[p] # None
  /\ call[p].step = "reserving"
  /\ ToReserve(p) = {}
  /\ lock = None
  /\ git' = git \cup journals
  /\ \/ /\ Conflicts(p)
        /\ Return(p)
        /\ journals' = {}
        /\ UNCHANGED lock
     \/ /\ ~Conflicts(p)
        /\ Unwritten(p) = {}
        /\ call' = [call EXCEPT ![p].step = "written"]
        /\ journals' = {}
        /\ UNCHANGED lock
     \/ /\ ~Conflicts(p)
        /\ Unwritten(p) # {}
        /\ journals' = {[id |-> call[p].id, plans |-> Unwritten(p)]}
        /\ call' = [call EXCEPT ![p].step = "writing"]
        /\ lock' = p
  /\ UNCHANGED <<runtime, calls, cuts>>

\* The batch is committed now, or another writer has committed it.
BatchStands(p) == \E b \in journals \cup git : b.id = call[p].id

CommitBatch(p) ==
  /\ call[p] # None
  /\ call[p].step = "writing"
  /\ lock' = None
  /\ IF BatchStands(p)
       THEN call' = [call EXCEPT ![p].step = "written"]
       ELSE Return(p)
  /\ git' = git \cup journals
  /\ journals' = {}
  /\ UNCHANGED <<runtime, calls, cuts>>

\* Any other writer of the store commits what is pending.
RecoverPending ==
  /\ journals # {}
  /\ git' = git \cup journals
  /\ journals' = {}
  /\ UNCHANGED <<runtime, lock, call, calls, cuts>>

\* An operator moves a pending batch aside: it never reaches Git.
MovePendingAside(b) ==
  /\ b \in journals
  /\ journals' = journals \ {b}
  /\ UNCHANGED <<runtime, git, lock, call, calls, cuts>>

(***************************************************************************)
(* The second Runtime transaction, all members or none.                    *)
(***************************************************************************)
\* Mutant: the Review is confirmed whatever became of it.
FinalizableWhateverStatus(plan) ==
  operation[plan.candidate] # None /\ operation[plan.candidate].plan = plan

Finalizable(plan) ==
  LET c == plan.candidate IN
  /\ operation[c] # None
  /\ operation[c].plan = plan
  /\ \/ operation[c].status = "committed"
     \/ review[c] = [status |-> "pending", version |-> plan.op.version]

Finalize(p) ==
  /\ call[p] # None
  /\ call[p].step = "written"
  /\ Return(p)
  /\ IF \A plan \in call[p].plans : Finalizable(plan)
       THEN LET Now(c) == /\ c \in CandidatesOf(call[p])
                          /\ operation[c].status = "reserved"
            IN /\ review' = [c \in Candidate |->
                    IF Now(c) THEN [status |-> "confirmed", version |-> review[c].version + 1]
                              ELSE review[c]]
               /\ operation' = [c \in Candidate |->
                    IF Now(c) THEN [operation[c] EXCEPT !.status = "committed"]
                              ELSE operation[c]]
               /\ group' = IF group # None /\ Now(group.candidate)
                             THEN [group EXCEPT !.status = "committed"] ELSE group
       ELSE UNCHANGED <<review, operation, group>>
  /\ UNCHANGED <<analysis, intent, store, lock, calls, cuts>>

\* A crash, or an error of the store, ends the call at any point: locks are
\* released, a durable journal and the reservations stay.
CutShort(p) ==
  /\ call[p] # None
  /\ cuts < MaxCuts
  /\ cuts' = cuts + 1
  /\ Return(p)
  /\ lock' = IF lock = p THEN None ELSE lock
  /\ UNCHANGED <<runtime, store, calls>>

(***************************************************************************)
(* What other calls do to the same rows meanwhile.                         *)
(***************************************************************************)
\* candidate_discard and candidate_discard_batch, one transaction.
Discard(members) ==
  /\ \A c \in members : review[c].status \in {"pending", "discarded"}
  /\ \E c \in members : review[c].status = "pending"
  /\ review' = [c \in Candidate |->
       IF c \in members /\ review[c].status = "pending"
         THEN [status |-> "discarded", version |-> review[c].version + 1]
         ELSE review[c]]
  /\ UNCHANGED <<analysis, operation, group, intent, store, lock, call, calls, cuts>>

\* The retention of these Reviews has run out and some call cleans them up;
\* every call on Reviews starts with this, in a transaction of its own.
CleanupExpired(members) ==
  /\ \A c \in members : review[c].status \in {"pending", "discarded"}
  /\ review' = [c \in Candidate |->
       IF c \in members THEN [status |-> "expired", version |-> review[c].version + 1]
                        ELSE review[c]]
  /\ analysis' = [c \in Candidate |->
       IF c \in members THEN [generation |-> 0, complete |-> FALSE] ELSE analysis[c]]
  /\ UNCHANGED <<operation, group, intent, store, lock, call, calls, cuts>>

\* candidate_analyze replaces the row whatever the state of the Review; an
\* analysis that failed is recorded as such.
Analyze(c) ==
  /\ analysis[c].generation < MaxGeneration
  /\ \E complete \in BOOLEAN :
       analysis' = [analysis EXCEPT ![c] =
         [generation |-> @.generation + 1, complete |-> complete]]
  /\ UNCHANGED <<review, operation, group, intent, store, lock, call, calls, cuts>>

AppendIntentRevision ==
  /\ intent < MaxIntent
  /\ intent' = intent + 1
  /\ UNCHANGED <<review, analysis, operation, group, store, lock, call, calls, cuts>>

Next ==
  \/ \E p \in Process :
       \/ \E members \in SUBSET Candidate \ {{}}, version \in Version,
             primary \in Primary : Prepare(p, members, version, primary)
       \/ call[p] # None /\ \E plan \in ToReserve(p) : Reserve(p, plan) \/ ReserveRefused(p, plan)
       \/ LockAndLookUp(p)
       \/ CommitBatch(p)
       \/ Finalize(p)
       \/ CutShort(p)
  \/ RecoverPending
  \/ \E b \in journals : MovePendingAside(b)
  \/ \E members \in SUBSET Candidate \ {{}} : Discard(members) \/ CleanupExpired(members)
  \/ \E c \in Candidate : Analyze(c)
  \/ AppendIntentRevision

Spec == Init /\ [][Next]_vars
(***************************************************************************)
(* Properties.                                                             *)
(***************************************************************************)
\* Every table and every call keeps its type.
TypeOK ==
  /\ review \in [Candidate -> [status : {"pending", "confirmed", "discarded", "expired"},
                               version : Version]]
  /\ analysis \in [Candidate -> [generation : 0 .. MaxGeneration, complete : BOOLEAN]]
  /\ operation \in [Candidate -> OperationRow \cup {None}]
  /\ group \in SpaceGroup \cup {None}
  /\ journals \subseteq BatchRecord
  /\ git \subseteq BatchRecord
  /\ call \in [Process -> Call \cup {None}]
  /\ intent \in 1 .. MaxIntent
  /\ lock \in Process \cup {None}
  /\ calls \in 0 .. MaxCalls
  /\ cuts \in 0 .. MaxCuts

\* However many calls are cut short, retried or run at once, Git gets at most one
\* Confirmation of a Candidate (confirm_candidate_plans looks it up only after
\* everything pending has been committed), and whatever reaches Git or is on its
\* way there is exactly the plan the Runtime reserved: a retry never writes under
\* new identities (reserve_candidate_confirmation answers with the stored plan).
GitHoldsReservedPlan ==
  /\ \A c \in Candidate : Cardinality({b \in git : c \in CandidatesOf(b)}) <= 1
  /\ \A plan \in Written \cup UNION {b.plans : b \in journals} :
       operation[plan.candidate] # None /\ operation[plan.candidate].plan = plan

\* A call carries to Git and finalizes only what its caller decided: the
\* reservation of another decision is a conflict, never an answer
\* (reserve_candidate_confirmation compares operation hashes).
DecisionIsCarried ==
  \A p \in Process : call[p] # None =>
    \A plan \in call[p].plans : \E own \in call[p].asked :
      own.candidate = plan.candidate /\ own.op = plan.op

\* Sibling Candidates never open a second Space for their Task, and a group
\* is committed only with its Space in Git (reserve_proposed_space_group).
OneSpacePerTask ==
  /\ Cardinality({plan \in Written : plan.op.primary = "proposed"}) <= 1
  /\ group # None /\ group.status = "committed" =>
       \E plan \in Written : plan.candidate = group.candidate /\ plan.id = group.space

\* A decision is never taken back: Confirmed and Expired are terminal, and a
\* Discarded Review can only expire.
DecisionsAreFinal ==
  [][\A c \in Candidate :
       review[c].status # "pending" =>
         \/ review'[c].status = review[c].status
         \/ review[c].status = "discarded" /\ review'[c].status = "expired"]_review

\* "Discarded records an explicit decision not to retain it" (CONTEXT.md):
\* what is discarded is not accepted knowledge.  The code does not ensure it.
DiscardedIsNotAccepted ==
  \A c \in Candidate : review[c].status = "discarded" => Recorded(c) = {}

\* A retry with the same semantics would pass every check of the call.
RetryWouldFinish(plan) ==
  /\ Confirmable(plan.candidate)
  /\ analysis[plan.candidate].generation = plan.op.generation
  /\ GroupGranted(plan)

\* "A Git-before-Runtime retry recovers the Confirmed Review audit"
\* (technical-design.md): with no call under way, and as long as nobody
\* decided otherwise, the retry of a Confirmation that is in Git can go
\* through.  The code does not ensure it: the operation hash binds the
\* analysis generation, which candidate_analyze advances, and a proposed group
\* binds the Intent revision.
GitBeforeRuntimeRecovers ==
  (\A p \in Process : call[p] = None) =>
  \A c \in Candidate : \A plan \in Recorded(c) :
    review[c].status = "pending" => RetryWouldFinish(plan)
=============================================================================
