--------------------- MODULE CandidateConfirmationProofs ---------------------
(***************************************************************************)
(* What confirming, retrying, discarding and expiring keep, for any number *)
(* of processes, Candidates, calls and interruptions.                      *)
(***************************************************************************)
EXTENDS CandidateConfirmation, FiniteSetTheorems, TLAPS

USE ConfirmationAssumption, NoneAssumption DEF ConfirmationAssumption, NoneAssumption

(***************************************************************************)
(* The inductive invariant.                                                *)
(***************************************************************************)
\* Batches on their way to Git and in it.
Batches == journals \cup git

\* What the first decision on a Review leaves is at most one version ahead.
VersionsFollowStatus ==
  \A c \in Candidate :
    /\ review[c].status = "pending" => review[c].version = 1
    /\ review[c].status \in {"confirmed", "discarded"} => review[c].version = 2

\* The plan a Candidate was reserved with is its own, and the only one that a
\* call carries or a batch holds.
ReservationsAreTheirs ==
  \A c \in Candidate : operation[c] # None => operation[c].plan.candidate = c
IsReserved(plan) ==
  operation[plan.candidate] # None /\ operation[plan.candidate].plan = plan
CallsCarryReserved ==
  \A p \in Process : call[p] # None => \A plan \in call[p].plans : IsReserved(plan)
BatchesHoldReserved ==
  \A b \in Batches : \A plan \in b.plans : IsReserved(plan)

\* Two batches never hold plans of one Candidate.
BatchesAreDisjoint ==
  \A a, b \in Batches : a # b => CandidatesOf(a) \cap CandidatesOf(b) = {}

\* Identities are drawn once: of calls, and of batches that a call has made.
CallsAreDistinct ==
  /\ \A p \in Process : call[p] # None => call[p].id <= calls
  /\ \A p, q \in Process :
       call[p] # None /\ call[q] # None /\ call[p].id = call[q].id => p = q
BatchesAreOfCalls ==
  \A b \in Batches :
    /\ b.id <= calls
    /\ \A p \in Process : call[p] # None /\ call[p].step = "reserving" => call[p].id # b.id

\* A call that is to finalize has all its plans in Git; one that is to commit
\* has them in its batch, if that still stands, or in Git already.
WrittenIsInGit ==
  \A p \in Process : call[p] # None /\ call[p].step = "written" => call[p].plans \subseteq Written
WritingIsInItsBatch ==
  \A p \in Process : call[p] # None /\ call[p].step = "writing" =>
    \A b \in Batches : b.id = call[p].id => call[p].plans \subseteq Written \cup b.plans

\* The group of proposed Spaces names the one reservation that proposes one.
GroupIsOfItsPlan ==
  /\ \A c \in Candidate : operation[c] # None /\ operation[c].plan.op.primary = "proposed" =>
       group # None /\ group.candidate = c
  /\ group # None =>
       /\ operation[group.candidate] # None
       /\ operation[group.candidate].plan.id = group.space
CommittedGroupIsInGit ==
  group # None /\ group.status = "committed" =>
    operation[group.candidate].plan \in Written

StoreInv ==
  /\ CallsCarryReserved /\ BatchesHoldReserved /\ BatchesAreDisjoint
  /\ CallsAreDistinct /\ BatchesAreOfCalls
  /\ WrittenIsInGit /\ WritingIsInItsBatch

GroupInv == GroupIsOfItsPlan /\ CommittedGroupIsInGit

CInv ==
  /\ TypeOK /\ VersionsFollowStatus /\ ReservationsAreTheirs
  /\ StoreInv /\ GroupInv /\ DecisionIsCarried

RuntimeInv == TypeOK /\ VersionsFollowStatus /\ ReservationsAreTheirs

(***************************************************************************)
(* Types and the rows of the Runtime.                                      *)
(***************************************************************************)
LEMMA NewPlanType ==
  ASSUME TypeOK, calls < MaxCalls, NEW c \in Candidate, Confirmable(c),
         NEW version \in Version, NEW primary \in Primary
  PROVE  NewPlan(c, version, primary) \in Plan
<1>1. Resolved(c, primary) \in Primary
  BY DEF Resolved, Primary
<1>2. analysis[c].generation \in 1 .. MaxGeneration /\ calls + 1 \in 1 .. MaxCalls
  BY DEF TypeOK, Confirmable
<1> QED
  BY <1>1, <1>2 DEF NewPlan, Plan, Operation

LEMMA RuntimeInit == Init => RuntimeInv
  BY DEF Init, RuntimeInv, TypeOK, VersionsFollowStatus, ReservationsAreTheirs, Version

\* A call that ends, or moves on, stays a call.
LEMMA CallMoves ==
  ASSUME TypeOK, NEW p \in Process,
         \/ Return(p)
         \/ call[p] # None /\ \E step \in {"reserving", "writing", "written"} :
              call' = [call EXCEPT ![p].step = step]
         \/ call[p] # None /\ \E plan \in Plan : call' = [call EXCEPT ![p].plans = @ \cup {plan}]
         \/ \E new \in Call : call' = [call EXCEPT ![p] = new]
  PROVE  call' \in [Process -> Call \cup {None}]
<1>1. call[p] # None => call[p] \in Call
  BY DEF TypeOK
<1>2. CASE Return(p)
  BY <1>2 DEF Return, TypeOK
<1>3. ASSUME call[p] # None, NEW step \in {"reserving", "writing", "written"},
             call' = [call EXCEPT ![p].step = step]
      PROVE  call' \in [Process -> Call \cup {None}]
  <2>1. [call[p] EXCEPT !.step = step] \in Call
    BY <1>1, <1>3 DEF Call
  <2> QED
    BY <1>3, <2>1 DEF TypeOK
<1>4. ASSUME call[p] # None, NEW plan \in Plan,
             call' = [call EXCEPT ![p].plans = @ \cup {plan}]
      PROVE  call' \in [Process -> Call \cup {None}]
  <2>1. [call[p] EXCEPT !.plans = @ \cup {plan}] \in Call
    BY <1>1, <1>4 DEF Call
  <2> QED
    BY <1>4, <2>1 DEF TypeOK
<1>5. ASSUME NEW new \in Call, call' = [call EXCEPT ![p] = new]
      PROVE  call' \in [Process -> Call \cup {None}]
  BY <1>5 DEF TypeOK
<1> QED
  BY <1>2, <1>3, <1>4, <1>5

LEMMA RuntimeStep == RuntimeInv /\ [Next]_vars => RuntimeInv'
<1> SUFFICES ASSUME RuntimeInv, [Next]_vars PROVE RuntimeInv'
  OBVIOUS
<1> USE DEF RuntimeInv, TypeOK, VersionsFollowStatus, ReservationsAreTheirs, runtime, store
<1>1. ASSUME NEW p \in Process, NEW members \in SUBSET Candidate \ {{}}, NEW version \in Version,
             NEW primary \in Primary, Prepare(p, members, version, primary)
      PROVE  RuntimeInv'
  <2> DEFINE new == [step |-> "reserving", intent |-> intent, plans |-> {}, id |-> calls + 1,
                     asked |-> {NewPlan(c, version, primary) : c \in members}]
  <2>1. \A c \in members : NewPlan(c, version, primary) \in Plan
    BY <1>1, NewPlanType DEF Prepare
  <2>2. new \in Call
    BY <1>1, <2>1 DEF Prepare, Call
  <2>3. call' \in [Process -> Call \cup {None}]
    BY <1>1, <2>2, CallMoves DEF Prepare
  <2> QED
    BY <1>1, <2>3 DEF Prepare
<1>2. ASSUME NEW p \in Process, NEW plan \in ToReserve(p), Reserve(p, plan)
      PROVE  RuntimeInv'
  <2>1. plan \in Plan /\ plan.candidate \in Candidate
    BY <1>2 DEF Reserve, ToReserve, Call, Plan
  <2>2. Reserved(plan) \in Plan
    BY <2>1 DEF Reserved, OperationRow
  <2>3. call' \in [Process -> Call \cup {None}]
    BY <1>2, <2>2, CallMoves DEF Reserve
  <2>4. [plan |-> plan, status |-> "reserved"] \in OperationRow
    BY <2>1 DEF OperationRow
  <2>5. operation' \in [Candidate -> OperationRow \cup {None}] /\ ReservationsAreTheirs'
    BY <1>2, <2>1, <2>4 DEF Reserve
  <2>6. group' \in SpaceGroup \cup {None}
    BY <1>2, <2>2 DEF Reserve, GroupAfter, GroupRow, SpaceGroup, Plan
  <2> QED
    BY <1>2, <2>3, <2>5, <2>6 DEF Reserve
<1>3. ASSUME NEW p \in Process, NEW plan, ReserveRefused(p, plan) PROVE RuntimeInv'
  BY <1>3, CallMoves DEF ReserveRefused
<1>4. ASSUME NEW p \in Process, LockAndLookUp(p) PROVE RuntimeInv'
  <2>1. call[p] \in Call
    BY <1>4 DEF LockAndLookUp
  <2>2. [id |-> call[p].id, plans |-> Unwritten(p)] \in BatchRecord
    BY <2>1 DEF Call, BatchRecord, Unwritten
  <2>3. call' \in [Process -> Call \cup {None}]
    BY <1>4, CallMoves DEF LockAndLookUp
  <2> QED
    BY <1>4, <2>2, <2>3 DEF LockAndLookUp
<1>5. ASSUME NEW p \in Process, CommitBatch(p) PROVE RuntimeInv'
  <2>1. call' \in [Process -> Call \cup {None}]
    BY <1>5, CallMoves DEF CommitBatch
  <2> QED
    BY <1>5, <2>1 DEF CommitBatch
<1>6. CASE RecoverPending
  BY <1>6 DEF RecoverPending
<1>7. ASSUME NEW b \in journals, MovePendingAside(b) PROVE RuntimeInv'
  BY <1>7 DEF MovePendingAside
<1>8. ASSUME NEW p \in Process, Finalize(p) PROVE RuntimeInv'
  <2> DEFINE Now(c) == c \in CandidatesOf(call[p]) /\ operation[c].status = "reserved"
  <2>1. call' \in [Process -> Call \cup {None}]
    BY <1>8, CallMoves DEF Finalize
  <2>2. CASE \A plan \in call[p].plans : Finalizable(plan)
    <3>1. ASSUME NEW c \in Candidate, Now(c)
          PROVE  /\ operation[c] \in OperationRow /\ operation[c] # None
                 /\ review[c] = [status |-> "pending", version |-> 1]
      <4>1. PICK plan \in call[p].plans : plan.candidate = c
        BY <3>1 DEF CandidatesOf
      <4>2. operation[c] # None /\ review[c] = [status |-> "pending", version |-> plan.op.version]
        BY <2>2, <3>1, <4>1 DEF Finalizable
      <4> QED
        BY <4>2
    <3>2. /\ review' = [c \in Candidate |->
               IF Now(c) THEN [status |-> "confirmed", version |-> review[c].version + 1]
                         ELSE review[c]]
          /\ operation' = [c \in Candidate |->
               IF Now(c) THEN [operation[c] EXCEPT !.status = "committed"] ELSE operation[c]]
          /\ group' = IF group # None /\ Now(group.candidate)
                        THEN [group EXCEPT !.status = "committed"] ELSE group
      BY <1>8, <2>2 DEF Finalize
    <3>3. review' \in [Candidate -> [status : {"pending", "confirmed", "discarded", "expired"},
                                     version : Version]]
      BY <3>1, <3>2 DEF Version
    <3>4. VersionsFollowStatus'
      <4>1. review \in [Candidate -> [status : {"pending", "confirmed", "discarded", "expired"},
                                      version : Version]]
        OBVIOUS
      <4>2. ASSUME NEW c \in Candidate, Now(c)
            PROVE  review'[c] = [status |-> "confirmed", version |-> 2]
        <5>1. review[c].version = 1
          BY <3>1, <4>2
        <5> QED
          BY <3>2, <4>2, <5>1
      <4>3. \A c \in Candidate : ~Now(c) => review'[c] = review[c]
        BY <3>2
      <4> HIDE DEF Now
      <4> QED
        BY <4>2, <4>3
    <3>5. operation' \in [Candidate -> OperationRow \cup {None}] /\ ReservationsAreTheirs'
      <4>1. ASSUME NEW row \in OperationRow
            PROVE  /\ [row EXCEPT !.status = "committed"] \in OperationRow
                   /\ [row EXCEPT !.status = "committed"].plan = row.plan
        BY DEF OperationRow
      <4>2. ASSUME NEW c \in Candidate, Now(c)
            PROVE  /\ operation[c] \in OperationRow /\ operation[c] # None
                   /\ operation'[c] = [operation[c] EXCEPT !.status = "committed"]
        BY <3>1, <3>2, <4>2
      <4>3. \A c \in Candidate : ~Now(c) => operation'[c] = operation[c]
        BY <3>2
      <4>4. ASSUME NEW c \in Candidate
            PROVE  /\ operation'[c] \in OperationRow \cup {None}
                   /\ operation'[c] # None => operation[c] # None /\ operation'[c].plan = operation[c].plan
        <5>t. operation[c] \in OperationRow \cup {None}
          OBVIOUS
        <5> HIDE DEF Now
        <5>1. CASE Now(c)
          <6> DEFINE row == operation[c]
          <6>1. row \in OperationRow /\ row # None /\ operation'[c] = [row EXCEPT !.status = "committed"]
            BY <4>2, <5>1
          <6> HIDE DEF row
          <6>2. operation'[c] \in OperationRow /\ operation'[c].plan = row.plan
            BY <4>1, <6>1
          <6> QED
            BY <6>1, <6>2 DEF row
        <5>2. CASE ~Now(c)
          BY <4>3, <5>2, <5>t
        <5> QED
          BY <5>1, <5>2
      <4>5. operation' = [c \in Candidate |-> operation'[c]]
        BY <3>2
      <4> HIDE DEF Now
      <4> QED
        BY <4>4, <4>5
    <3>6. group' \in SpaceGroup \cup {None}
      BY <3>2 DEF SpaceGroup
    <3> QED
      BY <1>8, <2>1, <3>3, <3>4, <3>5, <3>6 DEF Finalize
  <2>3. CASE ~(\A plan \in call[p].plans : Finalizable(plan))
    BY <1>8, <2>1, <2>3 DEF Finalize
  <2> QED
    BY <2>2, <2>3
<1>9. ASSUME NEW p \in Process, CutShort(p) PROVE RuntimeInv'
  <2>1. call' \in [Process -> Call \cup {None}]
    BY <1>9, CallMoves DEF CutShort
  <2> QED
    BY <1>9, <2>1 DEF CutShort
<1>10. ASSUME NEW members \in SUBSET Candidate, Discard(members) PROVE RuntimeInv'
  BY <1>10 DEF Discard, Version
<1>11. ASSUME NEW members \in SUBSET Candidate, CleanupExpired(members) PROVE RuntimeInv'
  BY <1>11 DEF CleanupExpired, Version
<1>12. ASSUME NEW c \in Candidate, Analyze(c) PROVE RuntimeInv'
  BY <1>12 DEF Analyze
<1>13. CASE AppendIntentRevision
  BY <1>13 DEF AppendIntentRevision
<1>14. CASE UNCHANGED vars
  BY <1>14 DEF vars
<1> QED
  BY <1>1, <1>2, <1>3, <1>4, <1>5, <1>6, <1>7, <1>8, <1>9, <1>10, <1>11, <1>12, <1>13, <1>14
     DEF Next

(***************************************************************************)
(* The calls, the batches and Git.                                         *)
(***************************************************************************)
\* A reservation is never given up or changed.
LEMMA ReservationKept ==
  ASSUME RuntimeInv, [Next]_vars, NEW c \in Candidate, operation[c] # None
  PROVE  operation'[c] # None /\ operation'[c].plan = operation[c].plan
<1> USE DEF RuntimeInv, TypeOK, runtime
<1>0. operation[c] \in OperationRow
  OBVIOUS
<1>1. ASSUME NEW p \in Process, NEW plan \in ToReserve(p), Reserve(p, plan)
      PROVE  operation'[c] # None /\ operation'[c].plan = operation[c].plan
  BY <1>1 DEF Reserve
<1>2. ASSUME NEW p \in Process, Finalize(p)
      PROVE  operation'[c] # None /\ operation'[c].plan = operation[c].plan
  <2>1. [operation[c] EXCEPT !.status = "committed"] \in OperationRow
    BY <1>0 DEF OperationRow
  <2>2. operation'[c] \in {operation[c], [operation[c] EXCEPT !.status = "committed"]}
    BY <1>2 DEF Finalize
  <2> QED
    BY <1>0, <2>1, <2>2 DEF OperationRow
<1>3. CASE UNCHANGED operation
  BY <1>3
<1> QED
  BY <1>1, <1>2, <1>3
     DEF Next, vars, Prepare, ReserveRefused, LockAndLookUp, CommitBatch, RecoverPending,
         MovePendingAside, CutShort, Discard, CleanupExpired, Analyze, AppendIntentRevision

\* What a batch may hold next.
LEMMA BatchesStep ==
  ASSUME RuntimeInv, [Next]_vars
  PROVE  \/ Batches' \subseteq Batches
         \/ \E p \in Process :
              /\ LockAndLookUp(p) /\ ~Conflicts(p) /\ Unwritten(p) # {}
              /\ Batches' = Batches \cup {[id |-> call[p].id, plans |-> Unwritten(p)]}
<1>1. ASSUME NEW p \in Process, LockAndLookUp(p), Batches' \subseteq Batches
      PROVE  Batches' \subseteq Batches
  BY <1>1
<1>2. ASSUME NEW p \in Process, LockAndLookUp(p), ~(Batches' \subseteq Batches)
      PROVE  /\ ~Conflicts(p) /\ Unwritten(p) # {}
             /\ Batches' = Batches \cup {[id |-> call[p].id, plans |-> Unwritten(p)]}
  BY <1>2 DEF LockAndLookUp, Batches
<1>3. CASE UNCHANGED store
  BY <1>3 DEF store, Batches
<1>4. ASSUME NEW p \in Process, CommitBatch(p) PROVE Batches' \subseteq Batches
  BY <1>4 DEF CommitBatch, Batches
<1>5. CASE RecoverPending
  BY <1>5 DEF RecoverPending, Batches
<1>6. ASSUME NEW b \in journals, MovePendingAside(b) PROVE Batches' \subseteq Batches
  BY <1>6 DEF MovePendingAside, Batches
<1> QED
  BY <1>1, <1>2, <1>3, <1>4, <1>5, <1>6
     DEF Next, vars, store, Prepare, Reserve, ReserveRefused, Finalize, CutShort, Discard,
         CleanupExpired, Analyze, AppendIntentRevision

\* Git only grows.
LEMMA GitGrows ==
  ASSUME [Next]_vars PROVE git \subseteq git' /\ Written \subseteq Written'
<1>1. git \subseteq git'
  BY DEF Next, vars, store, Prepare, Reserve, ReserveRefused, LockAndLookUp, CommitBatch,
     RecoverPending, MovePendingAside, Finalize, CutShort, Discard, CleanupExpired, Analyze,
     AppendIntentRevision
<1> QED
  BY <1>1 DEF Written

\* What a call has looked up: its plans without a record are in no batch, the
\* others are recorded as they are.
LEMMA LookedUp ==
  ASSUME RuntimeInv, NEW p \in Process, LockAndLookUp(p), ~Conflicts(p)
  PROVE  /\ Unwritten(p) \subseteq call[p].plans
         /\ call[p].plans \ Unwritten(p) \subseteq Written'
         /\ \A plan \in Unwritten(p) : \A b \in Batches : plan.candidate \notin CandidatesOf(b)
<1>1. git' = journals \cup git
  BY DEF LockAndLookUp
<1>2. ASSUME NEW plan \in call[p].plans \ Unwritten(p) PROVE plan \in Written'
  BY DEF Unwritten, Conflicts, Recorded
<1>3. ASSUME NEW plan \in Unwritten(p), NEW b \in Batches, plan.candidate \in CandidatesOf(b)
      PROVE  FALSE
  BY <1>1, <1>3 DEF Unwritten, Recorded, CandidatesOf, Batches, Written
<1> QED
  BY <1>2, <1>3 DEF Unwritten

\* How a call that is under way after a step came to be what it is.
LEMMA CallsStep ==
  ASSUME RuntimeInv, [Next]_vars, NEW q \in Process, call'[q] # None
  PROVE  \/ call'[q] = call[q]
         \/ \E members \in SUBSET Candidate \ {{}}, version \in Version, primary \in Primary :
              Prepare(q, members, version, primary)
         \/ call[q] # None /\ \E plan \in ToReserve(q) : Reserve(q, plan)
         \/ LockAndLookUp(q) /\ ~Conflicts(q)
         \/ CommitBatch(q) /\ BatchStands(q)
<1>0. call \in [Process -> Call \cup {None}]
  BY DEF RuntimeInv, TypeOK
<1>1. ASSUME NEW p \in Process, NEW members \in SUBSET Candidate \ {{}}, NEW version \in Version,
             NEW primary \in Primary, Prepare(p, members, version, primary), p # q
      PROVE  call'[q] = call[q]
  BY <1>0, <1>1 DEF Prepare
<1>2. ASSUME NEW p \in Process, NEW plan \in ToReserve(p), Reserve(p, plan), p # q
      PROVE  call'[q] = call[q]
  BY <1>0, <1>2 DEF Reserve
<1>3. ASSUME NEW p \in Process, NEW plan \in ToReserve(p), ReserveRefused(p, plan)
      PROVE  call'[q] = call[q]
  BY <1>0, <1>3 DEF ReserveRefused, Return
<1>4. ASSUME NEW p \in Process, LockAndLookUp(p), p # q \/ Conflicts(p)
      PROVE  call'[q] = call[q]
  BY <1>0, <1>4 DEF LockAndLookUp, Return
<1>5. ASSUME NEW p \in Process, CommitBatch(p), p # q \/ ~BatchStands(p)
      PROVE  call'[q] = call[q]
  BY <1>0, <1>5 DEF CommitBatch, Return
<1>6. ASSUME NEW p \in Process, Finalize(p) \/ CutShort(p) PROVE call'[q] = call[q]
  BY <1>0, <1>6 DEF Finalize, CutShort, Return
<1>7. CASE UNCHANGED call
  BY <1>7
<1> QED
  BY <1>1, <1>2, <1>3, <1>4, <1>5, <1>6, <1>7
     DEF Next, vars, RecoverPending, MovePendingAside, Discard, CleanupExpired, Analyze,
         AppendIntentRevision

LEMMA CallsGrow ==
  ASSUME RuntimeInv, [Next]_vars PROVE calls \in Nat /\ (calls' = calls \/ calls' = calls + 1)
<1>1. calls \in Nat
  BY DEF RuntimeInv, TypeOK
<1>2. ASSUME NEW p \in Process, \/ LockAndLookUp(p) \/ CommitBatch(p) \/ Finalize(p) \/ CutShort(p)
                                  \/ \E plan : Reserve(p, plan) \/ ReserveRefused(p, plan)
      PROVE  calls' = calls
  BY <1>2 DEF Reserve, ReserveRefused, LockAndLookUp, CommitBatch, Finalize, CutShort
<1>3. CASE RecoverPending \/ AppendIntentRevision \/ \E b \in journals : MovePendingAside(b)
  BY <1>1, <1>3 DEF RecoverPending, AppendIntentRevision, MovePendingAside
<1>4. ASSUME NEW members, Discard(members) \/ CleanupExpired(members) PROVE calls' = calls
  BY <1>4 DEF Discard, CleanupExpired
<1>5. ASSUME NEW c \in Candidate, Analyze(c) PROVE calls' = calls
  BY <1>5 DEF Analyze
<1>6. CASE UNCHANGED vars
  BY <1>1, <1>6 DEF vars
<1>7. ASSUME NEW p \in Process, NEW members, NEW version, NEW primary, Prepare(p, members, version, primary)
      PROVE  calls' = calls + 1
  BY <1>7 DEF Prepare
<1> QED
  BY <1>1, <1>2, <1>3, <1>4, <1>5, <1>6, <1>7 DEF Next

\* The plans and the identity of a call that only moves on are the same.
LEMMA CallMovesOn ==
  ASSUME RuntimeInv, NEW q \in Process,
         \/ LockAndLookUp(q) /\ ~Conflicts(q)
         \/ CommitBatch(q) /\ BatchStands(q)
  PROVE  /\ call[q] # None
         /\ call'[q].plans = call[q].plans /\ call'[q].id = call[q].id
         /\ call'[q].asked = call[q].asked
<1>1. call[q] \in Call /\ call' \in {[call EXCEPT ![q].step = "writing"], [call EXCEPT ![q].step = "written"]}
  BY DEF LockAndLookUp, CommitBatch, RuntimeInv, TypeOK
<1> QED
  BY <1>1 DEF RuntimeInv, TypeOK, LockAndLookUp, CommitBatch, Call

LEMMA CarriedStep ==
  ASSUME RuntimeInv, CallsCarryReserved, [Next]_vars
  PROVE  CallsCarryReserved'
<1> SUFFICES ASSUME NEW q \in Process, call'[q] # None, NEW plan \in call'[q].plans
             PROVE  IsReserved(plan)'
  BY DEF CallsCarryReserved
<1>1. CASE call[q] # None /\ plan \in call[q].plans
  <2>1. IsReserved(plan) /\ plan.candidate \in Candidate
    BY <1>1 DEF CallsCarryReserved, RuntimeInv, TypeOK, Call, Plan
  <2> QED
    BY <2>1, ReservationKept DEF IsReserved
<1>2. ASSUME NEW asked \in ToReserve(q), Reserve(q, asked), call[q] # None, plan \notin call[q].plans
      PROVE  IsReserved(plan)'
  <2>1. plan = Reserved(asked)
    BY <1>2 DEF Reserve, RuntimeInv, TypeOK, Call
  <2>2. asked.candidate \in Candidate
    BY <1>2 DEF ToReserve, RuntimeInv, TypeOK, Call, Plan
  <2>3. CASE operation[asked.candidate] = None
    <3>1. operation'[asked.candidate] = [plan |-> plan, status |-> "reserved"] /\ plan = asked
      BY <1>2, <2>1, <2>2, <2>3 DEF Reserve, Reserved, RuntimeInv, TypeOK
    <3>2. operation'[asked.candidate] # None
      <4>1. asked \in Plan
        BY <1>2 DEF ToReserve, RuntimeInv, TypeOK, Call
      <4> QED
        BY <3>1, <4>1 DEF OperationRow
    <3> QED
      BY <3>1, <3>2 DEF IsReserved
  <2>4. CASE operation[asked.candidate] # None
    <3>1. plan = operation[asked.candidate].plan /\ plan.candidate = asked.candidate
      BY <2>1, <2>2, <2>4 DEF Reserved, RuntimeInv, ReservationsAreTheirs
    <3> QED
      BY <2>2, <2>4, <3>1, ReservationKept DEF IsReserved
  <2> QED
    BY <2>3, <2>4
<1>3. ASSUME NEW members \in SUBSET Candidate \ {{}}, NEW version \in Version,
             NEW primary \in Primary, Prepare(q, members, version, primary)
      PROVE  FALSE
  BY <1>3 DEF Prepare, RuntimeInv, TypeOK
<1> QED
  BY <1>1, <1>2, <1>3, CallsStep, CallMovesOn

LEMMA HeldStep ==
  ASSUME RuntimeInv, CallsCarryReserved, BatchesHoldReserved, [Next]_vars
  PROVE  BatchesHoldReserved'
<1> SUFFICES ASSUME NEW b \in Batches', NEW plan \in b.plans PROVE IsReserved(plan)'
  BY DEF BatchesHoldReserved
<1>1. IsReserved(plan) /\ plan.candidate \in Candidate
  <2>1. CASE b \in Batches
    BY <2>1 DEF BatchesHoldReserved, RuntimeInv, TypeOK, Batches, BatchRecord, Plan
  <2>2. CASE b \notin Batches
    <3>1. PICK p \in Process : LockAndLookUp(p) /\ ~Conflicts(p) /\ b.plans = Unwritten(p)
      BY <2>2, BatchesStep
    <3>2. plan \in call[p].plans
      BY <3>1, LookedUp
    <3> QED
      BY <3>1, <3>2 DEF LockAndLookUp, CallsCarryReserved, RuntimeInv, TypeOK, Call, Plan
  <2> QED
    BY <2>1, <2>2
<1> QED
  BY <1>1, ReservationKept DEF IsReserved

LEMMA DisjointStep ==
  ASSUME RuntimeInv, BatchesAreDisjoint, [Next]_vars
  PROVE  BatchesAreDisjoint'
<1>1. CASE Batches' \subseteq Batches
  BY <1>1 DEF BatchesAreDisjoint, CandidatesOf
<1>2. ASSUME NEW p \in Process, LockAndLookUp(p), ~Conflicts(p),
             Batches' = Batches \cup {[id |-> call[p].id, plans |-> Unwritten(p)]}
      PROVE  BatchesAreDisjoint'
  <2> DEFINE new == [id |-> call[p].id, plans |-> Unwritten(p)]
  <2>1. ASSUME NEW b \in Batches PROVE CandidatesOf(new) \cap CandidatesOf(b) = {}
    BY <1>2, LookedUp DEF CandidatesOf
  <2> QED
    BY <1>2, <2>1 DEF BatchesAreDisjoint, CandidatesOf
<1> QED
  BY <1>1, <1>2, BatchesStep

LEMMA IdentitiesStep ==
  ASSUME RuntimeInv, CallsAreDistinct, BatchesAreOfCalls, [Next]_vars
  PROVE  CallsAreDistinct' /\ BatchesAreOfCalls'
<1>0. /\ \A p \in Process : call[p] # None => call[p].id \in Nat
      /\ \A b \in Batches : b.id \in Nat
      /\ calls \in Nat /\ (calls' = calls \/ calls' = calls + 1)
  BY CallsGrow DEF RuntimeInv, TypeOK, Call, BatchRecord, Batches
\* A call keeps its identity, or is new and has the next one.
<1>1. ASSUME NEW p \in Process, call'[p] # None
      PROVE  \/ call[p] # None /\ call'[p].id = call[p].id
             \/ calls' = calls + 1 /\ call'[p].id = calls + 1
                /\ \A q \in Process \ {p} : call'[q] = call[q]
  <2>1. ASSUME NEW members \in SUBSET Candidate \ {{}}, NEW version \in Version,
               NEW primary \in Primary, Prepare(p, members, version, primary)
        PROVE  /\ calls' = calls + 1 /\ call'[p].id = calls + 1
               /\ \A q \in Process \ {p} : call'[q] = call[q]
    BY <2>1 DEF Prepare, RuntimeInv, TypeOK
  <2>2. ASSUME NEW plan \in ToReserve(p), Reserve(p, plan)
        PROVE  call[p] # None /\ call'[p].id = call[p].id
    BY <2>2 DEF Reserve, RuntimeInv, TypeOK, Call
  <2> QED
    BY <1>1, <2>1, <2>2, CallsStep, CallMovesOn
<1>2. CallsAreDistinct'
  <2>1. ASSUME NEW p \in Process, call'[p] # None PROVE call'[p].id <= calls'
    BY <1>0, <1>1, <2>1 DEF CallsAreDistinct
  <2>2. ASSUME NEW p \in Process, NEW q \in Process, call'[p] # None, call'[q] # None,
               call'[p].id = call'[q].id
        PROVE  p = q
    BY <1>0, <1>1, <2>2 DEF CallsAreDistinct
  <2> QED
    BY <2>1, <2>2 DEF CallsAreDistinct
\* A batch that is there already is of no call that is new; a new one is of a
\* call that is no longer reserving.
<1>3. BatchesAreOfCalls'
  <2>1. ASSUME NEW b \in Batches' PROVE b.id \in Nat /\ b.id <= calls'
    <3>1. CASE b \in Batches
      BY <1>0, <3>1 DEF BatchesAreOfCalls
    <3>2. CASE b \notin Batches
      <4>1. PICK p \in Process : LockAndLookUp(p) /\ b.id = call[p].id
        BY <3>2, BatchesStep
      <4> QED
        BY <1>0, <4>1 DEF LockAndLookUp, CallsAreDistinct
    <3> QED
      BY <3>1, <3>2
  <2>2. ASSUME NEW b \in Batches', NEW p \in Process, call'[p] # None, call'[p].step = "reserving",
               call'[p].id = b.id
        PROVE  FALSE
    <3>1. CASE b \in Batches
      <4>1. b.id <= calls
        BY <3>1 DEF BatchesAreOfCalls
      <4>2. call[p] # None /\ call'[p].id = call[p].id /\ call[p].step # "reserving"
        BY <1>0, <1>1, <2>2, <3>1, <4>1 DEF BatchesAreOfCalls
      <4>3. call'[p] # call[p]
        BY <2>2, <4>2
      <4>4. ~(\E plan \in ToReserve(p) : Reserve(p, plan)) /\ ~LockAndLookUp(p)
        BY <4>2 DEF Reserve, LockAndLookUp
      <4>5. ~CommitBatch(p) \/ ~BatchStands(p)
        BY <2>2, <4>2 DEF CommitBatch, RuntimeInv, TypeOK, Call
      <4> QED
        BY <2>2, <4>2, <4>3, <4>4, <4>5, CallsStep DEF Prepare
    <3>2. CASE b \notin Batches
      <4>1. PICK q \in Process : /\ LockAndLookUp(q) /\ ~Conflicts(q) /\ Unwritten(q) # {}
                                 /\ b.id = call[q].id
        BY <3>2, BatchesStep
      <4>2. call' = [call EXCEPT ![q].step = "writing"] /\ call[q] \in Call
        BY <4>1 DEF LockAndLookUp, RuntimeInv, TypeOK
      <4>3. call[p] # None /\ call[p].id = call[q].id
        BY <2>2, <4>1, <4>2 DEF RuntimeInv, TypeOK, Call
      <4>4. p = q
        BY <4>2, <4>3 DEF CallsAreDistinct, LockAndLookUp
      <4> QED
        BY <2>2, <4>2, <4>4 DEF RuntimeInv, TypeOK, Call
    <3> QED
      BY <3>1, <3>2
  <2> QED
    BY <2>1, <2>2 DEF BatchesAreOfCalls
<1> QED
  BY <1>2, <1>3

LEMMA WritingStep ==
  ASSUME RuntimeInv, CallsAreDistinct, BatchesAreOfCalls, WritingIsInItsBatch, [Next]_vars
  PROVE  WritingIsInItsBatch'
<1> SUFFICES ASSUME NEW q \in Process, call'[q] # None, call'[q].step = "writing",
                    NEW b \in Batches', b.id = call'[q].id
             PROVE  call'[q].plans \subseteq Written' \cup b.plans
  BY DEF WritingIsInItsBatch
\* The call that has just made its batch, the only one with its identity.
<1>1. ASSUME LockAndLookUp(q), ~Conflicts(q)
      PROVE  call'[q].plans \subseteq Written' \cup b.plans
  <2>1. call'[q].plans = call[q].plans /\ call'[q].id = call[q].id
    BY <1>1, CallMovesOn
  <2>2. b \notin Batches
    BY <1>1, <2>1 DEF LockAndLookUp, BatchesAreOfCalls
  <2>3. PICK p \in Process : LockAndLookUp(p) /\ b = [id |-> call[p].id, plans |-> Unwritten(p)]
    BY <2>2, BatchesStep
  <2>4. p = q
    BY <1>1, <2>1, <2>3 DEF CallsAreDistinct, LockAndLookUp
  <2> QED
    BY <1>1, <2>1, <2>3, <2>4, LookedUp
\* A call that has been writing: a batch that is new is of another call.
<1>2. CASE call'[q] = call[q]
  <2>1. CASE b \in Batches
    BY <1>2, <2>1, GitGrows DEF WritingIsInItsBatch
  <2>2. CASE b \notin Batches
    <3>1. PICK p \in Process : /\ LockAndLookUp(p) /\ ~Conflicts(p) /\ Unwritten(p) # {}
                              /\ b.id = call[p].id
      BY <2>2, BatchesStep
    <3>2. p = q
      BY <1>2, <3>1 DEF CallsAreDistinct, LockAndLookUp
    <3> QED
      BY <1>1, <3>1, <3>2
  <2> QED
    BY <2>1, <2>2
<1>3. ASSUME CommitBatch(q), BatchStands(q) PROVE FALSE
  BY <1>3 DEF CommitBatch, RuntimeInv, TypeOK, Call
<1>4. ASSUME NEW plan \in ToReserve(q), Reserve(q, plan) PROVE FALSE
  BY <1>4 DEF Reserve, RuntimeInv, TypeOK, Call
<1>5. ASSUME NEW members \in SUBSET Candidate \ {{}}, NEW version \in Version,
             NEW primary \in Primary, Prepare(q, members, version, primary)
      PROVE  FALSE
  BY <1>5 DEF Prepare, RuntimeInv, TypeOK
<1> QED
  BY <1>1, <1>2, <1>3, <1>4, <1>5, CallsStep

LEMMA WrittenStep ==
  ASSUME RuntimeInv, WritingIsInItsBatch, WrittenIsInGit, [Next]_vars
  PROVE  WrittenIsInGit'
<1> SUFFICES ASSUME NEW q \in Process, call'[q] # None, call'[q].step = "written"
             PROVE  call'[q].plans \subseteq Written'
  BY DEF WrittenIsInGit
<1>1. CASE call'[q] = call[q]
  BY <1>1, GitGrows DEF WrittenIsInGit
<1>2. ASSUME LockAndLookUp(q), ~Conflicts(q) PROVE call'[q].plans \subseteq Written'
  <2>1. Unwritten(q) = {}
    BY <1>2 DEF LockAndLookUp, RuntimeInv, TypeOK, Call
  <2> QED
    BY <1>2, <2>1, LookedUp, CallMovesOn
<1>3. ASSUME CommitBatch(q), BatchStands(q) PROVE call'[q].plans \subseteq Written'
  <2>1. PICK b \in Batches : b.id = call[q].id
    BY <1>3 DEF BatchStands, Batches
  <2>2. b \in git' /\ b.plans \subseteq Written'
    BY <1>3 DEF CommitBatch, Batches, Written
  <2>3. call[q].plans \subseteq Written \cup b.plans
    BY <1>3, <2>1 DEF CommitBatch, WritingIsInItsBatch
  <2> QED
    BY <1>3, <2>2, <2>3, GitGrows, CallMovesOn
<1>4. ASSUME NEW plan \in ToReserve(q), Reserve(q, plan) PROVE FALSE
  BY <1>4 DEF Reserve, RuntimeInv, TypeOK, Call
<1>5. ASSUME NEW members \in SUBSET Candidate \ {{}}, NEW version \in Version,
             NEW primary \in Primary, Prepare(q, members, version, primary)
      PROVE  FALSE
  BY <1>5 DEF Prepare, RuntimeInv, TypeOK
<1> QED
  BY <1>1, <1>2, <1>3, <1>4, <1>5, CallsStep

(***************************************************************************)
(* The group of proposed Spaces, and what a call carries.                  *)
(***************************************************************************)
LEMMA GroupStep ==
  ASSUME RuntimeInv, CallsCarryReserved, WrittenIsInGit, GroupInv, [Next]_vars
  PROVE  GroupInv'
<1> USE DEF RuntimeInv, TypeOK, GroupInv, GroupIsOfItsPlan, CommittedGroupIsInGit
<1>1. ASSUME NEW p \in Process, NEW plan \in ToReserve(p), Reserve(p, plan) PROVE GroupInv'
  <2> DEFINE c == plan.candidate
  <2>1. plan \in Plan /\ c \in Candidate
    BY <1>1 DEF Reserve, ToReserve, Call, Plan
  <2>2. Reserved(plan).candidate = c /\ Reserved(plan) \in Plan
    BY <2>1 DEF Reserved, ReservationsAreTheirs, OperationRow
  <2>3. [plan |-> plan, status |-> "reserved"] \in OperationRow
    BY <2>1 DEF OperationRow
  <2>4. /\ operation'[c] # None /\ operation'[c].plan = Reserved(plan)
        /\ \A d \in Candidate \ {c} : operation'[d] = operation[d]
    BY <1>1, <2>1, <2>3 DEF Reserve, Reserved
  <2>5. CASE Reserved(plan).op.primary = "proposed" /\ group = None
    <3>1. group' = GroupRow(Reserved(plan)) /\ group' # None
      BY <1>1, <2>2, <2>5 DEF Reserve, GroupAfter, GroupRow, SpaceGroup, Plan
    <3>2. group'.candidate = c /\ group'.space = Reserved(plan).id /\ group'.status = "reserved"
      BY <2>2, <3>1 DEF GroupRow
    <3> QED
      BY <2>1, <2>4, <2>5, <3>1, <3>2
  <2>6. CASE Reserved(plan).op.primary = "proposed" /\ group # None
    <3>1. group' = group /\ [group EXCEPT !.status = "reserved"] = GroupRow(Reserved(plan))
      BY <1>1, <2>6 DEF Reserve, GroupAfter, GroupGranted
    <3>2. group.candidate = c /\ group.space = Reserved(plan).id
      BY <2>2, <2>6, <3>1 DEF GroupRow, SpaceGroup
    <3>3. operation[c] # None
      BY <2>6, <3>2
    <3>4. operation'[c].plan = operation[c].plan
      BY <2>1, <3>3, ReservationKept
    <3>5. GroupIsOfItsPlan'
      BY <2>1, <2>4, <2>6, <3>1, <3>2, <3>3, <3>4
    <3>6. CommittedGroupIsInGit'
      BY <3>1, <3>2, <3>4, GitGrows
    <3> QED
      BY <3>5, <3>6
  <2>7. CASE Reserved(plan).op.primary # "proposed"
    <3>1. group' = group
      BY <1>1, <2>7 DEF Reserve, GroupAfter
    <3>2. group # None => operation'[group.candidate] # None
                          /\ operation'[group.candidate].plan = operation[group.candidate].plan
      BY ReservationKept DEF SpaceGroup
    <3> QED
      BY <2>1, <2>4, <2>7, <3>1, <3>2, GitGrows
  <2> QED
    BY <2>5, <2>6, <2>7
<1>2. ASSUME NEW p \in Process, Finalize(p) PROVE GroupInv'
  <2>1. ASSUME NEW c \in Candidate
        PROVE  /\ operation'[c] # None => operation[c] # None
               /\ operation[c] # None => /\ operation'[c] # None
                                        /\ operation'[c].plan = operation[c].plan
    <3>1. CASE operation[c] # None
      BY <3>1, ReservationKept
    <3>2. CASE operation[c] = None
      <4>1. ASSUME NEW plan \in call[p].plans, Finalizable(plan) PROVE plan.candidate # c
        BY <3>2, <4>1 DEF Finalizable
      <4>2. CASE \A plan \in call[p].plans : Finalizable(plan)
        <5>1. c \notin CandidatesOf(call[p])
          BY <4>1, <4>2 DEF CandidatesOf
        <5>2. operation'[c] = operation[c]
          BY <1>2, <4>2, <5>1 DEF Finalize
        <5> QED
          BY <3>2, <5>2
      <4>3. CASE ~(\A plan \in call[p].plans : Finalizable(plan))
        <5>1. operation'[c] = operation[c]
          BY <1>2, <4>3 DEF Finalize
        <5> QED
          BY <3>2, <5>1
      <4> QED
        BY <4>2, <4>3
    <3> QED
      BY <3>1, <3>2
  <2>2. \/ group' = group
        \/ /\ group # None /\ group' = [group EXCEPT !.status = "committed"]
           /\ group.candidate \in CandidatesOf(call[p])
    BY <1>2 DEF Finalize
  <2>3. ASSUME group # None, group.candidate \in CandidatesOf(call[p])
        PROVE  operation[group.candidate].plan \in Written
    <3>1. PICK plan \in call[p].plans : plan.candidate = group.candidate
      BY <2>3 DEF CandidatesOf
    <3>2. plan \in Written /\ operation[group.candidate].plan = plan
      BY <1>2, <3>1 DEF Finalize, WrittenIsInGit, CallsCarryReserved, IsReserved
    <3> QED
      BY <3>2
  <2>4. Written' = Written
    BY <1>2 DEF Finalize, store, Written
  <2>5. /\ (group' # None <=> group # None)
        /\ group # None => /\ group.candidate \in Candidate
                           /\ group'.candidate = group.candidate /\ group'.space = group.space
    BY <2>2 DEF SpaceGroup
  <2>6. GroupIsOfItsPlan'
    BY <2>1, <2>5
  <2>7. CommittedGroupIsInGit'
    BY <2>1, <2>2, <2>3, <2>4, <2>5
  <2> QED
    BY <2>6, <2>7
<1>3. CASE UNCHANGED <<operation, group>>
  BY <1>3, GitGrows
<1> QED
  BY <1>1, <1>2, <1>3
     DEF Next, vars, runtime, Prepare, ReserveRefused, LockAndLookUp, CommitBatch, RecoverPending,
         MovePendingAside, CutShort, Discard, CleanupExpired, Analyze, AppendIntentRevision

LEMMA DecisionStep ==
  ASSUME RuntimeInv, DecisionIsCarried, [Next]_vars
  PROVE  DecisionIsCarried'
<1> USE DEF DecisionIsCarried
<1> SUFFICES ASSUME NEW q \in Process, call'[q] # None, NEW plan \in call'[q].plans
             PROVE  \E own \in call'[q].asked : own.candidate = plan.candidate /\ own.op = plan.op
  OBVIOUS
<1>1. CASE call'[q] = call[q]
  BY <1>1
<1>2. CASE \/ LockAndLookUp(q) /\ ~Conflicts(q)
           \/ CommitBatch(q) /\ BatchStands(q)
  BY <1>2, CallMovesOn
<1>3. ASSUME NEW asked \in ToReserve(q), Reserve(q, asked), call[q] # None
      PROVE  \E own \in call'[q].asked : own.candidate = plan.candidate /\ own.op = plan.op
  <2>1. /\ asked \in call[q].asked /\ asked.candidate \in Candidate
        /\ call'[q].asked = call[q].asked /\ call'[q].plans = call[q].plans \cup {Reserved(asked)}
    BY <1>3 DEF Reserve, ToReserve, RuntimeInv, TypeOK, Call, Plan
  <2>2. Reserved(asked).candidate = asked.candidate /\ Reserved(asked).op = asked.op
    BY <1>3, <2>1 DEF Reserve, Reserved, SameSemantics, RuntimeInv, ReservationsAreTheirs
  <2> QED
    BY <1>3, <2>1, <2>2
<1>4. ASSUME NEW members \in SUBSET Candidate \ {{}}, NEW version \in Version,
             NEW primary \in Primary, Prepare(q, members, version, primary)
      PROVE  FALSE
  BY <1>4 DEF Prepare, RuntimeInv, TypeOK
<1> QED
  BY <1>1, <1>2, <1>3, <1>4, CallsStep

(***************************************************************************)
(* Together.                                                               *)
(***************************************************************************)
LEMMA CInvInit == Init => CInv
<1> SUFFICES ASSUME Init PROVE CInv
  OBVIOUS
<1>1. RuntimeInv
  BY RuntimeInit
<1>2. Batches = {} /\ \A p \in Process : call[p] = None
  BY DEF Init, Batches
<1>3. StoreInv /\ DecisionIsCarried
  BY <1>2 DEF StoreInv, CallsCarryReserved, BatchesHoldReserved, BatchesAreDisjoint,
     CallsAreDistinct, BatchesAreOfCalls, WrittenIsInGit, WritingIsInItsBatch, DecisionIsCarried
<1>4. GroupInv
  BY DEF Init, GroupInv, GroupIsOfItsPlan, CommittedGroupIsInGit
<1> QED
  BY <1>1, <1>3, <1>4 DEF CInv, RuntimeInv

LEMMA CInvStep == CInv /\ [Next]_vars => CInv'
<1> SUFFICES ASSUME CInv, [Next]_vars PROVE CInv'
  OBVIOUS
<1>1. RuntimeInv /\ StoreInv /\ GroupInv /\ DecisionIsCarried
  BY DEF CInv, RuntimeInv
<1>2. RuntimeInv'
  BY <1>1, RuntimeStep
<1>3. CallsCarryReserved' /\ BatchesHoldReserved' /\ BatchesAreDisjoint'
  BY <1>1, CarriedStep, HeldStep, DisjointStep DEF StoreInv
<1>4. CallsAreDistinct' /\ BatchesAreOfCalls' /\ WritingIsInItsBatch' /\ WrittenIsInGit'
  BY <1>1, IdentitiesStep, WritingStep, WrittenStep DEF StoreInv
<1>5. GroupInv' /\ DecisionIsCarried'
  BY <1>1, GroupStep, DecisionStep DEF StoreInv
<1> QED
  BY <1>2, <1>3, <1>4, <1>5 DEF CInv, RuntimeInv, StoreInv

LEMMA Invariance == Spec => []CInv
  BY CInvInit, CInvStep, PTL DEF Spec

LEMMA AtMostOne ==
  ASSUME NEW S, \A x, y \in S : x = y
  PROVE  Cardinality(S) <= 1
<1>1. CASE S = {}
  BY <1>1, FS_EmptySet
<1>2. ASSUME NEW x \in S PROVE Cardinality(S) <= 1
  <2>1. S = {x}
    OBVIOUS
  <2>2. Cardinality({x}) = 1
    BY FS_Singleton
  <2> QED
    BY <2>1, <2>2
<1> QED
  BY <1>1, <1>2

LEMMA OneBatchAtMost ==
  ASSUME BatchesAreDisjoint, NEW c \in Candidate
  PROVE  Cardinality({b \in git : c \in CandidatesOf(b)}) <= 1
<1>1. \A a, b \in {d \in git : c \in CandidatesOf(d)} : a = b
  BY DEF BatchesAreDisjoint, Batches
<1> QED
  BY <1>1, AtMostOne

LEMMA ReservedPlanHeld == CInv => GitHoldsReservedPlan
<1> SUFFICES ASSUME CInv PROVE GitHoldsReservedPlan
  OBVIOUS
<1>1. \A plan \in Written \cup UNION {b.plans : b \in journals} : IsReserved(plan)
  BY DEF CInv, StoreInv, BatchesHoldReserved, Batches, Written
<1> QED
  BY <1>1, OneBatchAtMost DEF CInv, StoreInv, GitHoldsReservedPlan, IsReserved

\* Two plans in Git that propose a Space are of the Candidate of the group, and
\* what is reserved for that Candidate is one plan.
LEMMA OneSpaceHeld == CInv => OneSpacePerTask
<1> SUFFICES ASSUME CInv PROVE OneSpacePerTask
  OBVIOUS
<1> USE DEF CInv, StoreInv, GroupInv
<1> DEFINE S == {plan \in Written : plan.op.primary = "proposed"}
<1>1. ASSUME NEW plan \in Written PROVE plan.candidate \in Candidate /\ IsReserved(plan)
  BY DEF TypeOK, Written, BatchRecord, Plan, BatchesHoldReserved, Batches
<1>2. ASSUME NEW x \in S, NEW y \in S PROVE x = y
  <2>1. ASSUME NEW z \in S
        PROVE  group.candidate = z.candidate /\ operation[z.candidate].plan = z
    <3>1. z \in Written /\ z.op.primary = "proposed"
      OBVIOUS
    <3>2. z.candidate \in Candidate /\ operation[z.candidate] # None /\ operation[z.candidate].plan = z
      BY <1>1, <3>1 DEF IsReserved
    <3> QED
      BY <3>1, <3>2 DEF GroupIsOfItsPlan
  <2> HIDE DEF S
  <2>2. group.candidate = x.candidate /\ operation[x.candidate].plan = x
    BY <1>2, <2>1
  <2>3. group.candidate = y.candidate /\ operation[y.candidate].plan = y
    BY <1>2, <2>1
  <2> QED
    BY <2>2, <2>3
<1>3. Cardinality(S) <= 1
  BY <1>2, AtMostOne
<1>4. ASSUME group # None, group.status = "committed"
      PROVE  \E plan \in Written : plan.candidate = group.candidate /\ plan.id = group.space
  <2>1. group.candidate \in Candidate
    BY <1>4 DEF TypeOK, SpaceGroup
  <2>2. operation[group.candidate] # None /\ operation[group.candidate].plan.id = group.space
    BY <1>4 DEF GroupIsOfItsPlan
  <2>3. operation[group.candidate].plan \in Written
    BY <1>4 DEF CommittedGroupIsInGit
  <2> QED
    BY <2>1, <2>2, <2>3 DEF ReservationsAreTheirs
<1> QED
  BY <1>3, <1>4 DEF OneSpacePerTask

LEMMA DecisionKept ==
  ASSUME CInv, [Next]_vars, NEW c \in Candidate, review[c].status # "pending"
  PROVE  \/ review'[c].status = review[c].status
         \/ review[c].status = "discarded" /\ review'[c].status = "expired"
<1> USE DEF CInv, TypeOK
<1>1. ASSUME NEW p \in Process, Finalize(p) PROVE review'[c] = review[c]
  <2>1. CASE \A plan \in call[p].plans : Finalizable(plan)
    <3>1. ASSUME c \in CandidatesOf(call[p]) PROVE operation[c].status # "reserved"
      <4>1. PICK plan \in call[p].plans : plan.candidate = c
        BY <3>1 DEF CandidatesOf
      <4>2. review[c] # [status |-> "pending", version |-> plan.op.version]
        OBVIOUS
      <4>3. operation[c].status = "committed"
        BY <2>1, <4>1, <4>2 DEF Finalizable
      <4> QED
        BY <4>3
    <3> QED
      BY <1>1, <2>1, <3>1 DEF Finalize
  <2>2. CASE ~(\A plan \in call[p].plans : Finalizable(plan))
    BY <1>1, <2>2 DEF Finalize
  <2> QED
    BY <2>1, <2>2
<1>2. ASSUME NEW members \in SUBSET Candidate, Discard(members) PROVE review'[c] = review[c]
  BY <1>2 DEF Discard
<1>3. ASSUME NEW members \in SUBSET Candidate, CleanupExpired(members)
      PROVE  \/ review'[c] = review[c]
             \/ review[c].status = "discarded" /\ review'[c].status = "expired"
  BY <1>3 DEF CleanupExpired
<1>4. CASE UNCHANGED review
  BY <1>4
<1> QED
  BY <1>1, <1>2, <1>3, <1>4
     DEF Next, vars, runtime, Prepare, Reserve, ReserveRefused, LockAndLookUp, CommitBatch,
         RecoverPending, MovePendingAside, CutShort, Analyze, AppendIntentRevision

(***************************************************************************)
(* The theorems.                                                           *)
(***************************************************************************)
\* Every table, batch and call keeps its type; in particular a Review takes at
\* most two decisions, each advancing review_version once.
THEOREM ConfirmationTypeCorrect == Spec => []TypeOK
<1>1. CInv => TypeOK
  BY DEF CInv
<1> QED
  BY <1>1, Invariance, PTL

\* Whatever the number of calls, interruptions and retries, Git has at most one
\* Confirmation of a Candidate, and it is the plan that
\* reserve_candidate_confirmation stored before any write.
THEOREM GitAlwaysHoldsReservedPlan == Spec => []GitHoldsReservedPlan
  BY ReservedPlanHeld, Invariance, PTL

\* A call never carries a decision its caller did not make, whichever
\* reservation it was answered with.
THEOREM DecisionAlwaysCarried == Spec => []DecisionIsCarried
<1>1. CInv => DecisionIsCarried
  BY DEF CInv
<1> QED
  BY <1>1, Invariance, PTL

\* reserve_proposed_space_group lets the Candidates of a Task open one Space,
\* and the group is committed only with that Space in Git.
THEOREM OneSpaceAlways == Spec => []OneSpacePerTask
  BY OneSpaceHeld, Invariance, PTL

\* No confirm, discard or clean-up takes a decision on a Review back.
THEOREM DecisionsAlwaysFinal == Spec => DecisionsAreFinal
<1>1. CInv /\ [Next]_vars =>
        [\A c \in Candidate : review[c].status # "pending" =>
           \/ review'[c].status = review[c].status
           \/ review[c].status = "discarded" /\ review'[c].status = "expired"]_review
  BY DecisionKept
<1> QED
  BY <1>1, Invariance, PTL DEF Spec, DecisionsAreFinal
==============================================================================
