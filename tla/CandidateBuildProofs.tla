-------------------------- MODULE CandidateBuildProofs --------------------------
(***************************************************************************)
(* What overlapping, failing and repeated builds of one Episode keep, for  *)
(* any number of processes, Claims, batches and interruptions.             *)
(***************************************************************************)
EXTENDS CandidateBuild, FiniteSetTheorems, TLAPS

USE BuildAssumption, NoneAssumption DEF BuildAssumption, NoneAssumption

(***************************************************************************)
(* The inductive invariant.                                                *)
(***************************************************************************)
\* Once the outbox is reserved, each Claim has a row or is a duplicate.
Coverage ==
  (duplicate # {} \/ \E k \in Claim : item[k] # None) =>
    \A k \in Claim : (item[k] # None) # (k \in duplicate)

\* A Claim is issued one SubmissionId in its life: its row, and what a build
\* owes to Git or has on its way there, carry it.
First(k) == [claim |-> k, number |-> 1]
OneNumber ==
  /\ \A k \in Claim : item[k] # None => item[k].submission = First(k) /\ issued[k] = 1
  /\ \A k \in Claim : item[k] = None /\ k \notin duplicate => issued[k] = 0
OwedAreFirst ==
  \A p \in Process : build[p] # None => \A s \in build[p].owed : s = First(s.claim)

\* The Events of all batches, on their way or in Git.
Events == UNION {b.events : b \in journals \cup git}
EventsAreFirst == \A e \in Events : e.submission = First(e.submission.claim)
OneEventPerSubmission == \A e, f \in Events : e.submission = f.submission => e = f

\* Only the holder of candidate-writer.lock is committing; what it commits is
\* owed and has an identity.
SliceIsOwed ==
  \A p \in Process : build[p] # None =>
    /\ build[p].slice \subseteq build[p].owed
    /\ lock # p => build[p].slice = {}
WritingHasIdentity ==
  \A p \in Process : lock = p => build[p].writing # 0

BInv ==
  /\ TypeOK /\ Coverage /\ OneNumber /\ OwedAreFirst
  /\ EventsAreFirst /\ OneEventPerSubmission /\ SliceIsOwed /\ WritingHasIdentity

(***************************************************************************)
(* Types, and the build that holds the lock.                               *)
(***************************************************************************)
Typed == TypeOK /\ SliceIsOwed /\ WritingHasIdentity

LEMMA BInvInit == Init => BInv
<1> SUFFICES ASSUME Init PROVE BInv
  OBVIOUS
<1>1. ASSUME NEW k \in Claim PROVE Row(k, 1, "queued") \in Item
  BY DEF Row, Item, Submission, ItemStatus
<1>2. item \in [Claim -> Item \cup {None}] /\ issued \in [Claim -> Nat]
  BY <1>1 DEF Init
<1>3. ASSUME NEW k \in Claim, item[k] # None
      PROVE  item[k] = Row(k, 1, "queued") /\ issued[k] = 1
  BY <1>3 DEF Init
<1>4. TypeOK
  BY <1>2, <1>3 DEF TypeOK, Init, Row
<1>5. Coverage /\ OneNumber
  <2>1. CASE \A k \in Claim : item[k] = Row(k, 1, "queued") /\ issued[k] = 1
    BY <1>1, <2>1 DEF Init, Coverage, OneNumber, Row, First
  <2>2. CASE \A k \in Claim : item[k] = None /\ issued[k] = 0
    BY <2>2 DEF Init, Coverage, OneNumber
  <2> QED
    BY <2>1, <2>2 DEF Init
<1>6. Events = {} /\ \A p \in Process : build[p] = None /\ lock # p
  BY DEF Init, Events
<1> QED
  BY <1>4, <1>5, <1>6 DEF BInv, OwedAreFirst, EventsAreFirst, OneEventPerSubmission, SliceIsOwed,
     WritingHasIdentity

\* A row that a build prepares.
LEMMA RefreshedType ==
  ASSUME TypeOK, NEW p \in Process, NEW k \in Claim
  PROVE  /\ Refreshed(p, k) \in Item
         /\ Refreshed(p, k).submission.claim = k
         /\ Refreshed(p, k).candidate # 0 <=> Refreshed(p, k).status = "created"
         /\ k \in Kept(p) => Refreshed(p, k).submission.number = item[k].submission.number
         /\ k \notin Kept(p) => Refreshed(p, k).submission.number = issued[k] + 1
<1> DEFINE status == IF k \in build[p].drafted THEN "prepared" ELSE "needs_evidence"
<1>1. ASSUME NEW n \in Nat
      PROVE  /\ Row(k, n, status) \in Item /\ Row(k, n, status).submission.claim = k
             /\ Row(k, n, status).submission.number = n
             /\ Row(k, n, status).candidate = 0 /\ Row(k, n, status).status # "created"
  BY DEF Row, Item, Submission, ItemStatus
<1>2. k \in Kept(p) => item[k] \in Item /\ item[k].submission.number \in Nat
  BY DEF TypeOK, Kept, Item, Submission
<1>3. CASE k \notin Kept(p)
  <2>1. Refreshed(p, k) = Row(k, issued[k] + 1, status) /\ issued[k] + 1 \in Nat
    BY <1>3 DEF Refreshed, TypeOK
  <2> QED
    BY <1>1, <1>3, <2>1
<1>4. CASE k \in Kept(p)
  <2>1. Refreshed(p, k) \in {item[k], Row(k, item[k].submission.number, status)}
    BY <1>4 DEF Refreshed
  <2> QED
    BY <1>1, <1>2, <1>4, <2>1 DEF TypeOK, Kept
<1> QED
  BY <1>3, <1>4

\* A build that moves on stays a build.
LEMMA BuildUpdates ==
  ASSUME NEW b \in Build
  PROVE  /\ [b EXCEPT !.degraded = TRUE] \in Build
         /\ \A owed \in SUBSET Submission, found \in SUBSET Event :
              [b EXCEPT !.owed = owed, !.found = found] \in Build
         /\ \A owed \in SUBSET Submission, failed \in SUBSET Submission :
              [b EXCEPT !.owed = owed, !.failed = failed] \in Build
         /\ \A found \in SUBSET Event, failed \in SUBSET Submission :
              [b EXCEPT !.found = found, !.failed = failed] \in Build
         /\ \A slice \in SUBSET Submission, writing \in 0 .. MaxBatches :
              [b EXCEPT !.slice = slice, !.writing = writing] \in Build
         /\ \A owed \in SUBSET Submission, slice \in SUBSET Submission,
               writing \in 0 .. MaxBatches, found \in SUBSET Event :
              [b EXCEPT !.owed = owed, !.slice = slice, !.writing = writing, !.found = found] \in Build
<1>1. [b EXCEPT !.degraded = TRUE] \in Build
  BY DEF Build
<1>2. ASSUME NEW owed \in SUBSET Submission, NEW found \in SUBSET Event
      PROVE  [b EXCEPT !.owed = owed, !.found = found] \in Build
  BY DEF Build
<1>3. ASSUME NEW owed \in SUBSET Submission, NEW failed \in SUBSET Submission
      PROVE  [b EXCEPT !.owed = owed, !.failed = failed] \in Build
  BY DEF Build
<1>4. ASSUME NEW found \in SUBSET Event, NEW failed \in SUBSET Submission
      PROVE  [b EXCEPT !.found = found, !.failed = failed] \in Build
  BY DEF Build
<1>5. ASSUME NEW slice \in SUBSET Submission, NEW writing \in 0 .. MaxBatches
      PROVE  [b EXCEPT !.slice = slice, !.writing = writing] \in Build
  BY DEF Build
<1>6. ASSUME NEW owed \in SUBSET Submission, NEW slice \in SUBSET Submission,
             NEW writing \in 0 .. MaxBatches, NEW found \in SUBSET Event
      PROVE  [b EXCEPT !.owed = owed, !.slice = slice, !.writing = writing, !.found = found] \in Build
  BY DEF Build
<1> QED
  BY <1>1, <1>2, <1>3, <1>4, <1>5, <1>6

LEMMA TypedStep == Typed /\ [Next]_vars => Typed'
<1> SUFFICES ASSUME Typed, [Next]_vars PROVE Typed'
  OBVIOUS
<1> USE DEF Typed, outbox, store
<1>0. /\ item \in [Claim -> Item \cup {None}] /\ issued \in [Claim -> Nat]
      /\ build \in [Process -> Build \cup {None}]
  BY DEF TypeOK
<1>1. ASSUME NEW p \in Process, NEW drafted \in SUBSET Claim, Decide(p, drafted) PROVE Typed'
  <2> DEFINE new == [step |-> "decided", drafted |-> drafted, restated |-> Restated(drafted),
                     owed |-> {}, degraded |-> FALSE, slice |-> {}, writing |-> 0,
                     found |-> {}, failed |-> {}]
  <2>1. new \in Build
    BY DEF Build, Restated
  <2>2. build' = [build EXCEPT ![p] = new] /\ build[p] = None
    BY <1>1 DEF Decide
  <2>3. lock # p
    BY <2>2 DEF TypeOK, Doing
  <2>4. TypeOK'
    BY <1>0, <1>1, <2>1, <2>2, <2>3 DEF Decide, TypeOK, Doing
  <2>5. SliceIsOwed' /\ WritingHasIdentity'
    BY <1>0, <1>1, <2>2, <2>3 DEF SliceIsOwed, WritingHasIdentity, Decide
  <2> QED
    BY <2>4, <2>5
<1>2. ASSUME NEW p \in Process, Prepare(p) PROVE Typed'
  <2>1. lock # p /\ build[p] \in Build
    BY <1>0, <1>2 DEF TypeOK, Doing, Prepare
  <2>2. CASE Return(p) /\ UNCHANGED outbox
    <3>1. TypeOK'
      BY <1>0, <1>2, <2>1, <2>2 DEF Return, Prepare, TypeOK, Doing
    <3>2. SliceIsOwed' /\ WritingHasIdentity'
      BY <1>0, <1>2, <2>1, <2>2 DEF Return, Prepare, SliceIsOwed, WritingHasIdentity
    <3> QED
      BY <3>1, <3>2
  <2>3. CASE CoverageHolds(p)
    <3>1. /\ item' = [k \in Claim |->
                 IF k \in Prepared(p) THEN Refreshed(p, k)
                 ELSE IF k \in Released(p) THEN None ELSE item[k]]
          /\ issued' = [k \in Claim |->
                 IF k \in Prepared(p) \ Kept(p) THEN issued[k] + 1 ELSE issued[k]]
          /\ duplicate' = duplicate \cup Released(p)
      BY <1>2, <2>3 DEF Prepare
    <3>2. Released(p) \subseteq Claim
      BY <2>1 DEF Released, Build
    <3>3. /\ item' \in [Claim -> Item \cup {None}] /\ issued' \in [Claim -> Nat]
          /\ duplicate' \subseteq Claim
      BY <1>0, <3>1, <3>2, RefreshedType DEF TypeOK
    <3>4. ASSUME NEW k \in Claim, item'[k] # None
          PROVE  /\ item'[k].submission.claim = k
                 /\ item'[k].submission.number \in 1 .. issued'[k]
                 /\ item'[k].candidate # 0 <=> item'[k].status = "created"
      <4>1. CASE k \in Prepared(p)
        <5>1. k \in Kept(p) => item[k] # None
          BY DEF Kept
        <5> QED
          BY <1>0, <3>1, <4>1, <5>1, RefreshedType DEF TypeOK
      <4>2. CASE k \notin Prepared(p)
        BY <1>0, <3>1, <3>4, <4>2 DEF TypeOK
      <4> QED
        BY <4>1, <4>2
    <3>5. \/ Return(p)
          \/ build' = [build EXCEPT ![p].step = "submitting",
                 ![p].owed = {item'[k].submission : k \in Owed(p)}]
             /\ Owed(p) \subseteq build[p].drafted
      BY <1>2, <2>3 DEF Prepare
    <3>6. {item'[k].submission : k \in Owed(p)} \subseteq Submission
      BY <3>3 DEF Owed, Item
    <3>7. build' \in [Process -> Build \cup {None}]
      <4>1. [build[p] EXCEPT !.step = "submitting",
                             !.owed = {item'[k].submission : k \in Owed(p)}] \in Build
        BY <2>1, <3>6 DEF Build
      <4> QED
        BY <1>0, <3>5, <4>1 DEF Return
    <3>8. \A q \in Process \ {p} : build'[q] = build[q]
      BY <1>0, <3>5 DEF Return
    <3>9. TypeOK'
      BY <1>2, <2>1, <3>3, <3>4, <3>7, <3>8 DEF Prepare, TypeOK, Doing
    <3>10. build'[p] # None => build'[p].slice = {}
      BY <1>0, <1>2, <2>1, <3>5 DEF Prepare, Doing, SliceIsOwed, Return, Build
    <3>11. SliceIsOwed'
      BY <1>2, <3>8, <3>10 DEF SliceIsOwed, Prepare
    <3>12. WritingHasIdentity'
      BY <1>2, <2>1, <3>8 DEF WritingHasIdentity, Prepare
    <3> QED
      BY <3>9, <3>11, <3>12
  <2> QED
    BY <1>2, <2>2, <2>3 DEF Prepare
<1>3. ASSUME NEW p \in Process, NEW slice \in Slices(p), build[p] # None, SubmitSlice(p, slice)
      PROVE  Typed'
  <2>1. build[p] \in Build /\ slice \subseteq build[p].owed /\ slice \subseteq Submission
    BY <1>0, <1>3 DEF Slices, Build
  <2>2. git' \subseteq BatchRecord
    BY <1>3 DEF SubmitSlice, TypeOK
  <2>3. CASE Unwritten(slice) = {}
    <3>1. \A s \in slice : Submitted(s)' \subseteq Event
      BY <2>2 DEF Submitted, Written, BatchRecord
    <3>2. [build[p] EXCEPT !.owed = @ \ slice,
             !.found = @ \cup UNION {Submitted(s)' : s \in slice}] \in Build
      <4>1. /\ build[p].found \cup UNION {Submitted(s)' : s \in slice} \in SUBSET Event
            /\ build[p].owed \ slice \in SUBSET Submission
        BY <2>1, <3>1 DEF Build
      <4> QED
        BY <2>1, <4>1, BuildUpdates
    <3>3. /\ build' = [build EXCEPT ![p].owed = @ \ slice,
                 ![p].found = @ \cup UNION {Submitted(s)' : s \in slice}]
          /\ journals' = {} /\ lock' = lock /\ lock = None /\ batches' = batches
      BY <1>3, <2>3 DEF SubmitSlice
    <3>4. build' \in [Process -> Build \cup {None}]
      BY <1>0, <3>2, <3>3
    <3>5. build[p].slice = {} /\ build'[p].slice = {}
      BY <1>0, <1>3, <2>1, <3>3 DEF Build, SliceIsOwed
    <3>6. \A q \in Process \ {p} : build'[q] = build[q]
      BY <1>0, <3>3
    <3>7. TypeOK'
      <4>1. UNCHANGED <<item, duplicate, issued, similar>>
        BY <1>3 DEF SubmitSlice
      <4> QED
        BY <2>2, <3>3, <3>4, <4>1 DEF TypeOK
    <3>8. SliceIsOwed' /\ WritingHasIdentity'
      BY <3>3, <3>5, <3>6 DEF SliceIsOwed, WritingHasIdentity
    <3> QED
      BY <3>7, <3>8
  <2>4. CASE Unwritten(slice) # {}
    <3> DEFINE new == [id |-> batches + 1, events |->
                 {[submission |-> s, candidate |-> batches + 1] : s \in Unwritten(slice)}]
    <3>1. /\ batches < MaxBatches /\ batches' = batches + 1 /\ lock' = p /\ lock = None
          /\ journals' = {new}
          /\ build' = [build EXCEPT ![p].slice = slice, ![p].writing = batches + 1]
      BY <1>3, <2>4 DEF SubmitSlice
    <3>2. batches + 1 \in 1 .. MaxBatches
      BY <3>1 DEF TypeOK
    <3>3. new \in BatchRecord
      BY <2>1, <3>2 DEF BatchRecord, Event, Unwritten
    <3>4. [build[p] EXCEPT !.slice = slice, !.writing = batches + 1] \in Build
      <4>1. batches + 1 \in 0 .. MaxBatches
        BY <3>2
      <4> QED
        BY <2>1, <4>1, BuildUpdates
    <3>5. build' \in [Process -> Build \cup {None}]
      BY <1>0, <3>1, <3>4
    <3>6. /\ build'[p] # None /\ build'[p].slice = slice /\ build'[p].writing = batches + 1
          /\ build'[p].owed = build[p].owed /\ build'[p].step = build[p].step
      BY <1>0, <2>1, <3>1, <3>4 DEF Build
    <3>7. \A q \in Process \ {p} : build'[q] = build[q]
      BY <1>0, <3>1
    <3>8. slice # {}
      BY <2>4 DEF Unwritten
    <3>9. TypeOK'
      BY <1>3, <2>2, <3>1, <3>2, <3>3, <3>5, <3>6, <3>8 DEF SubmitSlice, TypeOK, Doing
    <3>10. SliceIsOwed'
      BY <2>1, <3>1, <3>6, <3>7 DEF SliceIsOwed
    <3>11. WritingHasIdentity'
      BY <3>1, <3>2, <3>6 DEF WritingHasIdentity
    <3> QED
      BY <3>9, <3>10, <3>11
  <2> QED
    BY <2>3, <2>4
<1>4. ASSUME NEW p \in Process, CommitSlice(p) PROVE Typed'
  <2>1. build[p] \in Build /\ build[p].writing \in 1 .. MaxBatches
    BY <1>0, <1>4 DEF CommitSlice, Doing, WritingHasIdentity, Build
  <2>2. git' \subseteq BatchRecord
    BY <1>4 DEF CommitSlice, TypeOK
  <2>3. Answered(p) \subseteq Event
    <3>1. ASSUME NEW s \in build[p].slice
          PROVE  [submission |-> s,
                  candidate |-> IF Submitted(s)' = {} THEN build[p].writing
                                ELSE (CHOOSE e \in Submitted(s)' : TRUE).candidate] \in Event
      <4>1. Submitted(s)' \subseteq Event
        BY <2>2 DEF Submitted, Written, BatchRecord
      <4>2. Submitted(s)' # {} => (CHOOSE e \in Submitted(s)' : TRUE) \in Event
        BY <4>1
      <4> QED
        BY <2>1, <4>2 DEF Event, Build
    <3> QED
      BY <3>1 DEF Answered
  <2>4. [build[p] EXCEPT !.owed = @ \ build[p].slice,
           !.slice = {}, !.writing = 0, !.found = @ \cup Answered(p)] \in Build
    <3>1. /\ build[p].owed \ build[p].slice \in SUBSET Submission
          /\ build[p].found \cup Answered(p) \in SUBSET Event
          /\ {} \in SUBSET Submission /\ 0 \in 0 .. MaxBatches
      BY <2>1, <2>3 DEF Build
    <3> QED
      BY <2>1, <3>1, BuildUpdates
  <2>5. build' = [build EXCEPT ![p].owed = @ \ build[p].slice,
           ![p].slice = {}, ![p].writing = 0, ![p].found = @ \cup Answered(p)]
    BY <1>4 DEF CommitSlice
  <2>6. build' \in [Process -> Build \cup {None}] /\ build'[p].slice = {}
    BY <1>0, <2>1, <2>4, <2>5 DEF Build
  <2>7. \A q \in Process \ {p} : build'[q] = build[q]
    BY <1>0, <2>5
  <2>8. lock = p /\ lock' = None
    BY <1>4 DEF CommitSlice
  <2>9. TypeOK'
    <3>1. \A q \in Process : ~(lock' = q)
      BY <2>8 DEF BInv, Typed, TypeOK
    <3>2. lock' \in Process \cup {None} /\ build' \in [Process -> Build \cup {None}]
      BY <2>6, <2>8
    <3> QED
      BY <1>4, <2>2, <3>1, <3>2 DEF CommitSlice, TypeOK
  <2>10. SliceIsOwed' /\ WritingHasIdentity'
    BY <2>6, <2>7, <2>8 DEF SliceIsOwed, WritingHasIdentity
  <2> QED
    BY <2>9, <2>10
<1>5. ASSUME NEW p \in Process, NEW slice \in Slices(p), build[p] # None, SliceRefused(p, slice)
      PROVE  Typed'
  <2>1. build[p] \in Build /\ slice \subseteq build[p].owed
    BY <1>0, <1>5 DEF Slices, Build
  <2> DEFINE refused == [build[p] EXCEPT !.slice = {}, !.writing = 0]
  <2>2. refused \in Build /\ refused.slice = {} /\ refused.owed = build[p].owed
    <3>1. {} \in SUBSET Submission /\ 0 \in 0 .. MaxBatches
      OBVIOUS
    <3>2. refused \in Build
      BY <2>1, <3>1, BuildUpdates
    <3> QED
      BY <2>1, <3>2 DEF Build
  <2>3. [refused EXCEPT !.degraded = TRUE] \in Build /\ [refused EXCEPT !.degraded = TRUE].slice = {}
    <3>1. [refused EXCEPT !.degraded = TRUE] \in Build
      BY <2>2, BuildUpdates
    <3> HIDE DEF refused
    <3> QED
      BY <2>2, <3>1 DEF Build
  <2>4. /\ [refused EXCEPT !.owed = @ \ slice, !.failed = @ \cup slice] \in Build
        /\ [refused EXCEPT !.owed = @ \ slice, !.failed = @ \cup slice].slice = {}
    <3> HIDE DEF refused
    <3>1. refused.owed \ slice \in SUBSET Submission /\ refused.failed \cup slice \in SUBSET Submission
      BY <2>1, <2>2 DEF Build
    <3>2. [refused EXCEPT !.owed = @ \ slice, !.failed = @ \cup slice] \in Build
      BY <2>2, <3>1, BuildUpdates
    <3> QED
      BY <2>2, <3>2 DEF Build
  <2>5. \/ build' = [build EXCEPT ![p] = [refused EXCEPT !.owed = @ \ slice, !.failed = @ \cup slice]]
        \/ build' = [build EXCEPT ![p] = [refused EXCEPT !.degraded = TRUE]]
    BY <1>5 DEF SliceRefused
  <2>6. build' \in [Process -> Build \cup {None}] /\ build'[p].slice = {}
    BY <1>0, <2>3, <2>4, <2>5
  <2>7. \A q \in Process \ {p} : build'[q] = build[q]
    BY <1>0, <2>5
  <2>8. lock' = None /\ lock \in {None, p}
    BY <1>5 DEF SliceRefused
  <2>9. TypeOK'
    BY <1>5, <2>6, <2>8 DEF SliceRefused, TypeOK
  <2>10. SliceIsOwed' /\ WritingHasIdentity'
    BY <2>6, <2>7, <2>8 DEF SliceIsOwed, WritingHasIdentity
  <2> QED
    BY <2>9, <2>10
<1>6. ASSUME NEW p \in Process, AllSubmitted(p) PROVE Typed'
  <2>1. build[p] \in Build /\ build[p].slice = {}
    BY <1>0, <1>6 DEF AllSubmitted, Doing, SliceIsOwed
  <2>2. lock # p
    BY <2>1 DEF TypeOK
  <2>3. [build[p] EXCEPT !.step = "recording"] \in Build
        /\ [build[p] EXCEPT !.step = "recording"].slice = {}
    BY <2>1 DEF Build
  <2>4. build' \in [Process -> Build \cup {None}] /\ build'[p].slice = {}
        /\ \A q \in Process \ {p} : build'[q] = build[q]
    BY <1>0, <1>6, <2>3 DEF AllSubmitted
  <2>5. TypeOK'
    BY <1>6, <2>2, <2>4 DEF AllSubmitted, TypeOK, Doing
  <2>6. SliceIsOwed' /\ WritingHasIdentity'
    BY <1>6, <2>2, <2>4 DEF SliceIsOwed, WritingHasIdentity, AllSubmitted
  <2> QED
    BY <2>5, <2>6
<1>7. ASSUME NEW p \in Process, RecordResult(p) PROVE Typed'
  <2>1. build[p] \in Build /\ lock # p
    BY <1>0, <1>7 DEF RecordResult, Doing, TypeOK
  <2>2. UNCHANGED <<duplicate, issued, similar, journals, git, batches, lock>>
    BY <1>7 DEF RecordResult
  <2>3. CASE Return(p) /\ item' = item
    <3>1. build' \in [Process -> Build \cup {None}] /\ build'[p] = None
          /\ \A q \in Process \ {p} : build'[q] = build[q]
      BY <1>0, <2>3 DEF Return
    <3>2. TypeOK'
      BY <2>1, <2>2, <2>3, <3>1 DEF TypeOK, Doing
    <3>3. SliceIsOwed' /\ WritingHasIdentity'
      BY <2>1, <2>2, <3>1 DEF SliceIsOwed, WritingHasIdentity
    <3> QED
      BY <3>2, <3>3
  <2>4. ASSUME NEW s \in Submission, NEW status \in {"created", "failed"},
               NEW candidate \in 0 .. MaxBatches, candidate # 0 <=> status = "created",
               Recordable(s, candidate), Record(p, s, status, candidate)
        PROVE  Typed'
    <3> DEFINE k == s.claim
    <3>1. k \in Claim /\ item[k] # None /\ item[k] \in Item
      BY <1>0, <2>4 DEF Recordable, Submission
    <3>2. item' = [item EXCEPT ![k] = Records(item[k], status, candidate)]
      BY <2>4 DEF Record
    <3>3. /\ Records(item[k], status, candidate) \in Item
          /\ Records(item[k], status, candidate).submission = item[k].submission
          /\ Records(item[k], status, candidate).candidate # 0
             <=> Records(item[k], status, candidate).status = "created"
      <4>1. CASE item[k].status = "created"
        BY <3>1, <4>1 DEF Records, TypeOK
      <4>2. CASE item[k].status # "created"
        BY <2>4, <3>1, <4>2 DEF Records, Item, ItemStatus
      <4> QED
        BY <4>1, <4>2
    <3>4. item' \in [Claim -> Item \cup {None}]
      BY <1>0, <3>2, <3>3
    <3>5. \A j \in Claim : item'[j] # None =>
            /\ item'[j].submission.claim = j
            /\ item'[j].submission.number \in 1 .. issued[j]
            /\ item'[j].candidate # 0 <=> item'[j].status = "created"
      <4>1. item'[k] = Records(item[k], status, candidate)
        BY <1>0, <3>1, <3>2
      <4>2. \A j \in Claim \ {k} : item'[j] = item[j]
        BY <1>0, <3>2
      <4> QED
        BY <3>1, <3>3, <4>1, <4>2 DEF TypeOK
    <3>6. /\ build' = [build EXCEPT ![p].found = {e \in @ : e.submission # s}, ![p].failed = @ \ {s}]
          /\ {e \in build[p].found : e.submission # s} \in SUBSET Event
          /\ build[p].failed \ {s} \in SUBSET Submission
      BY <2>1, <2>4 DEF Record, Build
    <3>7. [build[p] EXCEPT !.found = {e \in @ : e.submission # s}, !.failed = @ \ {s}] \in Build
      BY <2>1, <3>6, BuildUpdates
    <3>8. build' \in [Process -> Build \cup {None}] /\ build'[p].slice = build[p].slice
          /\ build'[p].owed = build[p].owed /\ \A q \in Process \ {p} : build'[q] = build[q]
      BY <1>0, <2>1, <3>6, <3>7 DEF Build
    <3>9. TypeOK'
      BY <2>1, <2>2, <3>4, <3>5, <3>8 DEF TypeOK, Doing
    <3>10. SliceIsOwed'
      BY <2>1, <2>2, <3>8 DEF SliceIsOwed
    <3>11. WritingHasIdentity'
      BY <2>1, <2>2, <3>8 DEF WritingHasIdentity
    <3> QED
      BY <3>9, <3>10, <3>11
  <2>5. ASSUME NEW e \in build[p].found, Record(p, e.submission, "created", e.candidate)
        PROVE  Typed'
    <3>1. e.submission \in Submission /\ e.candidate \in 1 .. MaxBatches
      BY <2>1 DEF Build, Event
    <3>2. CASE Recordable(e.submission, e.candidate)
      BY <2>4, <2>5, <3>1, <3>2
    <3>3. CASE ~Recordable(e.submission, e.candidate)
      BY <2>3, <2>5, <3>3 DEF Record
    <3> QED
      BY <3>2, <3>3
  <2>6. ASSUME NEW s \in build[p].failed, Record(p, s, "failed", 0) PROVE Typed'
    <3>1. s \in Submission /\ 0 \in 0 .. MaxBatches
      BY <2>1 DEF Build
    <3>2. CASE Recordable(s, 0)
      BY <2>4, <2>6, <3>1, <3>2
    <3>3. CASE ~Recordable(s, 0)
      BY <2>3, <2>6, <3>3 DEF Record
    <3> QED
      BY <3>2, <3>3
  <2> QED
    BY <1>7, <2>3, <2>5, <2>6 DEF RecordResult
<1>8. ASSUME NEW p \in Process, CutShort(p) PROVE Typed'
  <2>1. build' \in [Process -> Build \cup {None}] /\ build'[p] = None
        /\ \A q \in Process \ {p} : build'[q] = build[q]
    BY <1>0, <1>8 DEF Return, CutShort
  <2>2. lock' # p /\ \A q \in Process \ {p} : lock' = q <=> lock = q
    BY <1>8 DEF CutShort
  <2>3. lock' \in Process \cup {None}
    BY <1>8 DEF CutShort, TypeOK
  <2>4. TypeOK'
    BY <1>8, <2>1, <2>2, <2>3 DEF CutShort, TypeOK, Doing
  <2>5. SliceIsOwed' /\ WritingHasIdentity'
    BY <2>1, <2>2 DEF SliceIsOwed, WritingHasIdentity
  <2> QED
    BY <2>4, <2>5
<1>9. CASE RecoverPending
  BY <1>9 DEF RecoverPending, TypeOK, SliceIsOwed, WritingHasIdentity, Doing
<1>10. ASSUME NEW b \in journals, MovePendingAside(b) PROVE Typed'
  BY <1>10 DEF MovePendingAside, TypeOK, SliceIsOwed, WritingHasIdentity, Doing
<1>11. ASSUME NEW k \in Claim, OtherEpisodeBuilt(k) PROVE Typed'
  BY <1>11 DEF OtherEpisodeBuilt, TypeOK, SliceIsOwed, WritingHasIdentity, Doing
<1>12. CASE UNCHANGED vars
  BY <1>12 DEF vars, TypeOK, SliceIsOwed, WritingHasIdentity, Doing
<1> QED
  BY <1>1, <1>2, <1>3, <1>4, <1>5, <1>6, <1>7, <1>8, <1>9, <1>10, <1>11, <1>12 DEF Next

(***************************************************************************)
(* One row or duplicate, and one SubmissionId, per Claim.                  *)
(***************************************************************************)
Outbox == Typed /\ Coverage /\ OneNumber

\* What Prepare leaves of a Claim that has not been dropped, when it goes
\* through: each one decided before keeps its fate and its number.
LEMMA OutboxStep == Outbox /\ [Next]_vars => Coverage' /\ OneNumber'
<1> SUFFICES ASSUME Outbox, [Next]_vars PROVE Coverage' /\ OneNumber'
  OBVIOUS
<1> USE DEF Outbox, Typed
<1>0. item \in [Claim -> Item \cup {None}] /\ issued \in [Claim -> Nat]
  BY DEF TypeOK
<1>1. CASE UNCHANGED outbox
  BY <1>1 DEF outbox, Coverage, OneNumber
<1>2. ASSUME NEW p \in Process, Prepare(p), ~UNCHANGED outbox PROVE Coverage' /\ OneNumber'
  <2>1. /\ item' = [k \in Claim |->
               IF k \in Prepared(p) THEN Refreshed(p, k)
               ELSE IF k \in Released(p) THEN None ELSE item[k]]
        /\ issued' = [k \in Claim |->
               IF k \in Prepared(p) \ Kept(p) THEN issued[k] + 1 ELSE issued[k]]
        /\ duplicate' = duplicate \cup Released(p)
    BY <1>2 DEF Prepare
  <2>2. ASSUME NEW k \in Claim
        PROVE  /\ (item'[k] # None) # (k \in duplicate')
               /\ item'[k] # None => item'[k].submission = First(k) /\ issued'[k] = 1
               /\ item'[k] = None /\ k \notin duplicate' => issued'[k] = 0
    <3>1. CASE k \in Prepared(p)
      <4>1. item'[k] = Refreshed(p, k) /\ Refreshed(p, k) \in Item /\ item'[k] # None
        BY <2>1, <3>1, RefreshedType
      <4>2. k \notin duplicate'
        BY <2>1, <3>1 DEF Prepared, Released
      <4>3. k \notin Kept(p) => issued[k] = 0 /\ issued'[k] = 1
        BY <1>0, <2>1, <3>1 DEF Prepared, Kept, Released, OneNumber
      <4>4. k \in Kept(p) => issued'[k] = issued[k] /\ issued[k] = 1
                             /\ item[k].submission = First(k)
        BY <2>1 DEF OneNumber, Kept
      <4>5. item'[k].submission.number = 1 /\ item'[k].submission.claim = k
        BY <4>1, <4>3, <4>4, RefreshedType DEF First
      <4>6. item'[k].submission = First(k)
        BY <4>1, <4>5 DEF First, Item, Submission
      <4> QED
        BY <4>1, <4>2, <4>3, <4>4, <4>6
    <3>2. CASE k \in Released(p)
      <4>1. k \notin Prepared(p)
        BY <3>2 DEF Prepared, Released
      <4> QED
        BY <2>1, <3>2, <4>1
    \* A duplicate already, or a restated Claim that is finalized: the outbox
    \* has been reserved, and k keeps what it has.
    <3>3. CASE k \notin Prepared(p) /\ k \notin Released(p)
      <4>1. item'[k] = item[k] /\ issued'[k] = issued[k] /\ (k \in duplicate' <=> k \in duplicate)
        BY <2>1, <3>3
      <4>2. k \in duplicate \/ Finalized(k)
        BY <3>3 DEF Prepared, Released
      <4>3. (item[k] # None) # (k \in duplicate)
        BY <4>2 DEF Coverage, Finalized
      <4> QED
        BY <4>1, <4>3 DEF OneNumber
    <3> QED
      BY <3>1, <3>2, <3>3
  <2> QED
    BY <2>2 DEF Coverage, OneNumber
<1>3. ASSUME NEW p \in Process, RecordResult(p), ~UNCHANGED outbox PROVE Coverage' /\ OneNumber'
  <2>0. build[p] \in Build
    BY <1>3 DEF RecordResult, Doing, TypeOK
  <2>1. PICK s \in Submission, status \in ItemStatus, candidate \in 0 .. MaxBatches :
          /\ Recordable(s, candidate)
          /\ item' = [item EXCEPT ![s.claim] = Records(@, status, candidate)]
    <3>1. ASSUME NEW e \in build[p].found, Record(p, e.submission, "created", e.candidate), item' # item
          PROVE  /\ e.submission \in Submission /\ e.candidate \in 0 .. MaxBatches
                 /\ Recordable(e.submission, e.candidate)
                 /\ item' = [item EXCEPT ![e.submission.claim] = Records(@, "created", e.candidate)]
      BY <2>0, <3>1 DEF Record, Build, Event
    <3>2. ASSUME NEW t \in build[p].failed, Record(p, t, "failed", 0), item' # item
          PROVE  /\ t \in Submission /\ 0 \in 0 .. MaxBatches
                 /\ Recordable(t, 0)
                 /\ item' = [item EXCEPT ![t.claim] = Records(@, "failed", 0)]
      BY <2>0, <3>2 DEF Record, Build
    <3>3. item' # item
      BY <1>3 DEF RecordResult, outbox
    <3> QED
      <4>1. \/ \E e \in build[p].found : Record(p, e.submission, "created", e.candidate)
            \/ \E t \in build[p].failed : Record(p, t, "failed", 0)
        BY <1>3, <3>3 DEF RecordResult
      <4>2. "created" \in ItemStatus /\ "failed" \in ItemStatus
        BY DEF ItemStatus
      <4>3. ASSUME NEW e \in build[p].found, Record(p, e.submission, "created", e.candidate)
            PROVE  \E s \in Submission, status \in ItemStatus, candidate \in 0 .. MaxBatches :
                     /\ Recordable(s, candidate)
                     /\ item' = [item EXCEPT ![s.claim] = Records(@, status, candidate)]
        BY <3>1, <3>3, <4>2, <4>3
      <4>4. ASSUME NEW t \in build[p].failed, Record(p, t, "failed", 0)
            PROVE  \E s \in Submission, status \in ItemStatus, candidate \in 0 .. MaxBatches :
                     /\ Recordable(s, candidate)
                     /\ item' = [item EXCEPT ![s.claim] = Records(@, status, candidate)]
        BY <3>2, <3>3, <4>2, <4>4
      <4> QED
        BY <4>1, <4>3, <4>4
  <2>2. duplicate' = duplicate /\ issued' = issued
    BY <1>3 DEF RecordResult
  <2>3. ASSUME NEW k \in Claim
        PROVE  (item'[k] # None <=> item[k] # None)
               /\ (item[k] # None => item'[k].submission = item[k].submission)
    <3>1. CASE k # s.claim
      BY <1>0, <2>1, <3>1
    <3>2. CASE k = s.claim
      <4>1. item[k] # None /\ item[k] \in Item /\ item'[k] = Records(item[k], status, candidate)
        BY <1>0, <2>1, <3>2 DEF Recordable
      <4>2. Records(item[k], status, candidate) \in Item
            /\ Records(item[k], status, candidate).submission = item[k].submission
        BY <2>1, <4>1 DEF Records, Item
      <4> QED
        BY <4>1, <4>2
    <3> QED
      BY <3>1, <3>2
  <2> QED
    BY <2>2, <2>3 DEF Coverage, OneNumber
<1> QED
  BY <1>1, <1>2, <1>3
     DEF Next, vars, Decide, SubmitSlice, CommitSlice, SliceRefused, AllSubmitted, CutShort,
         RecoverPending, MovePendingAside, OtherEpisodeBuilt

(***************************************************************************)
(* What a build owes, and what reaches Git.                                *)
(***************************************************************************)
LEMMA OwedStep ==
  ASSUME Outbox, OwedAreFirst, [Next]_vars
  PROVE  OwedAreFirst'
<1> USE DEF Outbox, Typed
<1>0. build \in [Process -> Build \cup {None}]
  BY DEF TypeOK
<1> SUFFICES ASSUME NEW p \in Process, build'[p] # None, NEW s \in build'[p].owed
             PROVE  s = First(s.claim)
  BY DEF OwedAreFirst
<1>1. CASE build[p] # None /\ build'[p].owed \subseteq build[p].owed
  BY <1>1 DEF OwedAreFirst
<1>2. ASSUME NEW q \in Process, Prepare(q) PROVE s = First(s.claim)
  <2>1. CASE build'[p] = build[p]
    BY <1>1, <2>1
  <2>2. CASE build'[p] # build[p]
    <3>0. \/ build' = [build EXCEPT ![q] = None]
          \/ build' = [build EXCEPT ![q].step = "submitting",
               ![q].owed = {item'[k].submission : k \in Owed(q)}]
      BY <1>2 DEF Prepare, Return
    <3>1. p = q /\ s \in {item'[k].submission : k \in Owed(p)}
      <4>1. p = q
        BY <1>0, <2>2, <3>0
      <4>2. build'[p] = [build[p] EXCEPT !.step = "submitting",
               !.owed = {item'[k].submission : k \in Owed(p)}]
        BY <1>0, <3>0, <4>1
      <4>3. build[p] \in Build
        BY <1>0, <1>2, <4>1 DEF Prepare, Doing
      <4>4. build'[p].owed = {item'[k].submission : k \in Owed(p)}
        BY <4>2, <4>3 DEF Build
      <4> QED
        BY <4>1, <4>4
    <3>2. PICK k \in Claim : item'[k] # None /\ s = item'[k].submission
      BY <3>1 DEF Owed
    <3>3. s = First(k)
      BY <3>2, OutboxStep DEF OneNumber
    <3> QED
      BY <3>3 DEF First
  <2> QED
    BY <2>1, <2>2
<1>3. ASSUME NEW q \in Process, NEW drafted \in SUBSET Claim, Decide(q, drafted)
      PROVE  s = First(s.claim)
  <2>1. CASE p = q
    BY <1>0, <1>3, <2>1 DEF Decide
  <2>2. CASE p # q
    BY <1>0, <1>1, <1>3, <2>2 DEF Decide
  <2> QED
    BY <2>1, <2>2
<1>4. ASSUME NEW q \in Process, NEW slice \in Slices(q), build[q] # None, SubmitSlice(q, slice)
      PROVE  build[p] # None /\ build'[p].owed \subseteq build[p].owed
  BY <1>0, <1>4 DEF SubmitSlice, Build
<1>5. ASSUME NEW q \in Process, NEW slice \in Slices(q), build[q] # None, SliceRefused(q, slice)
      PROVE  build[p] # None /\ build'[p].owed \subseteq build[p].owed
  BY <1>0, <1>5 DEF SliceRefused, Build
<1>6. ASSUME NEW q \in Process, CommitSlice(q)
      PROVE  build[p] # None /\ build'[p].owed \subseteq build[p].owed
  BY <1>0, <1>6 DEF CommitSlice, Build, Doing
<1>7. ASSUME NEW q \in Process, AllSubmitted(q) \/ CutShort(q)
      PROVE  build[p] # None /\ build'[p].owed \subseteq build[p].owed
  BY <1>0, <1>7 DEF AllSubmitted, Build, CutShort, Return, Doing
<1>8. ASSUME NEW q \in Process, RecordResult(q)
      PROVE  build[p] # None /\ build'[p].owed \subseteq build[p].owed
  <2>1. \/ build' = [build EXCEPT ![q] = None]
        \/ \E t : build' = [build EXCEPT ![q].found = {e \in @ : e.submission # t}, ![q].failed = @ \ {t}]
    BY <1>8 DEF RecordResult, Record, Return
  <2> QED
    BY <1>0, <1>8, <2>1 DEF Build, RecordResult, Doing
<1>9. CASE UNCHANGED build
  BY <1>1, <1>9
<1> QED
  BY <1>1, <1>2, <1>3, <1>4, <1>5, <1>6, <1>7, <1>8, <1>9
     DEF Next, vars, RecoverPending, MovePendingAside, OtherEpisodeBuilt

\* What may be on its way to Git, or in it, after a step.
LEMMA EventsStep ==
  ASSUME Outbox, [Next]_vars
  PROVE  \/ Events' \subseteq Events
         \/ \E p \in Process : build[p] # None /\ \E slice \in Slices(p) :
              /\ SubmitSlice(p, slice)
              /\ Events' \subseteq Events \cup
                   {[submission |-> s, candidate |-> batches + 1] : s \in Unwritten(slice)}
<1>1. ASSUME NEW p \in Process, NEW slice \in Slices(p), build[p] # None, SubmitSlice(p, slice)
      PROVE  Events' \subseteq Events \cup
               {[submission |-> s, candidate |-> batches + 1] : s \in Unwritten(slice)}
  <2> DEFINE new == [id |-> batches + 1, events |->
                 {[submission |-> s, candidate |-> batches + 1] : s \in Unwritten(slice)}]
  <2>1. git' = git \cup journals /\ (journals' = {} \/ journals' = {new})
    BY <1>1 DEF SubmitSlice
  <2>2. ASSUME NEW b \in journals' \cup git' PROVE b \in journals \cup git \/ b = new
    BY <2>1
  <2> QED
    BY <2>2 DEF Events
<1>2. ASSUME journals' \cup git' \subseteq journals \cup git PROVE Events' \subseteq Events
  BY <1>2 DEF Events
<1>3. ASSUME NEW p \in Process, CommitSlice(p) PROVE journals' \cup git' \subseteq journals \cup git
  BY <1>3 DEF CommitSlice
<1>4. CASE RecoverPending
  BY <1>2, <1>4 DEF RecoverPending
<1>5. ASSUME NEW b \in journals, MovePendingAside(b) PROVE journals' \cup git' \subseteq journals \cup git
  BY <1>5 DEF MovePendingAside
<1>6. CASE UNCHANGED <<journals, git>>
  BY <1>2, <1>6
<1> QED
  BY <1>1, <1>2, <1>3, <1>4, <1>5, <1>6
     DEF Next, vars, store, Decide, Prepare, SliceRefused, AllSubmitted, RecordResult, CutShort,
         OtherEpisodeBuilt

\* A SubmissionId is looked up among everything that is pending or committed
\* before an Event of it is made.
LEMMA OneEventStep ==
  ASSUME Outbox, OwedAreFirst, EventsAreFirst, OneEventPerSubmission, [Next]_vars
  PROVE  EventsAreFirst' /\ OneEventPerSubmission'
<1>1. CASE Events' \subseteq Events
  BY <1>1 DEF EventsAreFirst, OneEventPerSubmission
<1>2. ASSUME NEW p \in Process, build[p] # None, NEW slice \in Slices(p), SubmitSlice(p, slice),
             Events' \subseteq Events \cup
               {[submission |-> s, candidate |-> batches + 1] : s \in Unwritten(slice)}
      PROVE  EventsAreFirst' /\ OneEventPerSubmission'
  <2>1. \A s \in Unwritten(slice) : s = First(s.claim)
    BY <1>2 DEF Slices, Unwritten, OwedAreFirst
  <2>2. ASSUME NEW s \in Unwritten(slice), NEW e \in Events PROVE e.submission # s
    <3>1. git' = git \cup journals
      BY <1>2 DEF SubmitSlice
    <3>2. e \in Written'
      BY <3>1 DEF Events, Written
    <3> QED
      BY <3>2 DEF Unwritten, Submitted
  <2>3. ASSUME NEW e \in Events'
        PROVE  \/ e \in Events
               \/ e.submission \in Unwritten(slice) /\ e.candidate = batches + 1
                  /\ e = [submission |-> e.submission, candidate |-> batches + 1]
    BY <1>2
  <2>4. EventsAreFirst'
    BY <2>1, <2>3 DEF EventsAreFirst
  <2>5. OneEventPerSubmission'
    BY <2>2, <2>3 DEF OneEventPerSubmission
  <2> QED
    BY <2>4, <2>5
<1> QED
  BY <1>1, <1>2, EventsStep

(***************************************************************************)
(* Together.                                                               *)
(***************************************************************************)
LEMMA BInvStep == BInv /\ [Next]_vars => BInv'
<1> SUFFICES ASSUME BInv, [Next]_vars PROVE BInv'
  OBVIOUS
<1>1. Outbox /\ OwedAreFirst /\ EventsAreFirst /\ OneEventPerSubmission
  BY DEF BInv, Outbox, Typed
<1>2. Typed' /\ Coverage' /\ OneNumber'
  BY <1>1, TypedStep, OutboxStep DEF Outbox
<1>3. OwedAreFirst' /\ EventsAreFirst' /\ OneEventPerSubmission'
  BY <1>1, OwedStep, OneEventStep
<1> QED
  BY <1>2, <1>3 DEF BInv, Typed

LEMMA Invariance == Spec => []BInv
  BY BInvInit, BInvStep, PTL DEF Spec

LEMMA OneEventPerClaim ==
  ASSUME BInv, NEW k \in Claim
  PROVE  Cardinality({e \in Written : e.submission.claim = k}) <= 1
<1> DEFINE S == {e \in Written : e.submission.claim = k}
<1>1. \A e \in Written : e \in Events
  BY DEF Written, Events
<1>2. \A x, y \in S : x = y
  BY <1>1 DEF BInv, EventsAreFirst, OneEventPerSubmission
<1>3. CASE S = {}
  <2>1. Cardinality(S) = 0
    BY <1>3, FS_EmptySet
  <2> QED
    BY <2>1
<1>4. ASSUME NEW x \in S PROVE Cardinality(S) <= 1
  <2> HIDE DEF S
  <2>1. S = {x}
    BY <1>2, <1>4
  <2>2. Cardinality({x}) = 1
    BY FS_Singleton
  <2> QED
    BY <2>1, <2>2
<1> QED
  BY <1>3, <1>4

\* A decision of the outbox stays as it is.
LEMMA DecisionKept ==
  ASSUME BInv, [Next]_vars
  PROVE  /\ duplicate \subseteq duplicate'
         /\ \A k \in Claim : Finalized(k) => item'[k] = item[k]
<1>0. item \in [Claim -> Item \cup {None}]
  BY DEF BInv, TypeOK
<1>1. CASE UNCHANGED outbox
  BY <1>1 DEF outbox
<1>2. ASSUME NEW p \in Process, Prepare(p), ~UNCHANGED outbox
      PROVE  /\ duplicate \subseteq duplicate'
             /\ \A k \in Claim : Finalized(k) => item'[k] = item[k]
  <2>1. /\ item' = [k \in Claim |->
               IF k \in Prepared(p) THEN Refreshed(p, k)
               ELSE IF k \in Released(p) THEN None ELSE item[k]]
        /\ duplicate' = duplicate \cup Released(p)
    BY <1>2 DEF Prepare
  <2>2. ASSUME NEW k \in Claim, Finalized(k) PROVE item'[k] = item[k]
    <3>1. k \notin Released(p) /\ k \in Kept(p)
      BY <2>2 DEF Released, Kept, Finalized
    <3>2. Refreshed(p, k) = item[k]
      BY <2>2, <3>1 DEF Refreshed
    <3> QED
      BY <2>1, <3>1, <3>2
  <2> QED
    BY <2>1, <2>2
<1>3. ASSUME NEW p \in Process, RecordResult(p)
      PROVE  /\ duplicate \subseteq duplicate'
             /\ \A k \in Claim : Finalized(k) => item'[k] = item[k]
  <2>1. \/ item' = item
        \/ \E s, status, candidate : item' = [item EXCEPT ![s.claim] = Records(@, status, candidate)]
    BY <1>3 DEF RecordResult, Record
  <2>2. duplicate' = duplicate
    BY <1>3 DEF RecordResult
  <2>3. ASSUME NEW s, NEW status, NEW candidate, NEW k \in Claim, Finalized(k),
               item' = [item EXCEPT ![s.claim] = Records(@, status, candidate)]
        PROVE  item'[k] = item[k]
    <3>1. Records(item[k], status, candidate) = item[k]
      BY <2>3 DEF Finalized, Records
    <3>2. item'[k] = IF k = s.claim THEN Records(item[k], status, candidate) ELSE item[k]
      BY <1>0, <2>3
    <3> QED
      BY <3>1, <3>2
  <2> QED
    BY <2>1, <2>2, <2>3
<1>4. ASSUME NEW p \in Process,
             \/ \E drafted \in SUBSET Claim : Decide(p, drafted)
             \/ \E slice \in Slices(p) : SubmitSlice(p, slice) \/ SliceRefused(p, slice)
             \/ CommitSlice(p) \/ AllSubmitted(p) \/ CutShort(p)
      PROVE  UNCHANGED outbox
  BY <1>4 DEF Decide, SubmitSlice, CommitSlice, SliceRefused, AllSubmitted, CutShort
<1>5. CASE \/ RecoverPending \/ \E b \in journals : MovePendingAside(b)
           \/ \E k \in Claim : OtherEpisodeBuilt(k)
  BY <1>1, <1>5 DEF RecoverPending, MovePendingAside, OtherEpisodeBuilt
<1>6. CASE UNCHANGED vars
  BY <1>1, <1>6 DEF vars
<1> QED
  BY <1>1, <1>2, <1>3, <1>4, <1>5, <1>6 DEF Next

(***************************************************************************)
(* The theorems.                                                           *)
(***************************************************************************)
\* Every row, build and batch keeps its type, and whoever holds
\* candidate-writer.lock is submitting.
THEOREM BuildTypeCorrect == Spec => []TypeOK
<1>1. BInv => TypeOK
  BY DEF BInv
<1> QED
  BY <1>1, Invariance, PTL

\* However many builds overlap and fail, each Claim is in the outbox or a
\* recorded duplicate (prepare_candidate_build_with_duplicates), and Git never
\* holds two Candidates of it (submit_candidate_requests_locked).
THEOREM OneFateAlways == Spec => []OneFatePerClaim
<1>1. BInv => OneFatePerClaim
  BY OneEventPerClaim DEF BInv, Coverage, OneFatePerClaim
<1> QED
  BY <1>1, Invariance, PTL

\* No build revises a finalized item or a duplicate
\* (upsert_candidate_build_items, record_candidate_build_item_result_at).
THEOREM DecisionsAlwaysKept == Spec => DecisionsAreKept
<1>1. BInv /\ [Next]_vars =>
        [/\ duplicate \subseteq duplicate'
         /\ \A k \in Claim : Finalized(k) => item'[k] = item[k]]_outbox
  BY DecisionKept
<1> QED
  BY <1>1, Invariance, PTL DEF Spec, DecisionsAreKept
=============================================================================
