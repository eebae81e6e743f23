---------------------------- MODULE ReducerProofs ----------------------------
(***************************************************************************)
(* Theorems about Reducer, for every set of batches: any number of Events, *)
(* clones, Spaces and Contexts, and any order of arrival.                  *)
(***************************************************************************)
EXTENDS Reducer, FiniteSetTheorems, TLAPS

(***************************************************************************)
(* The phases of Reduce by name.                                           *)
(***************************************************************************)
Spaces(L) == ValidSpaces(L, Disputed(L))
Intents(L) == IntentCandidates(L, Disputed(L), Spaces(L))
Drafts(L) == RevisionCandidates(L, Disputed(L), Spaces(L))
Revisions(L) == Related(Causal(Drafts(L)))
Reviews(L) == ValidReviews(L, Disputed(L), Revisions(L))
Submitted(L) == PublicationCandidates(L, Disputed(L), Revisions(L), Reviews(L))
Publications(L) == Causal(Submitted(L))
Linked(L) == AssociationCandidates(L, Disputed(L), Spaces(L), Revisions(L))
Associations(L) == Causal(Linked(L))
Confirmations(L) ==
  ValidConfirmations(L, Disputed(L), Spaces(L), Revisions(L), Publications(L), Associations(L))
Conflicts(L) == ValidConflicts(L, Disputed(L), Revisions(L), Publications(L))
Settled(L) ==
  ResolutionCandidates(L, Disputed(L), Revisions(L), Publications(L), Conflicts(L))
Resolutions(L) == Causal(Settled(L))
References(L) == ValidReferences(L, Disputed(L), Revisions(L))
Candidates(L) == Fresh(Of(L, {"candidate"}), Disputed(L))

Accepted(L) ==
  Causal(Intents(L)) \cup Revisions(L) \cup Reviews(L) \cup Publications(L)
    \cup Associations(L) \cup Confirmations(L) \cup Conflicts(L) \cup Resolutions(L)
    \cup References(L) \cup Candidates(L)
Quarantined(L) ==
  Diagnosed(L, Disputed(L), Spaces(L), Intents(L) \cup Drafts(L), Accepted(L))

LEMMA ReduceByPhases ==
  ASSUME NEW L
  PROVE  /\ Reduce(L).spaces = Spaces(L)
         /\ Reduce(L).accepted = Accepted(L)
         /\ Reduce(L).disputed = Disputed(L)
         /\ Reduce(L).quarantined = Quarantined(L)
  BY Zenon DEF Reduce, Spaces, Intents, Drafts, Revisions, Reviews, Submitted, Publications, Linked,
     Associations, Confirmations, Conflicts, Settled, Resolutions, References, Candidates,
     Accepted, Quarantined

(***************************************************************************)
(* The fixed points.                                                       *)
(***************************************************************************)
\* More Events around satisfy no fewer parents.
LEMMA ParentsMonotone ==
  ASSUME NEW S, NEW T, S \subseteq T, NEW e, HasParents(e, S)
  PROVE  HasParents(e, T)
  BY DEF HasParents

LEMMA CausalIsPart ==
  ASSUME NEW E
  PROVE  Causal(E) \subseteq E
  BY DEF Causal

\* What validate_dag leaves has its parents among what it leaves.
LEMMA CausalHasParents ==
  ASSUME NEW E, NEW e \in Causal(E)
  PROVE  HasParents(e, Causal(E))
  <1> DEFINE C == Causal(E)
             S == {d \in E : HasParents(d, C)}
  <1>1. ASSUME NEW d \in E, HasParents(d, C)
        PROVE  d \in C
    <2>1. SUFFICES ASSUME NEW T \in SUBSET E, Closed(T, E)
                   PROVE  d \in T
      BY DEF Causal
    <2>2. C \subseteq T
      BY <2>1 DEF Causal
    <2>3. HasParents(d, T)
      BY <1>1, <2>2, ParentsMonotone
    <2>4. QED
      BY <2>1, <2>3 DEF Closed
  <1>2. S \subseteq C
    BY <1>1
  <1>3. Closed(S, E)
    <2>1. SUFFICES ASSUME NEW d \in E, HasParents(d, S)
                   PROVE  d \in S
      BY DEF Closed
    <2>2. HasParents(d, C)
      BY <1>2, <2>1, ParentsMonotone
    <2>3. QED
      BY <2>2
  <1>4. e \in S
    BY <1>3 DEF Causal
  <1>5. QED
    BY <1>4

LEMMA RelatedIsPart ==
  ASSUME NEW R
  PROVE  Related(R) \subseteq R
  BY DEF Related

\* The union of sets whose relations hold inside is one of them.
LEMMA RelatedHolds ==
  ASSUME NEW R
  PROVE  RelationsHold(Related(R))
  <1> SUFFICES ASSUME NEW e \in Related(R)
               PROVE  /\ \A t \in e.relations :
                            t # e.context /\ \E d \in Related(R) : d.context = t
                      /\ HasParents(e, Related(R))
    BY DEF RelationsHold
  <1>1. PICK K \in SUBSET R : RelationsHold(K) /\ e \in K
    BY DEF Related
  <1>2. K \subseteq Related(R)
    BY <1>1 DEF Related
  <1>3. HasParents(e, K)
    BY <1>1 DEF RelationsHold
  <1>4. HasParents(e, Related(R))
    BY <1>2, <1>3, ParentsMonotone
  <1>5. ASSUME NEW t \in e.relations
        PROVE  t # e.context /\ \E d \in Related(R) : d.context = t
    BY <1>1, <1>2 DEF RelationsHold
  <1>6. QED
    BY <1>4, <1>5

(***************************************************************************)
(* Which part of the projection an Event of a kind is in.                  *)
(***************************************************************************)
LEMMA PartKinds ==
  ASSUME NEW L
  PROVE  /\ Causal(Intents(L)) \subseteq Fresh(Of(L, Intentional), Disputed(L))
         /\ Revisions(L) \subseteq Fresh(Of(L, {"revision"}), Disputed(L))
         /\ Reviews(L) \subseteq Fresh(Of(L, {"review"}), Disputed(L))
         /\ Publications(L) \subseteq Fresh(Of(L, {"publication"}), Disputed(L))
         /\ Associations(L) \subseteq Fresh(Of(L, {"association"}), Disputed(L))
         /\ Confirmations(L) \subseteq Fresh(Of(L, {"confirmed"}), Disputed(L))
         /\ Conflicts(L) \subseteq Fresh(Of(L, {"conflict"}), Disputed(L))
         /\ Resolutions(L) \subseteq Fresh(Of(L, {"resolution"}), Disputed(L))
         /\ References(L) \subseteq Fresh(Of(L, {"reference"}), Disputed(L))
         /\ Candidates(L) \subseteq Fresh(Of(L, {"candidate"}), Disputed(L))
  <1>1. Causal(Intents(L)) \subseteq Fresh(Of(L, Intentional), Disputed(L))
    BY CausalIsPart DEF Intents, IntentCandidates
  <1>2. Revisions(L) \subseteq Fresh(Of(L, {"revision"}), Disputed(L))
    <2>1. Drafts(L) \subseteq Fresh(Of(L, {"revision"}), Disputed(L))
      BY DEF Drafts, RevisionCandidates
    <2>2. QED
      BY <2>1, CausalIsPart, RelatedIsPart DEF Revisions
  <1>3. Reviews(L) \subseteq Fresh(Of(L, {"review"}), Disputed(L))
    BY DEF Reviews, ValidReviews
  <1>4. Publications(L) \subseteq Fresh(Of(L, {"publication"}), Disputed(L))
    BY CausalIsPart DEF Publications, Submitted, PublicationCandidates
  <1>5. Associations(L) \subseteq Fresh(Of(L, {"association"}), Disputed(L))
    BY CausalIsPart DEF Associations, Linked, AssociationCandidates
  <1>6. Confirmations(L) \subseteq Fresh(Of(L, {"confirmed"}), Disputed(L))
    BY DEF Confirmations, ValidConfirmations
  <1>7. Conflicts(L) \subseteq Fresh(Of(L, {"conflict"}), Disputed(L))
    BY DEF Conflicts, ValidConflicts
  <1>8. Resolutions(L) \subseteq Fresh(Of(L, {"resolution"}), Disputed(L))
    BY CausalIsPart DEF Resolutions, Settled, ResolutionCandidates
  <1>9. References(L) \subseteq Fresh(Of(L, {"reference"}), Disputed(L))
    BY DEF References, ValidReferences
  <1>10. QED
    BY <1>1, <1>2, <1>3, <1>4, <1>5, <1>6, <1>7, <1>8, <1>9 DEF Candidates

\* Whatever is projected is in the log and undisputed, and its kind says in which part it is.
LEMMA AcceptedByKind ==
  ASSUME NEW L, NEW e \in Accepted(L)
  PROVE  /\ e \in L /\ e.eid \notin Disputed(L) /\ e.kind \in Kinds
         /\ e.kind \in Intentional => e \in Causal(Intents(L))
         /\ e.kind = "revision" => e \in Revisions(L)
         /\ e.kind = "review" => e \in Reviews(L)
         /\ e.kind = "publication" => e \in Publications(L)
         /\ e.kind = "association" => e \in Associations(L)
         /\ e.kind = "confirmed" => e \in Confirmations(L)
         /\ e.kind = "conflict" => e \in Conflicts(L)
         /\ e.kind = "resolution" => e \in Resolutions(L)
         /\ e.kind = "reference" => e \in References(L)
         /\ e.kind = "candidate" => e \in Candidates(L)
  <1> USE DEF Fresh, Of, Intentional, Kinds
  <1>1. CASE e \in Causal(Intents(L))
    BY <1>1, PartKinds
  <1>2. CASE e \in Revisions(L)
    BY <1>2, PartKinds
  <1>3. CASE e \in Reviews(L)
    BY <1>3, PartKinds
  <1>4. CASE e \in Publications(L)
    BY <1>4, PartKinds
  <1>5. CASE e \in Associations(L)
    BY <1>5, PartKinds
  <1>6. CASE e \in Confirmations(L)
    BY <1>6, PartKinds
  <1>7. CASE e \in Conflicts(L)
    BY <1>7, PartKinds
  <1>8. CASE e \in Resolutions(L)
    BY <1>8, PartKinds
  <1>9. CASE e \in References(L)
    BY <1>9, PartKinds
  <1>10. CASE e \in Candidates(L)
    BY <1>10, PartKinds
  <1>11. QED
    BY <1>1, <1>2, <1>3, <1>4, <1>5, <1>6, <1>7, <1>8, <1>9, <1>10 DEF Accepted

\* A revision that is projected lives in a valid Space that alone claims its Context.
LEMMA RevisionHome ==
  ASSUME NEW L, NEW r \in Revisions(L)
  PROVE  r.space \in Spaces(L) /\ Owners(L, r.context) = {r.space}
  <1>1. r \in Drafts(L)
    BY CausalIsPart, RelatedIsPart DEF Revisions
  <1>2. QED
    BY <1>1 DEF Drafts, RevisionCandidates

(***************************************************************************)
(* The projection is that of the log, whatever came before.                *)
(***************************************************************************)
Current ==
  /\ log \subseteq UNION Batches
  /\ projection = Reduce(log)

\* The state after any order of arrivals is a function of what arrived (reduce takes the whole
\* set of Events of the current tree).
LEMMA ProjectionIsCurrent == Spec => []Current
  <1>1. Init => Current
    BY DEF Init, Current
  <1>2. Current /\ [Next]_vars => Current'
    <2> SUFFICES ASSUME Current, [Next]_vars
                 PROVE  Current'
      OBVIOUS
    <2>1. ASSUME NEW batch \in Batches, Arrive(batch)
          PROVE  Current'
      BY <2>1 DEF Current, Arrive
    <2>2. CASE UNCHANGED vars
      BY <2>2 DEF Current, vars
    <2>3. QED
      BY <2>1, <2>2 DEF Next
  <1>3. QED
    BY <1>1, <1>2, PTL DEF Spec

\* A step leaves the log as it is or adds to it.
LEMMA LogGrows == [Next]_vars => log \subseteq log'
  BY DEF Next, Arrive, vars

(***************************************************************************)
(* Nothing dangles.                                                        *)
(***************************************************************************)
\* A parent found in a part of the projection is found in the projection.
LEMMA ParentsIn ==
  ASSUME NEW L, NEW part, NEW kinds, part \subseteq Of(Accepted(L), kinds),
         NEW e, HasParents(e, part)
  PROVE  \A p \in e.parents : \E d \in Of(Accepted(L), kinds) : d.id = p
  BY DEF HasParents

LEMMA PartsOfAccepted ==
  ASSUME NEW L
  PROVE  /\ Causal(Intents(L)) \subseteq Of(Accepted(L), Intentional)
         /\ Revisions(L) \subseteq Of(Accepted(L), {"revision"})
         /\ Reviews(L) \subseteq Of(Accepted(L), {"review"})
         /\ Publications(L) \subseteq Of(Accepted(L), {"publication"})
         /\ Associations(L) \subseteq Of(Accepted(L), {"association"})
         /\ Conflicts(L) \subseteq Of(Accepted(L), {"conflict"})
         /\ Resolutions(L) \subseteq Of(Accepted(L), {"resolution"})
         /\ Candidates(L) \subseteq Of(Accepted(L), {"candidate"})
  BY PartKinds DEF Accepted, Of, Fresh

\* What is projected refers only to what is projected (validate_dag, validate_context_relations
\* and the checks of each phase of reduce).
THEOREM NothingEverDangles == Spec => []NothingDangles
  <1>1. Current => NothingDangles
    <2> SUFFICES ASSUME Current
                 PROVE  NothingDangles
      OBVIOUS
    <2> DEFINE V == Accepted(log)
               Has(kinds, id) == \E d \in Of(V, kinds) : d.id = id
    <2>0. projection.accepted = V
      BY ReduceByPhases DEF Current
    <2>1. ASSUME NEW e \in V, e.kind \in Intentional
          PROVE  \A p \in e.parents : Has(Intentional, p)
      <3>1. HasParents(e, Causal(Intents(log)))
        BY <2>1, AcceptedByKind, CausalHasParents
      <3>2. QED
        BY <3>1, ParentsIn, PartsOfAccepted
    <2>2. ASSUME NEW e \in V, e.kind = "revision"
          PROVE  /\ \A p \in e.parents : Has({"revision"}, p)
                 /\ \A c \in e.relations : \E d \in Of(V, {"revision"}) : d.context = c
      <3>1. e \in Revisions(log)
        BY <2>2, AcceptedByKind
      <3>2. RelationsHold(Revisions(log))
        BY RelatedHolds DEF Revisions
      <3>3. HasParents(e, Revisions(log))
        BY <3>1, <3>2 DEF RelationsHold
      <3>4. \A p \in e.parents : Has({"revision"}, p)
        BY <3>3, ParentsIn, PartsOfAccepted
      <3>5. \A c \in e.relations : \E d \in Revisions(log) : d.context = c
        BY <3>1, <3>2 DEF RelationsHold
      <3>6. QED
        BY <3>4, <3>5, PartsOfAccepted
    <2>3. ASSUME NEW e, Holds(Revisions(log), e)
          PROVE  Has({"revision"}, e.revision)
      BY <2>3, PartsOfAccepted DEF Holds
    <2>4. ASSUME NEW e \in V, e.kind = "review"
          PROVE  Has({"revision"}, e.revision)
      <3>1. Holds(Revisions(log), e)
        BY <2>4, AcceptedByKind DEF Reviews, ValidReviews
      <3>2. QED
        BY <2>3, <3>1
    <2>5. ASSUME NEW e \in V, e.kind = "publication"
          PROVE  /\ Has({"revision"}, e.revision)
                 /\ \A p \in e.parents : Has({"publication"}, p)
                 /\ \A v \in e.reviews : \E d \in Of(V, {"review"}) : d.eid = v
      <3>1. e \in Publications(log)
        BY <2>5, AcceptedByKind
      <3>2. HasParents(e, Publications(log)) /\ e \in Submitted(log)
        BY <3>1, CausalHasParents, CausalIsPart DEF Publications
      <3>3. Holds(Revisions(log), e)
        BY <3>2 DEF Submitted, PublicationCandidates
      <3>4. \A v \in e.reviews : \E d \in Reviews(log) : d.eid = v
        BY <3>2 DEF Submitted, PublicationCandidates
      <3>5. \A v \in e.reviews : \E d \in Of(V, {"review"}) : d.eid = v
        BY <3>4, PartsOfAccepted
      <3>6. \A p \in e.parents : Has({"publication"}, p)
        BY <3>2, ParentsIn, PartsOfAccepted
      <3>7. QED
        BY <2>3, <3>3, <3>5, <3>6
    <2>6. ASSUME NEW e \in V, e.kind = "association"
          PROVE  \A p \in e.parents : Has({"association"}, p)
      <3>1. HasParents(e, Associations(log))
        BY <2>6, AcceptedByKind, CausalHasParents DEF Associations
      <3>2. QED
        BY <3>1, ParentsIn, PartsOfAccepted
    <2>7. ASSUME NEW e \in V, e.kind = "confirmed"
          PROVE  /\ Has({"candidate"}, e.candidate) /\ Has({"association"}, e.association)
                 /\ Has({"revision"}, e.revision) /\ Has({"publication"}, e.publication)
      <3>1. ConfirmationHolds(log, Disputed(log), Spaces(log), Revisions(log),
                              Publications(log), Associations(log), e)
        BY <2>7, AcceptedByKind DEF Confirmations, ValidConfirmations
      <3>2. \E c \in Candidates(log), r \in Revisions(log) : c.id = e.candidate /\ r.id = e.revision
        BY <3>1 DEF ConfirmationHolds, Candidates
      <3>3. \E a \in Associations(log) : a.id = e.association
        BY <3>1 DEF ConfirmationHolds
      <3>4. \E p \in Publications(log) : p.id = e.publication
        BY <3>1 DEF ConfirmationHolds
      <3>5. QED
        BY <3>2, <3>3, <3>4, PartsOfAccepted
    <2>8. ASSUME NEW e \in V, e.kind = "reference"
          PROVE  Has({"revision"}, e.revision)
      <3>1. \E r \in Revisions(log) : r.id = e.revision
        BY <2>8, AcceptedByKind DEF References, ValidReferences
      <3>2. QED
        BY <3>1, PartsOfAccepted
    <2>9. ASSUME NEW e \in V, e.kind = "conflict"
          PROVE  \A p \in e.participants : Has({"publication"}, p.publication)
      <3>1. ConflictHolds(Revisions(log), Publications(log), e)
        BY <2>9, AcceptedByKind DEF Conflicts, ValidConflicts
      <3>2. \A p \in e.participants : \E q \in Publications(log) : q.id = p.publication
        BY <3>1 DEF ConflictHolds
      <3>3. QED
        BY <3>2, PartsOfAccepted
    <2>10. ASSUME NEW e \in V, e.kind = "resolution"
           PROVE  /\ Has({"conflict"}, e.conflict)
                  /\ \A p \in e.parents : Has({"resolution"}, p)
                  /\ \A p \in e.related : Has({"publication"}, p)
      <3>1. e \in Resolutions(log)
        BY <2>10, AcceptedByKind
      <3>2. HasParents(e, Resolutions(log)) /\ e \in Settled(log)
        BY <3>1, CausalHasParents, CausalIsPart DEF Resolutions
      <3>3. PICK f \in Conflicts(log) :
               /\ f.id = e.conflict
               /\ \A q \in e.related : \E p \in Publications(log) : p.id = q
        BY <3>2 DEF Settled, ResolutionCandidates
      <3>4. \A p \in e.parents : Has({"resolution"}, p)
        BY <3>2, ParentsIn, PartsOfAccepted
      <3>5. QED
        BY <3>3, <3>4, PartsOfAccepted
    <2>11. QED
      BY <2>0, <2>1, <2>2, <2>4, <2>5, <2>6, <2>7, <2>8, <2>9, <2>10 DEF NothingDangles
  <1>2. QED
    BY <1>1, ProjectionIsCurrent, PTL

(***************************************************************************)
(* Nothing is decided by the order of arrival.                             *)
(***************************************************************************)
LEMMA DisputesLast ==
  ASSUME NEW L, NEW M, L \subseteq M
  PROVE  Disputed(L) \subseteq Disputed(M)
  BY DEF Disputed, EventIds

LEMMA ClaimsLast ==
  ASSUME NEW L, NEW M, L \subseteq M, NEW c
  PROVE  Owners(L, c) \subseteq Owners(M, c)
  BY DEF Owners

\* A claim is made by the Event itself.
LEMMA ClaimIsCounted ==
  ASSUME NEW L, NEW e \in L, NEW c \in Claims(e)
  PROVE  e.space \in Owners(L, c)
  BY DEF Owners

\* What the claims of an Event are, by its kind.
LEMMA ClaimsByKind ==
  ASSUME NEW e
  PROVE  /\ e.kind \in {"revision", "review", "publication"} => Claims(e) = {e.context}
         /\ e.kind = "conflict" => Claims(e) = {p.context : p \in e.participants}
         /\ e.kind = "resolution" => Claims(e) = {r.context : r \in e.results}
         /\ e.kind \notin {"revision", "review", "publication", "conflict", "resolution"}
               => Claims(e) = {}
  BY DEF Claims

\* A projected Event claims only Contexts that one Space owns.
LEMMA ClaimsAreOwned ==
  ASSUME NEW L, NEW e \in Accepted(L), NEW c \in Claims(e)
  PROVE  \E r \in Revisions(L) : r.context = c
  <1>1. CASE e.kind = "revision"
    BY <1>1, AcceptedByKind, ClaimsByKind
  <1>2. CASE e.kind = "review"
    <2>1. Holds(Revisions(L), e)
      BY <1>2, AcceptedByKind DEF Reviews, ValidReviews
    <2>2. QED
      BY <1>2, <2>1, ClaimsByKind DEF Holds
  <1>3. CASE e.kind = "publication"
    <2>1. e \in Submitted(L)
      BY <1>3, AcceptedByKind, CausalIsPart DEF Publications
    <2>2. Holds(Revisions(L), e)
      BY <2>1 DEF Submitted, PublicationCandidates
    <2>3. QED
      BY <1>3, <2>2, ClaimsByKind DEF Holds
  <1>4. CASE e.kind = "conflict"
    <2>1. ConflictHolds(Revisions(L), Publications(L), e)
      BY <1>4, AcceptedByKind DEF Conflicts, ValidConflicts
    <2>2. PICK p \in e.participants : p.context = c
      BY <1>4, ClaimsByKind
    <2>3. {r \in Revisions(L) : r.space = e.space /\ r.context = p.context /\ r.id = p.revision} # {}
      BY <2>1, <2>2 DEF ConflictHolds
    <2>4. QED
      BY <2>2, <2>3
  <1>5. CASE e.kind = "resolution"
    <2>1. e \in Settled(L)
      BY <1>5, AcceptedByKind, CausalIsPart DEF Resolutions
    <2>2. \A r \in e.results : \E d \in Revisions(L) : d.context = r.context
      BY <2>1 DEF Settled, ResolutionCandidates
    <2>3. QED
      BY <1>5, <2>2, ClaimsByKind
  <1>6. QED
    BY <1>1, <1>2, <1>3, <1>4, <1>5, ClaimsByKind

LEMMA NoProjectedClaimIsAmbiguous ==
  ASSUME NEW L, NEW e \in Accepted(L), NEW c \in Claims(e)
  PROVE  ~ Ambiguous(L, c)
  BY ClaimsAreOwned, RevisionHome DEF Ambiguous

\* No later Event decides between two definitions of one identity, or between two Spaces that
\* claim one Context (the definition maps and context_owners of reduce).
THEOREM NoWinnerIsEverPicked == Spec => NoWinnerIsPicked
  <1> DEFINE Step == /\ projection.disputed \cap EventIds(projection'.accepted) = {}
                     /\ \A e \in projection'.accepted : \A c \in Claims(e) : ~ Ambiguous(log, c)
  <1>1. Current /\ Current' /\ [Next]_vars => [Step]_vars
    <2> SUFFICES ASSUME Current, Current', [Next]_vars
                 PROVE  Step
      OBVIOUS
    <2>1. projection.disputed = Disputed(log) /\ projection'.accepted = Accepted(log')
      BY ReduceByPhases DEF Current
    <2>2. log \subseteq log'
      BY LogGrows
    <2>3. \A e \in Accepted(log') : e.eid \notin Disputed(log)
      BY <2>2, AcceptedByKind, DisputesLast
    <2>4. projection.disputed \cap EventIds(projection'.accepted) = {}
      BY <2>1, <2>3 DEF EventIds
    <2>5. ASSUME NEW e \in Accepted(log'), NEW c \in Claims(e)
          PROVE  ~ Ambiguous(log, c)
      <3>1. ~ Ambiguous(log', c)
        BY <2>5, NoProjectedClaimIsAmbiguous
      <3>2. QED
        BY <2>2, <3>1, ClaimsLast DEF Ambiguous
    <2>6. QED
      BY <2>1, <2>4, <2>5
  <1>2. QED
    BY <1>1, ProjectionIsCurrent, PTL DEF Spec, NoWinnerIsPicked

(***************************************************************************)
(* Every Event is accounted for.                                           *)
(***************************************************************************)
\* What the Spaces of an Event are, by its kind.
LEMMA SpacesByKind ==
  ASSUME NEW e, e.kind \in Kinds
  PROVE  /\ e.kind \in {"space", "candidate", "reference"} => UsedSpaces(e) = {}
         /\ e.kind = "association" => UsedSpaces(e) = {e.primary} \cup e.related
         /\ e.kind \in {"intent", "revision", "review", "publication", "conflict", "resolution"}
               => UsedSpaces(e) = {e.space}
  BY DEF UsedSpaces, Kinds, Intentional

\* A projected Event uses valid Spaces only, also where the phase that accepts it does not look.
LEMMA AcceptedHasSpaces ==
  ASSUME NEW L, NEW e \in Accepted(L),
         \A f \in L : f.kind = "conflict" => f.participants # {}
  PROVE  UsedSpaces(e) \subseteq Spaces(L)
  <1>1. e.kind \in Kinds
    BY AcceptedByKind
  <1>2. CASE e.kind \in {"space", "candidate", "reference"}
    BY <1>1, <1>2, SpacesByKind
  <1>3. CASE e.kind = "intent"
    <2>1. e \in Intents(L)
      BY <1>3, AcceptedByKind, CausalIsPart DEF Intentional
    <2>2. QED
      BY <1>1, <1>3, <2>1, SpacesByKind DEF Intents, IntentCandidates
  <1>4. CASE e.kind = "revision"
    BY <1>1, <1>4, AcceptedByKind, RevisionHome, SpacesByKind
  <1>5. CASE e.kind = "review"
    <2>1. Holds(Revisions(L), e)
      BY <1>5, AcceptedByKind DEF Reviews, ValidReviews
    <2>2. QED
      BY <1>1, <1>5, <2>1, RevisionHome, SpacesByKind DEF Holds
  <1>6. CASE e.kind = "publication"
    <2>1. e \in Submitted(L)
      BY <1>6, AcceptedByKind, CausalIsPart DEF Publications
    <2>2. Holds(Revisions(L), e)
      BY <2>1 DEF Submitted, PublicationCandidates
    <2>3. QED
      BY <1>1, <1>6, <2>2, RevisionHome, SpacesByKind DEF Holds
  <1>7. CASE e.kind = "association"
    <2>1. e \in Linked(L)
      BY <1>7, AcceptedByKind, CausalIsPart DEF Associations
    <2>2. QED
      BY <2>1 DEF Linked, AssociationCandidates
  <1>8. CASE e.kind = "confirmed"
    BY <1>8, AcceptedByKind DEF Confirmations, ValidConfirmations, ConfirmationHolds
  <1>9. ASSUME NEW f \in Conflicts(L)
        PROVE  f.participants # {} /\ f.space \in Spaces(L)
    <2>1. ConflictHolds(Revisions(L), Publications(L), f)
      BY <1>9 DEF Conflicts, ValidConflicts
    <2>2. PICK p \in f.participants : TRUE
      BY <1>9, PartKinds DEF Of, Fresh
    <2>3. {r \in Revisions(L) : r.space = f.space /\ r.context = p.context /\ r.id = p.revision} # {}
      BY <2>1, <2>2 DEF ConflictHolds
    <2>4. QED
      BY <2>2, <2>3, RevisionHome
  <1>10. CASE e.kind = "conflict"
    BY <1>1, <1>9, <1>10, AcceptedByKind, SpacesByKind
  <1>11. CASE e.kind = "resolution"
    <2>1. e \in Settled(L)
      BY <1>11, AcceptedByKind, CausalIsPart DEF Resolutions
    <2>2. PICK f \in Conflicts(L) : f.space = e.space /\ {r.context : r \in e.results} = Parties(f)
      BY <2>1 DEF Settled, ResolutionCandidates
    <2>3. \A r \in e.results : \E d \in Revisions(L) : d.space = e.space
      BY <2>1 DEF Settled, ResolutionCandidates
    <2>4. e.results # {}
      BY <1>9, <2>2 DEF Parties
    <2>5. QED
      BY <1>1, <1>11, <2>3, <2>4, RevisionHome, SpacesByKind
  <1>12. QED
    BY <1>1, <1>2, <1>3, <1>4, <1>5, <1>6, <1>7, <1>8, <1>10, <1>11 DEF Kinds, Intentional

\* What the schema accepts holds of everything in the log.
LEMMA LogIsWellFormed ==
  ASSUME Current, NEW e \in log
  PROVE  e.kind \in Kinds /\ (e.kind = "conflict" => e.participants # {})
  BY SchemaAssumption DEF Current

\* An Event of two with one identity is disputed with the other.
LEMMA SameIdIsDisputed ==
  ASSUME NEW L, NEW d \in L, NEW e \in L, d.eid = e.eid, d # e
  PROVE  e.eid \in Disputed(L)
  BY DEF Disputed, EventIds, Clash

LEMMA QuarantinedByCause ==
  ASSUME NEW L
  PROVE  Quarantined(L) =
           Disputed(L) \cup EventIds(
             {e \in Of(L, {"space"}) : \E d \in Of(L, {"space"}) \ {e} : d.space = e.space}
             \cup {e \in L : \E c \in Claims(e) : Ambiguous(L, c)}
             \cup {e \in L : ~ (UsedSpaces(e) \subseteq Spaces(L))}
             \cup ((Intents(L) \cup Drafts(L)) \ Accepted(L))
             \cup (Of(L, Accountable) \ Accepted(L)))
  BY DEF Quarantined, Diagnosed

\* What no phase diagnoses is projected.
LEMMA NothingIsDropped ==
  ASSUME Current, NEW e \in log, e \notin Accepted(log)
  PROVE  e.eid \in Quarantined(log)
  <1> DEFINE L == log
  <1>1. e.kind \in Kinds
    BY LogIsWellFormed
  <1>2. SUFFICES ASSUME e.eid \notin Disputed(L)
                 PROVE  e.eid \in Quarantined(L)
    BY QuarantinedByCause
  <1>3. CASE e.kind \in Accountable
    BY <1>3, QuarantinedByCause DEF EventIds, Of
  <1>4. CASE e.kind = "candidate"
    BY <1>2, <1>4 DEF Accepted, Candidates, Fresh, Of
  <1>5. CASE e \in Intents(L) \cup Drafts(L)
    BY <1>5, QuarantinedByCause DEF EventIds
  <1>6. CASE e.kind \in Intentional /\ e \notin Intents(L)
    <2>1. e.space \notin Spaces(L)
      BY <1>2, <1>6 DEF Intents, IntentCandidates, Fresh, Of
    <2>2. CASE e.kind = "intent"
      <3>1. UsedSpaces(e) = {e.space}
        BY <1>1, <2>2, SpacesByKind
      <3>2. QED
        BY <2>1, <3>1, QuarantinedByCause DEF EventIds
    <2>3. CASE e.kind = "space"
      <3>1. PICK d \in Of(L, {"space"}) : d.space = e.space /\ d # e
        BY <1>2, <2>1, <2>3 DEF Spaces, ValidSpaces, Fresh, Of
      <3>2. QED
        BY <2>3, <3>1, QuarantinedByCause DEF EventIds, Of
    <2>4. QED
      BY <1>6, <2>2, <2>3 DEF Intentional
  <1>7. CASE e.kind = "revision" /\ e \notin Drafts(L)
    <2>1. UsedSpaces(e) = {e.space}
      BY <1>1, <1>7, SpacesByKind
    <2>2. CASE e.space \notin Spaces(L)
      BY <2>1, <2>2, QuarantinedByCause DEF EventIds
    <2>3. CASE Owners(L, e.context) # {e.space}
      <3>1. e.context \in Claims(e)
        BY <1>7, ClaimsByKind
      <3>2. e.space \in Owners(L, e.context)
        BY <3>1, ClaimIsCounted
      <3>3. Ambiguous(L, e.context)
        BY <2>3, <3>2 DEF Ambiguous
      <3>4. QED
        BY <3>1, <3>3, QuarantinedByCause DEF EventIds
    <2>4. QED
      BY <1>2, <1>7, <2>2, <2>3 DEF Drafts, RevisionCandidates, Fresh, Of
  <1>8. QED
    BY <1>1, <1>3, <1>4, <1>5, <1>6, <1>7 DEF Kinds, Intentional, Accountable

\* What is projected is not diagnosed as well.
LEMMA NothingIsProjectedAndQuarantined ==
  ASSUME Current, NEW e \in Accepted(log)
  PROVE  e.eid \notin Quarantined(log)
  <1> DEFINE L == log
             Twice == {d \in Of(L, {"space"}) : \E o \in Of(L, {"space"}) \ {d} : o.space = d.space}
             Doubtful == {d \in L : \E c \in Claims(d) : Ambiguous(L, c)}
             Homeless == {d \in L : ~ (UsedSpaces(d) \subseteq Spaces(L))}
             Left == ((Intents(L) \cup Drafts(L)) \ Accepted(L)) \cup (Of(L, Accountable) \ Accepted(L))
  <1>1. e \in L /\ e.eid \notin Disputed(L)
    BY AcceptedByKind
  <1>2. e \notin Twice
    <2>1. SUFFICES ASSUME e.kind = "space"
                   PROVE  \A o \in Of(L, {"space"}) : o.space = e.space => o = e
      BY DEF Of
    <2>2. e.space \in Spaces(L)
      <3>1. e \in Causal(Intents(L))
        BY <2>1, AcceptedByKind DEF Intentional
      <3>2. e \in Intents(L)
        BY <3>1, CausalIsPart
      <3>3. QED
        BY <3>2 DEF Intents, IntentCandidates
    <2>3. PICK d \in Of(L, {"space"}) :
             d.space = e.space /\ \A o \in Of(L, {"space"}) : o.space = d.space => o = d
      BY <2>2 DEF Spaces, ValidSpaces, Fresh
    <2>4. e = d
      BY <1>1, <2>1, <2>3 DEF Of
    <2>5. QED
      BY <2>3, <2>4
  <1>3. e \notin Doubtful
    BY NoProjectedClaimIsAmbiguous
  <1>4. e \notin Homeless
    BY AcceptedHasSpaces, LogIsWellFormed
  <1>5. e \notin Left
    OBVIOUS
  <1>6. Twice \cup Doubtful \cup Homeless \cup Left \subseteq L
    BY DEF Intents, IntentCandidates, Drafts, RevisionCandidates, Fresh, Of
  <1>7. ASSUME NEW d \in Twice \cup Doubtful \cup Homeless \cup Left
        PROVE  d.eid # e.eid
    BY <1>1, <1>2, <1>3, <1>4, <1>5, <1>6, <1>7, SameIdIsDisputed
  <1>8. Quarantined(L) = Disputed(L) \cup EventIds(Twice \cup Doubtful \cup Homeless \cup Left)
    BY QuarantinedByCause
  <1>9. QED
    BY <1>1, <1>7, <1>8 DEF EventIds

\* No Event gets lost between the phases of reduce, and none is both behind the projection and
\* reported in quarantine.
THEOREM EveryEventIsAccountedFor == Spec => []AccountedFor
  <1>1. Current => AccountedFor
    <2> SUFFICES ASSUME Current
                 PROVE  AccountedFor
      OBVIOUS
    <2>1. projection.accepted = Accepted(log) /\ projection.quarantined = Quarantined(log)
      BY ReduceByPhases DEF Current
    <2>2. EventIds(log) \subseteq EventIds(Accepted(log)) \cup Quarantined(log)
      BY NothingIsDropped DEF EventIds
    <2>3. EventIds(Accepted(log)) \subseteq EventIds(log)
      BY AcceptedByKind DEF EventIds
    <2>4. Quarantined(log) \subseteq EventIds(log)
      BY QuarantinedByCause DEF Disputed, Intents, IntentCandidates, Drafts, RevisionCandidates,
         EventIds, Fresh, Of
    <2>5. EventIds(Accepted(log)) \cap Quarantined(log) = {}
      BY NothingIsProjectedAndQuarantined DEF EventIds
    <2>6. QED
      BY <2>1, <2>2, <2>3, <2>4, <2>5 DEF AccountedFor
  <1>2. QED
    BY <1>1, ProjectionIsCurrent, PTL

(***************************************************************************)
(* Confirmations last.                                                     *)
(***************************************************************************)
\* The three phases of two logs with which the acceptance of a Confirmation is compared.
LEMMA ReferencesOfConfirmation ==
  ASSUME NEW L, NEW k \in Confirmations(L), NEW r \in Fresh(Of(L, {"reference"}), Disputed(L)),
         r.context = k.context, r.revision = k.revision, r.sound,
         \A d \in Of(L, {"reference"}) : d.id = r.id => d = r
  PROVE  r \in References(L)
  <1>1. ConfirmationHolds(L, Disputed(L), Spaces(L), Revisions(L), Publications(L),
                          Associations(L), k)
    BY DEF Confirmations, ValidConfirmations
  <1>2. \E d \in Revisions(L) : d.context = k.context /\ d.id = k.revision
    BY <1>1 DEF ConfirmationHolds
  <1>3. QED
    BY <1>2 DEF References, ValidReferences, Fresh

\* A Confirmation whose Events are all still projected, in undisputed Spaces, is accepted again.
LEMMA ConfirmationHoldsAgain ==
  ASSUME NEW L, NEW M, L \subseteq M, NEW k \in Confirmations(L),
         k.eid \notin Disputed(M), UsedSpaces(k) \subseteq Spaces(M),
         \A e \in Accepted(L) :
            \/ e.eid \in {k.revisionEvent, k.associationEvent, k.publicationEvent} \cup k.references
            \/ e.kind = "candidate" /\ e.id = k.candidate
            => e \in Accepted(M)
  PROVE  k \in Confirmations(M)
  <1>1. ConfirmationHolds(L, Disputed(L), Spaces(L), Revisions(L), Publications(L),
                          Associations(L), k)
    BY DEF Confirmations, ValidConfirmations
  <1>2. PICK c \in Candidates(L), r \in Revisions(L) :
           /\ c.id = k.candidate /\ c.submission = k.submission /\ c.episode = k.episode
           /\ r.id = k.revision /\ r.eid = k.revisionEvent
           /\ r.space = k.primary /\ r.context = k.context
           /\ r.content = k.content
           /\ k.content = IF k.edits = None THEN c.content ELSE k.edits
    BY <1>1 DEF ConfirmationHolds, Candidates
  <1>3. c \in Candidates(M) /\ r \in Revisions(M)
    <2>1. c.kind = "candidate" /\ c \in Accepted(L) /\ r.kind = "revision" /\ r \in Accepted(L)
      BY <1>2, PartsOfAccepted DEF Of
    <2>2. c \in Accepted(M) /\ r \in Accepted(M)
      BY <1>2, <2>1
    <2>3. QED
      BY <2>1, <2>2, AcceptedByKind
  <1>4. PICK a \in Associations(L) :
           /\ a.id = k.association /\ a.eid = k.associationEvent /\ a.context = k.context
           /\ a.primary = k.primary /\ a.related = k.related /\ a.origin = k.candidate
    BY <1>1 DEF ConfirmationHolds
  <1>5. a \in Associations(M)
    <2>1. a.kind = "association" /\ a \in Accepted(L)
      BY <1>4, PartsOfAccepted DEF Of
    <2>2. QED
      BY <1>4, <2>1, AcceptedByKind
  <1>6. PICK p \in Publications(L) :
           /\ p.id = k.publication /\ p.eid = k.publicationEvent /\ p.context = k.context
           /\ p.space = k.primary /\ p.revision = k.revision /\ p.action = "publish"
    BY <1>1 DEF ConfirmationHolds
  <1>7. p \in Publications(M)
    <2>1. p.kind = "publication" /\ p \in Accepted(L)
      BY <1>6, PartsOfAccepted DEF Of
    <2>2. QED
      BY <1>6, <2>1, AcceptedByKind
  <1>8. k.created # None => \E s \in Of(M, {"space"}) : s.space = k.created /\ s.eid = k.spaceEvent
    BY <1>1 DEF ConfirmationHolds, Of
  <1>9. ASSUME NEW v \in k.references
        PROVE  \E d \in Fresh(Of(M, {"reference"}), Disputed(M)) :
                  /\ d.eid = v /\ d.context = k.context /\ d.revision = k.revision /\ d.sound
                  /\ \A o \in Of(M, {"reference"}) : o.id = d.id => o = d
    <2>1. PICK d \in Fresh(Of(L, {"reference"}), Disputed(L)) :
             /\ d.eid = v /\ d.context = k.context /\ d.revision = k.revision /\ d.sound
             /\ \A o \in Of(L, {"reference"}) : o.id = d.id => o = d
      BY <1>1, <1>9 DEF ConfirmationHolds
    <2>2. d \in References(L)
      BY <2>1, ReferencesOfConfirmation
    <2>3. d \in Accepted(M) /\ d.kind = "reference"
      BY <1>9, <2>1, <2>2, PartKinds DEF Accepted, Of, Fresh
    <2>4. d \in References(M)
      BY <2>3, AcceptedByKind
    <2>5. QED
      BY <2>1, <2>4 DEF References, ValidReferences
  <1>10. ConfirmationHolds(M, Disputed(M), Spaces(M), Revisions(M), Publications(M),
                           Associations(M), k)
    BY <1>2, <1>3, <1>4, <1>5, <1>6, <1>7, <1>8, <1>9 DEF ConfirmationHolds, Candidates
  <1>11. k \in Fresh(Of(M, {"confirmed"}), Disputed(M))
    BY PartKinds DEF Fresh, Of
  <1>12. QED
    BY <1>10, <1>11 DEF Confirmations, ValidConfirmations

\* A Confirmation goes only with an Event or a Space it consists of; no publication, withdrawal or
\* correction that arrives later takes it away.
THEOREM ConfirmationsLast == Spec => ConfirmationsAreKept
  <1> DEFINE Gone(k) == \E e \in projection.accepted \ projection'.accepted :
                \/ e.eid \in {k.revisionEvent, k.associationEvent, k.publicationEvent} \cup k.references
                \/ e.kind = "candidate" /\ e.id = k.candidate
             Step == \A k \in Of(projection.accepted, {"confirmed"}) :
                \/ k \in projection'.accepted
                \/ k.eid \in projection'.disputed
                \/ ~ (UsedSpaces(k) \subseteq projection'.spaces)
                \/ Gone(k)
  <1>1. Current /\ Current' /\ [Next]_vars => [Step]_vars
    <2> SUFFICES ASSUME Current, Current', [Next]_vars,
                        NEW k \in Of(projection.accepted, {"confirmed"}),
                        k.eid \notin projection'.disputed,
                        UsedSpaces(k) \subseteq projection'.spaces,
                        ~ Gone(k)
                 PROVE  k \in projection'.accepted
      OBVIOUS
    <2>1. /\ projection.accepted = Accepted(log) /\ projection'.accepted = Accepted(log')
          /\ projection'.disputed = Disputed(log') /\ projection'.spaces = Spaces(log')
      BY ReduceByPhases DEF Current
    <2>2. log \subseteq log'
      BY LogGrows
    <2>3. k \in Confirmations(log)
      BY <2>1, AcceptedByKind DEF Of
    <2>4. k \in Confirmations(log')
      BY <2>1, <2>2, <2>3, ConfirmationHoldsAgain
    <2>5. QED
      BY <2>1, <2>4 DEF Accepted
  <1>2. QED
    BY <1>1, ProjectionIsCurrent, PTL DEF Spec, ConfirmationsAreKept

(***************************************************************************)
(* The newest publication.  A Context has finitely many, and validate_dag  *)
(* leaves no cycle: from each one a longest way leads to a head.           *)
(***************************************************************************)
LogIsFinite == IsFiniteSet(log)

LEMMA LogStaysFinite == Spec => []LogIsFinite
  <1>1. Init => LogIsFinite
    BY FS_EmptySet DEF Init, LogIsFinite
  <1>2. LogIsFinite /\ [Next]_vars => LogIsFinite'
    <2>1. ASSUME LogIsFinite, NEW batch \in Batches, Arrive(batch)
          PROVE  LogIsFinite'
      BY <2>1, FS_Union, BatchAssumption DEF Arrive, LogIsFinite
    <2>2. QED
      BY <2>1 DEF Next, vars, LogIsFinite
  <1>3. QED
    BY <1>1, <1>2, PTL DEF Spec

\* A child of a descendant is a descendant.
LEMMA ChildDescends ==
  ASSUME NEW V, NEW a, NEW b, Descends(V, a, b), NEW d \in V, b.id \in d.parents
  PROVE  Descends(V, a, d)
  BY DEF Descends

LEMMA DescendsItself ==
  ASSUME NEW V, NEW a
  PROVE  Descends(V, a, a)
  BY DEF Descends

LEMMA DescentChains ==
  ASSUME NEW V, NEW a, NEW b, NEW d, Descends(V, a, b), Descends(V, b, d)
  PROVE  Descends(V, a, d)
  BY DEF Descends

\* The last step of a descent goes from a parent that descends as well.
LEMMA LastStep ==
  ASSUME NEW V, NEW a \in V, NEW b \in V, Descends(V, a, b), a # b
  PROVE  \E d \in V : Descends(V, a, d) /\ d.id \in b.parents
  <1> DEFINE S == {e \in V : /\ Descends(V, a, e)
                             /\ e = a \/ \E d \in V : Descends(V, a, d) /\ d.id \in e.parents}
  <1>1. a \in S
    BY DescendsItself
  <1>2. ASSUME NEW e \in V, NEW f \in S, f.id \in e.parents
        PROVE  e \in S
    BY <1>2, ChildDescends
  <1>3. b \in S
    <2>1. S \in SUBSET V /\ \A e \in V : (\E f \in S : f.id \in e.parents) => e \in S
      BY <1>2
    <2> HIDE DEF S
    <2>2. QED
      BY <1>1, <2>1 DEF Descends
  <1>4. QED
    BY <1>3

\* With fewer Events around there are fewer ways.
LEMMA DescendsInMore ==
  ASSUME NEW W, NEW V \in SUBSET W, NEW a \in V, NEW b, Descends(V, a, b)
  PROVE  Descends(W, a, b)
  <1> SUFFICES ASSUME NEW S \in SUBSET W, a \in S,
                      \A d \in W : (\E f \in S : f.id \in d.parents) => d \in S
               PROVE  b \in S
    BY DEF Descends
  <1>1. S \cap V \in SUBSET V /\ a \in S \cap V
    OBVIOUS
  <1>2. \A d \in V : (\E f \in S \cap V : f.id \in d.parents) => d \in S \cap V
    OBVIOUS
  <1>3. QED
    BY <1>1, <1>2 DEF Descends

\* Two publications that are projected differ in their ids.
LEMMA PublicationIds ==
  ASSUME NEW L, NEW d \in Submitted(L), NEW e \in Submitted(L), d.id = e.id
  PROVE  d = e
  <1>1. /\ d \in L /\ e \in L /\ d.kind = "publication" /\ e.kind = "publication"
        /\ d.eid \notin Disputed(L)
    BY DEF Submitted, PublicationCandidates, Fresh, Of
  <1>2. QED
    BY <1>1 DEF Disputed, EventIds, Clash

\* No child of a projected publication is its ancestor: what is on no cycle holds everything whose
\* parents it holds.
LEMMA NoCycle ==
  ASSUME NEW L, NEW e \in Publications(L), NEW f \in Publications(L), e.id \in f.parents
  PROVE  ~ Descends(Publications(L), f, e)
  <1> DEFINE W == Publications(L)
             OnCycle(x) == \E y \in W : x.id \in y.parents /\ Descends(W, y, x)
             S == {x \in W : ~ OnCycle(x)}
  <1>0. W \subseteq Submitted(L)
    BY CausalIsPart DEF Publications
  <1>1. ASSUME NEW x \in Submitted(L), HasParents(x, S)
        PROVE  x \in S
    <2>1. x \in W
      <3>1. SUFFICES ASSUME NEW T \in SUBSET Submitted(L), Closed(T, Submitted(L))
                     PROVE  x \in T
        BY DEF Publications, Causal
      <3>2. W \subseteq T
        BY <3>1 DEF Publications, Causal
      <3>3. HasParents(x, T)
        BY <1>1, <3>2, ParentsMonotone
      <3>4. QED
        BY <3>1, <3>3 DEF Closed
    <2>2. ASSUME NEW d \in W, d.id \in x.parents
          PROVE  d \in S
      BY <1>0, <1>1, <2>2, PublicationIds DEF HasParents
    <2>3. ASSUME NEW y \in W, x.id \in y.parents, Descends(W, y, x)
          PROVE  FALSE
      <3>1. CASE y = x
        <4>1. x \in S
          BY <2>1, <2>2, <2>3, <3>1
        <4>2. QED
          BY <2>3, <4>1
      <3>2. CASE y # x
        <4>1. PICK d \in W : Descends(W, y, d) /\ d.id \in x.parents
          BY <2>1, <2>3, <3>2, LastStep
        <4>2. d \in S
          BY <2>2, <4>1
        <4>3. Descends(W, x, y)
          BY <2>3, DescendsItself, ChildDescends
        <4>4. Descends(W, x, d)
          BY <4>1, <4>3, DescentChains
        <4>5. QED
          BY <2>1, <4>1, <4>2, <4>4
      <3>3. QED
        BY <3>1, <3>2
    <2>4. QED
      BY <2>1, <2>3
  <1>2. W \subseteq S
    <2>1. S \in SUBSET Submitted(L) /\ Closed(S, Submitted(L))
      BY <1>0, <1>1 DEF Closed
    <2> HIDE DEF S
    <2>2. QED
      BY <2>1 DEF Publications, Causal
  <1>3. QED
    BY <1>2

\* Where descent has no cycle a finite set has a head above every member.
LEMMA HeadAbove ==
  ASSUME NEW V, IsFiniteSet(V), NEW p \in V,
         \A e, f \in V : e.id \in f.parents => ~ Descends(V, f, e)
  PROVE  \E h \in Heads(V) : Descends(V, p, h)
  <1> DEFINE Below(e) == {b \in V : Descends(V, e, b)}
             N == {Cardinality(Below(e)) : e \in Below(p)}
  <1>1. \A e : IsFiniteSet(Below(e)) /\ Cardinality(Below(e)) \in Nat
    <2>1. \A e : Below(e) \in SUBSET V
      OBVIOUS
    <2>2. QED
      BY <2>1, FS_Subset, FS_CardinalityType
  <1>2. p \in Below(p)
    BY DescendsItself
  <1>3. PICK n \in N : \A m \in N : ~ (m < n)
    <2>1. N \subseteq Nat /\ N # {}
      BY <1>1, <1>2
    <2> HIDE DEF N
    <2>2. PICK n \in N : \A m \in N : ~ (<<m, n>> \in OpToRel(<, Nat))
      BY <2>1, NatLessThanWellFounded, WFMin
    <2>3. \A m \in N : m < n => <<m, n>> \in OpToRel(<, Nat)
      BY <2>1 DEF OpToRel
    <2>4. QED
      BY <2>2, <2>3
  <1>4. PICK h \in Below(p) : n = Cardinality(Below(h))
    OBVIOUS
  <1>5. ASSUME NEW d \in V, h.id \in d.parents
        PROVE  FALSE
    <2>1. d \in Below(p)
      BY <1>4, <1>5, ChildDescends
    <2>2. Descends(V, h, d)
      BY <1>5, DescendsItself, ChildDescends
    <2>3. Below(d) \subseteq Below(h)
      BY <2>2, DescentChains
    <2>4. h \in Below(h) /\ h \notin Below(d)
      BY <1>5, DescendsItself
    <2>5. Cardinality(Below(d)) <= Cardinality(Below(h)) /\ Cardinality(Below(d)) # Cardinality(Below(h))
      BY <1>1, <2>3, <2>4, FS_Subset
    <2>6. Cardinality(Below(d)) \in N
      BY <2>1
    <2> DEFINE m == Cardinality(Below(d))
    <2>7. m \in Nat /\ n \in Nat /\ m <= n /\ m # n /\ m \in N
      BY <1>1, <1>4, <2>5, <2>6
    <2> HIDE DEF m, N
    <2>8. m < n
      BY <2>7
    <2>9. QED
      BY <1>3, <2>7, <2>8
  <1>6. QED
    BY <1>4, <1>5 DEF Heads

\* Whatever clones publish, withdraw and merge in whatever order, no projected publication of a
\* Context is passed over: one that makes it accepted, or withdraws it, descends from all the others
\* (validate_dag, heads, context governance).
THEOREM AcceptedIsAlwaysNewest == Spec => []AcceptedIsNewest
  <1>1. Current /\ LogIsFinite => AcceptedIsNewest
    <2> SUFFICES ASSUME Current, LogIsFinite, NEW c
                 PROVE  LET V == {e \in Of(projection.accepted, {"publication"}) : e.context = c}
                        IN  \A p \in V : \E h \in PublicationHeads(projection, c) : Descends(V, p, h)
      BY DEF AcceptedIsNewest
    <2> DEFINE V == {e \in Of(projection.accepted, {"publication"}) : e.context = c}
    <2>1. projection.accepted = Accepted(log)
      BY ReduceByPhases DEF Current
    <2>2. V \subseteq Publications(log)
      BY <2>1, AcceptedByKind DEF Of
    <2>3. IsFiniteSet(V)
      <3>1. V \in SUBSET log
        BY <2>1, AcceptedByKind DEF Of
      <3>2. QED
        BY <3>1, FS_Subset DEF LogIsFinite
    <2>4. PublicationHeads(projection, c) = Heads(V)
      BY DEF PublicationHeads
    <2> HIDE DEF V
    <2>5. ASSUME NEW e \in V, NEW f \in V, e.id \in f.parents, Descends(V, f, e)
          PROVE  FALSE
      BY <2>2, <2>5, NoCycle, DescendsInMore
    <2>6. \A p \in V : \E h \in Heads(V) : Descends(V, p, h)
      BY <2>3, <2>5, HeadAbove
    <2>7. QED
      BY <2>4, <2>6 DEF V
  <1>2. QED
    BY <1>1, ProjectionIsCurrent, LogStaysFinite, PTL
=============================================================================
