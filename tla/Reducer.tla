------------------------------- MODULE Reducer -------------------------------
(***************************************************************************)
(* The domain reducer: the projection of a set of immutable Events into    *)
(* Spaces, Contexts, Publications, Confirmations, Associations, Conflicts  *)
(* and References, and the Events it quarantines.  The log grows by whole  *)
(* batches, in the order in which commits and merges bring them; each Event *)
(* is a record with its kind, its event id, the id it defines, and its     *)
(* references.  The projection is a function of the set: every operator    *)
(* below is one phase of reduce, and takes what earlier phases accepted.   *)
(***************************************************************************)
EXTENDS Naturals, FiniteSets

CONSTANTS Batches,  \* the Event batches that may ever reach the log
          None      \* an absent optional reference

\* The payloads of an Event.
Intentional == {"space", "intent"}
Kinds == Intentional \cup {"revision", "review", "publication", "candidate", "confirmed",
                           "association", "reference", "conflict", "resolution"}

\* What the schema accepts: a known kind, and a conflict that has participants.
ASSUME SchemaAssumption ==
    \A batch \in Batches : \A e \in batch :
        e.kind \in Kinds /\ (e.kind = "conflict" => e.participants # {})

\* A batch is what one operation writes.
ASSUME BatchAssumption == \A batch \in Batches : IsFiniteSet(batch)

VARIABLES log, projection
vars == <<log, projection>>

Of(L, kinds) == {e \in L : e.kind \in kinds}
EventIds(E) == {e.eid : e \in E}
Fresh(E, bad) == {e \in E : e.eid \notin bad}

(***************************************************************************)
(* Definitions that occur more than once, and ambiguous owners.            *)
(***************************************************************************)
Clash(d, e) ==
    \/ d.eid = e.eid
    \/ d.kind # "reference" /\ d.kind = e.kind /\ d.id = e.id
    \/ {d.kind, e.kind} \subseteq Intentional \cup {"revision"} /\ d.id = e.id
    \/ {d.kind, e.kind} = {"candidate"} /\ d.submission = e.submission
    \/ {d.kind, e.kind} = {"confirmed"} /\ d.candidate = e.candidate
    \/ {d.kind, e.kind} = {"revision"} /\ d.evidence \cap e.evidence # {}

\* Mutant: the Confirmation of one of two Candidates settles which of them counts.
DisputedUntilConfirmed(L) ==
    EventIds({e \in L : \E d \in L \ {e} :
                 Clash(d, e) /\ \A k \in Of(L, {"confirmed"}) : k.candidate \notin {d.id, e.id}})
Disputed(L) == EventIds({e \in L : \E d \in L \ {e} : Clash(d, e)})

\* The Contexts an Event claims for its Space.
Claims(e) ==
    CASE e.kind \in {"revision", "review", "publication"} -> {e.context}
      [] e.kind = "conflict" -> {p.context : p \in e.participants}
      [] e.kind = "resolution" -> {r.context : r \in e.results}
      [] OTHER -> {}

Owners(L, c) == {e.space : e \in {d \in L : c \in Claims(d)}}
Ambiguous(L, c) == \E s, t \in Owners(L, c) : s # t

ValidSpaces(L, bad) ==
    LET created == Of(L, {"space"})
    IN  {e.space : e \in {d \in Fresh(created, bad) : \A o \in created : o.space = d.space => o = d}}

UsedSpaces(e) ==
    CASE e.kind = "confirmed" -> {e.primary} \cup e.related \cup ({e.created} \ {None})
      [] e.kind = "association" -> {e.primary} \cup e.related
      [] e.kind \in {"space", "candidate", "reference"} -> {}
      [] OTHER -> {e.space}

(***************************************************************************)
(* validate_dag and heads: what is left when everything with a missing or  *)
(* rejected parent, or on a cycle, is taken away, and what of it no other  *)
(* refers to.                                                              *)
(***************************************************************************)
Aggregate(e) ==
    CASE e.kind \in Intentional -> e.space
      [] e.kind = "resolution" -> e.conflict
      [] OTHER -> e.context
HasParents(e, S) == \A p \in e.parents : \E d \in S : d.id = p /\ Aggregate(d) = Aggregate(e)
Closed(S, E) == \A e \in E : HasParents(e, S) => e \in S
Causal(E) == {e \in E : \A S \in SUBSET E : Closed(S, E) => e \in S}
Heads(V) == {e \in V : \A d \in V : e.id \notin d.parents}

(***************************************************************************)
(* The phases.                                                             *)
(***************************************************************************)
IntentCandidates(L, bad, spaces) == {e \in Fresh(Of(L, Intentional), bad) : e.space \in spaces}

RevisionCandidates(L, bad, spaces) ==
    {e \in Fresh(Of(L, {"revision"}), bad) : e.space \in spaces /\ Owners(L, e.context) = {e.space}}

\* validate_context_relations: the largest set whose relations and parents stay inside it.
RelationsHold(K) ==
    \A e \in K :
        /\ \A t \in e.relations : t # e.context /\ \E d \in K : d.context = t
        /\ HasParents(e, K)
\* Mutant: relations are looked up among the revisions found valid before, once.
RelatedOnce(R) ==
    {e \in R : \A t \in e.relations : t # e.context /\ \E d \in R : d.context = t}
Related(R) == UNION {K \in SUBSET R : RelationsHold(K)}

Holds(revisions, e) ==
    \E r \in revisions : r.space = e.space /\ r.context = e.context /\ r.id = e.revision
ValidReviews(L, bad, revisions) == {e \in Fresh(Of(L, {"review"}), bad) : Holds(revisions, e)}

PublicationCandidates(L, bad, revisions, reviews) ==
    {e \in Fresh(Of(L, {"publication"}), bad) :
        /\ Holds(revisions, e)
        /\ \A v \in e.reviews : \E r \in reviews :
               r.eid = v /\ r.space = e.space /\ r.context = e.context /\ r.revision = e.revision}

UniqueCandidate(L, bad, c) == \E e \in Fresh(Of(L, {"candidate"}), bad) : e.id = c
AssociationCandidates(L, bad, spaces, revisions) ==
    {e \in Fresh(Of(L, {"association"}), bad) :
        /\ UsedSpaces(e) \subseteq spaces
        /\ \E r \in revisions :
               r.context = e.context /\ (e.origin # None => r.space = e.primary)
        /\ e.origin # None => UniqueCandidate(L, bad, e.origin)}

ValidReferences(L, bad, revisions) ==
    LET recorded == Of(L, {"reference"})
    IN  {e \in Fresh(recorded, bad) :
            /\ \A d \in recorded : d.id = e.id => d = e
            /\ e.sound
            /\ \E r \in revisions : r.context = e.context /\ r.id = e.revision}

\* A Confirmation is accepted with everything it names, or not at all.
ConfirmationHolds(L, bad, spaces, revisions, publications, associations, k) ==
    /\ UsedSpaces(k) \subseteq spaces
    /\ \E c \in Fresh(Of(L, {"candidate"}), bad), r \in revisions :
           /\ c.id = k.candidate /\ c.submission = k.submission /\ c.episode = k.episode
           /\ r.id = k.revision /\ r.eid = k.revisionEvent
           /\ r.space = k.primary /\ r.context = k.context
           /\ r.content = k.content
           /\ k.content = IF k.edits = None THEN c.content ELSE k.edits
    /\ \E a \in associations :
           /\ a.id = k.association /\ a.eid = k.associationEvent /\ a.context = k.context
           /\ a.primary = k.primary /\ a.related = k.related /\ a.origin = k.candidate
    /\ \E p \in publications :
           /\ p.id = k.publication /\ p.eid = k.publicationEvent /\ p.context = k.context
           /\ p.space = k.primary /\ p.revision = k.revision /\ p.action = "publish"
    /\ k.created # None =>
           \E s \in Of(L, {"space"}) : s.space = k.created /\ s.eid = k.spaceEvent
    /\ \A v \in k.references : \E r \in Fresh(Of(L, {"reference"}), bad) :
           /\ r.eid = v /\ r.context = k.context /\ r.revision = k.revision /\ r.sound
           /\ \A d \in Of(L, {"reference"}) : d.id = r.id => d = r
\* Mutant: a Confirmation counts as long as its publication is the current one.
ConfirmationsOfHeads(L, bad, spaces, revisions, publications, associations) ==
    {k \in Fresh(Of(L, {"confirmed"}), bad) :
        /\ ConfirmationHolds(L, bad, spaces, revisions, publications, associations, k)
        /\ \E p \in Heads(publications) : p.id = k.publication}
ValidConfirmations(L, bad, spaces, revisions, publications, associations) ==
    {k \in Fresh(Of(L, {"confirmed"}), bad) :
        ConfirmationHolds(L, bad, spaces, revisions, publications, associations, k)}

\* No value in a dimension means no restriction.
Overlaps(a, b) == a = {} \/ b = {} \/ a \cap b # {}
ConflictHolds(revisions, publications, e) ==
    LET Party(p) == {r \in revisions : r.space = e.space /\ r.context = p.context /\ r.id = p.revision}
        parties == UNION {Party(p) : p \in e.participants}
    IN  /\ \A p \in e.participants :
               /\ Party(p) # {}
               /\ \E q \in publications : /\ q.space = e.space /\ q.context = p.context
                                          /\ q.id = p.publication /\ q.revision = p.revision
                                          /\ q.action = "publish"
        /\ \A r \in parties : r.decision /\ Overlaps(e.scope, r.scope)
        /\ \A r, s \in parties : r.topic = s.topic /\ Overlaps(r.scope, s.scope)
ValidConflicts(L, bad, revisions, publications) ==
    {e \in Fresh(Of(L, {"conflict"}), bad) : ConflictHolds(revisions, publications, e)}

Parties(e) == {p.context : p \in e.participants}
ResolutionCandidates(L, bad, revisions, publications, conflicts) ==
    {e \in Fresh(Of(L, {"resolution"}), bad) : \E f \in conflicts :
        /\ f.id = e.conflict /\ f.space = e.space
        /\ {r.context : r \in e.results} = Parties(f)
        /\ \A r \in e.results : \E d \in revisions :
               d.space = e.space /\ d.context = r.context /\ d.id = r.revision
        /\ \A q \in e.related : \E p \in publications : p.id = q /\ p.context \in Parties(f)}

(***************************************************************************)
(* Everything but the Spaces and the Candidates that is diagnosed: what a  *)
(* phase looked at and did not accept.                                     *)
(***************************************************************************)
Accountable == {"review", "publication", "association", "confirmed", "conflict", "resolution",
                "reference"}
\* Mutant: what only the relations of revisions reject is dropped without a diagnostic.
DiagnosedSilently(L, bad, spaces, looked, accepted) ==
    bad \cup EventIds({e \in L : ~ (UsedSpaces(e) \subseteq spaces)}
                      \cup {e \in L : \E c \in Claims(e) : Ambiguous(L, c)}
                      \cup (Of(L, Accountable) \ accepted))
Diagnosed(L, bad, spaces, looked, accepted) ==
    LET twice == {e \in Of(L, {"space"}) : \E d \in Of(L, {"space"}) \ {e} : d.space = e.space}
        ambiguous == {e \in L : \E c \in Claims(e) : Ambiguous(L, c)}
        homeless == {e \in L : ~ (UsedSpaces(e) \subseteq spaces)}
    IN  bad \cup EventIds(twice \cup ambiguous \cup homeless \cup (looked \ accepted)
                          \cup (Of(L, Accountable) \ accepted))

Reduce(L) ==
    LET bad == Disputed(L)
        spaces == ValidSpaces(L, bad)
        intents == IntentCandidates(L, bad, spaces)
        drafts == RevisionCandidates(L, bad, spaces)
        revisions == Related(Causal(drafts))
        reviews == ValidReviews(L, bad, revisions)
        publications == Causal(PublicationCandidates(L, bad, revisions, reviews))
        associations == Causal(AssociationCandidates(L, bad, spaces, revisions))
        confirmations ==
            ValidConfirmations(L, bad, spaces, revisions, publications, associations)
        conflicts == ValidConflicts(L, bad, revisions, publications)
        resolutions ==
            Causal(ResolutionCandidates(L, bad, revisions, publications, conflicts))
        accepted == Causal(intents) \cup revisions \cup reviews \cup publications
                    \cup associations \cup confirmations \cup conflicts \cup resolutions
                    \cup ValidReferences(L, bad, revisions) \cup Fresh(Of(L, {"candidate"}), bad)
    IN  [spaces |-> spaces, accepted |-> accepted, disputed |-> bad,
         quarantined |-> Diagnosed(L, bad, spaces, intents \cup drafts, accepted)]

(***************************************************************************)
(* What is read off a projection P.                                        *)
(***************************************************************************)
\* Mutant: withdrawals end a publication but are no publications themselves.
LiveHeads(P, c) ==
    Heads({e \in Of(P.accepted, {"publication"}) : e.context = c /\ e.action = "publish"})
PublicationHeads(P, c) == Heads({e \in Of(P.accepted, {"publication"}) : e.context = c})
\* Accepted, with its one head a publication of it; or Deprecated, Unpublished, GovernanceConflict.
IsAccepted(P, c) ==
    \E p \in PublicationHeads(P, c) : PublicationHeads(P, c) = {p} /\ p.action = "publish"

Converged(P, f) == \A c \in Parties(f) : Cardinality(PublicationHeads(P, c)) = 1
CurrentHeads(P, f) == {p.id : p \in UNION {PublicationHeads(P, c) : c \in Parties(f)}}
Settles(P, f, r) ==
    /\ Heads({e \in Of(P.accepted, {"resolution"}) : e.conflict = f.id}) = {r}
    /\ Converged(P, f) /\ r.related = CurrentHeads(P, f)
IsOpen(P, f) == ~ \E r \in Of(P.accepted, {"resolution"}) : Settles(P, f, r)
Eligible(P, c) ==
    IsAccepted(P, c) /\ \A f \in Of(P.accepted, {"conflict"}) : IsOpen(P, f) => c \notin Parties(f)

(***************************************************************************)
(* The log.                                                                *)
(***************************************************************************)
Init == log = {} /\ projection = Reduce({})

Arrive(batch) ==
    /\ ~ (batch \subseteq log)
    /\ log' = log \cup batch
    /\ projection' = Reduce(log')

Next == \E batch \in Batches : Arrive(batch)
Spec == Init /\ [][Next]_vars

(***************************************************************************)
(* Properties.                                                             *)
(***************************************************************************)
\* Every Event is either behind the projection or quarantined, never neither and never both, in
\* whatever order Events arrive: what a phase passes over is diagnosed by this phase or another.
AccountedFor ==
    /\ EventIds(log) = EventIds(projection.accepted) \cup projection.quarantined
    /\ EventIds(projection.accepted) \cap projection.quarantined = {}

\* What is projected refers only to what is projected: parents, targets of relations, reviews,
\* revisions, publications and the conflict of a resolution, however many phases and rounds lie in between.
NothingDangles ==
    LET V == projection.accepted
        Has(kinds, id) == \E d \in Of(V, kinds) : d.id = id
    IN  \A e \in V :
            CASE e.kind \in Intentional -> \A p \in e.parents : Has(Intentional, p)
              [] e.kind = "revision" ->
                    /\ \A p \in e.parents : Has({"revision"}, p)
                    /\ \A c \in e.relations : \E d \in Of(V, {"revision"}) : d.context = c
              [] e.kind = "review" -> Has({"revision"}, e.revision)
              [] e.kind = "publication" ->
                    /\ Has({"revision"}, e.revision) /\ \A p \in e.parents : Has({"publication"}, p)
                    /\ \A v \in e.reviews : \E d \in Of(V, {"review"}) : d.eid = v
              [] e.kind = "association" -> \A p \in e.parents : Has({"association"}, p)
              [] e.kind = "confirmed" ->
                    /\ Has({"candidate"}, e.candidate) /\ Has({"association"}, e.association)
                    /\ Has({"revision"}, e.revision) /\ Has({"publication"}, e.publication)
              [] e.kind = "reference" -> Has({"revision"}, e.revision)
              [] e.kind = "conflict" ->
                    \A p \in e.participants : Has({"publication"}, p.publication)
              [] e.kind = "resolution" ->
                    /\ Has({"conflict"}, e.conflict) /\ \A p \in e.parents : Has({"resolution"}, p)
                    /\ \A p \in e.related : Has({"publication"}, p)
              [] OTHER -> TRUE

\* b is a or descends from it.
Descends(V, a, b) ==
    \A S \in SUBSET V :
        (a \in S /\ \A d \in V : (\E f \in S : f.id \in d.parents) => d \in S) => b \in S

\* The publication that makes a Context accepted, or withdraws it, supersedes every other one that is
\* projected: none that another clone made beside it is passed over.
AcceptedIsNewest ==
    \A c \in UNION {Claims(e) : e \in log} :
        LET V == {e \in Of(projection.accepted, {"publication"}) : e.context = c}
            H == PublicationHeads(projection, c)
        IN  Cardinality(H) = 1 => \A p \in V : \E h \in H : Descends(V, p, h)

\* Two definitions of one identity, or two Spaces that claim one Context, are never decided by what
\* arrives later: none of them comes back.
NoWinnerIsPicked ==
    [][/\ projection.disputed \cap EventIds(projection'.accepted) = {}
       /\ \A e \in projection'.accepted : \A c \in Claims(e) : ~ Ambiguous(log, c)]_vars

\* A Confirmation is history: later publications, withdrawals and corrections leave it as it is; it goes
\* only with one of the Events or Spaces it consists of.
ConfirmationsAreKept ==
    [][\A k \in Of(projection.accepted, {"confirmed"}) :
          \/ k \in projection'.accepted
          \/ k.eid \in projection'.disputed
          \/ ~ (UsedSpaces(k) \subseteq projection'.spaces)
          \/ \E e \in projection.accepted \ projection'.accepted :
                 \/ e.eid \in {k.revisionEvent, k.associationEvent, k.publicationEvent} \cup k.references
                 \/ e.kind = "candidate" /\ e.id = k.candidate]_vars

=============================================================================
