------------------------------- MODULE MCReducer -------------------------------
(* One Space, two Candidates, and what several clones make of them: a Confirmation each and a
   rival one, a revision and its publication, a rival withdrawal, a merge of both, a conflict that
   is resolved twice, and Events that dispute, claim or miss what others define. *)
EXTENDS Reducer, Sequences

Space(eid, id, s) == [kind |-> "space", eid |-> eid, id |-> id, space |-> s, parents |-> {}]
Candidate(eid, id, sub) ==
    [kind |-> "candidate", eid |-> eid, id |-> id, submission |-> sub, episode |-> "ep",
     content |-> id]
Revision(eid, id, s, c, parents, relations, content) ==
    [kind |-> "revision", eid |-> eid, id |-> id, space |-> s, context |-> c, parents |-> parents,
     relations |-> relations, evidence |-> {eid}, topic |-> "t", scope |-> {}, decision |-> TRUE,
     content |-> content]
Review(eid, id, s, c, r) ==
    [kind |-> "review", eid |-> eid, id |-> id, space |-> s, context |-> c, revision |-> r]
Publication(eid, id, s, c, r, action, parents, reviews) ==
    [kind |-> "publication", eid |-> eid, id |-> id, space |-> s, context |-> c, revision |-> r,
     action |-> action, parents |-> parents, reviews |-> reviews]
Association(eid, id, c, primary, related, origin, parents) ==
    [kind |-> "association", eid |-> eid, id |-> id, context |-> c, primary |-> primary,
     related |-> related, origin |-> origin, parents |-> parents]
Reference(eid, id, c, r, sound) ==
    [kind |-> "reference", eid |-> eid, id |-> id, context |-> c, revision |-> r, sound |-> sound]
Confirmed(eid, id, cand, sub, s, c, r, a, p, refs) ==
    [kind |-> "confirmed", eid |-> eid, id |-> id, candidate |-> cand, submission |-> sub,
     episode |-> "ep", primary |-> s, related |-> {}, created |-> None, spaceEvent |-> None,
     context |-> c, revision |-> r, association |-> a, publication |-> p,
     revisionEvent |-> "e" \o r, associationEvent |-> "e" \o a, publicationEvent |-> "e" \o p,
     references |-> refs, edits |-> None, content |-> cand]

(* Confirmation of a Candidate as a new Context with one revision and one publication. *)
Confirmation(n, cand, sub, s, c, relations, refs) ==
    {Revision("er" \o n, "r" \o n, s, c, {}, relations, cand),
     Association("ea" \o n, "a" \o n, c, s, {}, cand, {}),
     Publication("ep" \o n, "p" \o n, s, c, "r" \o n, "publish", {}, {}),
     Confirmed("ek" \o n, "k" \o n, cand, sub, s, c, "r" \o n, "a" \o n, "p" \o n, refs)}

Party(c, r, p) == [context |-> c, revision |-> r, publication |-> p]
Conflict(eid, id, s, parties) ==
    [kind |-> "conflict", eid |-> eid, id |-> id, space |-> s, participants |-> parties, scope |-> {}]
Resolution(eid, id, s, f, results, related, parents) ==
    [kind |-> "resolution", eid |-> eid, id |-> id, space |-> s, conflict |-> f,
     results |-> results, related |-> related, parents |-> parents]
Result(c, r) == [context |-> c, revision |-> r]

MCBatches ==
    {{Space("es", "i1", "s"), Candidate("ec1", "c1", "b1"), Candidate("ec2", "c2", "b2")},
     Confirmation("1", "c1", "b1", "s", "x", {}, {"eg1"}) \cup {Reference("eg1", "g1", "x", "r1", TRUE)},
     Confirmation("2", "c1", "b1", "s", "z", {"y"}, {}),
     Confirmation("3", "c2", "b2", "s", "y", {"x"}, {})
        \cup {Conflict("ef", "f", "s", {Party("y", "r3", "p3"), Party("x", "r1", "p1")})},
     {Revision("er4", "r4", "s", "x", {"r1"}, {}, "new"),
      Publication("ep4", "p4", "s", "x", "r4", "publish", {"p1"}, {})},
     {Publication("ep5", "p5", "s", "x", "r1", "withdraw", {"p1"}, {})},
     {Review("ev", "v", "s", "x", "r4"),
      Publication("ep6", "p6", "s", "x", "r4", "publish", {"p4", "p5"}, {"ev"})},
     {Resolution("eo1", "o1", "s", "f", {Result("x", "r1"), Result("y", "r3")}, {"p1", "p3"}, {})},
     {Resolution("eo2", "o2", "s", "f", {Result("x", "r4"), Result("y", "r3")}, {"p4", "p3"}, {"o1"})},
     {Publication("ep7", "p4", "s", "x", "r4", "withdraw", {"p4"}, {}),
      Reference("eg2", "g1", "x", "r1", TRUE)},
     {Association("ea8", "a8", "x", "s", {"w"}, None, {"a1"}),
      [kind |-> "intent", eid |-> "ei2", id |-> "i2", space |-> "s", parents |-> {"i1"}]},
     {Space("ew", "i3", "w")},
     {Review("ev9", "v9", "w", "y", "r3")},
     {Candidate("ec9", "c9", "b1")}}
=============================================================================
