---------------------------- MODULE MCSessionScope ----------------------------
(* Two Sessions, one inside the checkout and one that may start outside it.  *)
EXTENDS SessionScope, TLC

CONSTANTS s1, s2, c1, c2, r1, inside, outside

MCCovers == [d \in {inside, outside} |-> IF d = inside THEN {r1} ELSE {}]
Symmetry == Permutations({s1, s2}) \cup Permutations({c1, c2})
=============================================================================
