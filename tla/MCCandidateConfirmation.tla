---------------------- MODULE MCCandidateConfirmation ----------------------
(***************************************************************************)
(* Two processes and two Candidates, which are interchangeable.            *)
(***************************************************************************)
EXTENDS CandidateConfirmation, TLC

CONSTANTS p1, p2, c1, c2

Interchangeable == Permutations({p1, p2}) \cup Permutations({c1, c2})
=============================================================================
