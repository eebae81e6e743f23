----------------------------- MODULE MCWorkEpisodes -----------------------------
(* A small installation: every mix of rows up to MaxRows. *)
EXTENDS WorkEpisodes, TLC
CONSTANTS s1, s2, c1, c2, g1, g2, p1, p2, x1, x2

Sym == Permutations(Sessions) \cup Permutations(Callers) \cup Permutations(Goals) \cup Permutations(Prompts)
       \cup Permutations(Contents)
================================================================================
