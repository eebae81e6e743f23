---------------------------- MODULE MCGitWriter ----------------------------
(* Small instances of GitWriter for TLC. *)
EXTENDS GitWriter, TLC

CONSTANTS p1, p2, b1, b2, b3, e1, e2, e3, o1

\* b1 and b2 carry the same text object.
MCSharedFiles == b1 :> {e1, o1} @@ b2 :> {e2, o1}
MCSharedEvent == b1 :> e1 @@ b2 :> e2

=============================================================================
