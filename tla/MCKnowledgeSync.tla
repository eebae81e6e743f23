---------------------------- MODULE MCKnowledgeSync ----------------------------
(* Two files of this installation, one of which clashes with the first of three files of others;
   the second is one that no validation accepts, the third one that is not an addition. *)
EXTENDS KnowledgeSync
CONSTANTS own1, own2, clashing, broken, foreign

MCClash == {{own2, clashing}}
=============================================================================
