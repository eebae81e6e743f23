------------------------------ MODULE MCLogSpool ------------------------------
(***************************************************************************)
(* Small instances of the collector and its spool.                         *)
(***************************************************************************)
EXTENDS LogSpool
=============================================================================
