------------------------------ MODULE MCLogSync ------------------------------
(***************************************************************************)
(* Small instances of the upload of log batches.                           *)
(***************************************************************************)
EXTENDS LogSync
=============================================================================
