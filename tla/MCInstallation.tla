---------------------------- MODULE MCInstallation ----------------------------
(* The Task runtime, a legacy directory, the Knowledge Store and the manifest. *)
EXTENDS Installation, TLC
CONSTANT p1

runtime == 1
capture == 2
repository == 3
manifest == 4

MCTargets == {repository, runtime, capture}
MCPristine == {repository, runtime}
MCRecorded == {runtime, manifest}
MCLegacy == {capture}
MCBusiness == {repository, runtime}
=============================================================================
