---------------------------- MODULE MCWfdPlayer ----------------------------
(* Values for checking WfdPlayer. *)
EXTENDS WfdPlayer
SessionIds == 1..5
Descriptors == 0..2
Requests4 == {"OPTIONS", "REPLY", "SETUP", "TEARDOWN"}
=============================================================================
