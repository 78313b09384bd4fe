---------------------------- MODULE MCEventCache ----------------------------
(* Instances of EventCache for TLC. *)
EXTENDS EventCache
=============================================================================
