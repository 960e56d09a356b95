---------------------------- MODULE MCInstances ----------------------------
(* Instances with small constants for TLC. *)
EXTENDS Instances
=============================================================================
