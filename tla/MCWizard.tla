------------------------------ MODULE MCWizard ------------------------------
(* Wizard with small constants for TLC. *)
EXTENDS Wizard
=============================================================================
