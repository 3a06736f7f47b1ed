------------------------------- MODULE MCHal -------------------------------
(* HalIntegration for TLC. *)
EXTENDS HalIntegration
=============================================================================
