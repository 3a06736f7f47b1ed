------------------------------ MODULE MCHidl -------------------------------
(* HidlService for TLC. *)
EXTENDS HidlService
=============================================================================
