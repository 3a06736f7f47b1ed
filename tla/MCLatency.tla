----------------------------- MODULE MCLatency -----------------------------
(* LatencyStats for TLC.  The constants are given in the configurations. *)
EXTENDS LatencyStats

ASSUME NoOverflow
=============================================================================
