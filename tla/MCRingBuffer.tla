---------------------------- MODULE MCRingBuffer ----------------------------
(* RingBuffer for TLC.  The constants are given in the configurations.     *)
EXTENDS RingBuffer
=============================================================================
