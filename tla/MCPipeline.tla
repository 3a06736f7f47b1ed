----------------------------- MODULE MCPipeline -----------------------------
(* EffectPipeline for TLC.  The constants are given in the configurations. *)
EXTENDS EffectPipeline
=============================================================================
