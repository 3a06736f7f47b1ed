--------------------------- MODULE ClientContract ---------------------------
(***************************************************************************)
(* What client/src/effect_client.c promises its caller, without bytes,     *)
(* eventfds or threads: a queue of whole blocks with loss.  A call offers  *)
(* one block; effectd answers or drops the blocks offered, one at a time   *)
(* and only while it lives; a call returns EFFECT_OK with an answer that   *)
(* nobody else gets, or EFFECT_ERROR_TIMEOUT with the caller's own input;  *)
(* only the shared-memory build leaves a separate output buffer alone when *)
(* the block found no room (OverrunCopies is FALSE).                       *)
(* EffectPipeline implements it; HalIntegration is built on it.            *)
(***************************************************************************)
EXTENDS Integers

CONSTANTS Depth,          \* blocks a queue holds
          OverrunCopies   \* a call whose block found no room leaves its input in output

ASSUME DepthAssumption == Depth \in Nat \ {0}
ASSUME OverrunAssumption == OverrunCopies \in BOOLEAN

VARIABLES phase,     \* the call: "idle", "called", "offered" or "took"
          started,   \* EffectClient_Start was called, Stop was not
          ret, out,  \* the last result, and what output holds
          pending,   \* blocks offered and neither answered nor dropped
          answers,   \* answers nobody has taken
          alive      \* effectd has not crashed

handleVars == <<phase, started, ret, out>>
contractVars == <<handleVars, pending, answers, alive>>

ContractInit ==
    /\ phase = "idle" /\ started = FALSE
    /\ ret = "none" /\ out = "none"
    /\ pending = 0 /\ answers = 0 /\ alive = TRUE

Start == started' = TRUE /\ UNCHANGED <<phase, ret, out, pending, answers, alive>>
Stop == started' = FALSE /\ UNCHANGED <<phase, ret, out, pending, answers, alive>>

(* EffectClient_Process is called; it refuses unless the client is started. *)
Call ==
    /\ phase = "idle"
    /\ phase' = IF started THEN "called" ELSE "idle"
    /\ ret' = IF started THEN "none" ELSE "INVALID_STATE"
    /\ out' = "none"
    /\ UNCHANGED <<started, pending, answers, alive>>

Offer ==
    /\ phase = "called" /\ pending <= Depth
    /\ phase' = "offered" /\ pending' = pending + 1
    /\ UNCHANGED <<started, ret, out, answers, alive>>

Take ==
    /\ phase = "offered" /\ answers > 0
    /\ phase' = "took" /\ answers' = answers - 1
    /\ out' = "effect"
    /\ UNCHANGED <<started, ret, pending, alive>>

ReturnOk ==
    /\ phase = "took"
    /\ phase' = "idle" /\ ret' = "OK"
    /\ UNCHANGED <<started, out, pending, answers, alive>>

\* mutant: a call that waited in vain leaves output alone
MutantReturnTimeout ==
    /\ phase \in {"called", "offered"}
    /\ phase' = "idle" /\ ret' = "TIMEOUT"
    /\ out' = IF phase = "called" /\ OverrunCopies THEN "raw" ELSE out
    /\ UNCHANGED <<started, pending, answers, alive>>

(* The block found no room ("called"), or no answer came ("offered"). *)
ReturnTimeout ==
    /\ phase \in {"called", "offered"}
    /\ phase' = "idle" /\ ret' = "TIMEOUT"
    /\ out' = IF phase = "offered" \/ OverrunCopies THEN "raw" ELSE out
    /\ UNCHANGED <<started, pending, answers, alive>>

Return == ReturnOk \/ ReturnTimeout

-----------------------------------------------------------------------------
(* effectd answers the oldest block, or finds no room for its answer. *)
Answer ==
    /\ alive /\ pending > 0
    /\ pending' = pending - 1
    /\ \/ answers < Depth /\ answers' = answers + 1
       \/ UNCHANGED answers
    /\ UNCHANGED <<handleVars, alive>>

Crash ==
    /\ alive
    /\ alive' = FALSE
    /\ UNCHANGED <<handleVars, pending, answers>>

ContractNext == \/ Start \/ Stop \/ Call \/ Offer \/ Take \/ Return
                \/ Answer \/ Crash

ContractSpec == ContractInit /\ [][ContractNext]_contractVars
=============================================================================
