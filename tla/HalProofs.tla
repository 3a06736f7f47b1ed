----------------------------- MODULE HalProofs -----------------------------
(***************************************************************************)
(* The HAL's use of its handle proved for every depth of the queues and    *)
(* every limit of the timeout counter.                                     *)
(***************************************************************************)
EXTENDS HalIntegration, TLAPS

(* The HAL is inside EffectClient_Process exactly while a call is, or has  *)
(* returned and, where overruns copy, left processed or raw audio behind;  *)
(* it is never inside when it has given up, and the counter is then within *)
(* the limit.                                                              *)
CallInv ==
    /\ hpc = "idle" => phase = "idle"
    /\ phase = "took" => out = "effect"
    /\ hpc = "in" => /\ ~passthroughMode
                     /\ phase = "idle" => ret \in {"OK", "TIMEOUT"}
                     /\ phase = "idle" /\ OverrunCopies => out \in {"raw", "effect"}
    /\ effectEnabled /\ ~passthroughMode => timeoutCount <= TimeoutLimit

HalInv == TypeOK /\ HandleOwned /\ CallInv

(* A HAL that has not been set up has no handle and no call. *)
LEMMA HalStarts == Init => HalInv
  <1> SUFFICES ASSUME Init PROVE HalInv
    OBVIOUS
  <1>1. 0 \in 0..(Depth + 1) /\ 0 \in 0..Depth /\ 0 \in 0..(TimeoutLimit + 1)
        /\ 0 <= TimeoutLimit
    BY DepthAssumption, LimitAssumption
  <1>2. TypeOK
    BY <1>1, Zenon DEF Init, ContractInit, TypeOK
  <1>3. HandleOwned /\ CallInv
    BY <1>1 DEF Init, ContractInit, HandleOwned, CallInv
  <1> QED BY <1>2, <1>3 DEF HalInv

(* Init, process, cleanup and their failures keep the invariant. *)
LEMMA HalKeeps == HalInv /\ [Next]_vars => HalInv'
  <1> SUFFICES ASSUME HalInv, [Next]_vars PROVE HalInv'
    OBVIOUS
  <1> USE DepthAssumption, LimitAssumption DEF HalInv
  <1>1. CASE hal_effect_init
    <2>1. 0 \in 0..(Depth + 1) /\ 0 \in 0..Depth /\ 0 \in 0..(TimeoutLimit + 1)
      OBVIOUS
    <2>2. TypeOK'
      BY <1>1, <2>1, Zenon DEF hal_effect_init, TypeOK
    <2> QED BY <1>1, <2>2 DEF hal_effect_init, HandleOwned, CallInv
  <1>2. CASE hal_effect_init_fails
    <2>1. TypeOK'
      BY <1>2 DEF hal_effect_init_fails, TypeOK, contractVars, handleVars
    <2> QED BY <1>2, <2>1
        DEF hal_effect_init_fails, HandleOwned, CallInv, contractVars, handleVars
  <1>3. CASE hal_effect_cleanup
    <2>1. TypeOK'
      BY <1>3 DEF hal_effect_cleanup, Stop, TypeOK
    <2> QED BY <1>3, <2>1 DEF hal_effect_cleanup, Stop, HandleOwned, CallInv
  <1>4. CASE Bypass
    <2>1. TypeOK'
      BY <1>4 DEF Bypass, TypeOK, ctx
    <2> QED BY <1>4, <2>1 DEF Bypass, HandleOwned, CallInv, ctx
  <1>5. CASE ProcessCall
    <2>1. TypeOK'
      BY <1>5 DEF ProcessCall, Call, TypeOK, ctx
    <2> QED BY <1>5, <2>1 DEF ProcessCall, Call, HandleOwned, CallInv, ctx
  <1>6. CASE ProcessReturned
    <2>1. /\ timeoutCount' \in 0..(TimeoutLimit + 1)
          /\ ret # "TIMEOUT" => timeoutCount' <= TimeoutLimit
      BY <1>6 DEF ProcessReturned, TimeoutsAfter, TypeOK, CallInv, HandleOwned
    <2>2. passthroughMode' = (passthroughMode \/ (ret = "TIMEOUT" /\ timeoutCount' > TimeoutLimit))
      BY <1>6 DEF ProcessReturned, TooMany
    <2>3. TypeOK'
      BY <1>6, <2>1, <2>2 DEF ProcessReturned, TypeOK
    <2>4. HandleOwned'
      BY <1>6 DEF ProcessReturned, HandleOwned
    <2>5. CallInv'
      BY <1>6, <2>1, <2>2, <2>3 DEF ProcessReturned, CallInv, TypeOK
    <2> QED BY <2>3, <2>4, <2>5
  <1>7. CASE ProcessInside
    <2>1. CASE Offer
      BY <1>7, <2>1 DEF ProcessInside, Offer, TypeOK, HandleOwned, CallInv, ctx
    <2>2. CASE Take
      BY <1>7, <2>2 DEF ProcessInside, Take, TypeOK, HandleOwned, CallInv, ctx
    <2>3. CASE ReturnOk
      BY <1>7, <2>3 DEF ProcessInside, ReturnOk, TypeOK, HandleOwned, CallInv, ctx
    <2>4. CASE ReturnTimeout
      BY <1>7, <2>4 DEF ProcessInside, ReturnTimeout, TypeOK, HandleOwned, CallInv, ctx
    <2> QED BY <1>7, <2>1, <2>2, <2>3, <2>4 DEF ProcessInside, Return
  <1>8. CASE EffectdStep
    <2>1. CASE Answer
      BY <1>8, <2>1 DEF EffectdStep, Answer, TypeOK, HandleOwned, CallInv, ctx, handleVars
    <2>2. CASE Crash
      BY <1>8, <2>2 DEF EffectdStep, Crash, TypeOK, HandleOwned, CallInv, ctx, handleVars
    <2> QED BY <1>8, <2>1, <2>2 DEF EffectdStep
  <1>9. CASE UNCHANGED vars
    BY <1>9 DEF vars, ctx, contractVars, handleVars, TypeOK, HandleOwned, CallInv
  <1> QED BY <1>1, <1>2, <1>3, <1>4, <1>5, <1>6, <1>7, <1>8, <1>9 DEF Next

(* The invariant holds in every reachable state. *)
LEMMA HalAlways == Spec => []HalInv
  BY HalStarts, HalKeeps, PTL DEF Spec

(* The counters of the HAL and of the contract stay in their ranges; the   *)
(* timeout counter never goes more than one above its limit.               *)
THEOREM HalTypeCorrect == Spec => []TypeOK
  <1>1. HalInv => TypeOK
    BY DEF HalInv
  <1> QED BY <1>1, HalAlways, PTL

(* The HAL never calls into a closed handle, never forgets an open one,    *)
(* and its calls of EffectClient_Process are never refused.                *)
THEOREM HandleIsOwned == Spec => []HandleOwned
  <1>1. HalInv => HandleOwned
    BY DEF HalInv
  <1> QED BY <1>1, HalAlways, PTL

(* hal_effect_process never leaves output unset, whatever effectd did, in  *)
(* the builds whose overruns copy input to output: all but the             *)
(* shared-memory one, for this HAL's buffers are separate.                 *)
THEOREM OutputAlwaysFilled ==
    ASSUME OverrunCopies
    PROVE  Spec => CallbackFillsOutput
  <1>1. HalInv /\ [Next]_vars => [hpc = "in" /\ hpc' = "idle" => out' \in {"raw", "effect"}]_vars
    <2> SUFFICES ASSUME HalInv, Next, hpc = "in", hpc' = "idle"
                 PROVE  out' \in {"raw", "effect"}
      OBVIOUS
    <2>1. ProcessReturned
      BY DEF Next, hal_effect_init, hal_effect_init_fails, hal_effect_cleanup, Bypass,
             ProcessCall, ProcessInside, EffectdStep
    <2> QED BY <2>1 DEF ProcessReturned, HalInv, CallInv
  <1> QED BY <1>1, HalAlways, PTL DEF Spec, CallbackFillsOutput
=============================================================================
