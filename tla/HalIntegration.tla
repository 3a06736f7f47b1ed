--------------------------- MODULE HalIntegration ---------------------------
(***************************************************************************)
(* The audio HAL of examples/hal_integration.c on top of the contract of   *)
(* the client library: hal_effect_init, hal_effect_process, called by the  *)
(* audio callback again and again, and hal_effect_cleanup.  As main does,  *)
(* the HAL makes these calls one at a time and initialises again only      *)
(* after a cleanup or a failed initialisation; effectd runs concurrently.  *)
(* hal_effect_set_param and hal_effect_print_stats change nothing.         *)
(***************************************************************************)
EXTENDS ClientContract

CONSTANT TimeoutLimit   \* 100 in the code

ASSUME LimitAssumption == TimeoutLimit \in Nat

VARIABLES effectHandle,    \* "none", "open", or "closed" and dangling
          effectEnabled, passthroughMode, timeoutCount,
          hpc              \* hal_effect_process: "idle" or "in"

ctx == <<effectHandle, effectEnabled, passthroughMode, timeoutCount>>
vars == <<contractVars, ctx, hpc>>

(* AudioHalContext ctx = {0} *)
Init == /\ ContractInit
        /\ effectHandle = "none" /\ effectEnabled = FALSE /\ passthroughMode = FALSE
        /\ timeoutCount = 0 /\ hpc = "idle"

-----------------------------------------------------------------------------
(* EffectClient_Open makes new queues; effectd may be dead, Open does not  *)
(* look.  EffectClient_Start of an open handle succeeds.                   *)
hal_effect_init ==
    /\ hpc = "idle" /\ ~effectEnabled
    /\ effectHandle' = "open" /\ effectEnabled' = TRUE
    /\ passthroughMode' = FALSE /\ timeoutCount' = 0
    /\ started' = TRUE /\ pending' = 0 /\ answers' = 0 /\ alive' \in BOOLEAN
    /\ UNCHANGED <<phase, ret, out, hpc>>

hal_effect_init_fails ==
    /\ hpc = "idle" /\ ~effectEnabled
    /\ passthroughMode' = TRUE
    /\ UNCHANGED <<contractVars, effectHandle, effectEnabled, timeoutCount, hpc>>

(* hal_effect_process without the effect: copy input to output *)
Bypass ==
    /\ hpc = "idle" /\ (~effectEnabled \/ passthroughMode)
    /\ out' = "raw"
    /\ UNCHANGED <<phase, started, ret, pending, answers, alive, ctx, hpc>>

ProcessCall ==
    /\ hpc = "idle" /\ effectEnabled /\ ~passthroughMode
    /\ Call
    /\ hpc' = "in"
    /\ UNCHANGED ctx

(* The counter after a result. *)
\* mutant: the counter stops at the limit
MutantTimeoutsAfter(result) ==
    CASE result = "TIMEOUT" -> IF timeoutCount < TimeoutLimit THEN timeoutCount + 1
                               ELSE timeoutCount
      [] result = "OK" /\ timeoutCount > 0 -> timeoutCount - 1
      [] OTHER -> timeoutCount
TimeoutsAfter(result) ==
    CASE result = "TIMEOUT" -> timeoutCount + 1
      [] result = "OK" /\ timeoutCount > 0 -> timeoutCount - 1
      [] OTHER -> timeoutCount

\* mutant: the counter is never looked at
MutantTooMany(count) == FALSE
TooMany(count) == count > TimeoutLimit

ProcessReturned ==
    /\ hpc = "in" /\ phase = "idle"
    /\ timeoutCount' = TimeoutsAfter(ret)
    /\ passthroughMode' = (passthroughMode \/ (ret = "TIMEOUT" /\ TooMany(timeoutCount')))
    /\ out' = IF ret \in {"OK", "TIMEOUT"} THEN out ELSE "raw"
    /\ hpc' = "idle"
    /\ UNCHANGED <<phase, started, ret, pending, answers, alive,
                   effectHandle, effectEnabled>>

\* mutant: nothing to do once the effect has been given up
MutantCleanupEarly ==
    /\ hpc = "idle" /\ effectEnabled
    /\ IF passthroughMode THEN UNCHANGED <<contractVars, effectHandle>>
       ELSE Stop /\ effectHandle' = "closed"
    /\ effectEnabled' = FALSE
    /\ UNCHANGED <<passthroughMode, timeoutCount, hpc>>

(* EffectClient_Stop and _Close; passthroughMode is left as it is. *)
hal_effect_cleanup ==
    /\ hpc = "idle" /\ effectEnabled
    /\ Stop
    /\ effectHandle' = "closed" /\ effectEnabled' = FALSE
    /\ UNCHANGED <<passthroughMode, timeoutCount, hpc>>

-----------------------------------------------------------------------------
ProcessInside == (Offer \/ Take \/ Return) /\ UNCHANGED <<ctx, hpc>>
EffectdStep == (Answer \/ Crash) /\ UNCHANGED <<ctx, hpc>>

Next == \/ hal_effect_init \/ hal_effect_init_fails \/ hal_effect_cleanup
        \/ Bypass \/ ProcessCall \/ ProcessReturned
        \/ ProcessInside \/ EffectdStep

Spec == Init /\ [][Next]_vars

(* The audio callback comes again and EffectClient_Process returns.  *)
Fairness == /\ WF_vars(Bypass \/ ProcessCall) /\ WF_vars(ProcessReturned)
            /\ WF_vars(Return /\ UNCHANGED <<ctx, hpc>>)

FairSpec == Spec /\ Fairness

-----------------------------------------------------------------------------
TypeOK ==
    /\ phase \in {"idle", "called", "offered", "took"} /\ started \in BOOLEAN
    /\ ret \in {"none", "OK", "TIMEOUT", "INVALID_STATE"}
    /\ out \in {"none", "raw", "effect"}
    /\ pending \in 0..(Depth + 1) /\ answers \in 0..Depth /\ alive \in BOOLEAN
    /\ effectHandle \in {"none", "open", "closed"}
    /\ effectEnabled \in BOOLEAN /\ passthroughMode \in BOOLEAN
    /\ timeoutCount \in 0..(TimeoutLimit + 1)
    /\ hpc \in {"idle", "in"}

(* No call reaches a handle that is closed or was never opened, and no     *)
(* open handle is forgotten, however initialisations, failed ones,         *)
(* passthrough and cleanups follow each other: the HAL holds an open       *)
(* handle exactly while effectEnabled, and that handle is started, so      *)
(* EffectClient_Process never refuses a call.                              *)
HandleOwned ==
    /\ effectEnabled <=> effectHandle = "open"
    /\ hpc = "in" => effectEnabled
    /\ effectEnabled => started
    /\ ret # "INVALID_STATE"

(* Every audio callback leaves processed or raw audio in output, whatever  *)
(* effectd did, in the FMQ builds: the HAL does not copy after a timeout   *)
(* (hal_integration.c 91-99), so it relies on OverrunCopies.  With its     *)
(* separate buffers the shared-memory build does not keep this.            *)
CallbackFillsOutput == [][hpc = "in" /\ hpc' = "idle" => out' \in {"raw", "effect"}]_vars

(* When effectd has died, the HAL stops waiting 20 ms in every callback:   *)
(* it turns to passthrough, or is shut down.  Answers left in the queue    *)
(* lower the counter but run out.                                          *)
DeadServiceLatches == ~alive /\ effectEnabled ~> passthroughMode \/ ~effectEnabled
=============================================================================
