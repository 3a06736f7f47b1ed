---------------------------- MODULE EffectClient ----------------------------
(***************************************************************************)
(* The client library in the audio HAL, client/src/effect_client.c, once   *)
(* EffectClient_Open has succeeded: the real-time thread that calls        *)
(* EffectClient_Process, and the other threads that call Start, Stop and   *)
(* QueryStats.  One step per access to the queues, to the eventfds and to  *)
(* the statistics, which statsMutex protects.                              *)
(*                                                                         *)
(* The i-th unit of the input of the c-th call is <<c, i>>.  The effect    *)
(* keeps a unit's identity, so a unit read back tells which input it       *)
(* answers; whether output holds processed or raw input is output.kind.    *)
(***************************************************************************)
EXTENDS Transport

CONSTANTS ClientFrames,  \* the sizes passed to EffectClient_Process
          UseFmq,        \* USE_FMQ; FALSE is the USE_SHARED_MEMORY build
          InPlace,       \* the caller passes one buffer as input and output
          MaxCalls       \* bound: number of calls of EffectClient_Process

ASSUME ClientAssumption ==
    /\ ClientFrames \subseteq Nat \ {0}
    /\ UseFmq \in BOOLEAN /\ InPlace \in BOOLEAN
    /\ MaxCalls \in Nat

VARIABLES cpc, call, frames, cgrant,  \* the call in progress
          output, ret,                \* the caller's output buffer and result
          isStarted, isConnected,
          stats, statsMutex,
          heard                       \* history: the last unit read from outQ

rtVars == <<cpc, call, frames, cgrant, output, ret, heard>>
clientVars == <<rtVars, isStarted, isConnected, stats, statsMutex>>

NoOutput == [kind |-> "none", data |-> <<>>]
NoStats == [processedFrames |-> 0, droppedFrames |-> 0, timeoutCount |-> 0, xrunCount |-> 0]

Input == [i \in 1..frames |-> <<call, i>>]
Passthrough == [kind |-> "raw", data |-> Input]

ClientInit ==
    /\ cpc = "idle" /\ call = 0 /\ frames = 0 /\ cgrant = 0
    /\ output = NoOutput /\ ret = "none"
    /\ isStarted = FALSE /\ isConnected = TRUE
    /\ stats = NoStats /\ statsMutex = "free"
    /\ heard = <<0, 0>>

-----------------------------------------------------------------------------
EffectClient_Start ==
    /\ isConnected
    /\ isStarted' = TRUE
    /\ UNCHANGED <<transport, rtVars, isConnected, stats, statsMutex>>

EffectClient_Stop ==
    /\ isStarted' = FALSE
    /\ UNCHANGED <<transport, rtVars, isConnected, stats, statsMutex>>

(* EffectClient_QueryStats copies the statistics while it holds the mutex. *)
QueryStatsLock ==
    /\ statsMutex = "free"
    /\ statsMutex' = "query"
    /\ UNCHANGED <<transport, rtVars, isStarted, isConnected, stats>>

QueryStatsUnlock ==
    /\ statsMutex = "query"
    /\ statsMutex' = "free"
    /\ UNCHANGED <<transport, rtVars, isStarted, isConnected, stats>>

-----------------------------------------------------------------------------
(* EffectClient_Process before EffectClient_Start, or after Stop *)
ProcessRejected ==
    /\ cpc = "idle" /\ ~isStarted /\ call < MaxCalls
    /\ ret' = "INVALID_STATE" /\ output' = NoOutput
    /\ UNCHANGED <<transport, cpc, call, frames, cgrant, heard,
                   isStarted, isConnected, stats, statsMutex>>

(* The call enters and the write to the input queue loads the indices. *)
ProcessEnter(f) ==
    /\ cpc = "idle" /\ isStarted /\ call < MaxCalls
    /\ call' = call + 1 /\ frames' = f
    /\ cgrant' = Granted(f, effect_fmq_available_to_write(inQ))
    /\ output' = NoOutput /\ ret' = "none"
    /\ cpc' = "write"
    /\ UNCHANGED <<transport, heard, isStarted, isConnected, stats, statsMutex>>

\* mutant: a short write is not noticed
MutantWritten == "signal"
(* if (written < totalBytes) *)
Written == IF cgrant < frames THEN "xrun" ELSE "signal"

ProcessWrite ==
    /\ cpc = "write"
    /\ inQ' = Publish(inQ, Input, cgrant)
    /\ cpc' = Written
    /\ UNCHANGED <<outQ, evIn, evOut, call, frames, cgrant, output, ret, heard,
                   isStarted, isConnected, stats, statsMutex>>

ProcessSignal ==
    /\ cpc = "signal"
    /\ evIn' = effect_eventfd_signal(evIn)
    /\ cpc' = "wait"
    /\ UNCHANGED <<inQ, outQ, evOut, call, frames, cgrant, output, ret, heard,
                   isStarted, isConnected, stats, statsMutex>>

ProcessWake ==
    /\ cpc = "wait" /\ Signalled(evOut)
    /\ evOut' = Cleared(evOut)
    /\ cpc' = "load"
    /\ UNCHANGED <<inQ, outQ, evIn, call, frames, cgrant, output, ret, heard,
                   isStarted, isConnected, stats, statsMutex>>

\* mutant: the wait has no timeout
MutantTimeout == FALSE

(* TIMEOUT_MS elapse without a signal. *)
ProcessTimeout ==
    /\ cpc = "wait" /\ ~Signalled(evOut)
    /\ cpc' = "timeout"
    /\ UNCHANGED <<transport, call, frames, cgrant, output, ret, heard,
                   isStarted, isConnected, stats, statsMutex>>

(* The read from the output queue loads the indices. *)
ProcessLoad ==
    /\ cpc = "load"
    /\ cgrant' = Granted(frames, effect_fmq_available_to_read(outQ))
    /\ cpc' = "read"
    /\ UNCHANGED <<transport, call, frames, output, ret, heard,
                   isStarted, isConnected, stats, statsMutex>>

\* mutant: the bytes read stay in the output queue
MutantRead ==
    /\ cpc = "read"
    /\ output' = [kind |-> "effect", data |-> Front(outQ, cgrant)]
    /\ heard' = IF cgrant > 0 THEN outQ[cgrant] ELSE heard
    /\ cpc' = IF cgrant < frames THEN "short" ELSE "ok"
    /\ UNCHANGED <<inQ, outQ, evIn, evOut, call, frames, cgrant, ret,
                   isStarted, isConnected, stats, statsMutex>>

ProcessRead ==
    /\ cpc = "read"
    /\ output' = [kind |-> "effect", data |-> Front(outQ, cgrant)]
    /\ heard' = IF cgrant > 0 THEN outQ[cgrant] ELSE heard
    /\ outQ' = Release(outQ, cgrant)
    /\ cpc' = IF cgrant < frames THEN "short" ELSE "ok"
    /\ UNCHANGED <<inQ, evIn, evOut, call, frames, cgrant, ret,
                   isStarted, isConnected, stats, statsMutex>>

(* The four ways the call ends; each updates the statistics under the      *)
(* mutex.  Only the shared-memory build leaves output alone on an xrun.    *)
(* In place, a short read has overwritten part of the input by the time it *)
(* is copied to itself.                                                    *)
Counted(at) ==
    CASE at = "xrun" -> [stats EXCEPT !.xrunCount = @ + 1]
      [] at = "timeout" -> [stats EXCEPT !.timeoutCount = @ + 1]
      [] at = "short" -> [stats EXCEPT !.droppedFrames = @ + frames]
      [] at = "ok" -> [stats EXCEPT !.processedFrames = @ + frames]

Overwritten == output.data \o SubSeq(Input, Len(output.data) + 1, frames)

\* mutant: the xrun path of the FMQ build forgets the passthrough too
MutantFinalOutput(at) ==
    CASE at = "ok" -> output
      [] at = "xrun" /\ ~InPlace -> output
      [] at = "short" /\ InPlace -> [kind |-> "raw", data |-> Overwritten]
      [] OTHER -> Passthrough
FinalOutput(at) ==
    CASE at = "ok" -> output
      [] at = "xrun" /\ ~UseFmq /\ ~InPlace -> output
      [] at = "short" /\ InPlace -> [kind |-> "raw", data |-> Overwritten]
      [] OTHER -> Passthrough

ProcessReturn(at) ==
    /\ cpc = at /\ statsMutex = "free"
    /\ stats' = Counted(at)
    /\ output' = FinalOutput(at)
    /\ ret' = IF at = "ok" THEN "OK" ELSE "TIMEOUT"
    /\ cpc' = "idle" /\ cgrant' = 0
    /\ UNCHANGED <<transport, call, frames, heard, isStarted, isConnected, statsMutex>>

Endings == {"xrun", "timeout", "short", "ok"}

ProcessStep ==
    \/ ProcessWrite \/ ProcessSignal \/ ProcessWake \/ ProcessTimeout
    \/ ProcessLoad \/ ProcessRead
    \/ \E at \in Endings : ProcessReturn(at)

ClientNext ==
    \/ EffectClient_Start \/ EffectClient_Stop
    \/ QueryStatsLock \/ QueryStatsUnlock
    \/ ProcessRejected
    \/ \E f \in ClientFrames : ProcessEnter(f)
    \/ ProcessStep
=============================================================================
