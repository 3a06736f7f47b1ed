--------------------------- MODULE EffectSession ---------------------------
(***************************************************************************)
(* One session of the effectd daemon, effectd/src/effectd_session.c: its   *)
(* life cycle (create, open, start, stop, destroy) and its processing      *)
(* thread, one step per access to the queues and to the eventfds.          *)
(***************************************************************************)
EXTENDS Transport

CONSTANTS BufferSize   \* framesPerBuffer * bytesPerFrame

ASSUME SessionAssumption == BufferSize \in Nat \ {0} /\ BufferSize <= QueueCapacity

VARIABLES state,          \* SessionState, "FREED" once destroyed
          threadRunning,  \* the flag that ends the processing thread
          ctl,            \* a control call waiting in pthread_join, or "none"
          spc,            \* the processing thread
          sbuf, sgrant,   \* its buffer and the transfer in progress
          wired,          \* the queues and eventfds of the client were handed over
          sstats,         \* SessionStats
          alive           \* the effectd process has not crashed

threadVars == <<spc, sbuf, sgrant, sstats>>
sessionVars == <<state, threadRunning, ctl, threadVars, wired, alive>>

(* effectd_session_create *)
SessionInit ==
    /\ state = "IDLE" /\ threadRunning = FALSE /\ ctl = "none"
    /\ spc = "none" /\ sbuf = <<>> /\ sgrant = 0
    /\ wired = FALSE
    /\ sstats = [processedFrames |-> 0, droppedFrames |-> 0, xrunCount |-> 0]
    /\ alive = TRUE

-----------------------------------------------------------------------------
effectd_session_open ==
    /\ alive /\ ctl = "none" /\ state = "IDLE"
    /\ state' = "OPENED"
    /\ UNCHANGED <<transport, threadRunning, ctl, threadVars, wired, alive>>

(* External: the HIDL service gives the session the client's queues and    *)
(* eventfds; until then eventFdIn is -1.                                   *)
Wire ==
    /\ alive /\ ctl = "none" /\ ~wired /\ state \in {"IDLE", "OPENED"}
    /\ wired' = TRUE
    /\ UNCHANGED <<transport, state, threadRunning, ctl, threadVars, alive>>

(* When pthread_create fails the call undoes threadRunning and returns. *)
effectd_session_start ==
    /\ alive /\ ctl = "none" /\ state = "OPENED"
    /\ threadRunning' = TRUE /\ spc' = "alloc" /\ state' = "STARTED"
    /\ UNCHANGED <<transport, ctl, sbuf, sgrant, sstats, wired, alive>>

(* effectd_session_stop, and the stop inside effectd_session_destroy, up   *)
(* to pthread_join.                                                        *)
StopRequest(caller) ==
    /\ alive /\ ctl = "none" /\ state = "STARTED"
    /\ threadRunning' = FALSE
    /\ ctl' = caller
    /\ UNCHANGED <<transport, state, threadVars, wired, alive>>

\* mutant: the call does not wait for the thread
MutantJoined ==
    /\ alive /\ ctl # "none"
    /\ state' = IF ctl = "destroy" THEN "FREED" ELSE "STOPPED"
    /\ ctl' = "none"
    /\ UNCHANGED <<transport, threadRunning, threadVars, wired, alive>>

StopJoined ==
    /\ alive /\ ctl # "none" /\ spc = "exited"
    /\ state' = IF ctl = "destroy" THEN "FREED" ELSE "STOPPED"
    /\ ctl' = "none"
    /\ UNCHANGED <<transport, threadRunning, threadVars, wired, alive>>

(* effectd_session_destroy of a session that is not started *)
effectd_session_destroy ==
    /\ alive /\ ctl = "none" /\ state \in {"IDLE", "OPENED", "STOPPED"}
    /\ state' = "FREED"
    /\ UNCHANGED <<transport, threadRunning, ctl, threadVars, wired, alive>>

(* External: the effect library takes the whole daemon down. *)
Crash ==
    /\ alive
    /\ alive' = FALSE
    /\ UNCHANGED <<transport, state, threadRunning, ctl, threadVars, wired>>

-----------------------------------------------------------------------------
(* processing_thread_func.  Its two mallocs succeed or the thread ends. *)
ThreadAlloc ==
    /\ alive /\ spc = "alloc"
    /\ spc' \in {"loop", "exited"}
    /\ UNCHANGED <<transport, state, threadRunning, ctl, sbuf, sgrant, sstats, wired, alive>>

\* mutant: the loop does not look at threadRunning
MutantLoop ==
    /\ alive /\ spc = "loop"
    /\ spc' = "poll"
    /\ UNCHANGED <<transport, state, threadRunning, ctl, sbuf, sgrant, sstats, wired, alive>>

ThreadLoop ==
    /\ alive /\ spc = "loop"
    /\ spc' = IF threadRunning THEN "poll" ELSE "exited"
    /\ UNCHANGED <<transport, state, threadRunning, ctl, sbuf, sgrant, sstats, wired, alive>>

ThreadWake ==
    /\ alive /\ spc = "poll" /\ wired /\ Signalled(evIn)
    /\ evIn' = Cleared(evIn)
    /\ spc' = "check"
    /\ UNCHANGED <<inQ, outQ, evOut, state, threadRunning, ctl, sbuf, sgrant, sstats, wired, alive>>

(* 100 ms pass without a signal, or eventFdIn is still -1. *)
ThreadTimeout ==
    /\ alive /\ spc = "poll" /\ ~(wired /\ Signalled(evIn))
    /\ spc' = "loop"
    /\ UNCHANGED <<transport, state, threadRunning, ctl, sbuf, sgrant, sstats, wired, alive>>

ThreadCheck ==
    /\ alive /\ spc = "check"
    /\ spc' = IF effect_fmq_available_to_read(inQ) < BufferSize THEN "loop" ELSE "load"
    /\ UNCHANGED <<transport, state, threadRunning, ctl, sbuf, sgrant, sstats, wired, alive>>

ThreadLoad ==
    /\ alive /\ spc = "load"
    /\ sgrant' = Granted(BufferSize, effect_fmq_available_to_read(inQ))
    /\ spc' = "read"
    /\ UNCHANGED <<transport, state, threadRunning, ctl, sbuf, sstats, wired, alive>>

(* A short read is counted and its bytes are lost; a full one is processed *)
(* by the effect library.                                                  *)
ThreadRead ==
    /\ alive /\ spc = "read"
    /\ inQ' = Release(inQ, sgrant)
    /\ IF sgrant < BufferSize
       THEN /\ sstats' = [sstats EXCEPT !.xrunCount = @ + 1]
            /\ sbuf' = <<>> /\ spc' = "loop"
       ELSE /\ sbuf' = Front(inQ, sgrant) /\ spc' = "process"
            /\ UNCHANGED sstats
    /\ sgrant' = 0
    /\ UNCHANGED <<outQ, evIn, evOut, state, threadRunning, ctl, wired, alive>>

(* mock_process_audio, then the write to the output queue loads the indices *)
ThreadProcess ==
    /\ alive /\ spc = "process"
    /\ sgrant' = Granted(BufferSize, effect_fmq_available_to_write(outQ))
    /\ spc' = "write"
    /\ UNCHANGED <<transport, state, threadRunning, ctl, sbuf, sstats, wired, alive>>

\* mutant: a short write is signalled like a full one
MutantThreadWrite ==
    /\ alive /\ spc = "write"
    /\ outQ' = Publish(outQ, sbuf, sgrant)
    /\ spc' = "signal"
    /\ sbuf' = <<>> /\ sgrant' = 0
    /\ UNCHANGED <<inQ, evIn, evOut, state, threadRunning, ctl, sstats, wired, alive>>

(* A short write is counted as dropped and nothing is signalled. *)
ThreadWrite ==
    /\ alive /\ spc = "write"
    /\ outQ' = Publish(outQ, sbuf, sgrant)
    /\ IF sgrant < BufferSize
       THEN /\ sstats' = [sstats EXCEPT !.droppedFrames = @ + BufferSize]
            /\ spc' = "loop"
       ELSE /\ spc' = "signal"
            /\ UNCHANGED sstats
    /\ sbuf' = <<>> /\ sgrant' = 0
    /\ UNCHANGED <<inQ, evIn, evOut, state, threadRunning, ctl, wired, alive>>

\* mutant: the client is not told of the output
MutantThreadSignal ==
    /\ alive /\ spc = "signal"
    /\ spc' = "account"
    /\ UNCHANGED <<transport, state, threadRunning, ctl, sbuf, sgrant, sstats, wired, alive>>

ThreadSignal ==
    /\ alive /\ spc = "signal"
    /\ evOut' = effect_eventfd_signal(evOut)
    /\ spc' = "account"
    /\ UNCHANGED <<inQ, outQ, evIn, state, threadRunning, ctl, sbuf, sgrant, sstats, wired, alive>>

ThreadAccount ==
    /\ alive /\ spc = "account"
    /\ sstats' = [sstats EXCEPT !.processedFrames = @ + BufferSize]
    /\ spc' = "loop"
    /\ UNCHANGED <<transport, state, threadRunning, ctl, sbuf, sgrant, wired, alive>>

ThreadStep ==
    \/ ThreadAlloc \/ ThreadLoop \/ ThreadWake \/ ThreadTimeout \/ ThreadCheck
    \/ ThreadLoad \/ ThreadRead \/ ThreadProcess \/ ThreadWrite
    \/ ThreadSignal \/ ThreadAccount

SessionNext ==
    \/ effectd_session_open \/ Wire \/ effectd_session_start
    \/ \E caller \in {"stop", "destroy"} : StopRequest(caller)
    \/ StopJoined \/ effectd_session_destroy \/ Crash
    \/ ThreadStep
=============================================================================
