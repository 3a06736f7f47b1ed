--------------------------- MODULE EffectPipeline ---------------------------
(***************************************************************************)
(* The audio path end to end: the client library in the HAL process and    *)
(* one effectd session, joined by two queues and two eventfds.  Nothing    *)
(* but the queues and the eventfds relates a call of EffectClient_Process  *)
(* to the block the session processes: no block carries a number.          *)
(***************************************************************************)
EXTENDS EffectClient, EffectSession

vars == <<transport, clientVars, sessionVars>>

Init == TransportInit /\ ClientInit /\ SessionInit

Next == \/ ClientNext /\ UNCHANGED sessionVars
        \/ SessionNext /\ UNCHANGED clientVars

Spec == Init /\ [][Next]_vars

(* The scheduler runs the HAL's thread and the processing thread, poll     *)
(* returns, and pthread_join returns once the thread has ended.  Nobody is *)
(* obliged to call anything, to release the mutex soon, or to crash.       *)
Fairness == /\ WF_vars(ProcessStep /\ UNCHANGED sessionVars)
            /\ WF_vars(ThreadStep /\ UNCHANGED clientVars)
            /\ WF_vars(StopJoined /\ UNCHANGED clientVars)

FairSpec == Spec /\ Fairness

-----------------------------------------------------------------------------
Unit == (0..MaxCalls) \X Nat
ClientPc == {"idle", "write", "signal", "wait", "load", "read"} \cup Endings
ThreadPc == {"none", "alloc", "loop", "poll", "check", "load", "read",
             "process", "write", "signal", "account", "exited"}

TransportOK ==
    /\ inQ \in Seq(Unit) /\ Len(inQ) <= QueueCapacity
    /\ outQ \in Seq(Unit) /\ Len(outQ) <= QueueCapacity
    /\ evIn \in 0..EventMax /\ evOut \in 0..EventMax

ClientOK ==
    /\ cpc \in ClientPc /\ call \in 0..MaxCalls /\ frames \in ClientFrames \cup {0}
    /\ cgrant \in 0..frames
    /\ output \in [kind : {"none", "raw", "effect"}, data : Seq(Unit)]
    /\ ret \in {"none", "OK", "TIMEOUT", "INVALID_STATE"}
    /\ isStarted \in BOOLEAN /\ isConnected \in BOOLEAN
    /\ stats \in [processedFrames : Nat, droppedFrames : Nat, timeoutCount : Nat, xrunCount : Nat]
    /\ statsMutex \in {"free", "query"}
    /\ heard \in Unit

SessionOK ==
    /\ state \in {"IDLE", "OPENED", "STARTED", "STOPPED", "FREED"}
    /\ threadRunning \in BOOLEAN /\ ctl \in {"none", "stop", "destroy"}
    /\ spc \in ThreadPc
    /\ sbuf \in Seq(Unit) /\ Len(sbuf) <= BufferSize /\ sgrant \in 0..BufferSize
    /\ wired \in BOOLEAN /\ alive \in BOOLEAN
    /\ sstats \in [processedFrames : Nat, droppedFrames : Nat, xrunCount : Nat]

(* The fields of both sessions keep their types and the queues never hold  *)
(* more than their capacity (effect_client.c, effectd_session.c).          *)
TypeOK == TransportOK /\ ClientOK /\ SessionOK

(* What a transfer was granted when it loaded the indices is still there   *)
(* when it moves the bytes, whatever the other process did in between.     *)
GrantsHold ==
    /\ cpc = "write" => Len(inQ) + cgrant <= QueueCapacity
    /\ cpc = "read" => cgrant <= Len(outQ)
    /\ spc = "write" => Len(outQ) + sgrant <= QueueCapacity /\ Len(sbuf) = BufferSize
    /\ spc = "read" => sgrant <= Len(inQ)
    /\ spc = "process" => Len(sbuf) = BufferSize

-----------------------------------------------------------------------------
(* Signals and blocks, for a client that passes whole buffers.             *)

If(p) == IF p THEN BufferSize ELSE 0
ThreadHolds == spc \in {"check", "load", "read"}     \* woken, block not yet taken
ClientHolds == cpc \in {"load", "read"}

(* Behind every signal there is a block: a pending eventfd, a write that   *)
(* is about to signal and a reader that was woken each account for a whole *)
(* buffer of their own in the queue.                                       *)
SignalsCovered ==
    /\ Len(inQ) >= If(evIn > 0) + If(cpc = "signal") + If(ThreadHolds)
    /\ Len(outQ) >= If(evOut > 0) + If(spc = "signal") + If(ClientHolds)

(* Whoever was woken finds a whole buffer: the branches for too little     *)
(* data (effectd_session.c 69 and 75, effect_client.c 222) never run, in   *)
(* either build of the queue, although eventfd merges signals.             *)
NoShortReads ==
    /\ sstats.xrunCount = 0 /\ stats.droppedFrames = 0
    /\ spc = "check" => effect_fmq_available_to_read(inQ) >= BufferSize

(* A queue without room for another buffer has a reader coming: a signal   *)
(* is pending, about to be sent, or was taken by a reader that has not     *)
(* read yet.  Otherwise writers would fail for ever, for a writer that     *)
(* fails does not signal (effect_client.c 194-203, effectd_session.c       *)
(* 88-93).                                                                 *)
NoWedge ==
    /\ Len(inQ) > QueueCapacity - BufferSize
           => evIn > 0 \/ cpc = "signal" \/ ThreadHolds
    /\ Len(outQ) > QueueCapacity - BufferSize
           => evOut > 0 \/ spc = "signal" \/ ClientHolds

(* A write that is going to fail does not use up the room of the last      *)
(* buffer unless a reader is coming, and a woken reader is granted a whole *)
(* buffer.                                                                 *)
FailingWritesHarmless ==
    /\ cpc = "write" => \/ cgrant = BufferSize
                        \/ Len(inQ) + cgrant <= QueueCapacity - BufferSize
                        \/ evIn > 0 \/ ThreadHolds
    /\ spc = "write" => \/ sgrant = BufferSize
                        \/ Len(outQ) + sgrant <= QueueCapacity - BufferSize
                        \/ evOut > 0 \/ ClientHolds
    /\ cpc = "read" => cgrant = BufferSize
    /\ spc = "read" => sgrant = BufferSize
    /\ cpc # "idle" => frames = BufferSize
    /\ cpc # "short"

PipeInv == SignalsCovered /\ NoShortReads /\ NoWedge /\ FailingWritesHarmless

(* The delay never recovers.  With the Android queue, between calls, the   *)
(* units waiting in the pipeline are exactly one buffer per timeout, less  *)
(* what the session had to drop: each call that gave up leaves its block   *)
(* behind, and no later call makes up for it.                              *)
InPipeline == Len(inQ) + Len(outQ)
              + If(spc \in {"process", "write"}) + sstats.droppedFrames
BacklogLaw ==
    AllOrNothing /\ cpc = "idle" => InPipeline = BufferSize * stats.timeoutCount

(* The same law during a call: the call in progress has its own block in   *)
(* the pipeline from its write until it reads one or gives up.             *)
Owed == If(cpc \in {"signal", "wait", "timeout", "load", "read"})
BacklogInv ==
    AllOrNothing =>
        /\ InPipeline = BufferSize * stats.timeoutCount + Owed
        /\ cpc = "write" => cgrant \in {0, BufferSize}
        /\ spc = "write" => sgrant \in {0, BufferSize}

-----------------------------------------------------------------------------
(* The contents of the queues.                                             *)

Before(u, v) == u[1] < v[1] \/ (u[1] = v[1] /\ u[2] < v[2])
InFlight == <<heard>> \o outQ \o sbuf \o inQ

(* What the client reads is in the order of its calls, nothing twice: the  *)
(* last unit read, the output queue, the session's buffer and the input    *)
(* queue are in order, whatever was dropped in between.                    *)
InOrder == \A i \in 1..(Len(InFlight) - 1) : Before(InFlight[i], InFlight[i + 1])

IsBlock(s) == \A i \in 1..Len(s) : s[i] = <<s[1][1], i>>

(* The session never processes, and a call never returns, a buffer made of *)
(* the inputs of several calls.                                            *)
BuffersWhole == IsBlock(sbuf) /\ (output.kind = "effect" => IsBlock(output.data))

(* With the Android queue the queues hold whole inputs of calls, one after *)
(* the other, each from its first unit to its last.                        *)
Blocks(q) == /\ Len(q) % BufferSize = 0
             /\ \A k \in 0..(Len(q) \div BufferSize - 1) :
                    IsBlock(SubSeq(q, k * BufferSize + 1, (k + 1) * BufferSize))
WholeBlocks == Blocks(inQ) /\ Blocks(outQ) /\ BuffersWhole

(* A call that returns EFFECT_ERROR_TIMEOUT has left its own input in      *)
(* output, whole: after an overrun, a timeout, or a short read if there    *)
(* were one (effect_client.c 194-203, 209-218, 222-230).                   *)
PassthroughOnTimeout == ret = "TIMEOUT" => output = Passthrough

-----------------------------------------------------------------------------
(* The session's memory is released, and STOPPED reported, only when the   *)
(* processing thread is gone (effectd_session_stop, _destroy).             *)
ThreadGoneFirst ==
    state \in {"STOPPED", "FREED"} => spc \in {"none", "exited"} /\ ctl = "none"

(* With it, the thread exists only once the session was started. *)
LifecycleInv ==
    /\ state \in {"IDLE", "OPENED"} => spc = "none" /\ ctl = "none"
    /\ ThreadGoneFirst

(* EffectClient_Process returns, even if effectd has crashed or was never  *)
(* connected, as long as no other thread keeps the statistics locked.      *)
ProcessReturns == <>[](statsMutex = "free") => (cpc # "idle" ~> cpc = "idle")

(* effectd_session_stop and _destroy return: the thread notices            *)
(* threadRunning after at most one poll timeout and one block.             *)
StopReturns == ctl # "none" ~> (ctl = "none" \/ ~alive)

-----------------------------------------------------------------------------
(* For a client that passes whole buffers the pipeline is a queue of       *)
(* blocks with loss: a block is pending from the client's write until the  *)
(* session writes its answer or drops it.                                  *)
Contract == INSTANCE ClientContract WITH
    Depth <- QueueCapacity \div BufferSize,
    OverrunCopies <- UseFmq \/ InPlace,
    phase <- CASE cpc = "idle" -> "idle"
               [] cpc \in {"write", "xrun"} -> "called"
               [] cpc = "ok" -> "took"
               [] OTHER -> "offered",
    started <- isStarted,
    out <- output.kind,
    pending <- (Len(inQ) + Len(sbuf)) \div BufferSize,
    answers <- Len(outQ) \div BufferSize

(* Whatever the interleaving of the real-time thread, the control threads, *)
(* the session and a crash, EffectClient_Process keeps its contract: no    *)
(* answer is invented, given to two calls or made by a dead effectd, and a *)
(* call that got none returns its own input with EFFECT_ERROR_TIMEOUT, but *)
(* for the overrun of the shared-memory build (effect_client.c 234-241).   *)
KeepsContract == Contract!ContractSpec

-----------------------------------------------------------------------------
(* A statement of the documentation that the code does not keep: EFFECT_OK *)
(* means output is the processed input of that very call.                  *)
OkAnswersThisCall == ret = "OK" => output.data = Input
=============================================================================
