--------------------------- MODULE PipelineProofs ---------------------------
(***************************************************************************)
(* The audio path proved for every queue capacity, buffer size, eventfd    *)
(* limit and number of calls, and for both builds of the queue: types and  *)
(* grants, the life of the thread, whole buffers and their signals, the    *)
(* backlog, the input after a timeout, and the order of what is read.      *)
(***************************************************************************)
EXTENDS EffectPipeline, SequenceTheorems, TLAPS

(* A write appends as many units as it was granted. *)
LEMMA PublishFacts ==
    ASSUME NEW q \in Seq(Unit), NEW b \in Seq(Unit), NEW n \in 0..Len(b)
    PROVE  Publish(q, b, n) \in Seq(Unit) /\ Len(Publish(q, b, n)) = Len(q) + n
  <1>1. SubSeq(b, 1, n) \in Seq(Unit) /\ Len(SubSeq(b, 1, n)) = n
    BY SubSeqProperties
  <1> QED BY <1>1, ConcatProperties DEF Publish

(* A read removes as many units as it was granted. *)
LEMMA ReleaseFacts ==
    ASSUME NEW q \in Seq(Unit), NEW n \in 0..Len(q)
    PROVE  /\ Release(q, n) \in Seq(Unit) /\ Len(Release(q, n)) = Len(q) - n
           /\ Front(q, n) \in Seq(Unit) /\ Len(Front(q, n)) = n
  <1>1. Len(q) \in Nat /\ n \in Nat /\ n <= Len(q)
    OBVIOUS
  <1>2. SubSeq(q, 1, n) \in Seq(Unit) /\ Len(SubSeq(q, 1, n)) = n
    BY <1>1, SubSeqProperties
  <1>3. SubSeq(q, n + 1, Len(q)) \in Seq(Unit) /\ Len(SubSeq(q, n + 1, Len(q))) = Len(q) - n
    BY <1>1, SubSeqProperties
  <1> QED BY <1>2, <1>3 DEF Release, Front

(* A transfer is granted no more than it asks for and no more than there   *)
(* is, and all it asks for if there is that much.                          *)
LEMMA GrantedFacts ==
    ASSUME NEW size \in Nat, NEW available \in Nat
    PROVE  /\ Granted(size, available) \in 0..size
           /\ Granted(size, available) <= available
           /\ size <= available => Granted(size, available) = size
           /\ Granted(size, available) # size => available < size
  BY DEF Granted

(* The input of a call is a sequence of units. *)
LEMMA InputFacts ==
    ASSUME ClientOK
    PROVE  /\ frames \in Nat
           /\ Input \in Seq(Unit) /\ Len(Input) = frames
           /\ Passthrough \in [kind : {"none", "raw", "effect"}, data : Seq(Unit)]
  <1>1. frames \in Nat
    BY ClientAssumption DEF ClientOK
  <1>2. \A i \in 1..frames : <<call, i>> \in Unit
    BY <1>1 DEF ClientOK, Unit
  <1>3. Input \in Seq(Unit) /\ Len(Input) = frames
    BY <1>1, <1>2 DEF Input
  <1> QED BY <1>1, <1>3 DEF Passthrough

(* So is an input of which a short read has overwritten the beginning. *)
LEMMA OverwrittenFacts ==
    ASSUME ClientOK
    PROVE  Overwritten \in Seq(Unit)
  <1>1. output.data \in Seq(Unit) /\ Len(output.data) \in Nat
    BY DEF ClientOK
  <1>2. SubSeq(Input, Len(output.data) + 1, frames) \in Seq(Unit)
    BY <1>1, InputFacts
  <1> QED BY <1>1, <1>2 DEF Overwritten

(* Signals and waits keep an eventfd counter in range. *)
LEMMA EventFacts ==
    ASSUME NEW ev \in 0..EventMax
    PROVE  /\ effect_eventfd_signal(ev) \in 0..EventMax
           /\ effect_eventfd_signal(ev) > 0
           /\ Cleared(ev) = 0
           /\ Cleared(ev) \in 0..EventMax
  BY TransportAssumption DEF effect_eventfd_signal, Cleared

(* A side that does not move keeps its type. *)
LEMMA ClientIdle == ClientOK /\ UNCHANGED clientVars => ClientOK'
  BY DEF ClientOK, clientVars, rtVars

(* The same for the session. *)
LEMMA SessionIdle == SessionOK /\ UNCHANGED sessionVars => SessionOK'
  BY DEF SessionOK, sessionVars, threadVars

-----------------------------------------------------------------------------
(* Type correctness, together with the grants it rests on.                 *)

TypeInv == TypeOK /\ GrantsHold

(* Both processes start with nothing in the queues. *)
LEMMA TypeInit == Init => TypeInv
  <1> SUFFICES ASSUME Init PROVE TypeInv
    OBVIOUS
  <1>1. <<>> \in Seq(Unit) /\ Len(<<>>) = 0
    OBVIOUS
  <1>2. TransportOK
    BY <1>1, TransportAssumption DEF Init, TransportInit, TransportOK
  <1>3. ClientOK
    <2>1. heard \in Unit /\ call \in 0..MaxCalls
      BY ClientAssumption DEF Init, ClientInit, Unit
    <2>2. isStarted \in BOOLEAN /\ isConnected \in BOOLEAN
      BY DEF Init, ClientInit
    <2>3. cgrant \in 0..frames /\ frames \in ClientFrames \cup {0}
      BY DEF Init, ClientInit
    <2>4. output \in [kind : {"none", "raw", "effect"}, data : Seq(Unit)]
      BY <1>1 DEF Init, ClientInit, NoOutput
    <2>5. stats \in [processedFrames : Nat, droppedFrames : Nat, timeoutCount : Nat, xrunCount : Nat]
      BY DEF Init, ClientInit, NoStats
    <2> QED BY <2>1, <2>2, <2>3, <2>4, <2>5 DEF Init, ClientInit, ClientOK, ClientPc
  <1>4. SessionOK
    <2>1. threadRunning \in BOOLEAN /\ wired \in BOOLEAN /\ alive \in BOOLEAN
      BY DEF Init, SessionInit
    <2>2. sbuf \in Seq(Unit) /\ Len(sbuf) <= BufferSize /\ sgrant \in 0..BufferSize
      BY <1>1, SessionAssumption DEF Init, SessionInit
    <2> QED BY <2>1, <2>2 DEF Init, SessionInit, SessionOK, ThreadPc
  <1>5. GrantsHold
    BY DEF Init, ClientInit, SessionInit, GrantsHold
  <1> QED BY <1>2, <1>3, <1>4, <1>5 DEF TypeInv, TypeOK

(* A step of the client keeps types and grants: it adds to the input queue *)
(* what it was granted, and only it adds; it takes from the output queue   *)
(* what it was granted, and only it takes.                                 *)
LEMMA ClientTypeStep ==
    ASSUME TypeInv, ClientNext, UNCHANGED sessionVars
    PROVE  TypeInv'
  <1> USE DEF TypeInv, TypeOK
  <1>0. SessionOK'
    BY SessionIdle
  <1>1. CASE EffectClient_Start \/ EffectClient_Stop
    <2>1. isStarted' \in BOOLEAN
      BY <1>1 DEF EffectClient_Start, EffectClient_Stop
    <2>2. ClientOK'
      BY <1>1, <2>1 DEF EffectClient_Start, EffectClient_Stop, ClientOK, rtVars
    <2>3. TransportOK'
      BY <1>1 DEF EffectClient_Start, EffectClient_Stop, TransportOK, transport
    <2>4. GrantsHold'
      BY <1>1 DEF EffectClient_Start, EffectClient_Stop, GrantsHold, transport, rtVars,
                  sessionVars, threadVars
    <2> QED BY <1>0, <2>2, <2>3, <2>4
  <1>2. CASE QueryStatsLock \/ QueryStatsUnlock
    <2>1. ClientOK'
      BY <1>2 DEF QueryStatsLock, QueryStatsUnlock, ClientOK, rtVars
    <2>2. TransportOK'
      BY <1>2 DEF QueryStatsLock, QueryStatsUnlock, TransportOK, transport
    <2>3. GrantsHold'
      BY <1>2 DEF QueryStatsLock, QueryStatsUnlock, GrantsHold, transport, rtVars,
                  sessionVars, threadVars
    <2> QED BY <1>0, <2>1, <2>2, <2>3
  <1>3. CASE ProcessRejected
    <2>1. output' \in [kind : {"none", "raw", "effect"}, data : Seq(Unit)]
      BY <1>3 DEF ProcessRejected, NoOutput
    <2>2. ClientOK'
      BY <1>3, <2>1 DEF ProcessRejected, ClientOK
    <2>3. TransportOK'
      BY <1>3 DEF ProcessRejected, TransportOK, transport
    <2>4. GrantsHold'
      BY <1>3 DEF ProcessRejected, GrantsHold, transport, sessionVars, threadVars
    <2> QED BY <1>0, <2>2, <2>3, <2>4
  <1>4. ASSUME NEW f \in ClientFrames, ProcessEnter(f) PROVE TypeInv'
    <2>1. f \in Nat /\ QueueCapacity - Len(inQ) \in Nat
      BY ClientAssumption, TransportAssumption DEF TransportOK
    <2>2. cgrant' \in 0..f /\ Len(inQ) + cgrant' <= QueueCapacity
      <3> DEFINE free == QueueCapacity - Len(inQ)
      <3>1. cgrant' = Granted(f, free)
        BY <1>4 DEF ProcessEnter, effect_fmq_available_to_write
      <3>2. free \in Nat
        BY <2>1
      <3> HIDE DEF free
      <3>3. cgrant' \in 0..f /\ cgrant' <= free
        BY <2>1, <3>1, <3>2, GrantedFacts
      <3> QED BY <2>1, <3>3, TransportAssumption DEF free, TransportOK
    <2>3. output' \in [kind : {"none", "raw", "effect"}, data : Seq(Unit)]
      BY <1>4 DEF ProcessEnter, NoOutput
    <2>4. call' \in 0..MaxCalls
      BY <1>4, ClientAssumption DEF ProcessEnter, ClientOK
    <2>5. ClientOK'
      BY <1>4, <2>2, <2>3, <2>4 DEF ProcessEnter, ClientOK, ClientPc
    <2>6. TransportOK'
      BY <1>4 DEF ProcessEnter, TransportOK, transport
    <2>7. GrantsHold'
      BY <1>4, <2>2 DEF ProcessEnter, GrantsHold, transport, sessionVars, threadVars
    <2> QED BY <1>0, <2>5, <2>6, <2>7
  <1>5. CASE ProcessWrite
    <2>1. cgrant \in 0..Len(Input) /\ Input \in Seq(Unit) /\ inQ \in Seq(Unit)
      BY InputFacts DEF ClientOK, TransportOK
    <2>2. inQ' \in Seq(Unit) /\ Len(inQ') = Len(inQ) + cgrant
      BY <1>5, <2>1, PublishFacts DEF ProcessWrite
    <2>3. ClientOK'
      BY <1>5 DEF ProcessWrite, Written, ClientOK, ClientPc, Endings
    <2>4. TransportOK'
      BY <1>5, <2>2 DEF ProcessWrite, TransportOK, GrantsHold
    <2>5. GrantsHold'
      BY <1>5, <2>1, <2>2, SessionAssumption
         DEF ProcessWrite, Written, GrantsHold, SessionOK, TransportOK, sessionVars, threadVars
    <2> QED BY <1>0, <2>3, <2>4, <2>5
  <1>6. CASE ProcessSignal
    <2>1. evIn' \in 0..EventMax
      BY <1>6, EventFacts DEF ProcessSignal, TransportOK
    <2>2. ClientOK'
      BY <1>6 DEF ProcessSignal, ClientOK, ClientPc
    <2>3. TransportOK'
      BY <1>6, <2>1 DEF ProcessSignal, TransportOK
    <2>4. GrantsHold'
      BY <1>6 DEF ProcessSignal, GrantsHold, sessionVars, threadVars
    <2> QED BY <1>0, <2>2, <2>3, <2>4
  <1>7. CASE ProcessWake
    <2>1. evOut' \in 0..EventMax
      BY <1>7, EventFacts DEF ProcessWake, TransportOK
    <2>2. ClientOK'
      BY <1>7 DEF ProcessWake, ClientOK, ClientPc
    <2>3. TransportOK'
      BY <1>7, <2>1 DEF ProcessWake, TransportOK
    <2>4. GrantsHold'
      BY <1>7 DEF ProcessWake, GrantsHold, sessionVars, threadVars
    <2> QED BY <1>0, <2>2, <2>3, <2>4
  <1>8. CASE ProcessTimeout
    <2>1. ClientOK'
      BY <1>8 DEF ProcessTimeout, ClientOK, ClientPc, Endings
    <2>2. TransportOK'
      BY <1>8 DEF ProcessTimeout, TransportOK, transport
    <2>3. GrantsHold'
      BY <1>8 DEF ProcessTimeout, GrantsHold, transport, sessionVars, threadVars
    <2> QED BY <1>0, <2>1, <2>2, <2>3
  <1>9. CASE ProcessLoad
    <2>1. frames \in Nat /\ Len(outQ) \in Nat
      BY InputFacts DEF TransportOK
    <2>2. cgrant' \in 0..frames /\ cgrant' <= Len(outQ)
      BY <1>9, <2>1, GrantedFacts DEF ProcessLoad, effect_fmq_available_to_read
    <2>3. ClientOK'
      BY <1>9, <2>2 DEF ProcessLoad, ClientOK, ClientPc
    <2>4. TransportOK'
      BY <1>9 DEF ProcessLoad, TransportOK, transport
    <2>5. GrantsHold'
      BY <1>9, <2>2 DEF ProcessLoad, GrantsHold, transport, sessionVars, threadVars
    <2> QED BY <1>0, <2>3, <2>4, <2>5
  <1>10. CASE ProcessRead
    <2>1. cgrant \in 0..Len(outQ) /\ outQ \in Seq(Unit) /\ frames \in Nat
      BY <1>10, InputFacts DEF ProcessRead, GrantsHold, TransportOK, ClientOK
    <2>2. /\ outQ' \in Seq(Unit) /\ Len(outQ') = Len(outQ) - cgrant
          /\ Front(outQ, cgrant) \in Seq(Unit)
      BY <1>10, <2>1, ReleaseFacts DEF ProcessRead
    <2>3. output' \in [kind : {"none", "raw", "effect"}, data : Seq(Unit)]
      BY <1>10, <2>2 DEF ProcessRead
    <2>4. heard' \in Unit
      BY <1>10, <2>1 DEF ProcessRead, ClientOK
    <2>5. ClientOK'
      BY <1>10, <2>3, <2>4 DEF ProcessRead, ClientOK, ClientPc, Endings
    <2>6. TransportOK'
      BY <1>10, <2>1, <2>2, TransportAssumption DEF ProcessRead, TransportOK
    <2>7. GrantsHold'
      BY <1>10, <2>1, <2>2, TransportAssumption, SessionAssumption
         DEF ProcessRead, GrantsHold, SessionOK, TransportOK, sessionVars, threadVars
    <2> QED BY <1>0, <2>5, <2>6, <2>7
  <1>11. ASSUME NEW at \in Endings, ProcessReturn(at) PROVE TypeInv'
    <2>1. stats' \in [processedFrames : Nat, droppedFrames : Nat, timeoutCount : Nat, xrunCount : Nat]
      <3>1. frames \in Nat
        BY InputFacts
      <3>2. CASE at = "xrun"
        BY <1>11, <3>2 DEF ProcessReturn, Counted, ClientOK
      <3>3. CASE at = "timeout"
        BY <1>11, <3>3 DEF ProcessReturn, Counted, ClientOK
      <3>4. CASE at = "short"
        BY <1>11, <3>1, <3>4 DEF ProcessReturn, Counted, ClientOK
      <3>5. CASE at = "ok"
        BY <1>11, <3>1, <3>5 DEF ProcessReturn, Counted, ClientOK
      <3> QED BY <3>2, <3>3, <3>4, <3>5 DEF Endings
    <2>2. output' \in [kind : {"none", "raw", "effect"}, data : Seq(Unit)]
      BY <1>11, InputFacts, OverwrittenFacts DEF ProcessReturn, FinalOutput, ClientOK, Endings
    <2>3. cgrant' \in 0..frames
      BY <1>11, InputFacts DEF ProcessReturn
    <2>4. ClientOK'
      BY <1>11, <2>1, <2>2, <2>3 DEF ProcessReturn, ClientOK, ClientPc
    <2>5. TransportOK'
      BY <1>11 DEF ProcessReturn, TransportOK, transport
    <2>6. GrantsHold'
      BY <1>11 DEF ProcessReturn, GrantsHold, transport, sessionVars, threadVars
    <2> QED BY <1>0, <2>4, <2>5, <2>6
  <1> QED BY <1>1, <1>2, <1>3, <1>4, <1>5, <1>6, <1>7, <1>8, <1>9, <1>10, <1>11
          DEF ClientNext, ProcessStep

(* A step of the session keeps types and grants, by the same argument with *)
(* the queues exchanged.                                                   *)
LEMMA SessionTypeStep ==
    ASSUME TypeInv, SessionNext, UNCHANGED clientVars
    PROVE  TypeInv'
  <1> USE DEF TypeInv, TypeOK
  <1>0. ClientOK'
    BY ClientIdle
  <1>1. CASE \/ effectd_session_open \/ Wire \/ effectd_session_destroy \/ Crash \/ StopJoined
             \/ \E caller \in {"stop", "destroy"} : StopRequest(caller)
    <2> USE DEF effectd_session_open, Wire, effectd_session_destroy, Crash, StopJoined, StopRequest
    <2>1. threadRunning' \in BOOLEAN /\ wired' \in BOOLEAN /\ alive' \in BOOLEAN
      BY <1>1 DEF SessionOK
    <2>2. state' \in {"IDLE", "OPENED", "STARTED", "STOPPED", "FREED"} /\ ctl' \in {"none", "stop", "destroy"}
      BY <1>1 DEF SessionOK
    <2>3. UNCHANGED <<transport, threadVars>>
      BY <1>1
    <2>4. SessionOK'
      BY <2>1, <2>2, <2>3 DEF SessionOK, threadVars
    <2>5. TransportOK'
      BY <2>3 DEF TransportOK, transport
    <2>6. GrantsHold'
      BY <2>3 DEF GrantsHold, transport, threadVars, clientVars, rtVars
    <2> QED BY <1>0, <2>4, <2>5, <2>6
  <1>2. CASE effectd_session_start
    <2>1. threadRunning' \in BOOLEAN
      BY <1>2 DEF effectd_session_start
    <2>2. SessionOK'
      BY <1>2, <2>1 DEF effectd_session_start, SessionOK, ThreadPc
    <2>3. TransportOK'
      BY <1>2 DEF effectd_session_start, TransportOK, transport
    <2>4. GrantsHold'
      BY <1>2 DEF effectd_session_start, GrantsHold, transport, clientVars, rtVars
    <2> QED BY <1>0, <2>2, <2>3, <2>4
  <1>3. CASE ThreadAlloc \/ ThreadLoop \/ ThreadTimeout \/ ThreadCheck
    <2> USE DEF ThreadAlloc, ThreadLoop, ThreadTimeout, ThreadCheck
    <2>1. /\ spc' \in {"loop", "exited", "poll", "load"}
          /\ UNCHANGED <<transport, state, threadRunning, ctl, sbuf, sgrant, sstats, wired, alive>>
      BY <1>3
    <2>2. SessionOK'
      BY <2>1 DEF SessionOK, ThreadPc
    <2>3. TransportOK'
      BY <2>1 DEF TransportOK, transport
    <2>4. GrantsHold'
      BY <2>1 DEF GrantsHold, transport, clientVars, rtVars
    <2> QED BY <1>0, <2>2, <2>3, <2>4
  <1>4. CASE ThreadWake
    <2>1. evIn' \in 0..EventMax
      BY <1>4, EventFacts DEF ThreadWake, TransportOK
    <2>2. SessionOK'
      BY <1>4 DEF ThreadWake, SessionOK, ThreadPc
    <2>3. TransportOK'
      BY <1>4, <2>1 DEF ThreadWake, TransportOK
    <2>4. GrantsHold'
      BY <1>4 DEF ThreadWake, GrantsHold, clientVars, rtVars
    <2> QED BY <1>0, <2>2, <2>3, <2>4
  <1>5. CASE ThreadLoad
    <2>1. BufferSize \in Nat /\ Len(inQ) \in Nat
      BY SessionAssumption DEF TransportOK
    <2>2. sgrant' \in 0..BufferSize /\ sgrant' <= Len(inQ)
      BY <1>5, <2>1, GrantedFacts DEF ThreadLoad, effect_fmq_available_to_read
    <2>3. SessionOK'
      BY <1>5, <2>2 DEF ThreadLoad, SessionOK, ThreadPc
    <2>4. TransportOK'
      BY <1>5 DEF ThreadLoad, TransportOK, transport
    <2>5. GrantsHold'
      BY <1>5, <2>2 DEF ThreadLoad, GrantsHold, transport, clientVars, rtVars
    <2> QED BY <1>0, <2>3, <2>4, <2>5
  <1>6. CASE ThreadRead
    <2>1. sgrant \in 0..Len(inQ) /\ inQ \in Seq(Unit) /\ BufferSize \in Nat
      BY <1>6, SessionAssumption DEF ThreadRead, GrantsHold, TransportOK, SessionOK
    <2>2. /\ inQ' \in Seq(Unit) /\ Len(inQ') = Len(inQ) - sgrant
          /\ Front(inQ, sgrant) \in Seq(Unit) /\ Len(Front(inQ, sgrant)) = sgrant
      BY <1>6, <2>1, ReleaseFacts DEF ThreadRead
    <2>3. /\ sbuf' \in Seq(Unit) /\ Len(sbuf') <= BufferSize /\ sgrant' \in 0..BufferSize
          /\ spc' \in {"loop", "process"} /\ (spc' = "process" => Len(sbuf') = BufferSize)
      <3>1. sgrant' = 0 /\ 0 \in 0..BufferSize /\ sgrant \in 0..BufferSize
        BY <1>6, <2>1 DEF ThreadRead, SessionOK
      <3>2. CASE sgrant < BufferSize
        <4>1. sbuf' = <<>> /\ spc' = "loop"
          BY <1>6, <3>2 DEF ThreadRead
        <4> QED BY <4>1, <3>1, <2>1
      <3>3. CASE ~(sgrant < BufferSize)
        <4>1. sbuf' = Front(inQ, sgrant) /\ spc' = "process" /\ sgrant = BufferSize
          BY <1>6, <2>1, <3>1, <3>3 DEF ThreadRead
        <4> QED BY <4>1, <3>1, <2>1, <2>2
      <3> QED BY <3>2, <3>3
    <2>4. sstats' \in [processedFrames : Nat, droppedFrames : Nat, xrunCount : Nat]
      BY <1>6 DEF ThreadRead, SessionOK
    <2>5. SessionOK'
      BY <1>6, <2>3, <2>4 DEF ThreadRead, SessionOK, ThreadPc
    <2>6. TransportOK'
      BY <1>6, <2>1, <2>2, TransportAssumption DEF ThreadRead, TransportOK
    <2>7. GrantsHold'
      <3>1. cgrant \in Nat
        BY InputFacts DEF ClientOK
      <3> QED BY <1>6, <2>1, <2>2, <2>3, <3>1, TransportAssumption
              DEF ThreadRead, GrantsHold, TransportOK, clientVars, rtVars
    <2> QED BY <1>0, <2>5, <2>6, <2>7
  <1>7. CASE ThreadProcess
    <2>1. BufferSize \in Nat /\ QueueCapacity - Len(outQ) \in Nat
      BY SessionAssumption, TransportAssumption DEF TransportOK
    <2>2. sgrant' \in 0..BufferSize /\ Len(outQ) + sgrant' <= QueueCapacity
      <3> DEFINE free == QueueCapacity - Len(outQ)
      <3>1. sgrant' = Granted(BufferSize, free)
        BY <1>7 DEF ThreadProcess, effect_fmq_available_to_write
      <3>2. free \in Nat
        BY <2>1
      <3> HIDE DEF free
      <3>3. sgrant' \in 0..BufferSize /\ sgrant' <= free
        BY <2>1, <3>1, <3>2, GrantedFacts
      <3> QED BY <2>1, <3>3, TransportAssumption DEF free, TransportOK
    <2>3. SessionOK'
      BY <1>7, <2>2 DEF ThreadProcess, SessionOK, ThreadPc
    <2>4. TransportOK'
      BY <1>7 DEF ThreadProcess, TransportOK, transport
    <2>5. GrantsHold'
      BY <1>7, <2>2 DEF ThreadProcess, GrantsHold, transport, clientVars, rtVars
    <2> QED BY <1>0, <2>3, <2>4, <2>5
  <1>8. CASE ThreadWrite
    <2>1. /\ sgrant \in 0..Len(sbuf) /\ sbuf \in Seq(Unit) /\ outQ \in Seq(Unit)
          /\ BufferSize \in Nat
      BY <1>8, SessionAssumption DEF ThreadWrite, GrantsHold, TransportOK, SessionOK
    <2>2. outQ' \in Seq(Unit) /\ Len(outQ') = Len(outQ) + sgrant
      BY <1>8, <2>1, PublishFacts DEF ThreadWrite
    <2>3. sbuf' \in Seq(Unit) /\ Len(sbuf') <= BufferSize /\ sgrant' \in 0..BufferSize
      BY <1>8, <2>1 DEF ThreadWrite
    <2>4. sstats' \in [processedFrames : Nat, droppedFrames : Nat, xrunCount : Nat]
      BY <1>8, <2>1 DEF ThreadWrite, SessionOK
    <2>5. SessionOK'
      BY <1>8, <2>3, <2>4 DEF ThreadWrite, SessionOK, ThreadPc
    <2>6. TransportOK'
      BY <1>8, <2>2 DEF ThreadWrite, TransportOK, GrantsHold
    <2>7. GrantsHold'
      <3>1. cgrant \in Nat
        BY InputFacts DEF ClientOK
      <3>2. spc' \in {"loop", "signal"}
        BY <1>8 DEF ThreadWrite
      <3>3. UNCHANGED <<inQ, cpc, cgrant>>
        BY <1>8 DEF ThreadWrite, clientVars, rtVars
      <3> QED BY <2>1, <2>2, <3>1, <3>2, <3>3 DEF GrantsHold
    <2> QED BY <1>0, <2>5, <2>6, <2>7
  <1>9. CASE ThreadSignal
    <2>1. evOut' \in 0..EventMax
      BY <1>9, EventFacts DEF ThreadSignal, TransportOK
    <2>2. SessionOK'
      BY <1>9 DEF ThreadSignal, SessionOK, ThreadPc
    <2>3. TransportOK'
      BY <1>9, <2>1 DEF ThreadSignal, TransportOK
    <2>4. GrantsHold'
      BY <1>9 DEF ThreadSignal, GrantsHold, clientVars, rtVars
    <2> QED BY <1>0, <2>2, <2>3, <2>4
  <1>10. CASE ThreadAccount
    <2>1. sstats' \in [processedFrames : Nat, droppedFrames : Nat, xrunCount : Nat]
      BY <1>10, SessionAssumption DEF ThreadAccount, SessionOK
    <2>2. SessionOK'
      BY <1>10, <2>1 DEF ThreadAccount, SessionOK, ThreadPc
    <2>3. TransportOK'
      BY <1>10 DEF ThreadAccount, TransportOK, transport
    <2>4. GrantsHold'
      BY <1>10 DEF ThreadAccount, GrantsHold, transport, clientVars, rtVars
    <2> QED BY <1>0, <2>2, <2>3, <2>4
  <1> QED BY <1>1, <1>2, <1>3, <1>4, <1>5, <1>6, <1>7, <1>8, <1>9, <1>10
          DEF SessionNext, ThreadStep

(* Every step of either process keeps types and grants. *)
LEMMA TypeStep == TypeInv /\ [Next]_vars => TypeInv'
  <1> SUFFICES ASSUME TypeInv, [Next]_vars PROVE TypeInv'
    OBVIOUS
  <1>1. CASE ClientNext /\ UNCHANGED sessionVars
    BY <1>1, ClientTypeStep
  <1>2. CASE SessionNext /\ UNCHANGED clientVars
    BY <1>2, SessionTypeStep
  <1>3. CASE UNCHANGED vars
    <2>1. ClientOK' /\ SessionOK'
      BY <1>3, ClientIdle, SessionIdle DEF vars, TypeInv, TypeOK
    <2>2. TransportOK'
      BY <1>3 DEF vars, transport, TransportOK, TypeInv, TypeOK
    <2>3. GrantsHold'
      BY <1>3 DEF vars, transport, clientVars, rtVars, sessionVars, threadVars, GrantsHold, TypeInv
    <2> QED BY <2>1, <2>2, <2>3 DEF TypeInv, TypeOK
  <1> QED BY <1>1, <1>2, <1>3 DEF Next

(* Both sessions and the shared queues keep their types, whatever sizes    *)
(* the client passes, in both builds of the queue.                         *)
THEOREM PipelineTypeCorrect == Spec => []TypeOK
  <1>1. TypeInv => TypeOK
    BY DEF TypeInv
  <1> QED BY TypeInit, TypeStep, <1>1, PTL DEF Spec

(* What a transfer was granted is still there when it moves the bytes. *)
THEOREM GrantsAreKept == Spec => []GrantsHold
  <1>1. TypeInv => GrantsHold
    BY DEF TypeInv
  <1> QED BY TypeInit, TypeStep, <1>1, PTL DEF Spec

-----------------------------------------------------------------------------
(* The life cycle of the session.                                          *)

(* A new session has no thread. *)
LEMMA LifecycleInit == Init => LifecycleInv
  BY DEF Init, SessionInit, LifecycleInv, ThreadGoneFirst

(* No thread starts before effectd_session_start, and the session leaves   *)
(* STARTED only after the join.                                            *)
LEMMA LifecycleStep == TypeInv /\ LifecycleInv /\ [Next]_vars => LifecycleInv'
  <1> SUFFICES ASSUME TypeInv, LifecycleInv, [Next]_vars PROVE LifecycleInv'
    OBVIOUS
  <1> USE DEF LifecycleInv, ThreadGoneFirst
  <1>1. CASE ClientNext /\ UNCHANGED sessionVars
    BY <1>1 DEF sessionVars, threadVars
  <1>2. CASE UNCHANGED vars
    BY <1>2 DEF vars, sessionVars, threadVars
  <1>3. CASE effectd_session_open \/ Wire \/ effectd_session_start \/ effectd_session_destroy \/ Crash
    BY <1>3 DEF effectd_session_open, Wire, effectd_session_start, effectd_session_destroy,
                Crash, threadVars
  <1>4. ASSUME NEW caller \in {"stop", "destroy"}, StopRequest(caller) PROVE LifecycleInv'
    BY <1>4 DEF StopRequest, threadVars
  <1>5. CASE StopJoined
    BY <1>5 DEF StopJoined, threadVars
  <1>6. CASE ThreadStep
    <2>1. spc \notin {"none", "exited"} /\ UNCHANGED <<state, ctl>>
      BY <1>6 DEF ThreadStep, ThreadAlloc, ThreadLoop, ThreadWake, ThreadTimeout, ThreadCheck,
                  ThreadLoad, ThreadRead, ThreadProcess, ThreadWrite, ThreadSignal, ThreadAccount
    <2> QED BY <2>1
  <1> QED BY <1>1, <1>2, <1>3, <1>4, <1>5, <1>6 DEF Next, SessionNext

(* effectd_session_stop and effectd_session_destroy never report the       *)
(* session stopped, nor free it, while its thread can still touch it.      *)
THEOREM NoThreadAfterFree == Spec => []ThreadGoneFirst
  <1>1. LifecycleInv => ThreadGoneFirst
    BY DEF LifecycleInv
  <1> QED BY TypeInit, TypeStep, LifecycleInit, LifecycleStep, <1>1, PTL DEF Spec

-----------------------------------------------------------------------------
(* A client that passes whole buffers.                                     *)

(* Nothing is queued, nothing is signalled. *)
LEMMA PipeInit == Init => PipeInv
  <1> SUFFICES ASSUME Init PROVE PipeInv
    OBVIOUS
  <1>1. /\ Len(inQ) = 0 /\ Len(outQ) = 0 /\ evIn = 0 /\ evOut = 0
        /\ cpc = "idle" /\ spc = "none" /\ sstats.xrunCount = 0 /\ stats.droppedFrames = 0
    BY DEF Init, TransportInit, ClientInit, SessionInit, NoStats
  <1>2. SignalsCovered
    BY <1>1 DEF SignalsCovered, If, ThreadHolds, ClientHolds
  <1>3. NoShortReads /\ FailingWritesHarmless
    BY <1>1 DEF NoShortReads, FailingWritesHarmless
  <1>4. NoWedge
    BY <1>1, SessionAssumption, TransportAssumption DEF NoWedge
  <1> QED BY <1>2, <1>3, <1>4 DEF PipeInv

(* The invariant only looks at the lengths of the queues, the eventfds,    *)
(* the program counters, the grants and three counters.                    *)
View == <<Len(inQ), Len(outQ), evIn, evOut, cpc, frames, cgrant, spc, sgrant,
          stats.droppedFrames, sstats.xrunCount>>

(* A step that changes none of these keeps it. *)
LEMMA PipeStutter == PipeInv /\ UNCHANGED View => PipeInv'
  BY DEF View, PipeInv, SignalsCovered, NoShortReads, NoWedge, FailingWritesHarmless,
         If, ThreadHolds, ClientHolds, effect_fmq_available_to_read

(* The types the arithmetic below needs. *)
LEMMA PipeTypes ==
    ASSUME TypeInv
    PROVE  /\ Len(inQ) \in Nat /\ Len(outQ) \in Nat /\ evIn \in Nat /\ evOut \in Nat
           /\ frames \in Nat /\ cgrant \in Nat /\ sgrant \in Nat
           /\ BufferSize \in Nat \ {0} /\ QueueCapacity \in Nat /\ BufferSize <= QueueCapacity
  BY InputFacts, SessionAssumption, TransportAssumption
     DEF TypeInv, TypeOK, TransportOK, ClientOK, SessionOK

(* A step of the client keeps the invariant.  Its write adds a whole       *)
(* buffer before it signals; its read takes the buffer of the signal that  *)
(* woke it; a failed write fills at most the room in front of a reader.    *)
LEMMA ClientPipeStep ==
    ASSUME ClientFrames = {BufferSize}, TypeInv, PipeInv, ClientNext, UNCHANGED sessionVars
    PROVE  PipeInv'
  <1> USE DEF PipeInv
  <1>0. UNCHANGED <<spc, sgrant, sstats>>
    BY DEF sessionVars, threadVars
  <1>t. /\ Len(inQ) \in Nat /\ Len(outQ) \in Nat /\ evIn \in Nat /\ evOut \in Nat
        /\ frames \in Nat /\ cgrant \in Nat /\ sgrant \in Nat
        /\ BufferSize \in Nat \ {0} /\ QueueCapacity \in Nat /\ BufferSize <= QueueCapacity
    BY PipeTypes
  <1>1. CASE \/ EffectClient_Start \/ EffectClient_Stop
             \/ QueryStatsLock \/ QueryStatsUnlock \/ ProcessRejected
    <2>1. UNCHANGED View
      BY <1>0, <1>1 DEF EffectClient_Start, EffectClient_Stop, QueryStatsLock, QueryStatsUnlock,
                        ProcessRejected, View, rtVars, transport
    <2> QED BY <2>1, PipeStutter
  <1>2. ASSUME NEW f \in ClientFrames, ProcessEnter(f) PROVE PipeInv'
    <2> DEFINE free == QueueCapacity - Len(inQ)
    <2>1. /\ cgrant' = Granted(BufferSize, free) /\ frames' = BufferSize
          /\ cpc = "idle" /\ cpc' = "write" /\ UNCHANGED <<inQ, outQ, evIn, evOut, stats>>
      BY <1>2 DEF ProcessEnter, effect_fmq_available_to_write, transport
    <2>2. free \in Nat
      BY <1>t DEF TypeInv, TypeOK, TransportOK
    <2>3. cgrant' \in 0..BufferSize /\ cgrant' <= free /\ (cgrant' # BufferSize => free < BufferSize)
      <3> HIDE DEF free
      <3> QED BY <1>t, <2>1, <2>2, GrantedFacts
    <2>4. SignalsCovered' /\ NoShortReads' /\ NoWedge'
      BY <1>0, <2>1 DEF SignalsCovered, NoShortReads, NoWedge, If, ThreadHolds, ClientHolds,
                        effect_fmq_available_to_read
    <2>5. FailingWritesHarmless'
      BY <1>0, <1>t, <2>1, <2>3
         DEF FailingWritesHarmless, NoWedge, ThreadHolds, ClientHolds
    <2> QED BY <2>4, <2>5
  <1>3. CASE ProcessWrite
    <2>1. cgrant \in 0..Len(Input) /\ Input \in Seq(Unit) /\ inQ \in Seq(Unit) /\ cgrant <= frames
      BY InputFacts DEF TypeInv, TypeOK, ClientOK, TransportOK
    <2>2. Len(inQ') = Len(inQ) + cgrant
      BY <1>3, <2>1, PublishFacts DEF ProcessWrite
    <2>3. /\ cpc = "write" /\ UNCHANGED <<outQ, evIn, evOut, frames, cgrant, stats>>
          /\ frames = BufferSize
          /\ cpc' = IF cgrant < frames THEN "xrun" ELSE "signal"
      BY <1>3 DEF ProcessWrite, Written, FailingWritesHarmless
    <2>4. SignalsCovered'
      BY <1>0, <1>t, <2>1, <2>2, <2>3 DEF SignalsCovered, If, ThreadHolds, ClientHolds
    <2>5. NoShortReads'
      BY <1>0, <1>t, <2>2, <2>3 DEF NoShortReads, effect_fmq_available_to_read
    <2>6. NoWedge'
      BY <1>0, <1>t, <2>1, <2>2, <2>3 DEF NoWedge, FailingWritesHarmless, ThreadHolds, ClientHolds
    <2>7. FailingWritesHarmless'
      BY <1>0, <1>t, <2>2, <2>3 DEF FailingWritesHarmless, ThreadHolds, ClientHolds
    <2> QED BY <2>4, <2>5, <2>6, <2>7
  <1>4. CASE ProcessSignal
    <2>1. evIn' > 0 /\ evIn' \in Nat
      BY <1>4, EventFacts DEF ProcessSignal, TypeInv, TypeOK, TransportOK
    <2>2. cpc = "signal" /\ cpc' = "wait" /\ UNCHANGED <<inQ, outQ, evOut, frames, cgrant, stats>>
      BY <1>4 DEF ProcessSignal
    <2>3. SignalsCovered'
      BY <1>0, <1>t, <2>1, <2>2 DEF SignalsCovered, If, ThreadHolds, ClientHolds
    <2>4. NoShortReads' /\ NoWedge'
      BY <1>0, <2>1, <2>2 DEF NoShortReads, NoWedge, ThreadHolds, ClientHolds,
                              effect_fmq_available_to_read
    <2>5. FailingWritesHarmless'
      BY <1>0, <2>2 DEF FailingWritesHarmless, ThreadHolds, ClientHolds
    <2> QED BY <2>3, <2>4, <2>5
  <1>5. CASE ProcessWake
    <2>1. /\ cpc = "wait" /\ cpc' = "load" /\ evOut > 0 /\ evOut' = 0
          /\ UNCHANGED <<inQ, outQ, evIn, frames, cgrant, stats>>
      BY <1>5 DEF ProcessWake, Signalled, Cleared
    <2>2. SignalsCovered'
      BY <1>0, <1>t, <2>1 DEF SignalsCovered, If, ThreadHolds, ClientHolds
    <2>3. NoShortReads' /\ NoWedge'
      BY <1>0, <2>1 DEF NoShortReads, NoWedge, ThreadHolds, ClientHolds,
                        effect_fmq_available_to_read
    <2>4. FailingWritesHarmless'
      BY <1>0, <2>1 DEF FailingWritesHarmless, ThreadHolds, ClientHolds
    <2> QED BY <2>2, <2>3, <2>4
  <1>6. CASE ProcessTimeout
    <2>1. /\ cpc = "wait" /\ cpc' = "timeout"
          /\ UNCHANGED <<inQ, outQ, evIn, evOut, frames, cgrant, stats>>
      BY <1>6 DEF ProcessTimeout, transport
    <2> QED BY <1>0, <2>1 DEF SignalsCovered, NoShortReads, NoWedge, FailingWritesHarmless,
                              If, ThreadHolds, ClientHolds, effect_fmq_available_to_read
  <1>7. CASE ProcessLoad
    <2>1. /\ cpc = "load" /\ cpc' = "read" /\ frames = BufferSize
          /\ cgrant' = Granted(BufferSize, Len(outQ))
          /\ UNCHANGED <<inQ, outQ, evIn, evOut, frames, stats>>
      BY <1>7 DEF ProcessLoad, transport, effect_fmq_available_to_read, FailingWritesHarmless
    <2>2. Len(outQ) >= BufferSize
      BY <1>t, <2>1 DEF SignalsCovered, If, ClientHolds
    <2>3. cgrant' = BufferSize
      BY <1>t, <2>1, <2>2, GrantedFacts
    <2> QED BY <1>0, <2>1, <2>3 DEF SignalsCovered, NoShortReads, NoWedge, FailingWritesHarmless,
                                    If, ThreadHolds, ClientHolds, effect_fmq_available_to_read
  <1>8. CASE ProcessRead
    <2>1. cgrant \in 0..Len(outQ) /\ outQ \in Seq(Unit) /\ Len(outQ) <= QueueCapacity
      BY <1>8, <1>t DEF ProcessRead, GrantsHold, TypeInv, TypeOK, TransportOK
    <2>2. Len(outQ') = Len(outQ) - cgrant
      BY <1>8, <2>1, ReleaseFacts DEF ProcessRead
    <2>3. /\ cpc = "read" /\ cgrant = BufferSize /\ frames = BufferSize /\ cpc' = "ok"
          /\ UNCHANGED <<inQ, evIn, evOut, frames, cgrant, stats>>
      BY <1>8, <1>t DEF ProcessRead, FailingWritesHarmless
    <2>4. SignalsCovered'
      BY <1>0, <1>t, <2>2, <2>3 DEF SignalsCovered, If, ThreadHolds, ClientHolds
    <2>5. NoShortReads' /\ NoWedge'
      BY <1>0, <1>t, <2>1, <2>2, <2>3 DEF NoShortReads, NoWedge, ThreadHolds, ClientHolds,
                                          effect_fmq_available_to_read
    <2>6. FailingWritesHarmless'
      BY <1>0, <1>t, <2>1, <2>2, <2>3
         DEF FailingWritesHarmless, ThreadHolds, ClientHolds, TypeInv, GrantsHold
    <2> QED BY <2>4, <2>5, <2>6
  <1>9. ASSUME NEW at \in Endings, ProcessReturn(at) PROVE PipeInv'
    <2>1. /\ cpc = at /\ cpc' = "idle" /\ UNCHANGED <<inQ, outQ, evIn, evOut, frames>>
      BY <1>9 DEF ProcessReturn, transport
    <2>2. at # "short" /\ stats' = Counted(at)
      BY <1>9, <2>1 DEF ProcessReturn, FailingWritesHarmless
    <2>3. stats'.droppedFrames = stats.droppedFrames
      BY <2>2 DEF Counted, Endings, TypeInv, TypeOK, ClientOK
    <2> QED BY <1>0, <2>1, <2>2, <2>3
            DEF SignalsCovered, NoShortReads, NoWedge, FailingWritesHarmless, Endings,
                If, ThreadHolds, ClientHolds, effect_fmq_available_to_read
  <1> QED BY <1>1, <1>2, <1>3, <1>4, <1>5, <1>6, <1>7, <1>8, <1>9
          DEF ClientNext, ProcessStep

(* A step of the session keeps the invariant, by the mirror argument. *)
LEMMA SessionPipeStep ==
    ASSUME ClientFrames = {BufferSize}, TypeInv, LifecycleInv, PipeInv,
           SessionNext, UNCHANGED clientVars
    PROVE  PipeInv'
  <1> USE DEF PipeInv
  <1>0. UNCHANGED <<cpc, frames, cgrant, stats>>
    BY DEF clientVars, rtVars
  <1>t. /\ Len(inQ) \in Nat /\ Len(outQ) \in Nat /\ evIn \in Nat /\ evOut \in Nat
        /\ frames \in Nat /\ cgrant \in Nat /\ sgrant \in Nat
        /\ BufferSize \in Nat \ {0} /\ QueueCapacity \in Nat /\ BufferSize <= QueueCapacity
    BY PipeTypes
  <1>1. CASE \/ effectd_session_open \/ Wire \/ effectd_session_destroy \/ Crash \/ StopJoined
             \/ \E caller \in {"stop", "destroy"} : StopRequest(caller)
    <2>1. UNCHANGED View
      BY <1>0, <1>1 DEF effectd_session_open, Wire, effectd_session_destroy, Crash, StopJoined,
                        StopRequest, View, threadVars, transport
    <2> QED BY <2>1, PipeStutter
  <1>2. CASE ThreadCheck
    <2>1. Len(inQ) >= BufferSize
      BY <1>2 DEF ThreadCheck, NoShortReads, effect_fmq_available_to_read
    <2>2. /\ spc = "check" /\ spc' = "load"
          /\ UNCHANGED <<inQ, outQ, evIn, evOut, sgrant, sstats>>
      BY <1>2, <1>t, <2>1 DEF ThreadCheck, transport, effect_fmq_available_to_read
    <2> QED BY <1>0, <2>2 DEF SignalsCovered, NoShortReads, NoWedge, FailingWritesHarmless,
                              If, ThreadHolds, ClientHolds
  <1>3. CASE \/ effectd_session_start \/ ThreadAlloc \/ ThreadLoop \/ ThreadTimeout \/ ThreadAccount
    <2>1. /\ spc \notin {"check", "load", "read", "write", "signal"} \/ effectd_session_start
          /\ spc' \notin {"check", "load", "read", "write", "signal"}
          /\ UNCHANGED <<inQ, outQ, evIn, evOut, sgrant>>
          /\ sstats'.xrunCount = sstats.xrunCount
      BY <1>3 DEF effectd_session_start, ThreadAlloc, ThreadLoop, ThreadTimeout, ThreadAccount,
                  transport, TypeInv, TypeOK, SessionOK
    <2>2. spc \notin {"check", "load", "read", "write", "signal"}
      BY <2>1, <1>3 DEF effectd_session_start, LifecycleInv
    <2> QED BY <1>0, <2>1, <2>2 DEF SignalsCovered, NoShortReads, NoWedge, FailingWritesHarmless,
                                    If, ThreadHolds, ClientHolds
  <1>4. CASE ThreadWake
    <2>1. /\ spc = "poll" /\ spc' = "check" /\ evIn > 0 /\ evIn' = 0
          /\ UNCHANGED <<inQ, outQ, evOut, sgrant, sstats>>
      BY <1>4 DEF ThreadWake, Signalled, Cleared
    <2>2. SignalsCovered'
      BY <1>0, <1>t, <2>1 DEF SignalsCovered, If, ThreadHolds, ClientHolds
    <2>3. NoShortReads'
      BY <1>0, <1>t, <2>1 DEF NoShortReads, SignalsCovered, If, ThreadHolds,
                              effect_fmq_available_to_read
    <2>4. NoWedge'
      BY <1>0, <2>1 DEF NoWedge, ThreadHolds, ClientHolds
    <2>5. FailingWritesHarmless'
      BY <1>0, <2>1 DEF FailingWritesHarmless, ThreadHolds, ClientHolds
    <2> QED BY <2>2, <2>3, <2>4, <2>5
  <1>5. CASE ThreadLoad
    <2>1. /\ spc = "load" /\ spc' = "read" /\ sgrant' = Granted(BufferSize, Len(inQ))
          /\ UNCHANGED <<inQ, outQ, evIn, evOut, sstats>>
      BY <1>5 DEF ThreadLoad, transport, effect_fmq_available_to_read
    <2>2. Len(inQ) >= BufferSize
      BY <1>t, <2>1 DEF SignalsCovered, If, ThreadHolds
    <2>3. sgrant' = BufferSize
      BY <1>t, <2>1, <2>2, GrantedFacts
    <2> QED BY <1>0, <2>1, <2>3 DEF SignalsCovered, NoShortReads, NoWedge, FailingWritesHarmless,
                                    If, ThreadHolds, ClientHolds
  <1>6. CASE ThreadRead
    <2>1. sgrant \in 0..Len(inQ) /\ inQ \in Seq(Unit) /\ Len(inQ) <= QueueCapacity
      BY <1>6, <1>t DEF ThreadRead, GrantsHold, TypeInv, TypeOK, TransportOK
    <2>2. Len(inQ') = Len(inQ) - sgrant
      BY <1>6, <2>1, ReleaseFacts DEF ThreadRead
    <2>3. /\ spc = "read" /\ sgrant = BufferSize /\ spc' = "process"
          /\ UNCHANGED <<outQ, evIn, evOut, sstats>>
      BY <1>6, <1>t DEF ThreadRead, FailingWritesHarmless
    <2>4. SignalsCovered'
      BY <1>0, <1>t, <2>2, <2>3 DEF SignalsCovered, If, ThreadHolds, ClientHolds
    <2>5. NoShortReads' /\ NoWedge'
      BY <1>0, <1>t, <2>1, <2>2, <2>3 DEF NoShortReads, NoWedge, ThreadHolds, ClientHolds
    <2>6. FailingWritesHarmless'
      BY <1>0, <1>t, <2>1, <2>2, <2>3
         DEF FailingWritesHarmless, ThreadHolds, ClientHolds, TypeInv, GrantsHold
    <2> QED BY <2>4, <2>5, <2>6
  <1>7. CASE ThreadProcess
    <2> DEFINE free == QueueCapacity - Len(outQ)
    <2>1. /\ spc = "process" /\ spc' = "write" /\ sgrant' = Granted(BufferSize, free)
          /\ UNCHANGED <<inQ, outQ, evIn, evOut, sstats>>
      BY <1>7 DEF ThreadProcess, effect_fmq_available_to_write, transport
    <2>2. free \in Nat
      BY <1>t DEF TypeInv, TypeOK, TransportOK
    <2>3. sgrant' \in 0..BufferSize /\ sgrant' <= free /\ (sgrant' # BufferSize => free < BufferSize)
      <3> HIDE DEF free
      <3> QED BY <1>t, <2>1, <2>2, GrantedFacts
    <2>4. SignalsCovered' /\ NoShortReads' /\ NoWedge'
      BY <1>0, <2>1 DEF SignalsCovered, NoShortReads, NoWedge, If, ThreadHolds, ClientHolds
    <2>5. FailingWritesHarmless'
      BY <1>0, <1>t, <2>1, <2>3 DEF FailingWritesHarmless, NoWedge, ThreadHolds, ClientHolds
    <2> QED BY <2>4, <2>5
  <1>8. CASE ThreadWrite
    <2>1. /\ sgrant \in 0..Len(sbuf) /\ sbuf \in Seq(Unit) /\ outQ \in Seq(Unit)
          /\ sgrant <= BufferSize
      BY <1>8, <1>t DEF ThreadWrite, TypeInv, TypeOK, GrantsHold, TransportOK, SessionOK
    <2>2. Len(outQ') = Len(outQ) + sgrant
      BY <1>8, <2>1, PublishFacts DEF ThreadWrite
    <2>3. /\ spc = "write" /\ UNCHANGED <<inQ, evIn, evOut>>
          /\ spc' = IF sgrant < BufferSize THEN "loop" ELSE "signal"
      BY <1>8 DEF ThreadWrite
    <2>4. sstats'.xrunCount = sstats.xrunCount
      BY <1>8 DEF ThreadWrite, TypeInv, TypeOK, SessionOK
    <2>5. SignalsCovered'
      BY <1>0, <1>t, <2>1, <2>2, <2>3 DEF SignalsCovered, If, ThreadHolds, ClientHolds
    <2>6. NoShortReads'
      BY <1>0, <2>3, <2>4 DEF NoShortReads
    <2>7. NoWedge'
      BY <1>0, <1>t, <2>1, <2>2, <2>3 DEF NoWedge, FailingWritesHarmless, ThreadHolds, ClientHolds
    <2>8. FailingWritesHarmless'
      BY <1>0, <1>t, <2>2, <2>3 DEF FailingWritesHarmless, ThreadHolds, ClientHolds
    <2> QED BY <2>5, <2>6, <2>7, <2>8
  <1>9. CASE ThreadSignal
    <2>1. evOut' > 0 /\ evOut' \in Nat
      BY <1>9, EventFacts DEF ThreadSignal, TypeInv, TypeOK, TransportOK
    <2>2. spc = "signal" /\ spc' = "account" /\ UNCHANGED <<inQ, outQ, evIn, sgrant, sstats>>
      BY <1>9 DEF ThreadSignal
    <2>3. SignalsCovered'
      BY <1>0, <1>t, <2>1, <2>2 DEF SignalsCovered, If, ThreadHolds, ClientHolds
    <2>4. NoShortReads' /\ NoWedge'
      BY <1>0, <2>1, <2>2 DEF NoShortReads, NoWedge, ThreadHolds, ClientHolds
    <2>5. FailingWritesHarmless'
      BY <1>0, <2>2 DEF FailingWritesHarmless, ThreadHolds, ClientHolds
    <2> QED BY <2>3, <2>4, <2>5
  <1> QED BY <1>1, <1>2, <1>3, <1>4, <1>5, <1>6, <1>7, <1>8, <1>9 DEF SessionNext, ThreadStep

(* Every step of either process keeps the invariant. *)
LEMMA PipeStep ==
    ASSUME ClientFrames = {BufferSize}
    PROVE  TypeInv /\ LifecycleInv /\ PipeInv /\ [Next]_vars => PipeInv'
  <1> SUFFICES ASSUME TypeInv, LifecycleInv, PipeInv, [Next]_vars PROVE PipeInv'
    OBVIOUS
  <1>1. CASE ClientNext /\ UNCHANGED sessionVars
    BY <1>1, ClientPipeStep
  <1>2. CASE SessionNext /\ UNCHANGED clientVars
    BY <1>2, SessionPipeStep
  <1>3. CASE UNCHANGED vars
    <2>1. UNCHANGED View
      BY <1>3 DEF vars, View, transport, clientVars, rtVars, sessionVars, threadVars
    <2> QED BY <2>1, PipeStutter
  <1> QED BY <1>1, <1>2, <1>3 DEF Next

(* Behind every signal, pending or taken, there is a whole buffer. *)
THEOREM PipelineInvariant ==
    ASSUME ClientFrames = {BufferSize}
    PROVE  Spec => []PipeInv
  BY TypeInit, TypeStep, LifecycleInit, LifecycleStep, PipeInit, PipeStep, PTL DEF Spec

(* A client that passes whole buffers never meets a short read, and        *)
(* neither does the session, although eventfd merges signals and although  *)
(* the fallback queue makes partial transfers.                             *)
THEOREM NeverShort ==
    ASSUME ClientFrames = {BufferSize}
    PROVE  Spec => []NoShortReads
  <1>1. PipeInv => NoShortReads
    BY DEF PipeInv
  <1> QED BY PipelineInvariant, <1>1, PTL

(* A full queue always has a reader coming, so failing writers, which do   *)
(* not signal, never leave both sides waiting for each other.              *)
THEOREM NeverWedged ==
    ASSUME ClientFrames = {BufferSize}
    PROVE  Spec => []NoWedge
  <1>1. PipeInv => NoWedge
    BY DEF PipeInv
  <1> QED BY PipelineInvariant, <1>1, PTL

-----------------------------------------------------------------------------
(* The backlog.                                                            *)

(* Nothing is in the pipeline and nothing has timed out. *)
LEMMA BacklogInit == Init => BacklogInv
  <1> SUFFICES ASSUME Init PROVE BacklogInv
    OBVIOUS
  <1>1. /\ Len(inQ) = 0 /\ Len(outQ) = 0 /\ cpc = "idle" /\ spc = "none"
        /\ sstats.droppedFrames = 0 /\ stats.timeoutCount = 0
    BY DEF Init, TransportInit, ClientInit, SessionInit, NoStats
  <1> QED BY <1>1, SessionAssumption DEF BacklogInv, InPipeline, Owed, If

(* The types the account needs. *)
LEMMA BacklogTypes ==
    ASSUME TypeInv
    PROVE  /\ stats.timeoutCount \in Nat /\ sstats.droppedFrames \in Nat
           /\ BufferSize * stats.timeoutCount \in Nat
  <1>1. stats.timeoutCount \in Nat /\ sstats.droppedFrames \in Nat
    BY DEF TypeInv, TypeOK, ClientOK, SessionOK
  <1> QED BY <1>1, SessionAssumption

(* A client's write enters one block or nothing; the block leaves the      *)
(* account when the call reads one, or moves to the timeouts.              *)
LEMMA ClientBacklogStep ==
    ASSUME ClientFrames = {BufferSize}, AllOrNothing, TypeInv, PipeInv, BacklogInv,
           ClientNext, UNCHANGED sessionVars
    PROVE  BacklogInv'
  <1> USE DEF BacklogInv
  <1>0. UNCHANGED <<spc, sgrant, sstats>>
    BY DEF sessionVars, threadVars
  <1>t. /\ Len(inQ) \in Nat /\ Len(outQ) \in Nat /\ frames \in Nat /\ cgrant \in Nat
        /\ BufferSize \in Nat \ {0}
        /\ stats.timeoutCount \in Nat /\ sstats.droppedFrames \in Nat
        /\ BufferSize * stats.timeoutCount \in Nat
    BY PipeTypes, BacklogTypes
  <1>1. CASE \/ EffectClient_Start \/ EffectClient_Stop
             \/ QueryStatsLock \/ QueryStatsUnlock \/ ProcessRejected
    BY <1>0, <1>1 DEF EffectClient_Start, EffectClient_Stop, QueryStatsLock, QueryStatsUnlock,
                      ProcessRejected, rtVars, transport, InPipeline, Owed, If
  <1>2. ASSUME NEW f \in ClientFrames, ProcessEnter(f) PROVE BacklogInv'
    <2>1. /\ cpc = "idle" /\ cpc' = "write" /\ UNCHANGED <<inQ, outQ, stats>>
          /\ cgrant' \in {0, BufferSize}
      BY <1>2 DEF ProcessEnter, Granted, transport
    <2> QED BY <1>0, <2>1 DEF InPipeline, Owed, If
  <1>3. CASE ProcessWrite
    <2>1. cgrant \in 0..Len(Input) /\ Input \in Seq(Unit) /\ inQ \in Seq(Unit)
      BY InputFacts DEF TypeInv, TypeOK, ClientOK, TransportOK
    <2>2. Len(inQ') = Len(inQ) + cgrant
      BY <1>3, <2>1, PublishFacts DEF ProcessWrite
    <2>3. /\ cpc = "write" /\ UNCHANGED <<outQ, stats>> /\ cgrant \in {0, BufferSize}
          /\ cpc' = IF cgrant = 0 THEN "xrun" ELSE "signal"
      BY <1>3, <1>t DEF ProcessWrite, Written, PipeInv, FailingWritesHarmless
    <2>4. CASE cgrant = 0
      BY <1>0, <1>t, <2>2, <2>3, <2>4 DEF InPipeline, Owed, If
    <2>5. CASE cgrant = BufferSize
      <3>1. cpc' = "signal" /\ Owed = 0 /\ Owed' = BufferSize
        BY <1>t, <2>3, <2>5 DEF Owed, If
      <3>2. InPipeline' = InPipeline + BufferSize
        BY <1>0, <1>t, <2>2, <2>3, <2>5 DEF InPipeline, If
      <3>3. InPipeline = BufferSize * stats.timeoutCount
        BY <1>t, <3>1
      <3> QED BY <1>0, <1>t, <2>3, <3>1, <3>2, <3>3
    <2> QED BY <2>3, <2>4, <2>5
  <1>4. CASE ProcessSignal \/ ProcessWake \/ ProcessTimeout \/ ProcessLoad
    <2>1. /\ cpc \in {"signal", "wait", "load"} /\ cpc' \in {"wait", "load", "timeout", "read"}
          /\ UNCHANGED <<inQ, outQ, stats>>
      BY <1>4 DEF ProcessSignal, ProcessWake, ProcessTimeout, ProcessLoad, transport
    <2> QED BY <1>0, <2>1 DEF InPipeline, Owed, If
  <1>5. CASE ProcessRead
    <2>1. cgrant \in 0..Len(outQ) /\ outQ \in Seq(Unit)
      BY <1>5, <1>t DEF ProcessRead, GrantsHold, TypeInv, TypeOK, TransportOK
    <2>2. Len(outQ') = Len(outQ) - cgrant
      BY <1>5, <2>1, ReleaseFacts DEF ProcessRead
    <2>3. cpc = "read" /\ cgrant = BufferSize /\ cpc' = "ok" /\ UNCHANGED <<inQ, stats>>
      BY <1>5, <1>t DEF ProcessRead, PipeInv, FailingWritesHarmless
    <2> QED BY <1>0, <1>t, <2>2, <2>3 DEF InPipeline, Owed, If
  <1>6. ASSUME NEW at \in Endings, ProcessReturn(at) PROVE BacklogInv'
    <2>1. cpc = at /\ cpc' = "idle" /\ UNCHANGED <<inQ, outQ>> /\ stats' = Counted(at)
      BY <1>6 DEF ProcessReturn, transport
    <2>2. CASE at = "timeout"
      <3>1. stats'.timeoutCount = stats.timeoutCount + 1
        BY <2>1, <2>2 DEF Counted, TypeInv, TypeOK, ClientOK
      <3>2. BufferSize * (stats.timeoutCount + 1) = BufferSize * stats.timeoutCount + BufferSize
        BY <1>t
      <3> QED BY <1>0, <1>t, <2>1, <2>2, <3>1, <3>2 DEF InPipeline, Owed, If
    <2>3. CASE at # "timeout"
      <3>1. stats'.timeoutCount = stats.timeoutCount
        BY <2>1, <2>3 DEF Counted, Endings, TypeInv, TypeOK, ClientOK
      <3> QED BY <1>0, <2>1, <2>3, <3>1 DEF InPipeline, Owed, If, Endings
    <2> QED BY <2>2, <2>3
  <1> QED BY <1>1, <1>2, <1>3, <1>4, <1>5, <1>6 DEF ClientNext, ProcessStep

(* The session moves a block from one queue to the other through its       *)
(* buffer, or counts it as dropped.                                        *)
LEMMA SessionBacklogStep ==
    ASSUME AllOrNothing, TypeInv, LifecycleInv, PipeInv, BacklogInv,
           SessionNext, UNCHANGED clientVars
    PROVE  BacklogInv'
  <1> USE DEF BacklogInv
  <1>0. UNCHANGED <<cpc, frames, cgrant, stats>>
    BY DEF clientVars, rtVars
  <1>t. /\ Len(inQ) \in Nat /\ Len(outQ) \in Nat /\ sgrant \in Nat
        /\ BufferSize \in Nat \ {0}
        /\ stats.timeoutCount \in Nat /\ sstats.droppedFrames \in Nat
        /\ BufferSize * stats.timeoutCount \in Nat
    BY PipeTypes, BacklogTypes
  <1>1. CASE \/ effectd_session_open \/ Wire \/ effectd_session_destroy \/ Crash \/ StopJoined
             \/ \E caller \in {"stop", "destroy"} : StopRequest(caller)
    <2>1. UNCHANGED <<inQ, outQ, spc, sgrant, sstats>>
      BY <1>1 DEF effectd_session_open, Wire, effectd_session_destroy, Crash, StopJoined,
                  StopRequest, threadVars, transport
    <2> QED BY <1>0, <2>1 DEF InPipeline, Owed, If
  <1>2. CASE \/ effectd_session_start \/ ThreadAlloc \/ ThreadLoop \/ ThreadWake \/ ThreadTimeout
             \/ ThreadCheck \/ ThreadLoad \/ ThreadSignal \/ ThreadAccount
    <2>1. /\ spc \notin {"process", "write"} /\ spc' \notin {"process", "write"}
          /\ UNCHANGED <<inQ, outQ>> /\ sstats'.droppedFrames = sstats.droppedFrames
      BY <1>2 DEF effectd_session_start, ThreadAlloc, ThreadLoop, ThreadWake, ThreadTimeout,
                  ThreadCheck, ThreadLoad, ThreadSignal, ThreadAccount, transport,
                  LifecycleInv, TypeInv, TypeOK, SessionOK
    <2> QED BY <1>0, <2>1 DEF InPipeline, Owed, If
  <1>3. CASE ThreadRead
    <2>1. sgrant \in 0..Len(inQ) /\ inQ \in Seq(Unit)
      BY <1>3, <1>t DEF ThreadRead, GrantsHold, TypeInv, TypeOK, TransportOK
    <2>2. Len(inQ') = Len(inQ) - sgrant
      BY <1>3, <2>1, ReleaseFacts DEF ThreadRead
    <2>3. spc = "read" /\ sgrant = BufferSize /\ spc' = "process" /\ UNCHANGED <<outQ, sstats>>
      BY <1>3, <1>t DEF ThreadRead, PipeInv, FailingWritesHarmless
    <2> QED BY <1>0, <1>t, <2>2, <2>3 DEF InPipeline, Owed, If
  <1>4. CASE ThreadProcess
    <2>1. /\ spc = "process" /\ spc' = "write" /\ UNCHANGED <<inQ, outQ, sstats>>
          /\ sgrant' \in {0, BufferSize}
      BY <1>4 DEF ThreadProcess, Granted, transport
    <2> QED BY <1>0, <2>1 DEF InPipeline, Owed, If
  <1>5. CASE ThreadWrite
    <2>1. sgrant \in 0..Len(sbuf) /\ sbuf \in Seq(Unit) /\ outQ \in Seq(Unit)
      BY <1>5, <1>t DEF ThreadWrite, TypeInv, TypeOK, GrantsHold, TransportOK, SessionOK
    <2>2. Len(outQ') = Len(outQ) + sgrant
      BY <1>5, <2>1, PublishFacts DEF ThreadWrite
    <2>3. spc = "write" /\ sgrant \in {0, BufferSize} /\ UNCHANGED inQ
      BY <1>5 DEF ThreadWrite
    <2>4. CASE sgrant = 0
      <3>1. spc' = "loop" /\ sstats'.droppedFrames = sstats.droppedFrames + BufferSize
        BY <1>5, <1>t, <2>4 DEF ThreadWrite, TypeInv, TypeOK, SessionOK
      <3> QED BY <1>0, <1>t, <2>2, <2>3, <2>4, <3>1 DEF InPipeline, Owed, If
    <2>5. CASE sgrant = BufferSize
      <3>1. spc' = "signal" /\ UNCHANGED sstats
        BY <1>5, <1>t, <2>5 DEF ThreadWrite
      <3> QED BY <1>0, <1>t, <2>2, <2>3, <2>5, <3>1 DEF InPipeline, Owed, If
    <2> QED BY <2>3, <2>4, <2>5
  <1> QED BY <1>1, <1>2, <1>3, <1>4, <1>5 DEF SessionNext, ThreadStep

(* Every step of either process keeps the account. *)
LEMMA BacklogStep ==
    ASSUME ClientFrames = {BufferSize}
    PROVE  TypeInv /\ LifecycleInv /\ PipeInv /\ BacklogInv /\ [Next]_vars => BacklogInv'
  <1> SUFFICES ASSUME TypeInv, LifecycleInv, PipeInv, BacklogInv, [Next]_vars, AllOrNothing
               PROVE  BacklogInv'
    BY DEF BacklogInv
  <1>1. CASE ClientNext /\ UNCHANGED sessionVars
    BY <1>1, ClientBacklogStep
  <1>2. CASE SessionNext /\ UNCHANGED clientVars
    BY <1>2, SessionBacklogStep
  <1>3. CASE UNCHANGED vars
    BY <1>3 DEF vars, transport, clientVars, rtVars, sessionVars, threadVars,
                BacklogInv, InPipeline, Owed, If
  <1> QED BY <1>1, <1>2, <1>3 DEF Next

(* With the Android queue every timeout delays all later answers by one    *)
(* buffer for good, unless the session drops a buffer.                     *)
THEOREM BacklogIsForGood ==
    ASSUME ClientFrames = {BufferSize}
    PROVE  Spec => []BacklogLaw
  <1>1. TypeInv /\ BacklogInv => BacklogLaw
    <2> SUFFICES ASSUME TypeInv, BacklogInv, AllOrNothing, cpc = "idle"
                 PROVE  InPipeline = BufferSize * stats.timeoutCount
      BY DEF BacklogLaw
    <2>1. BufferSize * stats.timeoutCount \in Nat /\ Owed = 0
      BY SessionAssumption DEF TypeInv, TypeOK, ClientOK, Owed, If
    <2> QED BY <2>1 DEF BacklogInv
  <1> QED BY TypeInit, TypeStep, LifecycleInit, LifecycleStep, PipeInit, PipeStep,
             BacklogInit, BacklogStep, <1>1, PTL DEF Spec

-----------------------------------------------------------------------------
(* A call has no result until it returns. *)
ResultInv == PassthroughOnTimeout /\ (cpc # "idle" => ret = "none")

(* A call has no result before it returns, and returns with its input. *)
LEMMA ResultStep ==
    ASSUME UseFmq \/ InPlace, PipeInv, ResultInv, [Next]_vars
    PROVE  ResultInv'
  <1> USE DEF ResultInv, PassthroughOnTimeout
  <1>1. CASE UNCHANGED clientVars
    BY <1>1 DEF clientVars, rtVars, Passthrough, Input
  <1>2. CASE ClientNext
    <2>1. CASE \/ EffectClient_Start \/ EffectClient_Stop \/ QueryStatsLock \/ QueryStatsUnlock
      BY <2>1 DEF EffectClient_Start, EffectClient_Stop, QueryStatsLock, QueryStatsUnlock,
                  rtVars, Passthrough, Input
    <2>2. CASE ProcessRejected \/ \E f \in ClientFrames : ProcessEnter(f)
      BY <2>2 DEF ProcessRejected, ProcessEnter
    <2>3. CASE \/ ProcessWrite \/ ProcessSignal \/ ProcessWake \/ ProcessTimeout
               \/ ProcessLoad \/ ProcessRead
      BY <2>3 DEF ProcessWrite, ProcessSignal, ProcessWake, ProcessTimeout, ProcessLoad,
                  ProcessRead
    <2>4. ASSUME NEW at \in Endings, ProcessReturn(at) PROVE ResultInv'
      <3>1. at # "short"
        BY <2>4 DEF ProcessReturn, PipeInv, FailingWritesHarmless
      <3>2. /\ cpc' = "idle" /\ Passthrough' = Passthrough /\ output' = FinalOutput(at)
            /\ ret' = IF at = "ok" THEN "OK" ELSE "TIMEOUT"
        BY <2>4 DEF ProcessReturn, Passthrough, Input
      <3>3. CASE at = "ok"
        BY <3>2, <3>3
      <3>4. CASE at \in {"xrun", "timeout"}
        BY <3>2, <3>4 DEF FinalOutput
      <3> QED BY <3>1, <3>2, <3>3, <3>4 DEF Endings
    <2> QED BY <1>2, <2>1, <2>2, <2>3, <2>4 DEF ClientNext, ProcessStep
  <1> QED BY <1>1, <1>2 DEF Next, vars

(* In the FMQ builds, in place or not, and in the shared-memory build in   *)
(* place, a call of a whole buffer that returns EFFECT_ERROR_TIMEOUT has   *)
(* left its own input in output, overrun or timeout.                       *)
THEOREM TimeoutLeavesInput ==
    ASSUME ClientFrames = {BufferSize}, UseFmq \/ InPlace
    PROVE  Spec => []PassthroughOnTimeout
  <1>1. Init => ResultInv
    BY DEF Init, ClientInit, ResultInv, PassthroughOnTimeout
  <1>2. PipeInv /\ ResultInv /\ [Next]_vars => ResultInv'
    BY ResultStep
  <1>3. ResultInv => PassthroughOnTimeout
    BY DEF ResultInv
  <1> QED BY <1>1, <1>2, <1>3, PipelineInvariant, PTL DEF Spec

-----------------------------------------------------------------------------
(* The order of what the client reads, for calls of any size.              *)

Increasing(s) == \A i, j \in 1..Len(s) : i < j => Before(s[i], s[j])
Below(s, t) == \A i \in 1..Len(s), j \in 1..Len(t) : Before(s[i], t[j])
UpTo(s, c) == \A i \in 1..Len(s) : s[i][1] <= c

(* The newest call whose units can be in the pipeline: not yet the call    *)
(* that is about to write.                                                 *)
Newest == IF cpc = "write" THEN call - 1 ELSE call

OrderInv ==
    /\ Increasing(outQ) /\ Increasing(sbuf) /\ Increasing(inQ)
    /\ Below(<<heard>>, outQ) /\ Below(<<heard>>, sbuf) /\ Below(<<heard>>, inQ)
    /\ Below(outQ, sbuf) /\ Below(outQ, inQ) /\ Below(sbuf, inQ)
    /\ UpTo(<<heard>>, Newest) /\ UpTo(outQ, Newest) /\ UpTo(sbuf, Newest)
    /\ UpTo(inQ, Newest)
    /\ cpc = "write" => call > 0

-----------------------------------------------------------------------------
(* The parts of a concatenation. *)
LEMMA Joined ==
    ASSUME NEW s \in Seq(Unit), NEW t \in Seq(Unit)
    PROVE  /\ s \o t \in Seq(Unit) /\ Len(s \o t) = Len(s) + Len(t)
           /\ \A i \in 1..Len(s) : (s \o t)[i] = s[i]
           /\ \A i \in (Len(s) + 1)..Len(s \o t) :
                  i - Len(s) \in 1..Len(t) /\ (s \o t)[i] = t[i - Len(s)]
  OBVIOUS

(* Two ordered sequences, one below the other, join to an ordered one. *)
LEMMA JoinIncreasing ==
    ASSUME NEW s \in Seq(Unit), NEW t \in Seq(Unit),
           Increasing(s), Increasing(t), Below(s, t)
    PROVE  Increasing(s \o t)
  <1> SUFFICES ASSUME NEW i \in 1..Len(s \o t), NEW j \in 1..Len(s \o t), i < j
               PROVE  Before((s \o t)[i], (s \o t)[j])
    BY DEF Increasing
  <1>1. CASE j <= Len(s)
    BY <1>1, Joined DEF Increasing
  <1>2. CASE i <= Len(s) /\ j > Len(s)
    BY <1>2, Joined DEF Below
  <1>3. CASE i > Len(s)
    <2>1. /\ i - Len(s) \in 1..Len(t) /\ (s \o t)[i] = t[i - Len(s)]
          /\ j - Len(s) \in 1..Len(t) /\ (s \o t)[j] = t[j - Len(s)]
      BY <1>3, Joined
    <2>2. i - Len(s) < j - Len(s)
      OBVIOUS
    <2> QED BY <2>1, <2>2 DEF Increasing
  <1> QED BY <1>1, <1>2, <1>3

(* What is below both parts, or above them, is so for the whole. *)
LEMMA JoinBelow ==
    ASSUME NEW s \in Seq(Unit), NEW t \in Seq(Unit), NEW u \in Seq(Unit)
    PROVE  /\ Below(s, u) /\ Below(t, u) => Below(s \o t, u)
           /\ Below(u, s) /\ Below(u, t) => Below(u, s \o t)
           /\ \A c : UpTo(s, c) /\ UpTo(t, c) => UpTo(s \o t, c)
  <1>1. \A i \in 1..Len(s \o t) : \/ i \in 1..Len(s) /\ (s \o t)[i] = s[i]
                                  \/ i - Len(s) \in 1..Len(t) /\ (s \o t)[i] = t[i - Len(s)]
    BY Joined
  <1> QED BY <1>1 DEF Below, UpTo

(* A stretch of a sequence. *)
LEMMA Stretch ==
    ASSUME NEW s \in Seq(Unit), NEW m \in 1..(Len(s) + 1), NEW n \in (m - 1)..Len(s)
    PROVE  /\ SubSeq(s, m, n) \in Seq(Unit) /\ Len(SubSeq(s, m, n)) = n - m + 1
           /\ \A i \in 1..(n - m + 1) : m + i - 1 \in 1..Len(s) /\ SubSeq(s, m, n)[i] = s[m + i - 1]
  <1>1. \A i \in m..n : s[i] \in Unit
    OBVIOUS
  <1> QED BY <1>1, SubSeqProperties

(* A stretch of an ordered sequence is ordered and bounded like it. *)
LEMMA StretchOrder ==
    ASSUME NEW s \in Seq(Unit), NEW m \in 1..(Len(s) + 1), NEW n \in (m - 1)..Len(s),
           NEW u \in Seq(Unit)
    PROVE  /\ Increasing(s) => Increasing(SubSeq(s, m, n))
           /\ Below(s, u) => Below(SubSeq(s, m, n), u)
           /\ Below(u, s) => Below(u, SubSeq(s, m, n))
           /\ \A c : UpTo(s, c) => UpTo(SubSeq(s, m, n), c)
  <1> DEFINE r == SubSeq(s, m, n)
  <1>1. /\ r \in Seq(Unit) /\ Len(r) = n - m + 1
        /\ \A i \in 1..Len(r) : m + i - 1 \in 1..Len(s) /\ r[i] = s[m + i - 1]
    BY Stretch
  <1> HIDE DEF r
  <1>2. ASSUME Increasing(s), NEW i \in 1..Len(r), NEW j \in 1..Len(r), i < j
        PROVE  Before(r[i], r[j])
    <2>1. /\ m + i - 1 \in 1..Len(s) /\ m + j - 1 \in 1..Len(s)
          /\ r[i] = s[m + i - 1] /\ r[j] = s[m + j - 1]
      BY <1>1
    <2>2. m + i - 1 < m + j - 1
      BY <1>1, <1>2
    <2> QED BY <1>2, <2>1, <2>2 DEF Increasing
  <1>3. (Below(s, u) => Below(r, u)) /\ (Below(u, s) => Below(u, r))
    BY <1>1 DEF Below
  <1>4. \A c : UpTo(s, c) => UpTo(r, c)
    BY <1>1 DEF UpTo
  <1> QED BY <1>2, <1>3, <1>4 DEF r, Increasing

(* What a read leaves in a queue. *)
LEMMA RestOrder ==
    ASSUME NEW q \in Seq(Unit), NEW n \in 0..Len(q), NEW u \in Seq(Unit)
    PROVE  /\ Increasing(q) => Increasing(Release(q, n))
           /\ Below(q, u) => Below(Release(q, n), u)
           /\ Below(u, q) => Below(u, Release(q, n))
           /\ \A c : UpTo(q, c) => UpTo(Release(q, n), c)
  <1> DEFINE m == n + 1
             k == Len(q)
  <1>1. m \in 1..(k + 1) /\ k \in (m - 1)..k
    OBVIOUS
  <1>2. k = Len(q) /\ Release(q, n) = SubSeq(q, m, k)
    BY DEF Release
  <1> HIDE DEF m, k
  <1>3. m \in 1..(Len(q) + 1) /\ k \in (m - 1)..Len(q)
    BY <1>1, <1>2
  <1> QED BY <1>2, <1>3, StretchOrder

(* The input of a call is in order and after everything of earlier calls. *)
LEMMA InputOrder ==
    ASSUME ClientOK, NEW u \in Seq(Unit), UpTo(u, call - 1)
    PROVE  Increasing(Input) /\ Below(u, Input) /\ UpTo(Input, call)
  <1>1. /\ call \in Int /\ frames \in Nat /\ Len(Input) = frames
        /\ \A i \in 1..frames : Input[i] = <<call, i>>
    BY InputFacts DEF Input, ClientOK
  <1>2. \A i \in 1..Len(u) : u[i][1] \in Int
    BY DEF Unit
  <1>3. Increasing(Input)
    BY <1>1 DEF Increasing, Before
  <1>4. Below(u, Input)
    BY <1>1, <1>2 DEF Below, Before, UpTo
  <1>5. UpTo(Input, call)
    BY <1>1 DEF UpTo
  <1> QED BY <1>3, <1>4, <1>5

(* Nothing is under way at first. *)
LEMMA OrderInit == Init => OrderInv
  <1> SUFFICES ASSUME Init PROVE OrderInv
    OBVIOUS
  <1>1. /\ inQ = <<>> /\ outQ = <<>> /\ sbuf = <<>> /\ heard = <<0, 0>>
        /\ cpc = "idle" /\ call = 0
    BY DEF Init, TransportInit, ClientInit, SessionInit
  <1>2. /\ Increasing(<<>>) /\ Below(<<heard>>, <<>>) /\ Below(<<>>, <<>>)
        /\ UpTo(<<>>, Newest)
    BY DEF Increasing, Below, UpTo
  <1>3. UpTo(<<heard>>, Newest)
    BY <1>1 DEF UpTo, Newest
  <1> QED BY <1>1, <1>2, <1>3 DEF OrderInv

(* A step that touches neither the contents nor the call. *)
LEMMA OrderSame ==
    ASSUME OrderInv, UNCHANGED <<inQ, outQ, sbuf, heard>>, Newest' = Newest,
           cpc' = "write" => call' > 0
    PROVE  OrderInv'
  BY DEF OrderInv, Increasing, Below, UpTo

(* The client appends units newer than all, and takes the oldest. *)
LEMMA ClientOrderStep ==
    ASSUME TypeInv, OrderInv, ClientNext, UNCHANGED sessionVars
    PROVE  OrderInv'
  <1>0. /\ inQ \in Seq(Unit) /\ outQ \in Seq(Unit) /\ sbuf \in Seq(Unit) /\ heard \in Unit
        /\ <<heard>> \in Seq(Unit) /\ call \in 0..MaxCalls /\ ClientOK /\ sbuf' = sbuf
    BY DEF TypeInv, TypeOK, TransportOK, ClientOK, SessionOK, sessionVars, threadVars
  <1>1. CASE \/ EffectClient_Start \/ EffectClient_Stop
             \/ QueryStatsLock \/ QueryStatsUnlock \/ ProcessRejected
    <2>1. UNCHANGED <<inQ, outQ, sbuf, heard, call, cpc>>
      BY <1>0, <1>1 DEF EffectClient_Start, EffectClient_Stop, QueryStatsLock, QueryStatsUnlock,
                        ProcessRejected, rtVars, transport
    <2> QED BY <2>1, OrderSame DEF Newest, OrderInv
  <1>2. CASE \/ ProcessSignal \/ ProcessWake \/ ProcessTimeout \/ ProcessLoad
             \/ \E at \in Endings : ProcessReturn(at)
    <2>1. UNCHANGED <<inQ, outQ, sbuf, heard, call>> /\ cpc # "write" /\ cpc' # "write"
      BY <1>0, <1>2 DEF ProcessSignal, ProcessWake, ProcessTimeout, ProcessLoad, ProcessReturn,
                        Endings, transport
    <2> QED BY <2>1, OrderSame DEF Newest
  <1>3. ASSUME NEW f \in ClientFrames, ProcessEnter(f) PROVE OrderInv'
    <2>1. /\ UNCHANGED <<inQ, outQ, sbuf, heard>> /\ call' = call + 1
          /\ cpc = "idle" /\ cpc' = "write"
      BY <1>0, <1>3 DEF ProcessEnter, transport
    <2>2. Newest' = Newest /\ call' > 0
      BY <1>0, <2>1 DEF Newest
    <2> QED BY <2>1, <2>2, OrderSame
  <1>4. CASE ProcessWrite
    <2> DEFINE part == SubSeq(Input, 1, cgrant)
    <2>1. /\ inQ' = inQ \o part /\ UNCHANGED <<outQ, sbuf, heard, call>>
          /\ cpc = "write" /\ cpc' # "write"
      BY <1>0, <1>4 DEF ProcessWrite, Publish, Written
    <2>2. Newest = call - 1 /\ Newest' = call
      BY <2>1 DEF Newest
    <2>3. /\ Input \in Seq(Unit) /\ cgrant \in 0..Len(Input)
          /\ 1 \in 1..(Len(Input) + 1) /\ cgrant \in (1 - 1)..Len(Input)
      BY <1>0, InputFacts DEF ClientOK
    <2>4. part \in Seq(Unit)
      BY <2>3, Stretch
    <2>5. /\ UpTo(inQ, call - 1) /\ UpTo(outQ, call - 1) /\ UpTo(sbuf, call - 1)
          /\ UpTo(<<heard>>, call - 1)
      BY <2>2 DEF OrderInv
    <2>6. Increasing(Input) /\ UpTo(Input, call) /\ Below(inQ, Input)
      BY <1>0, <2>5, InputOrder
    <2>7. Below(outQ, Input) /\ Below(sbuf, Input) /\ Below(<<heard>>, Input)
      BY <1>0, <2>5, InputOrder
    <2>8. Increasing(part) /\ UpTo(part, call)
      BY <1>0, <2>3, <2>6, StretchOrder
    <2>9. /\ Below(inQ, part) /\ Below(outQ, part) /\ Below(sbuf, part)
          /\ Below(<<heard>>, part)
      BY <1>0, <2>3, <2>6, <2>7, StretchOrder
    <2>10. \A s \in Seq(Unit) : UpTo(s, call - 1) => UpTo(s, call)
      <3> SUFFICES ASSUME NEW s \in Seq(Unit), UpTo(s, call - 1), NEW i \in 1..Len(s)
                   PROVE  s[i][1] <= call
        BY DEF UpTo
      <3>1. s[i] \in Unit /\ s[i][1] <= call - 1
        BY DEF UpTo
      <3> QED BY <1>0, <3>1 DEF Unit
    <2> HIDE DEF part
    <2>11. Increasing(inQ') /\ UpTo(inQ', call)
      BY <1>0, <2>1, <2>4, <2>5, <2>8, <2>9, <2>10, JoinIncreasing, JoinBelow DEF OrderInv
    <2>12. Below(outQ, inQ') /\ Below(sbuf, inQ') /\ Below(<<heard>>, inQ')
      BY <1>0, <2>1, <2>4, <2>9, JoinBelow DEF OrderInv
    <2>13. UpTo(outQ, call) /\ UpTo(sbuf, call) /\ UpTo(<<heard>>, call)
      BY <1>0, <2>5, <2>10
    <2> QED BY <2>1, <2>2, <2>11, <2>12, <2>13 DEF OrderInv
  <1>5. CASE ProcessRead
    <2>1. /\ outQ' = Release(outQ, cgrant) /\ UNCHANGED <<inQ, sbuf, call>>
          /\ heard' = IF cgrant > 0 THEN outQ[cgrant] ELSE heard
          /\ cpc = "read" /\ cpc' # "write"
      BY <1>0, <1>5 DEF ProcessRead
    <2>2. Newest' = Newest
      BY <2>1 DEF Newest
    <2>3. cgrant \in 0..Len(outQ) /\ cgrant + 1 \in 1..(Len(outQ) + 1)
          /\ Len(outQ) \in (cgrant + 1 - 1)..Len(outQ)
      BY <1>0, <2>1 DEF TypeInv, GrantsHold, ClientOK
    <2>4. /\ outQ' \in Seq(Unit) /\ Len(outQ') = Len(outQ) - cgrant
          /\ \A i \in 1..Len(outQ') : cgrant + i \in 1..Len(outQ) /\ outQ'[i] = outQ[cgrant + i]
      BY <1>0, <2>1, <2>3, Stretch DEF Release
    <2>5. /\ Increasing(outQ') /\ UpTo(outQ', Newest) /\ Below(<<heard>>, outQ')
          /\ Below(outQ', sbuf) /\ Below(outQ', inQ)
      BY <1>0, <2>1, <2>3, RestOrder DEF OrderInv
    <2>6. CASE cgrant = 0
      BY <2>1, <2>2, <2>5, <2>6 DEF OrderInv
    <2>7. CASE cgrant > 0
      <3>1. heard' = outQ[cgrant] /\ cgrant \in 1..Len(outQ)
        BY <2>1, <2>3, <2>7
      <3>2. Below(<<heard'>>, outQ')
        BY <2>4, <3>1 DEF OrderInv, Increasing, Below
      <3>3. Below(<<heard'>>, sbuf) /\ Below(<<heard'>>, inQ) /\ UpTo(<<heard'>>, Newest)
        BY <3>1 DEF OrderInv, Below, UpTo
      <3> QED BY <2>1, <2>2, <2>5, <3>2, <3>3 DEF OrderInv
    <2> QED BY <2>3, <2>6, <2>7
  <1> QED BY <1>1, <1>2, <1>3, <1>4, <1>5 DEF ClientNext, ProcessStep

(* The session moves a buffer from one queue to the other, or drops it. *)
LEMMA SessionOrderStep ==
    ASSUME TypeInv, OrderInv, SessionNext, UNCHANGED clientVars
    PROVE  OrderInv'
  <1>0. /\ inQ \in Seq(Unit) /\ outQ \in Seq(Unit) /\ sbuf \in Seq(Unit)
        /\ <<heard>> \in Seq(Unit) /\ UNCHANGED <<heard, call, cpc>> /\ Newest' = Newest
    BY DEF TypeInv, TypeOK, TransportOK, ClientOK, SessionOK, clientVars, rtVars, Newest
  <1>1. CASE ThreadRead
    <2> DEFINE first == SubSeq(inQ, 1, sgrant)
    <2>1. /\ inQ' = Release(inQ, sgrant) /\ outQ' = outQ
          /\ sbuf' \in {<<>>, first}
      BY <1>1 DEF ThreadRead, Front
    <2>2. /\ sgrant \in 0..Len(inQ) /\ 1 \in 1..(Len(inQ) + 1) /\ sgrant \in (1 - 1)..Len(inQ)
          /\ sgrant + 1 \in 1..(Len(inQ) + 1) /\ Len(inQ) \in (sgrant + 1 - 1)..Len(inQ)
      BY <1>0, <1>1 DEF ThreadRead, TypeInv, TypeOK, GrantsHold, SessionOK
    <2>3. /\ inQ' \in Seq(Unit) /\ Len(inQ') = Len(inQ) - sgrant
          /\ \A i \in 1..Len(inQ') : sgrant + i \in 1..Len(inQ) /\ inQ'[i] = inQ[sgrant + i]
      BY <1>0, <2>1, <2>2, Stretch DEF Release
    <2>4. /\ first \in Seq(Unit) /\ Len(first) = sgrant
          /\ \A i \in 1..Len(first) : i \in 1..Len(inQ) /\ first[i] = inQ[i]
      BY <1>0, <2>2, Stretch
    <2>5. /\ Increasing(inQ') /\ UpTo(inQ', Newest)
          /\ Below(<<heard>>, inQ') /\ Below(outQ, inQ')
      BY <1>0, <2>1, <2>2, RestOrder DEF OrderInv
    <2>6. /\ Increasing(first) /\ UpTo(first, Newest)
          /\ Below(<<heard>>, first) /\ Below(outQ, first)
      BY <1>0, <2>2, StretchOrder DEF OrderInv
    <2>7. Below(first, inQ')
      <3> SUFFICES ASSUME NEW i \in 1..Len(first), NEW j \in 1..Len(inQ')
                   PROVE  Before(first[i], inQ'[j])
        BY DEF Below
      <3>1. /\ i \in 1..Len(inQ) /\ first[i] = inQ[i] /\ i <= sgrant
            /\ sgrant + j \in 1..Len(inQ) /\ inQ'[j] = inQ[sgrant + j] /\ i < sgrant + j
        BY <2>2, <2>3, <2>4
      <3> QED BY <3>1 DEF OrderInv, Increasing
    <2> HIDE DEF first
    <2>8. /\ Increasing(sbuf') /\ UpTo(sbuf', Newest) /\ Below(<<heard>>, sbuf')
          /\ Below(outQ, sbuf') /\ Below(sbuf', inQ')
      <3>1. CASE sbuf' = first
        BY <2>6, <2>7, <3>1
      <3>2. CASE sbuf' = <<>>
        BY <3>2 DEF Increasing, UpTo, Below
      <3> QED BY <2>1, <3>1, <3>2
    <2> QED BY <1>0, <2>1, <2>5, <2>8 DEF OrderInv
  <1>2. CASE ThreadWrite
    <2> DEFINE part == SubSeq(sbuf, 1, sgrant)
    <2>1. outQ' = outQ \o part /\ inQ' = inQ /\ sbuf' = <<>>
      BY <1>2 DEF ThreadWrite, Publish
    <2>2. 1 \in 1..(Len(sbuf) + 1) /\ sgrant \in (1 - 1)..Len(sbuf)
      BY <1>0, <1>2 DEF ThreadWrite, TypeInv, TypeOK, GrantsHold, SessionOK
    <2>3. part \in Seq(Unit)
      BY <1>0, <2>2, Stretch
    <2>4. /\ Increasing(part) /\ UpTo(part, Newest) /\ Below(<<heard>>, part)
          /\ Below(outQ, part) /\ Below(part, inQ)
      BY <1>0, <2>2, StretchOrder DEF OrderInv
    <2> HIDE DEF part
    <2>5. Increasing(outQ') /\ UpTo(outQ', Newest)
      BY <1>0, <2>1, <2>3, <2>4, JoinIncreasing, JoinBelow DEF OrderInv
    <2>6. Below(<<heard>>, outQ') /\ Below(outQ', inQ)
      BY <1>0, <2>1, <2>3, <2>4, JoinBelow DEF OrderInv
    <2>7. /\ Increasing(<<>>) /\ UpTo(<<>>, Newest) /\ Below(<<heard>>, <<>>)
          /\ Below(outQ', <<>>) /\ Below(<<>>, inQ)
      BY DEF Increasing, UpTo, Below
    <2> QED BY <1>0, <2>1, <2>5, <2>6, <2>7 DEF OrderInv
  <1>3. CASE ~ThreadRead /\ ~ThreadWrite
    <2>1. UNCHANGED <<inQ, outQ, sbuf>>
      BY <1>3 DEF SessionNext, ThreadStep, effectd_session_open, Wire, effectd_session_start,
         StopRequest, StopJoined, effectd_session_destroy, Crash, ThreadAlloc, ThreadLoop,
         ThreadWake, ThreadTimeout, ThreadCheck, ThreadLoad, ThreadProcess, ThreadSignal,
         ThreadAccount, transport, threadVars
    <2> QED BY <1>0, <2>1, OrderSame DEF OrderInv
  <1> QED BY <1>1, <1>2, <1>3

(* The order survives every step of either side. *)
LEMMA OrderStep == TypeInv /\ OrderInv /\ [Next]_vars => OrderInv'
  <1> SUFFICES ASSUME TypeInv, OrderInv, [Next]_vars PROVE OrderInv'
    OBVIOUS
  <1>1. CASE UNCHANGED vars
    <2>1. UNCHANGED <<inQ, outQ, sbuf, heard, call, cpc>>
      BY <1>1 DEF vars, transport, clientVars, rtVars, sessionVars, threadVars
    <2> QED BY <2>1, OrderSame DEF Newest, OrderInv
  <1> QED BY <1>1, ClientOrderStep, SessionOrderStep DEF Next

(* The four parts put together are increasing, so neighbours are in order. *)
LEMMA OrderSuffices == TypeInv /\ OrderInv => InOrder
  <1> SUFFICES ASSUME TypeInv, OrderInv PROVE InOrder
    OBVIOUS
  <1>0. /\ inQ \in Seq(Unit) /\ outQ \in Seq(Unit) /\ sbuf \in Seq(Unit)
        /\ <<heard>> \in Seq(Unit)
    BY DEF TypeInv, TypeOK, TransportOK, ClientOK, SessionOK
  <1>1. Increasing(<<heard>>)
    BY DEF Increasing
  <1>2. <<heard>> \o outQ \in Seq(Unit) /\ Increasing(<<heard>> \o outQ)
    BY <1>0, <1>1, JoinIncreasing, Joined DEF OrderInv
  <1>3. Below(<<heard>> \o outQ, sbuf) /\ Below(<<heard>> \o outQ, inQ)
    BY <1>0, JoinBelow DEF OrderInv
  <1>4. /\ <<heard>> \o outQ \o sbuf \in Seq(Unit)
        /\ Increasing(<<heard>> \o outQ \o sbuf)
    BY <1>0, <1>2, <1>3, JoinIncreasing, Joined DEF OrderInv
  <1>5. Below(<<heard>> \o outQ \o sbuf, inQ)
    BY <1>0, <1>2, <1>3, JoinBelow DEF OrderInv
  <1>6. InFlight \in Seq(Unit) /\ Increasing(InFlight)
    BY <1>0, <1>4, <1>5, JoinIncreasing, Joined DEF OrderInv, InFlight
  <1> QED BY <1>6 DEF Increasing, InOrder

(* Whatever is dropped, cut short or delayed, the client reads units in    *)
(* the order in which its calls wrote them and none twice, in every build  *)
(* and for calls of any size.                                              *)
THEOREM ReadsInOrder == Spec => []InOrder
  BY TypeInit, TypeStep, OrderInit, OrderStep, OrderSuffices, PTL DEF Spec
=============================================================================
