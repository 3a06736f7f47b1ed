---------------------------- MODULE BlockProofs ----------------------------
(***************************************************************************)
(* The audio path in blocks instead of units: what the queues of the       *)
(* Android build are made of, and the contract of EffectClient_Process,    *)
(* which every build of the queue keeps.                                   *)
(***************************************************************************)
EXTENDS PipelineProofs

(* Division with remainder has one result. *)
LEMMA DivUnique ==
    ASSUME NEW B \in Nat \ {0}, NEW a \in Nat, NEW q \in Int, NEW r \in 0..(B - 1),
           a = B * q + r
    PROVE  a \div B = q /\ a % B = r
  <1> DEFINE d == a \div B
             m == a % B
  <1>1. a = B * d + m /\ d \in Int /\ m \in 0..(B - 1)
    OBVIOUS
  <1> HIDE DEF d, m
  <1>2. B * q + r = B * d + m
    BY <1>1
  <1>3. CASE q = d
    BY <1>1, <1>2, <1>3 DEF d, m
  <1>4. CASE q > d
    <2>1. B * (q - d) >= B /\ B * (q - d) = m - r
      BY <1>1, <1>2, <1>4
    <2> QED BY <1>1, <2>1
  <1>5. CASE d > q
    <2>1. B * (d - q) >= B /\ B * (d - q) = r - m
      BY <1>1, <1>2, <1>5
    <2> QED BY <1>1, <2>1
  <1> QED BY <1>1, <1>3, <1>4, <1>5

(* A whole block more. *)
LEMMA DivBlock ==
    ASSUME NEW B \in Nat \ {0}, NEW a \in Nat
    PROVE  (a + B) \div B = (a \div B) + 1 /\ (a + B) % B = a % B
  <1> DEFINE d == a \div B
             m == a % B
             c == a + B
             e == d + 1
  <1>1. a = B * d + m /\ d \in Int /\ m \in 0..(B - 1)
    OBVIOUS
  <1> HIDE DEF d, m
  <1>2. c = B * e + m /\ c \in Nat /\ e \in Int
    BY <1>1
  <1> HIDE DEF c, e
  <1>3. c \div B = e /\ c % B = m
    BY <1>1, <1>2, DivUnique
  <1> QED BY <1>3 DEF c, d, e, m

(* Less than a block more, from a multiple of the block size. *)
LEMMA DivPart ==
    ASSUME NEW B \in Nat \ {0}, NEW a \in Nat, a % B = 0, NEW n \in 0..(B - 1)
    PROVE  (a + n) \div B = a \div B /\ (a + n) % B = n
  <1> DEFINE d == a \div B
             c == a + n
  <1>1. a = B * d + 0 /\ d \in Int
    OBVIOUS
  <1> HIDE DEF d
  <1>2. c = B * d + n /\ c \in Nat
    BY <1>1
  <1> HIDE DEF c
  <1>3. c \div B = d /\ c % B = n
    BY <1>1, <1>2, DivUnique
  <1> QED BY <1>3 DEF c, d

(* Division keeps the order. *)
LEMMA DivOrder ==
    ASSUME NEW B \in Nat \ {0}, NEW a \in Nat, NEW b \in Nat, a <= b
    PROVE  a \div B <= b \div B /\ a \div B \in Nat
  <1> DEFINE d == a \div B
             e == b \div B
             m == a % B
             n == b % B
  <1>1. /\ a = B * d + m /\ d \in Int /\ m \in 0..(B - 1) /\ d \in Nat
        /\ b = B * e + n /\ e \in Int /\ n \in 0..(B - 1)
    OBVIOUS
  <1> HIDE DEF d, e, m, n
  <1>2. CASE d > e
    <2>1. B * (d - e) >= B /\ B * (d - e) = B * d - B * e
      BY <1>1, <1>2
    <2> QED BY <1>1, <2>1
  <1> QED BY <1>1, <1>2 DEF d, e

(* The k-th of d blocks lies within d blocks. *)
LEMMA BlockWithin ==
    ASSUME NEW B \in Nat \ {0}, NEW d \in Nat, NEW k \in 0..(d - 1)
    PROVE  k * B \in Nat /\ (k + 1) * B = k * B + B /\ (k + 1) * B <= d * B
  <1>1. k * B \in Nat /\ (k + 1) * B = k * B + B
    OBVIOUS
  <1>2. d - k - 1 \in Nat
    OBVIOUS
  <1>3. (d - k - 1) * B \in Nat
    BY <1>2
  <1>4. d * B = (k + 1) * B + (d - k - 1) * B
    OBVIOUS
  <1> QED BY <1>1, <1>3, <1>4

-----------------------------------------------------------------------------
(* Whole blocks and one rest.  A queue holds whole blocks, except that the *)
(* ring lets one failed write fill the room that is no multiple of a       *)
(* block; from then on every grant is a block or nothing again.            *)

Rest == QueueCapacity % BufferSize
Aligned(q) == Len(q) % BufferSize \in {0, Rest}
GrantAligned(n, q) == n \in {0, BufferSize} \/ (n = Rest /\ Len(q) % BufferSize = 0)

AlignInv ==
    /\ Aligned(inQ) /\ Aligned(outQ)
    /\ cpc = "write" => GrantAligned(cgrant, inQ)
    /\ spc = "write" => GrantAligned(sgrant, outQ)
    /\ spc \notin {"process", "write"} => sbuf = <<>>

(* What is granted in an aligned queue is aligned. *)
LEMMA AlignedGrant ==
    ASSUME NEW n \in 0..QueueCapacity, n % BufferSize \in {0, Rest},
           NEW g, g = Granted(BufferSize, QueueCapacity - n)
    PROVE  g \in {0, BufferSize} \/ (g = Rest /\ n % BufferSize = 0)
  <1>0. BufferSize \in Nat \ {0} /\ QueueCapacity \in Nat /\ n \in Nat
    BY SessionAssumption, TransportAssumption
  <1>1. CASE BufferSize <= QueueCapacity - n \/ AllOrNothing
    BY <1>1 DEF Granted
  <1>2. CASE ~(BufferSize <= QueueCapacity - n \/ AllOrNothing)
    <2> DEFINE d == n \div BufferSize
               m == n % BufferSize
               e == QueueCapacity \div BufferSize
    <2>1. /\ n = BufferSize * d + m /\ d \in Int /\ m \in 0..(BufferSize - 1)
          /\ QueueCapacity = BufferSize * e + Rest /\ e \in Int /\ Rest \in 0..(BufferSize - 1)
      BY <1>0 DEF Rest
    <2>2. m \in {0, Rest}
      OBVIOUS
    <2> HIDE DEF d, e, m
    <2>3. g = QueueCapacity - n /\ g \in 0..(BufferSize - 1)
      BY <1>0, <1>2 DEF Granted
    <2>4. CASE m = 0
      <3>1. QueueCapacity = BufferSize * d + g
        BY <1>0, <2>1, <2>3, <2>4
      <3>2. Rest = g
        BY <1>0, <2>1, <2>3, <3>1, DivUnique DEF Rest
      <3> QED BY <2>4, <3>2 DEF m
    <2>5. CASE m = Rest
      <3>1. g = BufferSize * (e - d)
        BY <1>0, <2>1, <2>3, <2>5
      <3>2. CASE e - d >= 1
        <4>1. BufferSize * (e - d) >= BufferSize
          BY <1>0, <2>1, <3>2
        <4> QED BY <1>0, <2>3, <3>1, <4>1
      <3>3. CASE e - d <= -1
        <4>1. BufferSize * (e - d) < 0
          BY <1>0, <2>1, <3>3
        <4> QED BY <1>0, <2>3, <3>1, <4>1
      <3>4. CASE e - d = 0
        BY <1>0, <3>1, <3>4
      <3> QED BY <2>1, <3>2, <3>3, <3>4
    <2> QED BY <2>2, <2>4, <2>5
  <1> QED BY <1>1, <1>2

(* A transfer of an aligned grant: a whole block counts as one, anything   *)
(* less counts as none.                                                    *)
LEMMA AlignedPublish ==
    ASSUME NEW n \in Nat, n % BufferSize \in {0, Rest}, NEW g,
           g \in {0, BufferSize} \/ (g = Rest /\ n % BufferSize = 0)
    PROVE  /\ g \in Nat /\ (n + g) % BufferSize \in {0, Rest}
           /\ g = BufferSize => (n + g) \div BufferSize = (n \div BufferSize) + 1
           /\ g < BufferSize => (n + g) \div BufferSize = n \div BufferSize
  <1>0. BufferSize \in Nat \ {0} /\ Rest \in 0..(BufferSize - 1)
    BY SessionAssumption, TransportAssumption DEF Rest
  <1>1. CASE g = BufferSize
    <2>1. /\ (n + BufferSize) \div BufferSize = (n \div BufferSize) + 1
          /\ (n + BufferSize) % BufferSize = n % BufferSize
      BY <1>0, DivBlock
    <2>2. (n + g) % BufferSize \in {0, Rest}
      BY <1>1, <2>1
    <2>3. (n + g) \div BufferSize = (n \div BufferSize) + 1
      BY <1>1, <2>1
    <2> QED BY <1>0, <1>1, <2>2, <2>3
  <1>2. CASE g = 0
    BY <1>0, <1>2
  <1>3. CASE g = Rest /\ n % BufferSize = 0
    <2>1. (n + g) \div BufferSize = n \div BufferSize /\ (n + g) % BufferSize = Rest
      BY <1>0, <1>3, DivPart
    <2> QED BY <1>0, <1>3, <2>1
  <1> QED BY <1>1, <1>2, <1>3

(* A read of a whole block. *)
LEMMA AlignedRelease ==
    ASSUME NEW n \in Nat, n >= BufferSize
    PROVE  /\ (n - BufferSize) % BufferSize = n % BufferSize
           /\ (n - BufferSize) \div BufferSize = (n \div BufferSize) - 1
           /\ n \div BufferSize >= 1
  <1> DEFINE a == n - BufferSize
  <1>0. BufferSize \in Nat \ {0} /\ a \in Nat /\ a + BufferSize = n
    BY SessionAssumption
  <1> HIDE DEF a
  <1>1. n \div BufferSize = (a \div BufferSize) + 1 /\ n % BufferSize = a % BufferSize
    BY <1>0, DivBlock
  <1>2. a \div BufferSize \in Nat
    BY <1>0, DivOrder
  <1>3. a \div BufferSize = (n \div BufferSize) - 1 /\ n \div BufferSize >= 1
    BY <1>1, <1>2
  <1> QED BY <1>1, <1>3 DEF a

-----------------------------------------------------------------------------
(* The four transfers, of a client that passes whole buffers.              *)

(* The client's write appends what it was granted of its input. *)
LEMMA ProcessWriteMoves ==
    ASSUME TypeInv, PipeInv, ProcessWrite
    PROVE  /\ Input \in Seq(Unit) /\ Len(Input) = BufferSize /\ cgrant \in 0..BufferSize
           /\ inQ' = Publish(inQ, Input, cgrant) /\ Len(inQ') = Len(inQ) + cgrant
           /\ frames = BufferSize
  <1>1. frames = BufferSize
    BY DEF PipeInv, FailingWritesHarmless, ProcessWrite
  <1>2. Input \in Seq(Unit) /\ Len(Input) = BufferSize /\ cgrant \in 0..BufferSize
    BY <1>1, InputFacts DEF TypeInv, TypeOK, ClientOK
  <1>3. inQ' = Publish(inQ, Input, cgrant) /\ inQ \in Seq(Unit)
    BY DEF ProcessWrite, TypeInv, TypeOK, TransportOK
  <1> QED BY <1>1, <1>2, <1>3, PublishFacts

(* The client's read takes one block and succeeds. *)
LEMMA ProcessReadMoves ==
    ASSUME TypeInv, PipeInv, ProcessRead
    PROVE  /\ cgrant = BufferSize /\ frames = BufferSize /\ BufferSize \in 0..Len(outQ)
           /\ outQ' = Release(outQ, BufferSize) /\ Len(outQ') = Len(outQ) - BufferSize
           /\ output' = [kind |-> "effect", data |-> Front(outQ, BufferSize)]
           /\ cpc' = "ok"
  <1>1. cgrant = BufferSize /\ frames = BufferSize
    BY DEF PipeInv, FailingWritesHarmless, ProcessRead
  <1>2. cgrant <= Len(outQ) /\ outQ \in Seq(Unit) /\ BufferSize \in Nat
    BY SessionAssumption DEF TypeInv, TypeOK, TransportOK, GrantsHold, ProcessRead
  <1>3. BufferSize \in 0..Len(outQ)
    BY <1>1, <1>2
  <1>4. /\ outQ' = Release(outQ, BufferSize) /\ cpc' = "ok"
        /\ output' = [kind |-> "effect", data |-> Front(outQ, BufferSize)]
    BY <1>1, <1>2 DEF ProcessRead
  <1>5. Len(Release(outQ, BufferSize)) = Len(outQ) - BufferSize
    BY <1>2, <1>3, ReleaseFacts
  <1> QED BY <1>1, <1>3, <1>4, <1>5

(* The session's read takes one block and succeeds. *)
LEMMA ThreadReadMoves ==
    ASSUME TypeInv, PipeInv, ThreadRead
    PROVE  /\ sgrant = BufferSize /\ BufferSize \in 0..Len(inQ)
           /\ inQ' = Release(inQ, BufferSize) /\ Len(inQ') = Len(inQ) - BufferSize
           /\ sbuf' = Front(inQ, BufferSize) /\ Len(sbuf') = BufferSize
           /\ spc' = "process"
  <1>1. sgrant = BufferSize
    BY DEF PipeInv, FailingWritesHarmless, ThreadRead
  <1>2. sgrant <= Len(inQ) /\ inQ \in Seq(Unit) /\ BufferSize \in Nat
    BY SessionAssumption DEF TypeInv, TypeOK, TransportOK, GrantsHold, ThreadRead
  <1>3. BufferSize \in 0..Len(inQ)
    BY <1>1, <1>2
  <1>4. /\ inQ' = Release(inQ, BufferSize) /\ spc' = "process"
        /\ sbuf' = Front(inQ, BufferSize)
    BY <1>1, <1>2 DEF ThreadRead
  <1>5. Len(Release(inQ, BufferSize)) = Len(inQ) - BufferSize /\ Len(Front(inQ, BufferSize)) = BufferSize
    BY <1>2, <1>3, ReleaseFacts
  <1> QED BY <1>1, <1>3, <1>4, <1>5

(* The session's write appends what it was granted of its buffer. *)
LEMMA ThreadWriteMoves ==
    ASSUME TypeInv, ThreadWrite
    PROVE  /\ sbuf \in Seq(Unit) /\ Len(sbuf) = BufferSize /\ sgrant \in 0..BufferSize
           /\ outQ' = Publish(outQ, sbuf, sgrant) /\ Len(outQ') = Len(outQ) + sgrant
           /\ sbuf' = <<>> /\ spc' \in {"loop", "signal"}
  <1>1. sbuf \in Seq(Unit) /\ Len(sbuf) = BufferSize /\ sgrant \in 0..BufferSize /\ outQ \in Seq(Unit)
    BY DEF TypeInv, TypeOK, TransportOK, SessionOK, GrantsHold, ThreadWrite
  <1>2. /\ outQ' = Publish(outQ, sbuf, sgrant) /\ sbuf' = <<>> /\ spc' \in {"loop", "signal"}
    BY DEF ThreadWrite
  <1> QED BY <1>1, <1>2, PublishFacts

-----------------------------------------------------------------------------
(* Alignment is kept.  Empty queues are aligned. *)
LEMMA AlignInit == Init => AlignInv
  <1> SUFFICES ASSUME Init PROVE AlignInv
    OBVIOUS
  <1>1. inQ = <<>> /\ outQ = <<>> /\ sbuf = <<>> /\ cpc = "idle" /\ spc = "none"
    BY DEF Init, TransportInit, ClientInit, SessionInit
  <1>2. Len(<<>>) % BufferSize = 0
    BY SessionAssumption
  <1> QED BY <1>1, <1>2 DEF AlignInv, Aligned

(* The client loads its grant from an aligned queue, and reads blocks. *)
LEMMA ClientAlignStep ==
    ASSUME ClientFrames = {BufferSize}, TypeInv, PipeInv, AlignInv, ClientNext, UNCHANGED sessionVars
    PROVE  AlignInv'
  <1>0. UNCHANGED <<spc, sgrant, sbuf>>
    BY DEF sessionVars, threadVars
  <1>t. Len(inQ) \in 0..QueueCapacity /\ Len(outQ) \in Nat /\ BufferSize \in Nat \ {0}
    BY SessionAssumption, TransportAssumption DEF TypeInv, TypeOK, TransportOK
  <1>1. CASE \/ EffectClient_Start \/ EffectClient_Stop \/ QueryStatsLock \/ QueryStatsUnlock
             \/ ProcessRejected
    <2>1. UNCHANGED <<inQ, outQ, cpc, cgrant>>
      BY <1>1 DEF EffectClient_Start, EffectClient_Stop, QueryStatsLock, QueryStatsUnlock,
                  ProcessRejected, rtVars, transport
    <2> QED BY <1>0, <2>1 DEF AlignInv, Aligned, GrantAligned
  <1>2. CASE \/ ProcessSignal \/ ProcessWake \/ ProcessTimeout \/ ProcessLoad
             \/ \E at \in Endings : ProcessReturn(at)
    <2>1. UNCHANGED <<inQ, outQ>> /\ cpc' # "write"
      BY <1>2 DEF ProcessSignal, ProcessWake, ProcessTimeout, ProcessLoad, ProcessReturn, transport
    <2> QED BY <1>0, <2>1 DEF AlignInv, Aligned, GrantAligned
  <1>3. ASSUME NEW f \in ClientFrames, ProcessEnter(f) PROVE AlignInv'
    <2>1. UNCHANGED <<inQ, outQ>> /\ cgrant' = Granted(BufferSize, QueueCapacity - Len(inQ))
      BY <1>3 DEF ProcessEnter, transport, effect_fmq_available_to_write
    <2>2. GrantAligned(cgrant', inQ)
      BY <1>t, <2>1, AlignedGrant DEF AlignInv, Aligned, GrantAligned
    <2> QED BY <1>0, <2>1, <2>2 DEF AlignInv, Aligned, GrantAligned
  <1>4. CASE ProcessWrite
    <2>1. Len(inQ') = Len(inQ) + cgrant /\ outQ' = outQ /\ cpc' # "write" /\ cpc = "write"
      BY <1>4, ProcessWriteMoves DEF ProcessWrite, Written
    <2>2. Aligned(inQ')
      BY <1>t, <2>1, AlignedPublish DEF AlignInv, Aligned, GrantAligned
    <2> QED BY <1>0, <2>1, <2>2 DEF AlignInv, Aligned, GrantAligned
  <1>5. CASE ProcessRead
    <2>1. /\ Len(outQ') = Len(outQ) - BufferSize /\ Len(outQ) >= BufferSize /\ inQ' = inQ
          /\ cpc' # "write"
      BY <1>5, ProcessReadMoves DEF ProcessRead
    <2>2. Len(outQ') % BufferSize = Len(outQ) % BufferSize
      BY <1>t, <2>1, AlignedRelease
    <2> QED BY <1>0, <2>1, <2>2 DEF AlignInv, Aligned, GrantAligned
  <1> QED BY <1>1, <1>2, <1>3, <1>4, <1>5 DEF ClientNext, ProcessStep

(* So does the session, with the queues exchanged. *)
LEMMA SessionAlignStep ==
    ASSUME TypeInv, LifecycleInv, PipeInv, AlignInv, SessionNext, UNCHANGED clientVars
    PROVE  AlignInv'
  <1>0. UNCHANGED <<cpc, cgrant>>
    BY DEF clientVars, rtVars
  <1>t. Len(inQ) \in Nat /\ Len(outQ) \in 0..QueueCapacity /\ BufferSize \in Nat \ {0}
    BY SessionAssumption, TransportAssumption DEF TypeInv, TypeOK, TransportOK
  <1>1. CASE \/ effectd_session_open \/ Wire \/ effectd_session_destroy \/ Crash \/ StopJoined
             \/ \E caller \in {"stop", "destroy"} : StopRequest(caller)
    <2>1. UNCHANGED <<inQ, outQ, spc, sgrant, sbuf>>
      BY <1>1 DEF effectd_session_open, Wire, effectd_session_destroy, Crash, StopJoined,
                  StopRequest, transport, threadVars
    <2> QED BY <1>0, <2>1 DEF AlignInv, Aligned, GrantAligned
  <1>2. CASE \/ effectd_session_start \/ ThreadAlloc \/ ThreadLoop \/ ThreadWake \/ ThreadTimeout
             \/ ThreadCheck \/ ThreadLoad \/ ThreadSignal \/ ThreadAccount
    <2>1. /\ UNCHANGED <<inQ, outQ, sbuf>> /\ spc \notin {"process", "write"}
          /\ spc' \notin {"process", "write"}
      BY <1>2 DEF effectd_session_start, ThreadAlloc, ThreadLoop, ThreadWake, ThreadTimeout,
                  ThreadCheck, ThreadLoad, ThreadSignal, ThreadAccount, transport, LifecycleInv
    <2> QED BY <1>0, <2>1 DEF AlignInv, Aligned, GrantAligned
  <1>3. CASE ThreadRead
    <2>1. /\ Len(inQ') = Len(inQ) - BufferSize /\ Len(inQ) >= BufferSize /\ outQ' = outQ
          /\ spc' = "process"
      BY <1>3, ThreadReadMoves DEF ThreadRead
    <2>2. Len(inQ') % BufferSize = Len(inQ) % BufferSize
      BY <1>t, <2>1, AlignedRelease
    <2> QED BY <1>0, <2>1, <2>2 DEF AlignInv, Aligned, GrantAligned
  <1>4. CASE ThreadProcess
    <2>1. /\ UNCHANGED <<inQ, outQ>> /\ spc' = "write"
          /\ sgrant' = Granted(BufferSize, QueueCapacity - Len(outQ))
      BY <1>4 DEF ThreadProcess, transport, effect_fmq_available_to_write
    <2>2. GrantAligned(sgrant', outQ)
      BY <1>t, <2>1, AlignedGrant DEF AlignInv, Aligned, GrantAligned
    <2> QED BY <1>0, <2>1, <2>2 DEF AlignInv, Aligned, GrantAligned
  <1>5. CASE ThreadWrite
    <2>1. /\ Len(outQ') = Len(outQ) + sgrant /\ inQ' = inQ /\ spc = "write"
          /\ spc' \in {"loop", "signal"} /\ sbuf' = <<>>
      BY <1>5, ThreadWriteMoves DEF ThreadWrite
    <2>2. Aligned(outQ')
      BY <1>t, <2>1, AlignedPublish DEF AlignInv, Aligned, GrantAligned
    <2> QED BY <1>0, <2>1, <2>2 DEF AlignInv, Aligned, GrantAligned
  <1> QED BY <1>1, <1>2, <1>3, <1>4, <1>5 DEF SessionNext, ThreadStep

(* Every step keeps the queues aligned. *)
LEMMA AlignStep ==
    ASSUME ClientFrames = {BufferSize}
    PROVE  TypeInv /\ LifecycleInv /\ PipeInv /\ AlignInv /\ [Next]_vars => AlignInv'
  <1> SUFFICES ASSUME TypeInv, LifecycleInv, PipeInv, AlignInv, [Next]_vars PROVE AlignInv'
    OBVIOUS
  <1>1. CASE ClientNext /\ UNCHANGED sessionVars
    BY <1>1, ClientAlignStep
  <1>2. CASE SessionNext /\ UNCHANGED clientVars
    BY <1>2, SessionAlignStep
  <1>3. CASE UNCHANGED vars
    BY <1>3 DEF vars, transport, clientVars, rtVars, sessionVars, threadVars,
                AlignInv, Aligned, GrantAligned
  <1> QED BY <1>1, <1>2, <1>3 DEF Next

-----------------------------------------------------------------------------
(* The Android queue: whole inputs, one after the other.                   *)

(* Being a block depends on the length and the elements only. *)
LEMMA SameBlock ==
    ASSUME NEW s, NEW t, Len(s) = Len(t), Len(s) \in Nat, \A i \in 1..Len(s) : s[i] = t[i], IsBlock(s)
    PROVE  IsBlock(t)
  <1>1. SUFFICES ASSUME NEW i \in 1..Len(t) PROVE t[i] = <<t[1][1], i>>
    BY DEF IsBlock
  <1>2. 1 \in 1..Len(s)
    BY <1>1
  <1> QED BY <1>1, <1>2 DEF IsBlock

(* The number of units in d whole blocks. *)
LEMMA WholeLength ==
    ASSUME NEW q \in Seq(Unit), Len(q) % BufferSize = 0
    PROVE  /\ Len(q) \div BufferSize \in Nat
           /\ Len(q) = (Len(q) \div BufferSize) * BufferSize
  <1>1. Len(q) \in Nat /\ BufferSize \in Nat \ {0}
    BY SessionAssumption
  <1> DEFINE n == Len(q)
  <1> HIDE DEF n
  <1>2. n \in Nat /\ n % BufferSize = 0
    BY <1>1 DEF n
  <1>3. n \div BufferSize \in Nat /\ n = (n \div BufferSize) * BufferSize
    BY <1>1, <1>2
  <1> QED BY <1>3 DEF n

(* A block appended to whole blocks. *)
LEMMA BlocksAppend ==
    ASSUME NEW q \in Seq(Unit), NEW t \in Seq(Unit), Blocks(q), IsBlock(t), Len(t) = BufferSize
    PROVE  Blocks(q \o t)
  <1> DEFINE B == BufferSize
             d == Len(q) \div B
             w == q \o t
  <1>1. B \in Nat \ {0} /\ Len(q) \in Nat
    BY SessionAssumption
  <1>2. d \in Nat /\ Len(q) = d * B
    BY WholeLength DEF Blocks
  <1>3. w \in Seq(Unit) /\ Len(w) = Len(q) + B
    BY Joined
  <1>4. Len(w) % B = 0 /\ Len(w) \div B = d + 1
    <2> DEFINE n == Len(q)
    <2>1. n \in Nat /\ n % B = 0 /\ Len(w) = n + B /\ d = n \div B
      BY <1>1, <1>3 DEF Blocks
    <2> HIDE DEF n, d, w
    <2>2. (n + B) \div B = (n \div B) + 1 /\ (n + B) % B = n % B
      BY <1>1, <2>1, DivBlock
    <2> QED BY <2>1, <2>2
  <1>5. ASSUME NEW k \in 0..d
        PROVE  IsBlock(SubSeq(w, k * B + 1, (k + 1) * B))
    <2> DEFINE lo == k * B
               m == lo + 1
               n == lo + B
               r == SubSeq(w, m, n)
    <2>1. lo \in Nat /\ (k + 1) * B = n /\ n <= Len(w)
      <3>1. d + 1 \in Nat /\ k \in 0..((d + 1) - 1)
        BY <1>2
      <3>2. lo \in Nat /\ (k + 1) * B = lo + B /\ (k + 1) * B <= (d + 1) * B
        BY <1>1, <3>1, BlockWithin
      <3>3. (d + 1) * B = d * B + B
        BY <1>1, <1>2
      <3> QED BY <1>2, <1>3, <3>2, <3>3
    <2>2. m \in 1..(Len(w) + 1) /\ n \in (m - 1)..Len(w) /\ n - m + 1 = B
      BY <1>1, <1>3, <2>1
    <2>3. /\ Len(r) = B
          /\ \A i \in 1..B : lo + i \in 1..Len(w) /\ r[i] = w[lo + i]
      <3> HIDE DEF m, n, w
      <3>1. /\ Len(r) = n - m + 1
            /\ \A i \in 1..(n - m + 1) : m + i - 1 \in 1..Len(w) /\ r[i] = w[m + i - 1]
        BY <1>3, <2>2, Stretch
      <3>2. \A i \in 1..B : m + i - 1 = lo + i
        BY <1>1, <2>1 DEF m
      <3> QED BY <2>2, <3>1, <3>2
    <2> HIDE DEF r, m, n
    <2>4. CASE k < d
      <3> DEFINE s == SubSeq(q, m, n)
      <3>1. n <= Len(q)
        <4>1. (k + 1) * B <= d * B
          BY <1>1, <1>2, <2>4, BlockWithin
        <4> QED BY <1>2, <2>1, <4>1
      <3>2. m \in 1..(Len(q) + 1) /\ n \in (m - 1)..Len(q) /\ k \in 0..(d - 1)
        BY <1>1, <1>2, <2>1, <2>2, <2>4, <3>1 DEF m, n
      <3>3. IsBlock(s)
        <4>1. IsBlock(SubSeq(q, k * B + 1, (k + 1) * B))
          BY <3>2 DEF Blocks
        <4> QED BY <2>1, <4>1 DEF m
      <3>4. /\ Len(s) = B
            /\ \A i \in 1..B : lo + i \in 1..Len(q) /\ s[i] = q[lo + i]
        <4>1. /\ Len(s) = n - m + 1
              /\ \A i \in 1..(n - m + 1) : m + i - 1 \in 1..Len(q) /\ s[i] = q[m + i - 1]
          BY <3>2, Stretch
        <4>2. \A i \in 1..B : m + i - 1 = lo + i
          BY <1>1, <2>1 DEF m
        <4> QED BY <2>2, <4>1, <4>2
      <3> HIDE DEF s
      <3>5. \A i \in 1..B : w[lo + i] = q[lo + i]
        BY <3>4, Joined
      <3>6. IsBlock(r)
        BY <1>1, <2>3, <3>3, <3>4, <3>5, SameBlock
      <3> QED BY <2>1, <3>6 DEF r, m
    <2>5. CASE k = d
      <3>1. lo = Len(q)
        BY <1>2, <2>5
      <3>2. \A i \in 1..B : w[Len(q) + i] = t[i]
        <4>1. ASSUME NEW i \in 1..B PROVE w[Len(q) + i] = t[i]
          <5>1. Len(q) + i \in (Len(q) + 1)..Len(w) /\ (Len(q) + i) - Len(q) = i
            BY <1>1, <1>3
          <5> QED BY <5>1, Joined
        <4> QED BY <4>1
      <3>3. IsBlock(r)
        BY <1>1, <2>3, <3>1, <3>2, SameBlock
      <3> QED BY <2>1, <3>3 DEF r, m
    <2> QED BY <1>2, <2>4, <2>5
  <1>6. \A k \in 0..((Len(w) \div B) - 1) : k \in 0..d
    BY <1>2, <1>4
  <1> QED BY <1>4, <1>5, <1>6 DEF Blocks

(* The first of the blocks taken off. *)
LEMMA BlocksRelease ==
    ASSUME NEW q \in Seq(Unit), Blocks(q), BufferSize \in 0..Len(q)
    PROVE  Blocks(Release(q, BufferSize)) /\ IsBlock(Front(q, BufferSize))
  <1> DEFINE B == BufferSize
             d == Len(q) \div B
             w == Release(q, B)
  <1>1. B \in Nat \ {0} /\ Len(q) \in Nat /\ Len(q) >= B
    BY SessionAssumption
  <1>2. d \in Nat /\ Len(q) = d * B
    BY WholeLength DEF Blocks
  <1>3. /\ w \in Seq(Unit) /\ Len(w) = Len(q) - B
        /\ \A i \in 1..(Len(q) - B) : w[i] = q[B + i]
    <2> DEFINE m == B + 1
               n == Len(q)
    <2>1. m \in 1..(Len(q) + 1) /\ n \in (m - 1)..Len(q) /\ n - m + 1 = Len(q) - B
      BY <1>1
    <2>2. \A i \in 1..(Len(q) - B) : m + i - 1 = B + i
      BY <1>1
    <2>3. w = SubSeq(q, m, n)
      BY DEF Release
    <2> HIDE DEF m, n, w
    <2>4. /\ w \in Seq(Unit) /\ Len(w) = n - m + 1
          /\ \A i \in 1..(n - m + 1) : w[i] = q[m + i - 1]
      BY <2>1, <2>3, Stretch
    <2> QED BY <2>1, <2>2, <2>4
  <1>4. Len(w) % B = 0 /\ Len(w) \div B = d - 1 /\ d >= 1
    <2> DEFINE n == Len(q)
    <2>1. n \in Nat /\ n >= B /\ n % B = 0 /\ Len(w) = n - B /\ d = n \div B
      BY <1>1, <1>3 DEF Blocks
    <2> HIDE DEF n, d, w
    <2>2. (n - B) % B = n % B /\ (n - B) \div B = (n \div B) - 1 /\ n \div B >= 1
      BY <2>1, AlignedRelease
    <2> QED BY <2>1, <2>2
  <1>5. ASSUME NEW k \in 0..(d - 2)
        PROVE  IsBlock(SubSeq(w, k * B + 1, (k + 1) * B))
    <2> DEFINE lo == k * B
               m == lo + 1
               n == lo + B
               r == SubSeq(w, m, n)
               j == k + 1
               m2 == n + 1
               n2 == n + B
               s == SubSeq(q, m2, n2)
    <2>1. lo \in Nat /\ (k + 1) * B = n /\ n <= Len(w)
      <3>1. d - 1 \in Nat /\ k \in 0..((d - 1) - 1)
        BY <1>2, <1>4
      <3>2. lo \in Nat /\ (k + 1) * B = lo + B /\ (k + 1) * B <= (d - 1) * B
        BY <1>1, <3>1, BlockWithin
      <3>3. (d - 1) * B = d * B - B
        BY <1>1, <1>2
      <3> QED BY <1>2, <1>3, <3>2, <3>3
    <2>a. /\ lo \in Nat /\ B \in Nat \ {0} /\ Len(q) \in Nat
          /\ Len(w) = Len(q) - B /\ lo + B <= Len(w)
      BY <1>1, <1>3, <2>1
    <2> HIDE DEF lo, w, B
    <2>b. /\ lo \in Nat /\ B \in Nat \ {0} /\ Len(q) \in Nat
          /\ Len(w) = Len(q) - B /\ lo + B <= Len(q) - B
      BY <2>a
    <2>2. /\ m \in 1..(Len(w) + 1) /\ n \in (m - 1)..Len(w) /\ n - m + 1 = B
          /\ m2 \in 1..(Len(q) + 1) /\ n2 \in (m2 - 1)..Len(q) /\ n2 - m2 + 1 = B
      BY <2>b
    <2>3. IsBlock(s)
      <3>1. j \in 0..(d - 1) /\ j * B = n /\ (j + 1) * B = n + B
        BY <1>1, <1>2, <2>1
      <3> HIDE DEF n, j
      <3>2. IsBlock(SubSeq(q, j * B + 1, (j + 1) * B))
        BY <3>1 DEF Blocks, B
      <3> QED BY <3>1, <3>2
    <2>4. Len(r) = B /\ \A i \in 1..B : r[i] = w[lo + i]
      <3>1. \A i \in 1..B : m + i - 1 = lo + i
        BY <1>1, <2>1
      <3> HIDE DEF m, n, w
      <3>2. Len(r) = n - m + 1 /\ \A i \in 1..(n - m + 1) : r[i] = w[m + i - 1]
        BY <1>3, <2>2, Stretch
      <3> QED BY <2>2, <3>1, <3>2
    <2>5. Len(s) = B /\ \A i \in 1..B : s[i] = q[n + i]
      <3>1. \A i \in 1..B : m2 + i - 1 = n + i
        BY <1>1, <2>1
      <3> HIDE DEF m2, n2, n
      <3>2. Len(s) = n2 - m2 + 1 /\ \A i \in 1..(n2 - m2 + 1) : s[i] = q[m2 + i - 1]
        BY <2>2, Stretch
      <3> QED BY <2>2, <3>1, <3>2
    <2>6. ASSUME NEW i \in 1..B PROVE w[lo + i] = q[n + i]
      <3>1. lo + i \in 1..(Len(q) - B) /\ B + (lo + i) = n + i
        BY <2>b
      <3> QED BY <1>3, <3>1
    <2> HIDE DEF r, s, m, m2, n, n2
    <2>7. IsBlock(r)
      BY <1>1, <2>3, <2>4, <2>5, <2>6, SameBlock
    <2> QED BY <2>1, <2>7 DEF r, m, lo
  <1>6. IsBlock(Front(q, B))
    <2>1. 0 \in 0..(d - 1) /\ 0 * B + 1 = 1 /\ (0 + 1) * B = B
      BY <1>1, <1>2, <1>4
    <2>2. IsBlock(SubSeq(q, 0 * B + 1, (0 + 1) * B))
      BY <2>1 DEF Blocks
    <2> QED BY <2>1, <2>2 DEF Front
  <1>7. \A k \in 0..((Len(w) \div B) - 1) : k \in 0..(d - 2)
    BY <1>2, <1>4
  <1> QED BY <1>4, <1>5, <1>6, <1>7 DEF Blocks

(* The input of a call is a block. *)
LEMMA InputIsBlock ==
    ASSUME ClientOK
    PROVE  IsBlock(Input)
  <1>1. frames \in Nat /\ Len(Input) = frames /\ \A i \in 1..frames : Input[i] = <<call, i>>
    BY InputFacts DEF Input
  <1>2. ASSUME NEW i \in 1..frames PROVE Input[i] = <<Input[1][1], i>>
    <2>1. 1 \in 1..frames
      BY <1>1
    <2>2. Input[1] = <<call, 1>> /\ Input[i] = <<call, i>>
      BY <1>1, <2>1
    <2> QED BY <2>2
  <1> QED BY <1>1, <1>2 DEF IsBlock

(* A write of a block or of nothing to a queue of whole blocks. *)
LEMMA BlocksPublish ==
    ASSUME NEW q \in Seq(Unit), NEW t \in Seq(Unit), Blocks(q), IsBlock(t), Len(t) = BufferSize,
           NEW n \in {0, BufferSize}
    PROVE  Blocks(Publish(q, t, n))
  <1>1. BufferSize \in Nat
    BY SessionAssumption
  <1>2. CASE n = 0
    <2>1. SubSeq(t, 1, 0) = <<>>
      BY SubSeqProperties
    <2>2. q \o <<>> = q
      BY ConcatEmptySeq
    <2> QED BY <1>2, <2>1, <2>2 DEF Publish
  <1>3. CASE n = BufferSize
    <2>1. SubSeq(t, 1, n) = t
      BY <1>1, <1>3
    <2> QED BY <2>1, BlocksAppend DEF Publish
  <1> QED BY <1>2, <1>3

(* A step that moves nothing. *)
LEMMA BlocksSame ==
    ASSUME WholeBlocks, UNCHANGED <<inQ, outQ, sbuf>>,
           output' = output \/ output'.kind # "effect"
    PROVE  WholeBlocks'
  BY DEF WholeBlocks, Blocks, BuffersWhole, IsBlock

(* The client enters one block of its own, and takes one block whole. *)
LEMMA ClientBlocksStep ==
    ASSUME AllOrNothing, TypeInv, PipeInv, BacklogInv, WholeBlocks, ClientNext, UNCHANGED sessionVars
    PROVE  WholeBlocks'
  <1>0. sbuf' = sbuf /\ inQ \in Seq(Unit) /\ outQ \in Seq(Unit) /\ ClientOK
    BY DEF sessionVars, threadVars, TypeInv, TypeOK, TransportOK
  <1>1. CASE \/ EffectClient_Start \/ EffectClient_Stop \/ QueryStatsLock \/ QueryStatsUnlock
             \/ ProcessSignal \/ ProcessWake \/ ProcessTimeout \/ ProcessLoad
    <2>1. UNCHANGED <<inQ, outQ, sbuf, output>>
      BY <1>0, <1>1 DEF EffectClient_Start, EffectClient_Stop, QueryStatsLock, QueryStatsUnlock,
                        ProcessSignal, ProcessWake, ProcessTimeout, ProcessLoad, rtVars, transport
    <2> QED BY <2>1, BlocksSame
  <1>2. CASE ProcessRejected \/ \E f \in ClientFrames : ProcessEnter(f)
    <2>1. UNCHANGED <<inQ, outQ, sbuf>> /\ output'.kind # "effect"
      BY <1>0, <1>2 DEF ProcessRejected, ProcessEnter, NoOutput, transport
    <2> QED BY <2>1, BlocksSame
  <1>3. ASSUME NEW at \in Endings, ProcessReturn(at) PROVE WholeBlocks'
    <2>1. UNCHANGED <<inQ, outQ, sbuf>>
      BY <1>0, <1>3 DEF ProcessReturn, transport
    <2>2. output' = output \/ output'.kind = "raw"
      BY <1>3 DEF ProcessReturn, FinalOutput, Passthrough, Endings
    <2> QED BY <2>1, <2>2, BlocksSame
  <1>4. CASE ProcessWrite
    <2>1. /\ Input \in Seq(Unit) /\ Len(Input) = BufferSize
          /\ inQ' = Publish(inQ, Input, cgrant)
      BY <1>4, ProcessWriteMoves
    <2>2. cgrant \in {0, BufferSize} /\ UNCHANGED <<outQ, output>>
      BY <1>4 DEF ProcessWrite, BacklogInv
    <2>3. Blocks(inQ')
      BY <1>0, <2>1, <2>2, InputIsBlock, BlocksPublish DEF WholeBlocks
    <2> QED BY <1>0, <2>2, <2>3 DEF WholeBlocks, BuffersWhole, Blocks, IsBlock
  <1>5. CASE ProcessRead
    <2>1. /\ BufferSize \in 0..Len(outQ) /\ outQ' = Release(outQ, BufferSize) /\ inQ' = inQ
          /\ output' = [kind |-> "effect", data |-> Front(outQ, BufferSize)]
      BY <1>5, ProcessReadMoves DEF ProcessRead
    <2>2. Blocks(Release(outQ, BufferSize)) /\ IsBlock(Front(outQ, BufferSize))
      BY <1>0, <2>1, BlocksRelease DEF WholeBlocks
    <2>3. Blocks(outQ') /\ IsBlock(output'.data)
      BY <2>1, <2>2
    <2> QED BY <1>0, <2>1, <2>3 DEF WholeBlocks, BuffersWhole, Blocks, IsBlock
  <1> QED BY <1>1, <1>2, <1>3, <1>4, <1>5 DEF ClientNext, ProcessStep

(* The session takes one block whole, and passes it on whole or drops it. *)
LEMMA SessionBlocksStep ==
    ASSUME AllOrNothing, TypeInv, PipeInv, BacklogInv, WholeBlocks, SessionNext, UNCHANGED clientVars
    PROVE  WholeBlocks'
  <1>0. output' = output /\ inQ \in Seq(Unit) /\ outQ \in Seq(Unit)
    BY DEF clientVars, rtVars, TypeInv, TypeOK, TransportOK
  <1>1. CASE \/ effectd_session_open \/ Wire \/ effectd_session_start \/ effectd_session_destroy
             \/ Crash \/ StopJoined \/ \E caller \in {"stop", "destroy"} : StopRequest(caller)
             \/ ThreadAlloc \/ ThreadLoop \/ ThreadWake \/ ThreadTimeout \/ ThreadCheck
             \/ ThreadLoad \/ ThreadProcess \/ ThreadSignal \/ ThreadAccount
    <2>1. UNCHANGED <<inQ, outQ, sbuf>>
      BY <1>1 DEF effectd_session_open, Wire, effectd_session_start, effectd_session_destroy,
                  Crash, StopJoined, StopRequest, ThreadAlloc, ThreadLoop, ThreadWake,
                  ThreadTimeout, ThreadCheck, ThreadLoad, ThreadProcess, ThreadSignal,
                  ThreadAccount, transport, threadVars
    <2> QED BY <1>0, <2>1, BlocksSame
  <1>2. CASE ThreadRead
    <2>1. /\ BufferSize \in 0..Len(inQ) /\ inQ' = Release(inQ, BufferSize) /\ outQ' = outQ
          /\ sbuf' = Front(inQ, BufferSize)
      BY <1>2, ThreadReadMoves DEF ThreadRead
    <2>2. Blocks(Release(inQ, BufferSize)) /\ IsBlock(Front(inQ, BufferSize))
      BY <1>0, <2>1, BlocksRelease DEF WholeBlocks
    <2>3. Blocks(inQ') /\ IsBlock(sbuf')
      BY <2>1, <2>2
    <2> QED BY <1>0, <2>1, <2>3 DEF WholeBlocks, BuffersWhole, Blocks, IsBlock
  <1>3. CASE ThreadWrite
    <2>1. /\ sbuf \in Seq(Unit) /\ Len(sbuf) = BufferSize
          /\ outQ' = Publish(outQ, sbuf, sgrant) /\ sbuf' = <<>>
      BY <1>3, ThreadWriteMoves
    <2>2. sgrant \in {0, BufferSize} /\ inQ' = inQ
      BY <1>3 DEF ThreadWrite, BacklogInv
    <2>3. Blocks(outQ')
      BY <1>0, <2>1, <2>2, BlocksPublish DEF WholeBlocks, BuffersWhole
    <2>4. IsBlock(sbuf')
      BY <2>1 DEF IsBlock
    <2> QED BY <1>0, <2>2, <2>3, <2>4 DEF WholeBlocks, BuffersWhole, Blocks, IsBlock
  <1> QED BY <1>1, <1>2, <1>3 DEF SessionNext, ThreadStep

(* With the Android queue the session never processes, and a call never    *)
(* returns, a buffer made of the inputs of several calls: both queues are  *)
(* made of whole inputs, each from its first unit to its last.             *)
THEOREM QueuesHoldWholeBlocks ==
    ASSUME ClientFrames = {BufferSize}, AllOrNothing
    PROVE  Spec => []WholeBlocks
  <1>1. Init => WholeBlocks
    <2> SUFFICES ASSUME Init PROVE WholeBlocks
      OBVIOUS
    <2>1. inQ = <<>> /\ outQ = <<>> /\ sbuf = <<>> /\ output.kind = "none"
      BY DEF Init, TransportInit, ClientInit, SessionInit, NoOutput
    <2>2. IsBlock(<<>>)
      BY DEF IsBlock
    <2>3. Len(<<>>) = 0 /\ 0 % BufferSize = 0 /\ 0 \div BufferSize = 0
      BY SessionAssumption
    <2>4. Blocks(<<>>)
      BY <2>3 DEF Blocks
    <2> QED BY <2>1, <2>2, <2>4 DEF WholeBlocks, BuffersWhole
  <1>2. TypeInv /\ PipeInv /\ BacklogInv /\ WholeBlocks /\ [Next]_vars => WholeBlocks'
    <2> SUFFICES ASSUME TypeInv, PipeInv, BacklogInv, WholeBlocks, [Next]_vars PROVE WholeBlocks'
      OBVIOUS
    <2>1. CASE ClientNext /\ UNCHANGED sessionVars
      BY <2>1, ClientBlocksStep
    <2>2. CASE SessionNext /\ UNCHANGED clientVars
      BY <2>2, SessionBlocksStep
    <2>3. CASE UNCHANGED vars
      BY <2>3, BlocksSame DEF vars, transport, clientVars, rtVars, sessionVars, threadVars
    <2> QED BY <2>1, <2>2, <2>3 DEF Next
  <1> QED BY TypeInit, TypeStep, LifecycleInit, LifecycleStep, PipeInit, PipeStep,
             BacklogInit, BacklogStep, <1>1, <1>2, PTL DEF Spec

-----------------------------------------------------------------------------
(* The contract of EffectClient_Process.                                   *)

PhaseBar == CASE cpc = "idle" -> "idle"
              [] cpc \in {"write", "xrun"} -> "called"
              [] cpc = "ok" -> "took"
              [] OTHER -> "offered"
PendingBar == (Len(inQ) + Len(sbuf)) \div BufferSize
AnswersBar == Len(outQ) \div BufferSize
Depth == QueueCapacity \div BufferSize

(* The instance meets the contract's assumption: a queue holds a block. *)
LEMMA ContractDepth == Depth \in Nat \ {0}
  <1>1. BufferSize \in Nat \ {0} /\ QueueCapacity \in Nat /\ QueueCapacity >= BufferSize
    BY SessionAssumption, TransportAssumption
  <1>2. QueueCapacity \div BufferSize \in Nat /\ QueueCapacity \div BufferSize >= 1
    BY <1>1, AlignedRelease, DivOrder
  <1> QED BY <1>2 DEF Depth

(* A step that the contract does not see. *)
LEMMA ContractStutter ==
    ASSUME UNCHANGED <<PhaseBar, isStarted, ret, output.kind, PendingBar, AnswersBar, alive>>
    PROVE  [Contract!ContractNext]_(Contract!contractVars)
  BY DEF PhaseBar, PendingBar, AnswersBar, Contract!contractVars, Contract!handleVars

(* What the contract sees of the two queues when a block moves. *)
LEMMA BarTypes ==
    ASSUME TypeInv
    PROVE  /\ Len(inQ) \in Nat /\ Len(outQ) \in Nat /\ Len(sbuf) \in Nat
           /\ Len(inQ) <= QueueCapacity /\ Len(outQ) <= QueueCapacity
           /\ BufferSize \in Nat \ {0} /\ QueueCapacity \in Nat
           /\ PendingBar \in Nat /\ AnswersBar \in Nat
  <1>1. /\ Len(inQ) \in Nat /\ Len(outQ) \in Nat /\ Len(sbuf) \in Nat
        /\ Len(inQ) <= QueueCapacity /\ Len(outQ) <= QueueCapacity
        /\ BufferSize \in Nat \ {0} /\ QueueCapacity \in Nat
    BY SessionAssumption, TransportAssumption DEF TypeInv, TypeOK, TransportOK, SessionOK
  <1> DEFINE n == Len(inQ) + Len(sbuf)
  <1>2. n \in Nat
    BY <1>1
  <1> HIDE DEF n
  <1>3. n \div BufferSize \in Nat
    BY <1>1, <1>2, DivOrder
  <1>4. Len(outQ) \div BufferSize \in Nat
    BY <1>1, DivOrder
  <1> QED BY <1>1, <1>3, <1>4 DEF n, PendingBar, AnswersBar

(* The session holds one block or none. *)
LEMMA HeldBlock ==
    ASSUME TypeInv, AlignInv
    PROVE  /\ Len(sbuf) \in {0, BufferSize}
           /\ Len(sbuf) = 0 => PendingBar = Len(inQ) \div BufferSize
           /\ Len(sbuf) = BufferSize => PendingBar = (Len(inQ) \div BufferSize) + 1
  <1>1. Len(sbuf) \in {0, BufferSize}
    <2>1. CASE spc \in {"process", "write"}
      BY <2>1 DEF TypeInv, GrantsHold
    <2>2. CASE spc \notin {"process", "write"}
      BY <2>2 DEF AlignInv
    <2> QED BY <2>1, <2>2
  <1>2. Len(inQ) \in Nat /\ BufferSize \in Nat \ {0}
    BY BarTypes
  <1>3. (Len(inQ) + BufferSize) \div BufferSize = (Len(inQ) \div BufferSize) + 1
    BY <1>2, DivBlock
  <1>4. Len(inQ) + 0 = Len(inQ)
    BY <1>2
  <1> QED BY <1>1, <1>3, <1>4 DEF PendingBar

(* A whole write of the client offers a block, for which the contract has  *)
(* room; a failed one offers nothing, although it may leave a rest.        *)
LEMMA WriteOffers ==
    ASSUME TypeInv, PipeInv, AlignInv, ProcessWrite, UNCHANGED sessionVars
    PROVE  /\ cgrant = BufferSize => PendingBar' = PendingBar + 1 /\ PendingBar <= Depth
           /\ cgrant < BufferSize => PendingBar' = PendingBar
           /\ cgrant \in 0..BufferSize
           /\ AnswersBar' = AnswersBar
  <1> DEFINE n == Len(inQ)
             b == Len(sbuf)
  <1>1. /\ n \in Nat /\ BufferSize \in Nat \ {0} /\ b \in {0, BufferSize}
        /\ QueueCapacity \in Nat /\ PendingBar \in Nat
    BY BarTypes, HeldBlock
  <1>2. Len(inQ') = n + cgrant /\ sbuf' = sbuf /\ outQ' = outQ /\ cgrant \in 0..BufferSize
    BY ProcessWriteMoves DEF ProcessWrite, sessionVars, threadVars
  <1>3. n + cgrant <= QueueCapacity
    BY DEF TypeInv, GrantsHold, ProcessWrite
  <1>4. /\ n % BufferSize \in {0, Rest}
        /\ cgrant \in {0, BufferSize} \/ (cgrant = Rest /\ n % BufferSize = 0)
    BY DEF AlignInv, Aligned, GrantAligned, ProcessWrite
  <1> DEFINE c == n + cgrant
  <1>5. /\ c \in Nat
        /\ cgrant = BufferSize => c \div BufferSize = (n \div BufferSize) + 1
        /\ cgrant < BufferSize => c \div BufferSize = n \div BufferSize
    <2>1. /\ n \in Nat /\ n % BufferSize \in {0, Rest}
          /\ cgrant \in {0, BufferSize} \/ (cgrant = Rest /\ n % BufferSize = 0)
      BY <1>1, <1>2, <1>4
    <2> HIDE DEF n
    <2>2. /\ cgrant \in Nat
          /\ cgrant = BufferSize => (n + cgrant) \div BufferSize = (n \div BufferSize) + 1
          /\ cgrant < BufferSize => (n + cgrant) \div BufferSize = n \div BufferSize
      BY <2>1, AlignedPublish
    <2> QED BY <2>1, <2>2
  <1>6. /\ (c + BufferSize) \div BufferSize = (c \div BufferSize) + 1
        /\ (n + BufferSize) \div BufferSize = (n \div BufferSize) + 1
    <2> HIDE DEF n, c
    <2> QED BY <1>1, <1>5, DivBlock
  <1>7. PendingBar = (n + b) \div BufferSize /\ PendingBar' = (c + b) \div BufferSize
    BY <1>2 DEF PendingBar
  <1> HIDE DEF c
  <1>8. /\ b = 0 => PendingBar = n \div BufferSize /\ PendingBar' = c \div BufferSize
        /\ b = BufferSize => /\ PendingBar = (n \div BufferSize) + 1
                             /\ PendingBar' = (c \div BufferSize) + 1
    <2> HIDE DEF n, b
    <2>1. n + 0 = n /\ c + 0 = c
      BY <1>1, <1>5
    <2> QED BY <1>6, <1>7, <2>1
  <1>9. n \div BufferSize \in Nat
    <2> HIDE DEF n
    <2> QED BY <1>1, DivOrder
  <1>10. ASSUME cgrant = BufferSize PROVE PendingBar <= Depth
    <2> HIDE DEF n, b
    <2>1. c <= QueueCapacity
      BY <1>3 DEF c
    <2>2. c \div BufferSize <= Depth
      BY <1>1, <1>5, <2>1, DivOrder DEF Depth
    <2>3. Depth \in Nat
      BY ContractDepth
    <2> QED BY <1>1, <1>5, <1>8, <1>9, <1>10, <2>2, <2>3
  <1>11. AnswersBar' = AnswersBar
    BY <1>2 DEF AnswersBar
  <1>12. cgrant = BufferSize => PendingBar' = PendingBar + 1
    BY <1>1, <1>5, <1>8, <1>9
  <1>13. cgrant < BufferSize => PendingBar' = PendingBar
    BY <1>1, <1>5, <1>8, <1>9
  <1> QED BY <1>2, <1>10, <1>11, <1>12, <1>13

(* The client's read takes one answer. *)
LEMMA ReadTakes ==
    ASSUME TypeInv, PipeInv, ProcessRead, UNCHANGED sessionVars
    PROVE  AnswersBar > 0 /\ AnswersBar' = AnswersBar - 1 /\ PendingBar' = PendingBar
  <1> DEFINE n == Len(outQ)
  <1>1. n \in Nat /\ n >= BufferSize /\ Len(outQ') = n - BufferSize
    BY ProcessReadMoves, BarTypes
  <1>2. inQ' = inQ /\ sbuf' = sbuf
    BY DEF ProcessRead, sessionVars, threadVars
  <1>3. (n - BufferSize) \div BufferSize = (n \div BufferSize) - 1 /\ n \div BufferSize >= 1
    <2> HIDE DEF n
    <2> QED BY <1>1, AlignedRelease
  <1>4. AnswersBar = n \div BufferSize /\ AnswersBar' = (n - BufferSize) \div BufferSize
    BY <1>1 DEF AnswersBar
  <1>5. AnswersBar \in Nat
    BY BarTypes
  <1> QED BY <1>2, <1>3, <1>4, <1>5 DEF PendingBar

(* The session's read keeps the block pending. *)
LEMMA ReadHolds ==
    ASSUME TypeInv, PipeInv, AlignInv, ThreadRead
    PROVE  PendingBar' = PendingBar /\ AnswersBar' = AnswersBar
  <1> DEFINE n == Len(inQ)
  <1>1. /\ n \in Nat /\ n >= BufferSize /\ Len(inQ') = n - BufferSize /\ Len(sbuf') = BufferSize
        /\ BufferSize \in Nat \ {0} /\ outQ' = outQ
    BY ThreadReadMoves, BarTypes DEF ThreadRead
  <1>2. Len(sbuf) = 0
    BY DEF AlignInv, ThreadRead
  <1>3. Len(inQ') + Len(sbuf') = n /\ Len(inQ) + Len(sbuf) = n
    BY <1>1, <1>2
  <1> QED BY <1>1, <1>3 DEF PendingBar, AnswersBar

(* The session's write answers the block or drops it. *)
LEMMA WriteAnswers ==
    ASSUME TypeInv, AlignInv, ThreadWrite
    PROVE  /\ PendingBar > 0 /\ PendingBar' = PendingBar - 1
           /\ \/ AnswersBar < Depth /\ AnswersBar' = AnswersBar + 1
              \/ AnswersBar' = AnswersBar
  <1> DEFINE n == Len(outQ)
             p == Len(inQ)
  <1>1. /\ n \in Nat /\ p \in Nat /\ BufferSize \in Nat \ {0} /\ QueueCapacity \in Nat
        /\ Len(sbuf) = BufferSize /\ Len(sbuf') = 0 /\ inQ' = inQ
        /\ Len(outQ') = n + sgrant /\ sgrant \in 0..BufferSize /\ AnswersBar \in Nat
    BY BarTypes, ThreadWriteMoves DEF ThreadWrite
  <1>2. /\ n % BufferSize \in {0, Rest} /\ n + sgrant <= QueueCapacity
        /\ sgrant \in {0, BufferSize} \/ (sgrant = Rest /\ n % BufferSize = 0)
    BY DEF AlignInv, Aligned, GrantAligned, ThreadWrite, TypeInv, GrantsHold
  <1>3. PendingBar = (p \div BufferSize) + 1
    BY <1>1, HeldBlock
  <1>4. PendingBar' = p \div BufferSize /\ p \div BufferSize \in Nat
    <2>1. PendingBar' = (p + 0) \div BufferSize
      BY <1>1 DEF PendingBar
    <2>2. p \in Nat /\ BufferSize \in Nat \ {0}
      BY <1>1
    <2> HIDE DEF p
    <2>3. p \div BufferSize \in Nat /\ p + 0 = p
      BY <2>2
    <2> QED BY <2>1, <2>3
  <1> DEFINE c == n + sgrant
  <1>5. /\ c \in Nat /\ c <= QueueCapacity
        /\ sgrant = BufferSize => c \div BufferSize = (n \div BufferSize) + 1
        /\ sgrant < BufferSize => c \div BufferSize = n \div BufferSize
    <2>1. /\ n \in Nat /\ n % BufferSize \in {0, Rest}
          /\ sgrant \in {0, BufferSize} \/ (sgrant = Rest /\ n % BufferSize = 0)
      BY <1>1, <1>2
    <2> HIDE DEF n
    <2>2. /\ sgrant \in Nat
          /\ sgrant = BufferSize => (n + sgrant) \div BufferSize = (n \div BufferSize) + 1
          /\ sgrant < BufferSize => (n + sgrant) \div BufferSize = n \div BufferSize
      BY <2>1, AlignedPublish
    <2> QED BY <1>2, <2>1, <2>2
  <1>6. AnswersBar = n \div BufferSize /\ AnswersBar' = c \div BufferSize
    BY <1>1 DEF AnswersBar
  <1> HIDE DEF c
  <1>7. c \div BufferSize <= Depth /\ Depth \in Nat
    BY <1>1, <1>5, DivOrder, ContractDepth DEF Depth
  <1>8. CASE sgrant = BufferSize
    <2>1. AnswersBar' = AnswersBar + 1 /\ AnswersBar < Depth
      BY <1>1, <1>5, <1>6, <1>7, <1>8
    <2> QED BY <1>3, <1>4, <2>1
  <1>9. CASE sgrant < BufferSize
    <2>1. AnswersBar' = AnswersBar
      BY <1>5, <1>6, <1>9
    <2> QED BY <1>3, <1>4, <2>1
  <1> QED BY <1>1, <1>8, <1>9

(* Every step of the client's threads is a step of the contract or hidden  *)
(* by it.                                                                  *)
LEMMA ClientKeepsContract ==
    ASSUME ClientFrames = {BufferSize},
           TypeInv, PipeInv, AlignInv, ClientNext, UNCHANGED sessionVars
    PROVE  [Contract!ContractNext]_(Contract!contractVars)
  <1>0. alive' = alive /\ sbuf' = sbuf
    BY DEF sessionVars, threadVars
  <1>1. CASE EffectClient_Start
    <2>1. isStarted' = TRUE /\ UNCHANGED <<inQ, outQ, cpc, ret, output>>
      BY <1>1 DEF EffectClient_Start, transport, rtVars
    <2>2. Contract!Start
      BY <1>0, <2>1 DEF Contract!Start
    <2> QED BY <2>2 DEF Contract!ContractNext
  <1>2. CASE EffectClient_Stop
    <2>1. isStarted' = FALSE /\ UNCHANGED <<inQ, outQ, cpc, ret, output>>
      BY <1>2 DEF EffectClient_Stop, transport, rtVars
    <2>2. Contract!Stop
      BY <1>0, <2>1 DEF Contract!Stop
    <2> QED BY <2>2 DEF Contract!ContractNext
  <1>3. CASE QueryStatsLock \/ QueryStatsUnlock
    <2>1. UNCHANGED <<inQ, outQ, sbuf, cpc, isStarted, ret, output, alive>>
      BY <1>0, <1>3 DEF QueryStatsLock, QueryStatsUnlock, transport, rtVars
    <2> QED BY <2>1, ContractStutter DEF PhaseBar, PendingBar, AnswersBar
  <1>4. CASE ProcessRejected
    <2>1. /\ cpc = "idle" /\ ~isStarted /\ ret' = "INVALID_STATE" /\ output'.kind = "none"
          /\ UNCHANGED <<inQ, outQ, cpc, isStarted>>
      BY <1>4 DEF ProcessRejected, NoOutput, transport
    <2>2. Contract!Call
      BY <1>0, <2>1 DEF Contract!Call
    <2> QED BY <2>2 DEF Contract!ContractNext
  <1>5. ASSUME NEW f \in ClientFrames, ProcessEnter(f)
        PROVE  [Contract!ContractNext]_(Contract!contractVars)
    <2>1. /\ cpc = "idle" /\ isStarted /\ ret' = "none" /\ output'.kind = "none"
          /\ cpc' = "write" /\ UNCHANGED <<inQ, outQ, isStarted>>
      BY <1>5 DEF ProcessEnter, NoOutput, transport
    <2>2. Contract!Call
      BY <1>0, <2>1 DEF Contract!Call
    <2> QED BY <2>2 DEF Contract!ContractNext
  <1>6. CASE ProcessWrite
    <2>1. /\ cpc = "write" /\ cpc' = Written /\ frames = BufferSize /\ BufferSize \in Nat
          /\ UNCHANGED <<isStarted, ret, output>>
      BY <1>6, ProcessWriteMoves, SessionAssumption DEF ProcessWrite
    <2>2. CASE cgrant = BufferSize
      <3>1. /\ cpc' = "signal" /\ PendingBar' = PendingBar + 1 /\ PendingBar <= Depth
            /\ AnswersBar' = AnswersBar
        BY <1>6, <2>1, <2>2, WriteOffers DEF Written
      <3>2. Contract!Offer
        BY <1>0, <2>1, <3>1 DEF Contract!Offer, PendingBar, AnswersBar, Depth
      <3> QED BY <3>2 DEF Contract!ContractNext
    <2>3. CASE cgrant < BufferSize
      <3>1. cpc' = "xrun" /\ PendingBar' = PendingBar /\ AnswersBar' = AnswersBar
        BY <1>6, <2>1, <2>3, WriteOffers DEF Written
      <3> QED BY <1>0, <2>1, <3>1, ContractStutter DEF PhaseBar
    <2> QED BY <1>6, <2>1, <2>2, <2>3, WriteOffers
  <1>7. CASE ProcessSignal \/ ProcessWake \/ ProcessTimeout \/ ProcessLoad
    <2>1. /\ cpc \in {"signal", "wait", "load"} /\ cpc' \in {"wait", "load", "timeout", "read"}
          /\ UNCHANGED <<inQ, outQ, isStarted, ret, output>>
      BY <1>7 DEF ProcessSignal, ProcessWake, ProcessTimeout, ProcessLoad, transport
    <2>2. PhaseBar = "offered" /\ PhaseBar' = "offered"
      BY <2>1 DEF PhaseBar
    <2> QED BY <1>0, <2>1, <2>2, ContractStutter DEF PendingBar, AnswersBar
  <1>8. CASE ProcessRead
    <2>1. /\ cpc = "read" /\ cpc' = "ok" /\ output'.kind = "effect"
          /\ UNCHANGED <<isStarted, ret>>
      BY <1>8, ProcessReadMoves DEF ProcessRead
    <2>2. AnswersBar > 0 /\ AnswersBar' = AnswersBar - 1 /\ PendingBar' = PendingBar
      BY <1>8, ReadTakes
    <2>3. Contract!Take
      BY <1>0, <2>1, <2>2 DEF Contract!Take, PendingBar, AnswersBar
    <2> QED BY <2>3 DEF Contract!ContractNext
  <1>9. ASSUME NEW at \in Endings, ProcessReturn(at)
        PROVE  [Contract!ContractNext]_(Contract!contractVars)
    <2>1. cpc = at /\ cpc' = "idle" /\ UNCHANGED <<inQ, outQ, isStarted>>
      BY <1>9 DEF ProcessReturn, transport
    <2>2. CASE at = "ok"
      <3>1. ret' = "OK" /\ output' = output
        BY <1>9, <2>2 DEF ProcessReturn, FinalOutput
      <3>2. Contract!ReturnOk
        BY <1>0, <2>1, <2>2, <3>1 DEF Contract!ReturnOk
      <3> QED BY <3>2 DEF Contract!ContractNext, Contract!Return
    <2>3. CASE at \in {"xrun", "timeout"}
      <3>1. /\ ret' = "TIMEOUT"
            /\ output' = IF at = "timeout" \/ UseFmq \/ InPlace THEN Passthrough ELSE output
        BY <1>9, <2>3 DEF ProcessReturn, FinalOutput
      <3>2. output'.kind = IF at = "timeout" \/ UseFmq \/ InPlace THEN "raw" ELSE output.kind
        BY <3>1 DEF Passthrough
      <3>3. Contract!ReturnTimeout
        BY <1>0, <2>1, <2>3, <3>1, <3>2 DEF Contract!ReturnTimeout
      <3> QED BY <3>3 DEF Contract!ContractNext, Contract!Return
    <2>4. at # "short"
      BY <2>1 DEF PipeInv, FailingWritesHarmless
    <2> QED BY <2>2, <2>3, <2>4 DEF Endings
  <1> QED BY <1>1, <1>2, <1>3, <1>4, <1>5, <1>6, <1>7, <1>8, <1>9 DEF ClientNext, ProcessStep

(* So is every step of effectd: only the write of an answer and a crash    *)
(* are visible.                                                            *)
LEMMA SessionKeepsContract ==
    ASSUME TypeInv, PipeInv, AlignInv, SessionNext, UNCHANGED clientVars
    PROVE  [Contract!ContractNext]_(Contract!contractVars)
  <1>0. UNCHANGED <<cpc, isStarted, ret, output>>
    BY DEF clientVars, rtVars
  <1>1. CASE \/ effectd_session_open \/ Wire \/ effectd_session_start \/ effectd_session_destroy
             \/ StopJoined \/ \E caller \in {"stop", "destroy"} : StopRequest(caller)
             \/ ThreadAlloc \/ ThreadLoop \/ ThreadWake \/ ThreadTimeout \/ ThreadCheck
             \/ ThreadLoad \/ ThreadProcess \/ ThreadSignal \/ ThreadAccount
    <2>1. UNCHANGED <<inQ, outQ, sbuf, alive>>
      BY <1>1 DEF effectd_session_open, Wire, effectd_session_start, effectd_session_destroy,
                  StopJoined, StopRequest, ThreadAlloc, ThreadLoop, ThreadWake,
                  ThreadTimeout, ThreadCheck, ThreadLoad, ThreadProcess, ThreadSignal,
                  ThreadAccount, transport, threadVars
    <2> QED BY <1>0, <2>1, ContractStutter DEF PhaseBar, PendingBar, AnswersBar
  <1>2. CASE Crash
    <2>1. alive /\ alive' = FALSE /\ UNCHANGED <<inQ, outQ, sbuf>>
      BY <1>2 DEF Crash, transport, threadVars
    <2>2. Contract!Crash
      BY <1>0, <2>1 DEF Contract!Crash, Contract!handleVars
    <2> QED BY <2>2 DEF Contract!ContractNext
  <1>3. CASE ThreadRead
    <2>1. alive' = alive /\ PendingBar' = PendingBar /\ AnswersBar' = AnswersBar
      BY <1>3, ReadHolds DEF ThreadRead
    <2> QED BY <1>0, <2>1, ContractStutter DEF PhaseBar
  <1>4. CASE ThreadWrite
    <2>1. alive /\ alive' = alive
      BY <1>4 DEF ThreadWrite
    <2>2. /\ PendingBar > 0 /\ PendingBar' = PendingBar - 1
          /\ \/ AnswersBar < Depth /\ AnswersBar' = AnswersBar + 1
             \/ AnswersBar' = AnswersBar
      BY <1>4, WriteAnswers
    <2>3. Contract!Answer
      BY <1>0, <2>1, <2>2 DEF Contract!Answer, Contract!handleVars, PendingBar, AnswersBar, Depth
    <2> QED BY <2>3 DEF Contract!ContractNext
  <1> QED BY <1>1, <1>2, <1>3, <1>4 DEF SessionNext, ThreadStep

(* EffectClient_Process keeps its contract in every build, for every       *)
(* capacity, buffer size and eventfd limit: no answer is invented, given   *)
(* to two calls or made by a dead effectd, and a call that got none        *)
(* returns its own input, but for an overrun of the shared-memory build    *)
(* with separate buffers, which leaves output as it was.                   *)
THEOREM PipelineKeepsContract ==
    ASSUME ClientFrames = {BufferSize}
    PROVE  Spec => KeepsContract
  <1>1. Init => Contract!ContractInit
    <2> SUFFICES ASSUME Init PROVE Contract!ContractInit
      OBVIOUS
    <2>1. /\ inQ = <<>> /\ outQ = <<>> /\ sbuf = <<>> /\ cpc = "idle" /\ isStarted = FALSE
          /\ ret = "none" /\ output.kind = "none" /\ alive = TRUE
      BY DEF Init, TransportInit, ClientInit, SessionInit, NoOutput
    <2>2. Len(<<>>) + Len(<<>>) = 0 /\ Len(<<>>) = 0 /\ 0 \div BufferSize = 0
      BY SessionAssumption
    <2> QED BY <2>1, <2>2 DEF Contract!ContractInit
  <1>2. TypeInv /\ PipeInv /\ AlignInv /\ [Next]_vars => [Contract!ContractNext]_(Contract!contractVars)
    <2> SUFFICES ASSUME TypeInv, PipeInv, AlignInv, [Next]_vars
                 PROVE  [Contract!ContractNext]_(Contract!contractVars)
      OBVIOUS
    <2>1. CASE ClientNext /\ UNCHANGED sessionVars
      BY <2>1, ClientKeepsContract
    <2>2. CASE SessionNext /\ UNCHANGED clientVars
      BY <2>2, SessionKeepsContract
    <2>3. CASE UNCHANGED vars
      <3>1. UNCHANGED <<inQ, outQ, sbuf, cpc, isStarted, ret, output, alive>>
        BY <2>3 DEF vars, transport, clientVars, rtVars, sessionVars, threadVars
      <3> QED BY <3>1, ContractStutter DEF PhaseBar, PendingBar, AnswersBar
    <2> QED BY <2>1, <2>2, <2>3 DEF Next
  <1> QED BY TypeInit, TypeStep, LifecycleInit, LifecycleStep, PipeInit, PipeStep,
             AlignInit, AlignStep, <1>1, <1>2, PTL
          DEF Spec, KeepsContract, Contract!ContractSpec
=============================================================================
