----------------------------- MODULE Transport -----------------------------
(***************************************************************************)
(* What the HAL process and the effectd process share: an input and an     *)
(* output byte queue (common/src/effect_fmq.cpp) and an input and an       *)
(* output eventfd (common/src/effect_shared_memory.c).                     *)
(*                                                                         *)
(* The wrapper has two builds.  On Android it is a MessageQueue, whose     *)
(* write and read move the whole block or nothing.  Elsewhere it is the    *)
(* ring buffer, whose write and read move what fits.  A transfer first     *)
(* loads the other side's index and decides how much it is granted, and    *)
(* publishes or releases that much later: RingBuffer shows that one        *)
(* indivisible change of the queue per call is what the other side sees.   *)
(***************************************************************************)
EXTENDS Integers, Sequences

CONSTANTS QueueCapacity,  \* size of each queue
          AllOrNothing,   \* TRUE for the Android build of effect_fmq
          EventMax        \* largest value of an eventfd counter

ASSUME TransportAssumption ==
    /\ QueueCapacity \in Nat \ {0}
    /\ AllOrNothing \in BOOLEAN
    /\ EventMax \in Nat \ {0}

VARIABLES inQ, outQ,    \* HAL -> effectd and effectd -> HAL
          evIn, evOut   \* the two eventfd counters

transport == <<inQ, outQ, evIn, evOut>>

TransportInit == inQ = <<>> /\ outQ = <<>> /\ evIn = 0 /\ evOut = 0

\* mutant: the Android queue moves what fits, like the ring
MutantGranted(size, available) == IF size <= available THEN size ELSE available
(* effect_fmq_write and effect_fmq_read: how much a call moves *)
Granted(size, available) ==
    IF size <= available THEN size
    ELSE IF AllOrNothing THEN 0 ELSE available

effect_fmq_available_to_read(q) == Len(q)
\* mutant: what is stored is not subtracted
MutantAvailableToWrite(q) == QueueCapacity
effect_fmq_available_to_write(q) == QueueCapacity - Len(q)

Publish(q, block, n) == q \o SubSeq(block, 1, n)
Front(q, n) == SubSeq(q, 1, n)
\* mutant: the last unit read stays in the queue
MutantRelease(q, n) == IF n = 0 THEN q ELSE SubSeq(q, n, Len(q))
Release(q, n) == SubSeq(q, n + 1, Len(q))

\* mutant: the eventfd is a flag that a second signal clears
MutantSignal(ev) == 1 - ev
(* effect_eventfd_signal: the fd is non-blocking and the result is ignored *)
effect_eventfd_signal(ev) == IF ev < EventMax THEN ev + 1 ELSE ev

(* effect_eventfd_wait: poll, then a read that clears the counter whatever *)
(* its value, so several signals are taken as one.                         *)
Signalled(ev) == ev > 0
Cleared(ev) == 0
=============================================================================
