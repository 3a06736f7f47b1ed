---------------------------- MODULE LatencyStats ----------------------------
(***************************************************************************)
(* The latency figures that both sides keep with the same code:            *)
(* client/src/effect_client.c after a successful call, and                 *)
(* effectd/src/effectd_session.c after a processed buffer.  All of them    *)
(* are uint32_t and the arithmetic is modulo 2^32.                         *)
(***************************************************************************)
EXTENDS Integers

CONSTANTS Width,       \* number of values of a uint32_t
          Duration     \* how long a call can take, in microseconds

ASSUME LatencyAssumption ==
    Width \in Nat \ {0} /\ Duration \subseteq Nat

VARIABLES avgLatencyUs, maxLatencyUs, p95LatencyUs,
          load,     \* the durations that occur at present
          lowest    \* history: the smallest latency recorded, Width if none was

vars == <<avgLatencyUs, maxLatencyUs, p95LatencyUs, load, lowest>>

Init == /\ avgLatencyUs = 0 /\ maxLatencyUs = 0 /\ p95LatencyUs = 0
        /\ load = Duration
        /\ lowest = Width

(* (uint32_t)(end_time - start_time) *)
Cast(d) == d % Width

\* mutant: the first sample is averaged with zero
MutantRolling(avg, latency) == ((avg * 9 + latency) % Width) \div 10
\* mutant: both terms are divided on their own
MutantDivided(avg, latency) ==
    IF avg = 0 THEN latency ELSE (avg \div 10) * 9 + latency \div 10
Rolling(avg, latency) ==
    IF avg = 0 THEN latency ELSE ((avg * 9 + latency) % Width) \div 10

Raised(figure, latency) == IF latency > figure THEN latency ELSE figure

Record(d) ==
    /\ avgLatencyUs' = Rolling(avgLatencyUs, Cast(d))
    /\ maxLatencyUs' = Raised(maxLatencyUs, Cast(d))
    /\ p95LatencyUs' = Raised(p95LatencyUs, Cast(d))
    /\ lowest' = IF Cast(d) < lowest THEN Cast(d) ELSE lowest
    /\ UNCHANGED load

(* External: from now on every call takes the same time. *)
Steady(d) ==
    /\ load' = {d}
    /\ UNCHANGED <<avgLatencyUs, maxLatencyUs, p95LatencyUs, lowest>>

Next == (\E d \in load : Record(d)) \/ (\E d \in load : Steady(d))

Spec == Init /\ [][Next]_vars

(* Calls go on. *)
FairSpec == Spec /\ WF_vars(\E d \in load : Record(d))

-----------------------------------------------------------------------------
(* No duration is so long that avgLatencyUs * 9 + latency leaves 32 bits:  *)
(* 429 seconds.                                                            *)
NoOverflow == \A d \in Duration : 10 * d < Width

(* The rolling average of effect_client.c 280-284 (effectd_session.c       *)
(* 134-138) lies between the smallest and the largest latency recorded,    *)
(* in spite of the division that rounds down and of the start from zero,   *)
(* which an average that has come down to zero repeats.                    *)
AverageInRange ==
    lowest < Width => lowest <= avgLatencyUs /\ avgLatencyUs <= maxLatencyUs

(* When all calls take the same time the average settles within ten        *)
(* microseconds below it, from wherever it was: rounding down never holds  *)
(* it further away, nor lets it swing.                                     *)
Settles ==
    \A d \in Duration :
        [](load = {d} => <>[](avgLatencyUs <= d /\ d < avgLatencyUs + 10))
=============================================================================
