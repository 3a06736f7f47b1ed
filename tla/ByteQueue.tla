----------------------------- MODULE ByteQueue -----------------------------
(***************************************************************************)
(* What the single-producer single-consumer ring buffer promises           *)
(* (common/include/effect_ringbuffer.h): a bounded FIFO of bytes.  A write *)
(* publishes, in one indivisible step, a prefix of the caller's block; a   *)
(* read takes, in one indivisible step, a prefix of what is stored.        *)
(***************************************************************************)
EXTENDS Naturals, Sequences

CONSTANTS Bound,    \* capacity in bytes
          Block     \* the blocks a caller may offer

VARIABLES queue,    \* the bytes stored, oldest first
          offered,  \* the block the producer is offering, <<>> between writes
          taken     \* the block the last read returned, <<>> during a read

bqVars == <<queue, offered, taken>>

Init == queue = <<>> /\ offered = <<>> /\ taken = <<>>

Offer(s) == /\ offered = <<>>
            /\ offered' = s
            /\ UNCHANGED <<queue, taken>>

(* At least one byte is accepted, never more than the bound allows. *)
Accept(n) == /\ n <= Len(offered)
             /\ Len(queue) + n <= Bound
             /\ queue' = queue \o SubSeq(offered, 1, n)
             /\ offered' = <<>>
             /\ UNCHANGED taken

Ask == taken' = <<>> /\ UNCHANGED <<queue, offered>>

Take(n) == /\ n <= Len(queue)
           /\ taken' = SubSeq(queue, 1, n)
           /\ queue' = SubSeq(queue, n + 1, Len(queue))
           /\ UNCHANGED offered

(* Not during a write. *)
Clear == offered = <<>> /\ queue' = <<>> /\ UNCHANGED <<offered, taken>>

Next == \/ \E s \in Block : Offer(s)
        \/ \E n \in 1..Bound : Accept(n)
        \/ Ask
        \/ \E n \in 1..Bound : Take(n)
        \/ Clear

Spec == Init /\ [][Next]_bqVars
=============================================================================
