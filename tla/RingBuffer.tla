----------------------------- MODULE RingBuffer -----------------------------
(***************************************************************************)
(* The lock-free single-producer single-consumer ring buffer,              *)
(* common/src/effect_ringbuffer.c, at the granularity of its shared        *)
(* accesses: the loads of the two indices, the copy of each byte, the      *)
(* release store of the caller's own index.  The two indices are uint64_t  *)
(* counters of all the bytes ever written and read; lengths are uint32_t.  *)
(*                                                                         *)
(* A side's own index is stored by nobody else, so loading both indices is *)
(* one step: only the load of the other side's index can race.  Acquire    *)
(* and release order the byte copies against the index stores, so steps    *)
(* interleave as if memory were sequentially consistent.                   *)
(***************************************************************************)
EXTENDS Integers, Sequences, FiniteSets

CONSTANTS Capacity,   \* rb->capacity
          IndexMod,   \* number of values of the indices, 2^64 in the code
          LenMod,     \* number of values of a length, 2^32 in the code
          Byte,       \* the values a byte can have
          MaxSize     \* bound: the largest size passed to read and write

ASSUME RingAssumption ==
    /\ Capacity \in Nat \ {0} /\ LenMod \in Nat /\ IndexMod \in Nat /\ MaxSize \in Nat
    /\ Capacity < LenMod /\ MaxSize < LenMod /\ LenMod <= IndexMod
    /\ Byte # {}

VARIABLES
    write_index, read_index,  \* the two shared atomics
    data,                     \* the shared bytes, data[0..Capacity-1]
    ppc, src, toWrite, copied,\* the producer: the call in progress
    room,                     \* what get_write_available last told the producer
    cpc, toRead, dst,         \* the consumer: the call in progress or its result
    ready,                    \* what get_read_available last told the consumer
    resetting                 \* between the two stores of reset

pVars == <<ppc, src, toWrite, copied, room>>
cVars == <<cpc, toRead, dst, ready>>
vars == <<write_index, read_index, data, pVars, cVars, resetting>>

Slots == 0..(Capacity - 1)
Index == 0..(IndexMod - 1)
Block == UNION {[1..n -> Byte] : n \in 0..MaxSize}

-----------------------------------------------------------------------------
(* Arithmetic of the C types. *)

Add64(i, n) == IF i + n < IndexMod THEN i + n ELSE i + n - IndexMod
Sub64(i, j) == IF i >= j THEN i - j ELSE i - j + IndexMod
Trunc32(n) == n % LenMod
Sub32(m, n) == IF m >= n THEN m - n ELSE m - n + LenMod

\* mutant: the room instead of the bytes stored
MutantReadAvailable == Sub32(Capacity, Trunc32(Sub64(write_index, read_index)))
get_read_available == Trunc32(Sub64(write_index, read_index))

\* mutant: the operands of the difference swapped
MutantWriteAvailable == Sub32(Capacity, Trunc32(Sub64(read_index, write_index)))
get_write_available == Sub32(Capacity, Trunc32(Sub64(write_index, read_index)))

\* mutant: the size is not clipped to what is available
MutantGranted(size, available) == size
(* to_write and to_read: (size < available) ? size : available *)
Granted(size, available) == IF size < available THEN size ELSE available

\* mutant: the wrapped part starts at pos again instead of at 0
MutantSlotOf(idx, k) ==
    LET pos == idx % Capacity
        contiguous == Capacity - pos
    IN  IF k < contiguous THEN pos + k ELSE pos + k - contiguous
(* The slot of the k-th byte of a transfer that starts at index idx: the   *)
(* contiguous part from pos, then the wrapped part from 0.                 *)
SlotOf(idx, k) ==
    LET pos == idx % Capacity
        contiguous == Capacity - pos
    IN  IF k < contiguous THEN pos + k ELSE k - contiguous

(* Bound: when the counter wraps, pos keeps its place only if Capacity     *)
(* divides IndexMod, as the client's 1 MiB rings do.  A ring of another    *)
(* size is followed until its counter would wrap, after 2^64 bytes.        *)
WithinHorizon(n) == IndexMod % Capacity = 0 \/ write_index + n < IndexMod

-----------------------------------------------------------------------------
Init ==
    /\ write_index = 0 /\ read_index = 0
    /\ data \in [Slots -> Byte]
    /\ ppc = "idle" /\ src = <<>> /\ toWrite = 0 /\ copied = 0 /\ room = 0
    /\ cpc = "idle" /\ toRead = 0 /\ dst = <<>> /\ ready = 0
    /\ resetting = FALSE

(* effect_ringbuffer_get_write_available, asked by the producer *)
QueryRoom ==
    /\ ppc = "idle" /\ ~resetting
    /\ room' = get_write_available
    /\ UNCHANGED <<write_index, read_index, data, ppc, src, toWrite, copied, cVars, resetting>>

(* effect_ringbuffer_get_read_available, asked by the consumer *)
QueryReady ==
    /\ cpc = "idle" /\ ~resetting
    /\ ready' = get_read_available
    /\ UNCHANGED <<write_index, read_index, data, pVars, cpc, toRead, dst, resetting>>

(* effect_ringbuffer_write up to the copy; when nothing is granted the     *)
(* call returns 0 there and then.                                          *)
WriteLoad(block) ==
    LET n == Granted(Len(block), get_write_available)
    IN  /\ ppc = "idle" /\ ~resetting
        /\ n > 0 /\ WithinHorizon(n)
        /\ ppc' = "copy" /\ src' = block /\ toWrite' = n /\ copied' = 0 /\ room' = 0
        /\ UNCHANGED <<write_index, read_index, data, cVars, resetting>>

WriteCopy ==
    /\ ppc = "copy" /\ copied < toWrite
    /\ data' = [data EXCEPT ![SlotOf(write_index, copied)] = src[copied + 1]]
    /\ copied' = copied + 1
    /\ UNCHANGED <<write_index, read_index, ppc, src, toWrite, room, cVars, resetting>>

\* mutant: the index is published before the last byte is copied
MutantPublish ==
    /\ ppc = "copy" /\ copied + 1 >= toWrite
    /\ write_index' = Add64(write_index, toWrite)
    /\ ppc' = "idle" /\ src' = <<>> /\ toWrite' = 0 /\ copied' = 0
    /\ UNCHANGED <<read_index, data, room, cVars, resetting>>

\* mutant: the index advances by the size asked for, not by what fitted
MutantPublishAll ==
    /\ ppc = "copy" /\ copied = toWrite
    /\ write_index' = Add64(write_index, Len(src))
    /\ ppc' = "idle" /\ src' = <<>> /\ toWrite' = 0 /\ copied' = 0
    /\ UNCHANGED <<read_index, data, room, cVars, resetting>>

WritePublish ==
    /\ ppc = "copy" /\ copied = toWrite
    /\ write_index' = Add64(write_index, toWrite)
    /\ ppc' = "idle" /\ src' = <<>> /\ toWrite' = 0 /\ copied' = 0
    /\ UNCHANGED <<read_index, data, room, cVars, resetting>>

(* effect_ringbuffer_read up to the copy *)
ReadLoad(size) ==
    LET n == Granted(size, get_read_available)
    IN  /\ cpc = "idle" /\ ~resetting
        /\ n > 0
        /\ cpc' = "copy" /\ toRead' = n /\ dst' = <<>> /\ ready' = 0
        /\ UNCHANGED <<write_index, read_index, data, pVars, resetting>>

ReadCopy ==
    /\ cpc = "copy" /\ Len(dst) < toRead
    /\ dst' = Append(dst, data[SlotOf(read_index, Len(dst))])
    /\ UNCHANGED <<write_index, read_index, data, pVars, cpc, toRead, ready, resetting>>

ReadRelease ==
    /\ cpc = "copy" /\ Len(dst) = toRead
    /\ read_index' = Add64(read_index, toRead)
    /\ cpc' = "idle" /\ toRead' = 0
    /\ UNCHANGED <<write_index, data, pVars, dst, ready, resetting>>

(* effect_ringbuffer_reset: two stores, called while no other operation    *)
(* runs, as effect_ringbuffer.h requires.                                  *)
ResetWrite ==
    /\ ppc = "idle" /\ cpc = "idle" /\ ~resetting
    /\ write_index' = 0 /\ resetting' = TRUE
    /\ room' = 0 /\ ready' = 0
    /\ UNCHANGED <<read_index, data, ppc, src, toWrite, copied, cpc, toRead, dst>>

ResetRead ==
    /\ resetting
    /\ read_index' = 0 /\ resetting' = FALSE
    /\ UNCHANGED <<write_index, data, pVars, cVars>>

Next ==
    \/ QueryRoom \/ (\E b \in Block : WriteLoad(b)) \/ WriteCopy \/ WritePublish
    \/ QueryReady \/ (\E n \in 1..MaxSize : ReadLoad(n)) \/ ReadCopy \/ ReadRelease
    \/ ResetWrite \/ ResetRead

Spec == Init /\ [][Next]_vars

-----------------------------------------------------------------------------
(* Every variable keeps its C type; in particular an answer never leaves   *)
(* 0..Capacity, although it is computed modulo 2^32 (effect_ringbuffer.c   *)
(* lines 15, 22, 31 and 61).                                               *)
TypeOK ==
    /\ write_index \in Index /\ read_index \in Index
    /\ data \in [Slots -> Byte]
    /\ ppc \in {"idle", "copy"} /\ src \in Block
    /\ toWrite \in 0..Capacity /\ copied \in 0..toWrite /\ toWrite <= Len(src)
    /\ room \in 0..Capacity
    /\ cpc \in {"idle", "copy"} /\ toRead \in 0..Capacity
    /\ dst \in Seq(Byte) /\ Len(dst) <= Capacity
    /\ ready \in 0..Capacity
    /\ resetting \in BOOLEAN

Used == Sub64(write_index, read_index)
Wrap(n) == IF n < Capacity THEN n ELSE n - Capacity

(* The two calls in progress hold disjoint parts of the ring: what the     *)
(* consumer is reading is stored, what the producer is writing is free,    *)
(* and the two positions are as far apart as the indices are.              *)
RingInv ==
    /\ ~resetting => /\ Used + toWrite <= Capacity
                     /\ toRead <= Used
                     /\ write_index % Capacity = Wrap((read_index % Capacity) + Used)
                     /\ IndexMod % Capacity # 0 => read_index <= write_index
    /\ resetting => ppc = "idle" /\ cpc = "idle" /\ write_index = 0 /\ room = 0 /\ ready = 0
    /\ ppc = "idle" => toWrite = 0 /\ src = <<>>
    /\ ppc = "copy" => toWrite > 0 /\ WithinHorizon(toWrite) /\ room = 0
    /\ cpc = "idle" => toRead = 0
    /\ cpc = "copy" => toRead > 0 /\ Len(dst) <= toRead /\ ready = 0

(* Producer and consumer never touch the same byte of rb->data at the same *)
(* time, whatever the interleaving of the two memcpys with the index       *)
(* stores: the copies of effect_ringbuffer_write and _read need no lock.   *)
NoDataRace ==
    \A k \in copied..(toWrite - 1), j \in Len(dst)..(toRead - 1) :
        ppc = "copy" /\ cpc = "copy"
            => SlotOf(write_index, k) # SlotOf(read_index, j)

(* An availability answer is a promise to the side that asked: however far *)
(* the other side gets before the asker's own call, that much room (that   *)
(* many bytes) is still there.  effectd relies on it between               *)
(* available_to_read and read (effectd_session.c lines 68-75).             *)
AvailabilityIsPromise ==
    ~resetting => Used + room <= Capacity /\ ready <= Used

(* The two memcpys do not disturb each other: at any point of a write the  *)
(* bytes already copied are in their slots, and at any point of a read     *)
(* the bytes already taken are still the ones stored there, although the   *)
(* other side copies and publishes in between.                             *)
CopiesIntact ==
    /\ ppc = "copy" => \A k \in 0..(copied - 1) : data[SlotOf(write_index, k)] = src[k + 1]
    /\ cpc = "copy" => \A j \in 0..(Len(dst) - 1) : dst[j + 1] = data[SlotOf(read_index, j)]

Stored == [i \in 1..Used |-> data[SlotOf(read_index, i - 1)]]

Abstract == INSTANCE ByteQueue WITH
    Bound <- Capacity,
    queue <- IF resetting THEN <<>> ELSE Stored,
    offered <- src,
    taken <- IF cpc = "copy" THEN <<>> ELSE dst

(* The ring implements the bounded byte FIFO: bytes come out in the order  *)
(* they were written, none lost, duplicated or torn, across the wrap of    *)
(* the buffer and of the 64-bit indices.                                   *)
ImplementsByteQueue == Abstract!Spec
=============================================================================
