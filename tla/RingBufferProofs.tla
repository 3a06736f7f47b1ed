-------------------------- MODULE RingBufferProofs --------------------------
(***************************************************************************)
(* The ring buffer proved for every capacity, index width and size.        *)
(* First the arithmetic of idx % capacity, then type correctness, then the *)
(* inductive invariant RingInv and the absence of data races, then the     *)
(* contents: half-finished copies stay as they are, and the ring           *)
(* implements the queue.                                                   *)
(***************************************************************************)
EXTENDS RingBuffer, SequenceTheorems, TLAPS

(* A remainder lies between 0 and the divisor. *)
LEMMA ModRange ==
    ASSUME NEW C \in Nat \ {0}, NEW a \in Nat
    PROVE  a % C \in 0..(C - 1)
  OBVIOUS

(* A number smaller than the divisor is its own remainder: the truncation  *)
(* to uint32_t changes no length that fits.                                *)
LEMMA ModSmall ==
    ASSUME NEW C \in Nat \ {0}, NEW a \in 0..(C - 1)
    PROVE  a % C = a
  OBVIOUS

(* Division with remainder. *)
LEMMA DivMod ==
    ASSUME NEW C \in Nat \ {0}, NEW a \in Nat
    PROVE  \E q \in Nat : a = C * q + (a % C)
  <1>1. a = C * (a \div C) + (a % C) /\ a \div C \in Nat
    OBVIOUS
  <1> QED BY <1>1

(* The remainder is the only number below C congruent to a. *)
LEMMA ModUnique ==
    ASSUME NEW C \in Nat \ {0}, NEW a \in Nat, NEW q \in Int,
           NEW r \in 0..(C - 1), a = C * q + r
    PROVE  a % C = r
  <1>1. PICK p \in Nat : a = C * p + (a % C)
    BY DivMod
  <1> DEFINE s == a % C
  <1>2. s \in 0..(C - 1) /\ C * q + r = C * p + s
    BY <1>1, ModRange
  <1> SUFFICES r = s
    OBVIOUS
  <1> HIDE DEF s
  <1>3. CASE q = p
    BY <1>2, <1>3
  <1>4. CASE q > p
    <2>1. C * (q - p) >= C
      BY <1>4
    <2>2. C * (q - p) = s - r
      BY <1>2
    <2> QED BY <1>2, <2>1, <2>2
  <1>5. CASE p > q
    <2>1. C * (p - q) >= C
      BY <1>5
    <2>2. C * (p - q) = r - s
      BY <1>2
    <2> QED BY <1>2, <2>1, <2>2
  <1> QED BY <1>3, <1>4, <1>5

(* Advancing an index by at most the capacity advances its position in the *)
(* buffer by as much, going round at most once.                            *)
LEMMA ModStep ==
    ASSUME NEW C \in Nat \ {0}, NEW a \in Nat, NEW n \in 0..C
    PROVE  (a + n) % C = IF (a % C) + n < C THEN (a % C) + n ELSE (a % C) + n - C
  <1>1. PICK q \in Nat : a = C * q + (a % C)
    BY DivMod
  <1> DEFINE r == a % C
  <1>2. a = C * q + r /\ r \in 0..(C - 1)
    BY <1>1, ModRange
  <1> HIDE DEF r
  <1>3. CASE r + n < C
    <2> DEFINE t == r + n
    <2>1. t \in 0..(C - 1) /\ a + n = C * q + t /\ a + n \in Nat /\ q \in Int
      BY <1>2, <1>3
    <2> HIDE DEF t
    <2>2. (a + n) % C = t
      BY <2>1, ModUnique
    <2> QED BY <2>2, <1>3 DEF r, t
  <1>4. CASE ~(r + n < C)
    <2> DEFINE t == r + n - C
    <2>1. t \in 0..(C - 1) /\ a + n = C * (q + 1) + t /\ a + n \in Nat /\ q + 1 \in Int
      BY <1>2, <1>4
    <2> HIDE DEF t
    <2>2. (a + n) % C = t
      BY <2>1, ModUnique
    <2> QED BY <2>2, <1>4 DEF r, t
  <1> QED BY <1>3, <1>4

(* The wrap of an index keeps its position when C divides the modulus. *)
LEMMA ModDown ==
    ASSUME NEW C \in Nat \ {0}, NEW M \in Nat, M % C = 0, NEW a \in Nat, a >= M
    PROVE  (a - M) % C = a % C
  <1>1. PICK q \in Nat : a = C * q + (a % C)
    BY DivMod
  <1>2. PICK m \in Nat : M = C * m + (M % C)
    BY DivMod
  <1> DEFINE r == a % C
  <1>3. a = C * q + r /\ r \in 0..(C - 1)
    BY <1>1, ModRange
  <1> HIDE DEF r
  <1>4. a - M = C * (q - m) + r /\ a - M \in Nat /\ q - m \in Int
    BY <1>2, <1>3
  <1>5. (a - M) % C = r
    BY <1>3, <1>4, ModUnique
  <1> QED BY <1>5 DEF r

-----------------------------------------------------------------------------
(* The position of an index lies inside the buffer. *)
LEMMA PositionRange ==
    ASSUME NEW i \in Index
    PROVE  i % Capacity \in 0..(Capacity - 1)
  <1>1. Capacity \in Nat \ {0} /\ i \in Nat
    BY RingAssumption DEF Index
  <1> QED BY <1>1, ModRange

(* Storing index + n moves the position by n, whether or not the 64-bit    *)
(* counter wraps, provided a wrap is harmless.                             *)
LEMMA PositionStep ==
    ASSUME NEW i \in Index, NEW n \in 0..Capacity,
           IndexMod % Capacity = 0 \/ i + n < IndexMod
    PROVE  /\ Add64(i, n) \in Index
           /\ Add64(i, n) % Capacity = Wrap((i % Capacity) + n)
  <1>0. /\ Capacity \in Nat \ {0} /\ IndexMod \in Nat /\ Capacity < IndexMod
        /\ i \in Nat /\ i < IndexMod /\ i % Capacity \in 0..(Capacity - 1)
    BY RingAssumption, PositionRange DEF Index
  <1>1. (i + n) % Capacity = Wrap((i % Capacity) + n)
    <2>1. (i + n) % Capacity = IF (i % Capacity) + n < Capacity
                               THEN (i % Capacity) + n ELSE (i % Capacity) + n - Capacity
      BY <1>0, ModStep
    <2> QED BY <1>0, <2>1 DEF Wrap
  <1>2. CASE i + n < IndexMod
    BY <1>1, <1>2, RingAssumption DEF Add64, Index
  <1>3. CASE ~(i + n < IndexMod)
    <2> DEFINE t == i + n
    <2>1. t \in Nat /\ t >= IndexMod /\ IndexMod % Capacity = 0
      BY <1>0, <1>3
    <2> HIDE DEF t
    <2>2. (t - IndexMod) % Capacity = t % Capacity
      BY <1>0, <2>1, ModDown
    <2> USE DEF t
    <2>3. Add64(i, n) = t - IndexMod
      BY <1>0, <1>3 DEF Add64
    <2> QED BY <1>0, <1>1, <2>1, <2>2, <2>3 DEF Index
  <1> QED BY <1>2, <1>3

(* The number of bytes stored after a write publishes n bytes. *)
LEMMA UsedAfterPublish ==
    ASSUME NEW i \in Index, NEW j \in Index, NEW n \in Nat,
           Sub64(i, j) + n <= Capacity
    PROVE  Sub64(Add64(i, n), j) = Sub64(i, j) + n
  BY RingAssumption DEF Sub64, Add64, Index

(* The number of bytes stored after a read releases n bytes. *)
LEMMA UsedAfterRelease ==
    ASSUME NEW i \in Index, NEW j \in Index, NEW n \in Nat,
           n <= Sub64(i, j), Sub64(i, j) <= Capacity
    PROVE  Sub64(i, Add64(j, n)) = Sub64(i, j) - n
  BY RingAssumption DEF Sub64, Add64, Index

(* A caller's block is a sequence of bytes, and the empty one is a block. *)
LEMMA BlockIsSeq ==
    /\ <<>> \in Block
    /\ \A s \in Block : s \in Seq(Byte) /\ Len(s) \in 0..MaxSize
  <1>1. <<>> \in [1..0 -> Byte] /\ 0 \in 0..MaxSize
    BY RingAssumption
  <1>2. ASSUME NEW s \in Block PROVE s \in Seq(Byte) /\ Len(s) \in 0..MaxSize
    <2>1. PICK n \in 0..MaxSize : s \in [1..n -> Byte]
      BY DEF Block
    <2>2. n \in Nat
      BY <2>1, RingAssumption
    <2> QED BY <2>1, <2>2
  <1> QED BY <1>1, <1>2 DEF Block

-----------------------------------------------------------------------------
Inv == TypeOK /\ RingInv

(* Between resets, the two availability functions return the bytes stored  *)
(* and the room left: no truncation to 32 bits is ever visible.            *)
LEMMA Availability ==
    ASSUME Inv, ~resetting
    PROVE  /\ Used \in 0..Capacity
           /\ get_read_available = Used
           /\ get_write_available = Capacity - Used
  <1>1. Used \in 0..Capacity
    BY RingAssumption DEF Inv, TypeOK, RingInv, Used, Sub64, Index
  <1>2. Trunc32(Used) = Used
    <2>1. LenMod \in Nat \ {0} /\ Used \in 0..(LenMod - 1)
      BY <1>1, RingAssumption
    <2> QED BY <2>1, ModSmall DEF Trunc32
  <1> QED BY <1>1, <1>2, RingAssumption DEF get_read_available, get_write_available, Used, Sub32

(* The ring starts empty, both positions at 0. *)
LEMMA InitInv == Init => Inv
  <1> SUFFICES ASSUME Init PROVE Inv
    OBVIOUS
  <1>1. 0 % Capacity = 0 /\ Used = 0
    BY RingAssumption, ModSmall DEF Init, Used, Sub64
  <1>2. TypeOK
    <2>1. dst \in Seq(Byte) /\ Len(dst) = 0 /\ src \in Block /\ Len(src) = 0
      BY BlockIsSeq DEF Init
    <2>2. 0 \in Index /\ 0 \in 0..Capacity /\ 0 \in 0..0
      BY RingAssumption DEF Index
    <2>3. resetting \in BOOLEAN
      BY DEF Init
    <2> QED BY <2>1, <2>2, <2>3 DEF Init, TypeOK
  <1>3. RingInv
    BY <1>1, RingAssumption DEF Init, RingInv, Wrap
  <1> QED BY <1>2, <1>3 DEF Inv

(* A byte copied by the producer lands inside rb->data. *)
LEMMA SlotInRange ==
    ASSUME NEW i \in Index, NEW k \in 0..(Capacity - 1)
    PROVE  SlotOf(i, k) \in Slots
  <1>1. i % Capacity \in 0..(Capacity - 1)
    BY PositionRange
  <1> QED BY <1>1, RingAssumption DEF SlotOf, Slots

(* Every step of either side, and every reset, keeps the invariant. *)
LEMMA NextInv == Inv /\ [Next]_vars => Inv'
  <1> SUFFICES ASSUME Inv, [Next]_vars PROVE Inv'
    OBVIOUS
  <1> USE DEF Inv
  <1>1. CASE QueryRoom
    <2>1. room' = Capacity - Used /\ Used \in 0..Capacity
      BY <1>1, Availability DEF QueryRoom
    <2>2. TypeOK'
      BY <1>1, <2>1, RingAssumption DEF QueryRoom, TypeOK, cVars
    <2>3. RingInv'
      BY <1>1, <2>1, RingAssumption DEF QueryRoom, TypeOK, RingInv, cVars, Used, WithinHorizon
    <2> QED BY <2>2, <2>3
  <1>2. CASE QueryReady
    <2>1. ready' = Used /\ Used \in 0..Capacity
      BY <1>2, Availability DEF QueryReady
    <2>2. TypeOK'
      BY <1>2, <2>1, RingAssumption DEF QueryReady, TypeOK, pVars
    <2>3. RingInv'
      BY <1>2, <2>1, RingAssumption DEF QueryReady, TypeOK, RingInv, pVars, Used, WithinHorizon
    <2> QED BY <2>2, <2>3
  <1>3. ASSUME NEW b \in Block, WriteLoad(b) PROVE Inv'
    <2> DEFINE n == Granted(Len(b), Capacity - Used)
    <2>1. Used \in 0..Capacity /\ b \in Seq(Byte) /\ Len(b) \in 0..MaxSize
      BY <1>3, Availability, BlockIsSeq DEF WriteLoad
    <2>2. n \in 1..Capacity /\ n <= Len(b) /\ Used + n <= Capacity
      BY <1>3, <2>1, Availability, RingAssumption DEF WriteLoad, Granted
    <2>3. /\ toWrite' = n /\ src' = b /\ copied' = 0 /\ room' = 0 /\ ppc' = "copy"
          /\ WithinHorizon(n) /\ ~resetting
          /\ UNCHANGED <<write_index, read_index, data, cVars, resetting>>
      BY <1>3, Availability DEF WriteLoad
    <2> HIDE DEF n
    <2>4. TypeOK'
      BY <2>1, <2>2, <2>3, RingAssumption DEF TypeOK, cVars
    <2>5. RingInv'
      BY <2>1, <2>2, <2>3, RingAssumption DEF TypeOK, RingInv, cVars, Used, WithinHorizon
    <2> QED BY <2>4, <2>5
  <1>4. CASE WriteCopy
    <2>1. copied \in 0..(Capacity - 1) /\ copied + 1 \in 0..toWrite /\ copied + 1 \in 1..Len(src)
      BY <1>4, BlockIsSeq, RingAssumption DEF WriteCopy, TypeOK
    <2>2. SlotOf(write_index, copied) \in Slots
      BY <2>1, SlotInRange DEF TypeOK
    <2>3. src[copied + 1] \in Byte
      BY <2>1, BlockIsSeq DEF TypeOK
    <2>4. data' \in [Slots -> Byte]
      BY <1>4, <2>2, <2>3 DEF WriteCopy, TypeOK
    <2>5. TypeOK'
      BY <1>4, <2>1, <2>4 DEF WriteCopy, TypeOK, cVars
    <2>6. RingInv'
      BY <1>4 DEF WriteCopy, RingInv, cVars, Used, WithinHorizon
    <2> QED BY <2>5, <2>6
  <1>5. CASE WritePublish
    <2>1. ~resetting /\ Used + toWrite <= Capacity /\ WithinHorizon(toWrite) /\ toWrite \in Nat
      BY <1>5 DEF WritePublish, RingInv, TypeOK
    <2>2. Used' = Used + toWrite
      BY <1>5, <2>1, UsedAfterPublish DEF WritePublish, TypeOK, Used
    <2>3. /\ write_index' \in Index
          /\ write_index' % Capacity = Wrap((write_index % Capacity) + toWrite)
      BY <1>5, <2>1, PositionStep DEF WritePublish, TypeOK, WithinHorizon
    <2>4. TypeOK'
      <3>1. src' \in Block /\ Len(src') = 0
        BY <1>5, BlockIsSeq DEF WritePublish
      <3> QED BY <1>5, <2>3, <3>1, RingAssumption DEF WritePublish, TypeOK, cVars
    <2>5. Used \in 0..Capacity /\ read_index % Capacity \in 0..(Capacity - 1)
      BY <2>1, Availability, PositionRange DEF TypeOK
    <2>6. write_index' % Capacity = Wrap((read_index % Capacity) + Used')
      BY <2>1, <2>2, <2>3, <2>5, RingAssumption DEF RingInv, Wrap
    <2>7. IndexMod % Capacity # 0 => read_index <= write_index'
      BY <1>5, <2>1, RingAssumption DEF WritePublish, RingInv, TypeOK, Index, Add64, WithinHorizon
    <2>8. RingInv'
      BY <1>5, <2>1, <2>2, <2>5, <2>6, <2>7, RingAssumption
         DEF WritePublish, RingInv, TypeOK, cVars
    <2> QED BY <2>4, <2>8
  <1>6. ASSUME NEW m \in 1..MaxSize, ReadLoad(m) PROVE Inv'
    <2> DEFINE n == Granted(m, Used)
    <2>1. Used \in 0..Capacity /\ m \in Nat
      BY <1>6, Availability, RingAssumption DEF ReadLoad
    <2>2. n \in 1..Capacity /\ n <= Used
      BY <1>6, <2>1, Availability, RingAssumption DEF ReadLoad, Granted
    <2>3. /\ cpc' = "copy" /\ toRead' = n /\ dst' = <<>> /\ ready' = 0 /\ ~resetting
          /\ UNCHANGED <<write_index, read_index, data, pVars, resetting>>
      BY <1>6, Availability DEF ReadLoad
    <2>4. dst' \in Seq(Byte) /\ Len(dst') = 0
      BY <2>3
    <2> HIDE DEF n
    <2>5. TypeOK'
      BY <2>1, <2>2, <2>3, <2>4, RingAssumption DEF TypeOK, pVars
    <2>6. RingInv'
      BY <2>1, <2>2, <2>3, <2>4, RingAssumption DEF TypeOK, RingInv, pVars, Used, WithinHorizon
    <2> QED BY <2>5, <2>6
  <1>7. CASE ReadCopy
    <2>1. Len(dst) \in 0..(Capacity - 1) /\ toRead \in Nat /\ Len(dst) < toRead
      BY <1>7, RingAssumption DEF ReadCopy, TypeOK
    <2>2. data[SlotOf(read_index, Len(dst))] \in Byte
      BY <2>1, SlotInRange DEF TypeOK
    <2>3. dst' \in Seq(Byte) /\ Len(dst') = Len(dst) + 1
      BY <1>7, <2>2 DEF ReadCopy, TypeOK
    <2>4. TypeOK'
      BY <1>7, <2>1, <2>3, RingAssumption DEF ReadCopy, TypeOK, pVars
    <2>5. RingInv'
      BY <1>7, <2>1, <2>3 DEF ReadCopy, RingInv, pVars, Used, WithinHorizon
    <2> QED BY <2>4, <2>5
  <1>8. CASE ReadRelease
    <2>1. ~resetting /\ toRead <= Used /\ toRead \in 0..Capacity
      BY <1>8 DEF ReadRelease, RingInv, TypeOK
    <2>2. Used \in 0..Capacity /\ read_index % Capacity \in 0..(Capacity - 1)
      BY <2>1, Availability, PositionRange DEF TypeOK
    <2>3. Used' = Used - toRead
      BY <1>8, <2>1, <2>2, UsedAfterRelease DEF ReadRelease, TypeOK, Used
    <2>4. IndexMod % Capacity = 0 \/ read_index + toRead < IndexMod
      BY <2>1, <2>2, RingAssumption DEF RingInv, TypeOK, Index, Used, Sub64
    <2>5. /\ read_index' \in Index
          /\ read_index' % Capacity = Wrap((read_index % Capacity) + toRead)
      BY <1>8, <2>1, <2>4, PositionStep DEF ReadRelease, TypeOK
    <2>6. TypeOK'
      BY <1>8, <2>5, RingAssumption DEF ReadRelease, TypeOK, pVars
    <2>7. write_index % Capacity = Wrap((read_index' % Capacity) + Used')
      BY <2>1, <2>2, <2>3, <2>5, RingAssumption DEF RingInv, Wrap
    <2>8. IndexMod % Capacity # 0 => read_index' <= write_index
      BY <1>8, <2>1, <2>2, RingAssumption
         DEF ReadRelease, RingInv, TypeOK, Index, Used, Sub64, Add64
    <2>9. RingInv'
      BY <1>8, <2>1, <2>2, <2>3, <2>7, <2>8, RingAssumption
         DEF ReadRelease, RingInv, TypeOK, pVars, WithinHorizon
    <2> QED BY <2>6, <2>9
  <1>9. CASE ResetWrite
    <2>1. TypeOK'
      BY <1>9, RingAssumption DEF ResetWrite, TypeOK, Index
    <2>2. RingInv'
      BY <1>9 DEF ResetWrite, RingInv
    <2> QED BY <2>1, <2>2
  <1>10. CASE ResetRead
    <2>1. write_index = 0 /\ ppc = "idle" /\ cpc = "idle" /\ room = 0 /\ ready = 0
      BY <1>10 DEF ResetRead, RingInv
    <2>2. TypeOK'
      <3>1. 0 \in Index
        BY RingAssumption DEF Index
      <3>2. read_index' = 0 /\ resetting' \in BOOLEAN
        BY <1>10 DEF ResetRead
      <3> QED BY <1>10, <3>1, <3>2 DEF ResetRead, TypeOK, pVars, cVars
    <2>3. 0 % Capacity = 0 /\ Used' = 0 /\ write_index' = 0 /\ read_index' = 0
      BY <1>10, <2>1, RingAssumption, ModSmall DEF ResetRead, Used, Sub64
    <2>4. RingInv'
      BY <1>10, <2>1, <2>3, RingAssumption DEF ResetRead, RingInv, Wrap, pVars, cVars
    <2> QED BY <2>2, <2>4
  <1>11. CASE UNCHANGED vars
    <2>1. TypeOK'
      BY <1>11 DEF vars, pVars, cVars, TypeOK
    <2>2. RingInv'
      BY <1>11 DEF vars, pVars, cVars, RingInv, Used, WithinHorizon
    <2> QED BY <2>1, <2>2
  <1> QED
    BY <1>1, <1>2, <1>3, <1>4, <1>5, <1>6, <1>7, <1>8, <1>9, <1>10, <1>11 DEF Next

(* Every reachable state is well typed: indices, counts and answers stay   *)
(* in range although they are computed modulo 2^64 and 2^32.               *)
THEOREM TypeCorrect == Spec => []TypeOK
  <1>1. Inv => TypeOK
    BY DEF Inv
  <1> QED BY InitInv, NextInv, <1>1, PTL DEF Spec

(* The reservations of the two calls in progress fit the ring side by      *)
(* side, whatever the interleaving.                                        *)
THEOREM Reservations == Spec => []RingInv
  <1>1. Inv => RingInv
    BY DEF Inv
  <1> QED BY InitInv, NextInv, <1>1, PTL DEF Spec

(* An answer is true when it is given; after that the asker's own index    *)
(* stays and the other side's store only gives more.                       *)
LEMMA PromiseStep == Inv /\ AvailabilityIsPromise /\ [Next]_vars => AvailabilityIsPromise'
  <1> SUFFICES ASSUME Inv, AvailabilityIsPromise, [Next]_vars, ~resetting'
               PROVE  (Used + room <= Capacity /\ ready <= Used)'
    BY DEF AvailabilityIsPromise
  <1> USE DEF AvailabilityIsPromise
  <1>1. CASE QueryRoom \/ QueryReady
    <2>1. /\ Used \in 0..Capacity /\ Used' = Used
          /\ \/ room' = Capacity - Used /\ ready' = ready
             \/ ready' = Used /\ room' = room
      BY <1>1, Availability DEF QueryRoom, QueryReady, pVars, cVars, Used
    <2> QED BY <1>1, <2>1, RingAssumption DEF QueryRoom, QueryReady
  <1>2. CASE (\E b \in Block : WriteLoad(b)) \/ (\E n \in 1..MaxSize : ReadLoad(n))
    <2>1. /\ Used \in 0..Capacity /\ Used' = Used /\ ~resetting
          /\ room' \in {room, 0} /\ ready' \in {ready, 0}
      BY <1>2, Availability DEF WriteLoad, ReadLoad, pVars, cVars, Used
    <2> QED BY <2>1, RingAssumption
  <1>3. CASE WritePublish
    <2>1. /\ ~resetting /\ Used + toWrite <= Capacity /\ toWrite \in Nat
          /\ WithinHorizon(toWrite) /\ room' = 0 /\ ready' = ready
      BY <1>3 DEF WritePublish, Inv, RingInv, TypeOK, cVars
    <2>2. Used' = Used + toWrite /\ Used \in 0..Capacity
      BY <1>3, <2>1, UsedAfterPublish, Availability DEF WritePublish, Inv, TypeOK, Used
    <2> QED BY <2>1, <2>2, RingAssumption DEF Inv, TypeOK
  <1>4. CASE ReadRelease
    <2>1. /\ ~resetting /\ toRead <= Used /\ toRead \in 0..Capacity
          /\ ready' = 0 /\ room' = room
      BY <1>4 DEF ReadRelease, Inv, RingInv, TypeOK, pVars
    <2>2. Used \in 0..Capacity
      BY <2>1, Availability
    <2>3. Used' = Used - toRead
      BY <1>4, <2>1, <2>2, UsedAfterRelease DEF ReadRelease, Inv, TypeOK, Used
    <2> QED BY <2>1, <2>2, <2>3, RingAssumption DEF Inv, TypeOK
  <1>5. CASE ResetWrite \/ ResetRead
    <2>1. room' = 0 /\ ready' = 0 /\ write_index' = 0 /\ read_index' = 0
      BY <1>5 DEF ResetWrite, ResetRead, pVars, cVars, Inv, RingInv
    <2>2. Used' = 0
      BY <2>1 DEF Used, Sub64
    <2> QED BY <2>1, <2>2, RingAssumption
  <1>6. CASE WriteCopy \/ ReadCopy \/ UNCHANGED vars
    BY <1>6 DEF WriteCopy, ReadCopy, vars, pVars, cVars, Used
  <1> QED BY <1>1, <1>2, <1>3, <1>4, <1>5, <1>6 DEF Next

(* What an availability function answered stays true for its caller until  *)
(* its own next call.                                                      *)
THEOREM AnswersHold == Spec => []AvailabilityIsPromise
  <1>1. Init => AvailabilityIsPromise
    BY RingAssumption DEF Init, AvailabilityIsPromise, Used, Sub64
  <1> QED BY InitInv, NextInv, PromiseStep, <1>1, PTL DEF Spec

(* effect_ringbuffer_write and effect_ringbuffer_read never touch the same *)
(* byte at the same time.                                                  *)
THEOREM RaceFree == Spec => []NoDataRace
  <1>1. ASSUME Inv PROVE NoDataRace
    <2> SUFFICES ASSUME NEW k \in copied..(toWrite - 1), NEW j \in Len(dst)..(toRead - 1),
                        ppc = "copy", cpc = "copy"
                 PROVE  SlotOf(write_index, k) # SlotOf(read_index, j)
      BY DEF NoDataRace
    <2>1. ~resetting
      BY <1>1 DEF Inv, RingInv
    <2>2. Used \in 0..Capacity
      BY <1>1, <2>1, Availability
    <2>3. /\ k \in Nat /\ j \in Nat /\ k < toWrite /\ j < toRead
          /\ toWrite \in Nat /\ toRead \in Nat
          /\ Used + toWrite <= Capacity /\ toRead <= Used
          /\ write_index % Capacity = Wrap((read_index % Capacity) + Used)
      BY <1>1, <2>1 DEF Inv, TypeOK, RingInv
    <2>4. /\ read_index % Capacity \in 0..(Capacity - 1)
          /\ write_index % Capacity \in 0..(Capacity - 1)
      BY <1>1, PositionRange DEF Inv, TypeOK
    <2> QED BY <2>2, <2>3, <2>4, RingAssumption DEF SlotOf, Wrap
  <1> QED BY InitInv, NextInv, <1>1, PTL DEF Spec

-----------------------------------------------------------------------------
(* The contents of the ring.                                               *)

(* The bytes of one transfer have slots of their own. *)
LEMMA SlotsDistinct ==
    ASSUME NEW i \in Index, NEW j \in 0..(Capacity - 1), NEW k \in 0..(Capacity - 1),
           SlotOf(i, j) = SlotOf(i, k)
    PROVE  j = k
  <1>1. i % Capacity \in 0..(Capacity - 1)
    BY PositionRange
  <1> QED BY <1>1, RingAssumption DEF SlotOf

(* Counted from the read index, the free slots follow the stored bytes. *)
LEMMA FreeSlot ==
    ASSUME Inv, ~resetting, NEW k \in Nat, Used + k < Capacity
    PROVE  SlotOf(write_index, k) = SlotOf(read_index, Used + k)
  <1>1. Used \in 0..Capacity
    BY Availability
  <1>2. /\ read_index % Capacity \in 0..(Capacity - 1)
        /\ write_index % Capacity \in 0..(Capacity - 1)
        /\ write_index % Capacity = Wrap((read_index % Capacity) + Used)
    BY PositionRange DEF Inv, TypeOK, RingInv
  <1> QED BY <1>1, <1>2, RingAssumption DEF SlotOf, Wrap

(* After a read of n bytes, the slots count from the n-th on. *)
LEMMA ShiftedSlot ==
    ASSUME NEW i \in Index, NEW n \in 0..Capacity,
           IndexMod % Capacity = 0 \/ i + n < IndexMod,
           NEW k \in Nat, n + k < Capacity
    PROVE  SlotOf(Add64(i, n), k) = SlotOf(i, n + k)
  <1>1. /\ i % Capacity \in 0..(Capacity - 1)
        /\ Add64(i, n) % Capacity = Wrap((i % Capacity) + n)
    BY PositionRange, PositionStep
  <1> QED BY <1>1, RingAssumption DEF SlotOf, Wrap

(* What the next byte of a write must not disturb: the bytes stored and    *)
(* the bytes of the same write.                                            *)
LEMMA CopyDisturbsNothing ==
    ASSUME Inv, WriteCopy
    PROVE  /\ \A j \in 0..(Used - 1) :
                  data'[SlotOf(read_index, j)] = data[SlotOf(read_index, j)]
           /\ \A k \in 0..(copied - 1) :
                  data'[SlotOf(write_index, k)] = data[SlotOf(write_index, k)]
           /\ data'[SlotOf(write_index, copied)] = src[copied + 1]
  <1> DEFINE s == SlotOf(write_index, copied)
             u == Used
  <1>1. /\ ~resetting /\ u \in 0..Capacity /\ read_index \in Index /\ write_index \in Index
        /\ copied \in Nat /\ toWrite \in Nat /\ copied < toWrite /\ u + toWrite <= Capacity
        /\ data \in [Slots -> Byte]
    BY Availability DEF Inv, TypeOK, RingInv, WriteCopy
  <1>2. copied \in 0..(Capacity - 1) /\ u + copied \in 0..(Capacity - 1)
    BY <1>1, RingAssumption
  <1>3. s \in Slots /\ s = SlotOf(read_index, u + copied)
    <2>1. Used + copied < Capacity
      BY <1>2, RingAssumption
    <2>2. s = SlotOf(read_index, Used + copied)
      BY <1>1, <2>1, FreeSlot
    <2> QED BY <1>1, <1>2, <2>2, SlotInRange
  <1>4. data' = [data EXCEPT ![s] = src[copied + 1]]
    BY DEF WriteCopy
  <1> HIDE DEF s, u
  <1>5. ASSUME NEW j \in 0..(u - 1)
        PROVE  data'[SlotOf(read_index, j)] = data[SlotOf(read_index, j)]
    <2> DEFINE m == u + copied
    <2>1. j \in 0..(Capacity - 1) /\ m \in 0..(Capacity - 1) /\ j # m
      BY <1>1, <1>2, RingAssumption
    <2>2. s = SlotOf(read_index, m)
      BY <1>3
    <2> HIDE DEF m
    <2>3. SlotOf(read_index, j) # s
      BY <1>1, <2>1, <2>2, SlotsDistinct
    <2>4. SlotOf(read_index, j) \in Slots
      BY <1>1, <2>1, SlotInRange
    <2> QED BY <1>1, <1>4, <2>3, <2>4
  <1>6. ASSUME NEW k \in 0..(copied - 1)
        PROVE  data'[SlotOf(write_index, k)] = data[SlotOf(write_index, k)]
    <2>1. k \in 0..(Capacity - 1) /\ k # copied
      BY <1>1, <1>2, RingAssumption
    <2>2. SlotOf(write_index, k) # s
      BY <1>1, <1>2, <2>1, SlotsDistinct DEF s
    <2>3. SlotOf(write_index, k) \in Slots
      BY <1>1, <2>1, SlotInRange
    <2> QED BY <1>1, <1>4, <2>2, <2>3
  <1>7. data'[s] = src[copied + 1]
    BY <1>1, <1>3, <1>4
  <1> QED BY <1>5, <1>6, <1>7 DEF s, u

(* A step of either side leaves the copies of both intact. *)
LEMMA CopiesStep == Inv /\ CopiesIntact /\ [Next]_vars => CopiesIntact'
  <1> SUFFICES ASSUME Inv, CopiesIntact, [Next]_vars PROVE CopiesIntact'
    OBVIOUS
  <1>1. CASE QueryRoom \/ QueryReady \/ ResetRead \/ UNCHANGED vars
    <2>1. /\ UNCHANGED <<data, ppc, src, copied, cpc, dst>>
          /\ ResetRead => ppc = "idle" /\ cpc = "idle"
          /\ ~ResetRead => UNCHANGED <<write_index, read_index>>
      BY <1>1 DEF QueryRoom, QueryReady, ResetRead, vars, pVars, cVars, Inv, RingInv
    <2> QED BY <2>1 DEF CopiesIntact
  <1>2. ASSUME NEW b \in Block, WriteLoad(b) PROVE CopiesIntact'
    BY <1>2 DEF WriteLoad, cVars, CopiesIntact
  <1>3. CASE WriteCopy
    <2>1. /\ UNCHANGED <<write_index, read_index, ppc, src, toWrite, cpc, dst, toRead, resetting>>
          /\ copied' = copied + 1 /\ copied \in Nat /\ ppc = "copy"
      BY <1>3 DEF WriteCopy, cVars, Inv, TypeOK
    <2>2. ASSUME NEW k \in 0..(copied' - 1)
          PROVE  data'[SlotOf(write_index, k)] = src[k + 1]
      <3>1. CASE k = copied
        BY <1>3, <3>1, CopyDisturbsNothing
      <3>2. CASE k # copied
        <4>1. k \in 0..(copied - 1)
          BY <2>1, <3>2
        <4> QED BY <1>3, <2>1, <4>1, CopyDisturbsNothing DEF CopiesIntact
      <3> QED BY <3>1, <3>2
    <2>3. ASSUME cpc = "copy", NEW j \in 0..(Len(dst) - 1)
          PROVE  dst[j + 1] = data'[SlotOf(read_index, j)]
      <3>1. ~resetting /\ Len(dst) <= toRead /\ toRead <= Used
        BY <2>3 DEF Inv, RingInv
      <3>2. Used \in Nat /\ toRead \in Nat /\ Len(dst) \in Nat
        BY <3>1, Availability DEF Inv, TypeOK
      <3>3. j \in 0..(Used - 1)
        BY <3>1, <3>2
      <3>4. data'[SlotOf(read_index, j)] = data[SlotOf(read_index, j)]
        BY <1>3, <3>3, CopyDisturbsNothing
      <3> QED BY <2>3, <3>4 DEF CopiesIntact
    <2> QED BY <2>1, <2>2, <2>3 DEF CopiesIntact
  <1>4. CASE WritePublish
    BY <1>4 DEF WritePublish, cVars, CopiesIntact
  <1>5. ASSUME NEW m \in 1..MaxSize, ReadLoad(m) PROVE CopiesIntact'
    BY <1>5 DEF ReadLoad, pVars, CopiesIntact
  <1>6. CASE ReadCopy
    <2> DEFINE x == data[SlotOf(read_index, Len(dst))]
    <2>1. /\ UNCHANGED <<write_index, read_index, data, ppc, src, copied>>
          /\ dst' = Append(dst, x) /\ dst \in Seq(Byte) /\ Len(dst) \in 0..(Capacity - 1)
          /\ cpc = "copy" /\ cpc' = "copy"
      BY <1>6, RingAssumption DEF ReadCopy, pVars, Inv, TypeOK
    <2>2. x \in Byte
      BY <2>1, SlotInRange DEF Inv, TypeOK
    <2>3. /\ Len(dst') = Len(dst) + 1 /\ dst'[Len(dst) + 1] = x
          /\ \A j \in 1..Len(dst) : dst'[j] = dst[j]
      <3> HIDE DEF x
      <3> QED BY <2>1, <2>2
    <2>4. ASSUME NEW j \in 0..(Len(dst') - 1)
          PROVE  dst'[j + 1] = data[SlotOf(read_index, j)]
      <3>1. CASE j = Len(dst)
        BY <2>3, <3>1
      <3>2. CASE j # Len(dst)
        <4>1. j \in 0..(Len(dst) - 1) /\ j + 1 \in 1..Len(dst)
          BY <2>1, <2>3, <3>2
        <4> QED BY <2>1, <2>3, <4>1 DEF CopiesIntact
      <3> QED BY <3>1, <3>2
    <2> QED BY <2>1, <2>4 DEF CopiesIntact
  <1>7. CASE ReadRelease \/ ResetWrite
    BY <1>7 DEF ReadRelease, ResetWrite, pVars, CopiesIntact
  <1> QED BY <1>1, <1>2, <1>3, <1>4, <1>5, <1>6, <1>7 DEF Next

(* The two memcpys never disturb each other. *)
THEOREM CopiesStayIntact == Spec => []CopiesIntact
  <1>1. Init => CopiesIntact
    BY DEF Init, CopiesIntact
  <1> QED BY InitInv, NextInv, CopiesStep, <1>1, PTL DEF Spec

-----------------------------------------------------------------------------
(* The ring implements the byte FIFO.                                      *)

Bytes(r, d, n) == [i \in 1..n |-> d[SlotOf(r, i - 1)]]

(* The bytes stored, oldest first, form a sequence. *)
LEMMA BytesFacts ==
    ASSUME NEW r \in Index, NEW d \in [Slots -> Byte], NEW n \in 0..Capacity
    PROVE  /\ Bytes(r, d, n) \in Seq(Byte) /\ Len(Bytes(r, d, n)) = n
           /\ \A i \in 1..n : Bytes(r, d, n)[i] = d[SlotOf(r, i - 1)]
  <1>1. ASSUME NEW i \in 1..n PROVE d[SlotOf(r, i - 1)] \in Byte
    <2> DEFINE k == i - 1
    <2>1. k \in 0..(Capacity - 1)
      BY RingAssumption
    <2> HIDE DEF k
    <2>2. SlotOf(r, k) \in Slots
      BY <2>1, SlotInRange
    <2> QED BY <2>2 DEF k
  <1> DEFINE b(i) == d[SlotOf(r, i - 1)]
             t == Bytes(r, d, n)
  <1>2. \A i \in 1..n : b(i) \in Byte
    BY <1>1
  <1>3. t = [i \in 1..n |-> b(i)] /\ n \in Nat
    BY RingAssumption DEF Bytes
  <1> HIDE DEF b, t
  <1>4. t \in Seq(Byte) /\ Len(t) = n /\ \A i \in 1..n : t[i] = b(i)
    BY <1>2, <1>3
  <1> QED BY <1>4 DEF b, t

(* What is stored before a step, *)
LEMMA StoredFacts ==
    ASSUME Inv, ~resetting
    PROVE  /\ Stored \in Seq(Byte) /\ Len(Stored) = Used
           /\ \A i \in 1..Used : Stored[i] = data[SlotOf(read_index, i - 1)]
  <1>1. read_index \in Index /\ data \in [Slots -> Byte] /\ Used \in 0..Capacity
    BY Availability DEF Inv, TypeOK
  <1>2. Stored = Bytes(read_index, data, Used)
    BY DEF Stored, Bytes
  <1> QED BY <1>1, <1>2, BytesFacts

(* and after it. *)
LEMMA StoredFactsNext ==
    ASSUME Inv', Used' \in 0..Capacity
    PROVE  /\ Stored' \in Seq(Byte) /\ Len(Stored') = Used'
           /\ \A i \in 1..Used' : Stored'[i] = data'[SlotOf(read_index', i - 1)]
  <1>1. read_index' \in Index /\ data' \in [Slots -> Byte]
    BY DEF Inv, TypeOK
  <1>2. Stored' = Bytes(read_index', data', Used')
    BY DEF Stored, Bytes
  <1> QED BY <1>1, <1>2, BytesFacts

(* Two sequences with the same length and elements are the same. *)
LEMMA SameBytes ==
    ASSUME NEW s \in Seq(Byte), NEW t \in Seq(Byte), Len(s) = Len(t),
           \A i \in 1..Len(s) : s[i] = t[i]
    PROVE  s = t
  OBVIOUS

(* The elements of a concatenation. *)
LEMMA JoinedBytes ==
    ASSUME NEW s \in Seq(Byte), NEW t \in Seq(Byte)
    PROVE  /\ s \o t \in Seq(Byte) /\ Len(s \o t) = Len(s) + Len(t)
           /\ \A i \in 1..Len(s) : (s \o t)[i] = s[i]
           /\ \A k \in 1..Len(t) : (s \o t)[Len(s) + k] = t[k]
  <1>1. ASSUME NEW k \in 1..Len(t) PROVE (s \o t)[Len(s) + k] = t[k]
    <2>1. Len(s) + k \in 1..(Len(s) + Len(t)) /\ Len(s) + k > Len(s) /\ Len(s) + k - Len(s) = k
      OBVIOUS
    <2> QED BY <2>1, ConcatProperties
  <1> QED BY <1>1, ConcatProperties

(* The copy of a byte is invisible. *)
LEMMA CopyHidden ==
    ASSUME Inv, Inv', WriteCopy
    PROVE  Stored' = Stored
  <1>1. ~resetting /\ ~resetting' /\ Used' = Used /\ read_index' = read_index
    BY DEF WriteCopy, Inv, RingInv, Used
  <1>2. Used \in 0..Capacity
    BY <1>1, Availability
  <1>3. /\ Stored \in Seq(Byte) /\ Len(Stored) = Used
        /\ \A i \in 1..Used : Stored[i] = data[SlotOf(read_index, i - 1)]
    BY <1>1, StoredFacts
  <1>4. /\ Stored' \in Seq(Byte) /\ Len(Stored') = Used
        /\ \A i \in 1..Used : Stored'[i] = data'[SlotOf(read_index, i - 1)]
    BY <1>1, <1>2, StoredFactsNext
  <1>5. ASSUME NEW i \in 1..Used PROVE Stored'[i] = Stored[i]
    <2> DEFINE k == i - 1
    <2>1. k \in 0..(Used - 1)
      BY <1>2
    <2> HIDE DEF k
    <2>2. data'[SlotOf(read_index, k)] = data[SlotOf(read_index, k)]
      BY <2>1, CopyDisturbsNothing
    <2> QED BY <1>3, <1>4, <2>2 DEF k
  <1> QED BY <1>3, <1>4, <1>5, SameBytes

(* The store of write_index makes the bytes copied, all of them at once    *)
(* and nothing else, part of what is stored.                               *)
LEMMA PublishAppends ==
    ASSUME Inv, Inv', CopiesIntact, WritePublish
    PROVE  Stored' = Stored \o SubSeq(src, 1, toWrite)
  <1> DEFINE t == SubSeq(src, 1, toWrite)
             u == Used
  <1>1. /\ ~resetting /\ ~resetting' /\ u + toWrite <= Capacity /\ toWrite \in Nat
        /\ read_index' = read_index /\ data' = data /\ copied = toWrite /\ ppc = "copy"
    BY DEF WritePublish, Inv, RingInv, TypeOK
  <1>2. u \in 0..Capacity
    BY <1>1, Availability
  <1>3. Used' = u + toWrite
    BY <1>1, UsedAfterPublish DEF WritePublish, Inv, TypeOK, Used
  <1>4. /\ t \in Seq(Byte) /\ Len(t) = toWrite
        /\ \A k \in 1..toWrite : t[k] = src[k]
    <2>1. src \in Seq(Byte) /\ toWrite <= Len(src)
      BY BlockIsSeq DEF Inv, TypeOK
    <2>2. \A k \in 1..toWrite : src[k] \in Byte
      BY <1>1, <2>1
    <2> QED BY <1>1, <2>1, <2>2, SubSeqProperties
  <1>5. /\ Stored \in Seq(Byte) /\ Len(Stored) = u
        /\ \A i \in 1..u : Stored[i] = data[SlotOf(read_index, i - 1)]
    BY <1>1, StoredFacts
  <1>6. /\ Stored' \in Seq(Byte) /\ Len(Stored') = u + toWrite
        /\ \A i \in 1..(u + toWrite) : Stored'[i] = data[SlotOf(read_index, i - 1)]
    <2>1. Used' \in 0..Capacity
      BY <1>1, <1>2, <1>3, RingAssumption
    <2> QED BY <1>1, <1>3, <2>1, StoredFactsNext
  <1> HIDE DEF t
  <1>7. /\ Stored \o t \in Seq(Byte) /\ Len(Stored \o t) = u + toWrite
        /\ \A i \in 1..u : (Stored \o t)[i] = Stored[i]
        /\ \A k \in 1..toWrite : (Stored \o t)[u + k] = t[k]
    <2>1. u \in Nat
      BY <1>2, RingAssumption
    <2> QED BY <1>1, <1>4, <1>5, <2>1, JoinedBytes
  <1>8. ASSUME NEW i \in 1..(u + toWrite) PROVE Stored'[i] = (Stored \o t)[i]
    <2>1. CASE i <= u
      BY <1>2, <1>5, <1>6, <1>7, <2>1
    <2>2. CASE i > u
      <3> DEFINE k == i - u - 1
      <3>1. k \in 0..(copied - 1) /\ k \in Nat /\ u + k < Capacity /\ i - 1 = u + k
            /\ i = u + (k + 1) /\ k + 1 \in 1..toWrite
        BY <1>1, <1>2, <2>2, RingAssumption
      <3> HIDE DEF k
      <3>2. SlotOf(read_index, u + k) = SlotOf(write_index, k)
        BY <1>1, <3>1, FreeSlot
      <3>3. data[SlotOf(write_index, k)] = src[k + 1]
        BY <1>1, <3>1 DEF CopiesIntact
      <3>4. Stored'[i] = src[k + 1]
        BY <1>6, <3>1, <3>2, <3>3
      <3>5. (Stored \o t)[i] = src[k + 1]
        BY <1>4, <1>7, <3>1
      <3> QED BY <3>4, <3>5
    <2>3. i <= u \/ i > u
      BY <1>1, <1>2, RingAssumption
    <2> QED BY <2>1, <2>2, <2>3
  <1>9. Stored' = Stored \o t
    BY <1>6, <1>7, <1>8, SameBytes
  <1> QED BY <1>9 DEF t

(* The store of read_index removes from the front exactly the bytes that   *)
(* the read returns.                                                       *)
LEMMA ReleaseTakes ==
    ASSUME Inv, Inv', CopiesIntact, ReadRelease
    PROVE  /\ dst = SubSeq(Stored, 1, toRead)
           /\ Stored' = SubSeq(Stored, toRead + 1, Len(Stored))
  <1> DEFINE u == Used
             rest == SubSeq(Stored, toRead + 1, Len(Stored))
             taken == SubSeq(Stored, 1, toRead)
  <1>1. /\ ~resetting /\ ~resetting' /\ toRead <= u /\ toRead \in 0..Capacity
        /\ data' = data /\ Len(dst) = toRead /\ dst \in Seq(Byte) /\ cpc = "copy"
        /\ read_index \in Index /\ read_index' = Add64(read_index, toRead)
    BY DEF ReadRelease, Inv, RingInv, TypeOK
  <1>2. u \in 0..Capacity
    BY <1>1, Availability
  <1>3. Used' = u - toRead
    BY <1>1, <1>2, UsedAfterRelease DEF ReadRelease, Inv, TypeOK, Used
  <1>4. IndexMod % Capacity = 0 \/ read_index + toRead < IndexMod
    BY <1>1, <1>2, RingAssumption DEF Inv, RingInv, TypeOK, Index, Used, Sub64
  <1>5. /\ Stored \in Seq(Byte) /\ Len(Stored) = u
        /\ \A i \in 1..u : Stored[i] = data[SlotOf(read_index, i - 1)]
    BY <1>1, StoredFacts
  <1>6. /\ Stored' \in Seq(Byte) /\ Len(Stored') = u - toRead
        /\ \A i \in 1..(u - toRead) : Stored'[i] = data[SlotOf(read_index', i - 1)]
    <2>1. Used' \in 0..Capacity
      BY <1>1, <1>2, <1>3, RingAssumption
    <2> QED BY <1>1, <1>3, <2>1, StoredFactsNext
  <1>7. \A i \in 1..u : Stored[i] \in Byte
    BY <1>2, <1>5
  <1>8. /\ taken \in Seq(Byte) /\ Len(taken) = toRead
        /\ \A i \in 1..toRead : taken[i] = Stored[i]
    BY <1>1, <1>2, <1>5, <1>7, SubSeqProperties
  <1>9. /\ rest \in Seq(Byte) /\ Len(rest) = u - toRead
        /\ \A i \in 1..(u - toRead) : rest[i] = Stored[toRead + i]
    BY <1>1, <1>2, <1>5, <1>7, SubSeqProperties
  <1> HIDE DEF taken, rest
  <1>10. ASSUME NEW i \in 1..toRead PROVE dst[i] = taken[i]
    <2> DEFINE k == i - 1
    <2>1. k \in 0..(Len(dst) - 1) /\ i = k + 1 /\ i \in 1..u
      BY <1>1, <1>2
    <2> HIDE DEF k
    <2>2. dst[k + 1] = data[SlotOf(read_index, k)]
      BY <1>1, <2>1 DEF CopiesIntact
    <2> QED BY <1>5, <1>8, <2>1, <2>2 DEF k
  <1>11. ASSUME NEW i \in 1..(u - toRead) PROVE Stored'[i] = rest[i]
    <2> DEFINE k == i - 1
               m == toRead + i
    <2>1. /\ k \in Nat /\ toRead + k < Capacity
          /\ m - 1 = toRead + k /\ m \in 1..u
      BY <1>1, <1>2, RingAssumption
    <2> HIDE DEF k, m
    <2>2. SlotOf(read_index', k) = SlotOf(read_index, toRead + k)
      BY <1>1, <1>4, <2>1, ShiftedSlot
    <2>3. Stored[m] = data[SlotOf(read_index, toRead + k)]
      BY <1>5, <2>1
    <2>4. rest[i] = Stored[m]
      BY <1>9 DEF m
    <2>5. Stored'[i] = data[SlotOf(read_index', k)]
      BY <1>6 DEF k
    <2> QED BY <2>2, <2>3, <2>4, <2>5
  <1>12. dst = taken
    BY <1>1, <1>8, <1>10, SameBytes
  <1>13. Stored' = rest
    BY <1>6, <1>9, <1>11, SameBytes
  <1> QED BY <1>12, <1>13 DEF taken, rest

(* An empty ring stores the empty sequence. *)
LEMMA EmptyStored ==
    ASSUME NEW r, NEW d
    PROVE  Bytes(r, d, 0) = <<>>
  BY DEF Bytes

(* Every step of the ring is a step of the byte FIFO or leaves it alone:   *)
(* only the stores of the two indices move bytes.                          *)
LEMMA StepImplements ==
    ASSUME Inv, Inv', CopiesIntact, [Next]_vars
    PROVE  [Abstract!Next]_(Abstract!bqVars)
  <1> DEFINE q == IF resetting THEN <<>> ELSE Stored
             k == IF cpc = "copy" THEN <<>> ELSE dst
  <1> SUFFICES \/ UNCHANGED <<q, src, k>>
               \/ \E b \in Block : Abstract!Offer(b)
               \/ \E n \in 1..Capacity : Abstract!Accept(n)
               \/ Abstract!Ask
               \/ \E n \in 1..Capacity : Abstract!Take(n)
               \/ Abstract!Clear
    BY DEF Abstract!Next, Abstract!bqVars
  <1>1. CASE QueryRoom \/ QueryReady \/ ReadCopy \/ UNCHANGED vars
    <2>1. UNCHANGED <<write_index, read_index, data, src, cpc, resetting>>
      BY <1>1 DEF QueryRoom, QueryReady, ReadCopy, vars, pVars, cVars
    <2>2. UNCHANGED q
      BY <2>1 DEF Stored, Used
    <2>3. UNCHANGED k
      BY <1>1, <2>1 DEF QueryRoom, QueryReady, ReadCopy, vars, cVars
    <2> QED BY <2>1, <2>2, <2>3
  <1>2. ASSUME NEW b \in Block, WriteLoad(b) PROVE Abstract!Offer(b)
    <2>1. /\ src = <<>> /\ src' = b
          /\ UNCHANGED <<write_index, read_index, data, cpc, dst, resetting>>
      BY <1>2 DEF WriteLoad, cVars, Inv, RingInv
    <2>2. UNCHANGED <<q, k>>
      BY <2>1 DEF Stored, Used
    <2> QED BY <2>1, <2>2 DEF Abstract!Offer
  <1>3. CASE WriteCopy
    <2>1. UNCHANGED <<src, cpc, dst, resetting>>
      BY <1>3 DEF WriteCopy, cVars
    <2>2. Stored' = Stored
      BY <1>3, CopyHidden
    <2> QED BY <2>1, <2>2
  <1>4. CASE WritePublish
    <2>1. /\ ~resetting /\ ~resetting' /\ toWrite \in 1..Capacity /\ toWrite <= Len(src)
          /\ Used + toWrite <= Capacity /\ src' = <<>> /\ UNCHANGED <<cpc, dst>>
      BY <1>4, RingAssumption DEF WritePublish, cVars, Inv, TypeOK, RingInv
    <2>2. Stored' = Stored \o SubSeq(src, 1, toWrite) /\ Len(Stored) = Used
      BY <1>4, <2>1, PublishAppends, StoredFacts
    <2>3. Abstract!Accept(toWrite)
      BY <2>1, <2>2 DEF Abstract!Accept
    <2> QED BY <2>1, <2>3
  <1>5. ASSUME NEW m \in 1..MaxSize, ReadLoad(m) PROVE Abstract!Ask
    <2>1. /\ cpc' = "copy" /\ UNCHANGED <<write_index, read_index, data, src, resetting>>
      BY <1>5 DEF ReadLoad, pVars
    <2>2. UNCHANGED q /\ k' = <<>>
      BY <2>1 DEF Stored, Used
    <2> QED BY <2>1, <2>2 DEF Abstract!Ask
  <1>6. CASE ReadRelease
    <2>1. /\ ~resetting /\ ~resetting' /\ toRead \in 1..Capacity /\ toRead <= Used
          /\ cpc' = "idle" /\ UNCHANGED <<src, dst>>
      BY <1>6, RingAssumption DEF ReadRelease, pVars, Inv, TypeOK, RingInv
    <2>2. /\ dst = SubSeq(Stored, 1, toRead) /\ Len(Stored) = Used
          /\ Stored' = SubSeq(Stored, toRead + 1, Len(Stored))
      BY <1>6, <2>1, ReleaseTakes, StoredFacts
    <2>3. Abstract!Take(toRead)
      BY <2>1, <2>2 DEF Abstract!Take
    <2> QED BY <2>1, <2>3
  <1>7. CASE ResetWrite
    <2>1. resetting' = TRUE /\ src = <<>> /\ UNCHANGED <<src, cpc, dst>>
      BY <1>7 DEF ResetWrite, Inv, RingInv
    <2> QED BY <2>1 DEF Abstract!Clear
  <1>8. CASE ResetRead
    <2>1. resetting /\ ~resetting' /\ UNCHANGED <<src, cpc, dst>>
      BY <1>8 DEF ResetRead, pVars, cVars
    <2>2. Used' = 0
      BY <1>8 DEF ResetRead, Inv, RingInv, Used, Sub64
    <2>3. Stored' = <<>>
      BY <2>2, EmptyStored DEF Stored, Bytes
    <2> QED BY <2>1, <2>3
  <1> QED BY <1>1, <1>2, <1>3, <1>4, <1>5, <1>6, <1>7, <1>8 DEF Next

(* The ring implements the bounded byte FIFO for every capacity, every     *)
(* width of the indices and every block: bytes come out in the order they  *)
(* went in, none lost, duplicated or torn, across both wraps and resets.   *)
THEOREM RingImplementsQueue == Spec => ImplementsByteQueue
  <1>1. Init => Abstract!Init
    <2> SUFFICES ASSUME Init PROVE Abstract!Init
      OBVIOUS
    <2>1. Used = 0
      BY DEF Init, Used, Sub64
    <2>2. Stored = <<>>
      BY <2>1, EmptyStored DEF Stored, Bytes
    <2> QED BY <2>2 DEF Init, Abstract!Init
  <1>2. Inv /\ Inv' /\ CopiesIntact /\ [Next]_vars => [Abstract!Next]_(Abstract!bqVars)
    BY StepImplements
  <1>3. Init => CopiesIntact
    BY DEF Init, CopiesIntact
  <1> QED BY InitInv, NextInv, CopiesStep, <1>1, <1>2, <1>3, PTL
          DEF Spec, ImplementsByteQueue, Abstract!Spec
=============================================================================
