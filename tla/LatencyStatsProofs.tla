------------------------ MODULE LatencyStatsProofs -------------------------
(***************************************************************************)
(* The latency figures proved for every width and every set of durations   *)
(* that cannot overflow it.                                                *)
(***************************************************************************)
EXTENDS LatencyStats, TLAPS

(* A number below the modulus is its own remainder. *)
LEMMA SmallMod ==
    ASSUME NEW n \in Nat, n < Width
    PROVE  n % Width = n
  BY LatencyAssumption

(* The average of two numbers in a range, rounded down, is in that range. *)
LEMMA RollingInRange ==
    ASSUME NEW low \in Nat, NEW high \in Nat, 10 * high < Width,
           NEW avg \in low..high, NEW latency \in low..high
    PROVE  Rolling(avg, latency) \in low..high
  <1>1. CASE avg = 0
    BY <1>1 DEF Rolling
  <1>2. CASE avg # 0
    <2>1. avg * 9 + latency \in Nat /\ avg * 9 + latency < Width
      BY LatencyAssumption
    <2>2. Rolling(avg, latency) = (avg * 9 + latency) \div 10
      BY <1>2, <2>1, SmallMod DEF Rolling
    <2> QED BY <2>2
  <1> QED BY <1>1, <1>2

(* Before the first sample all figures are zero; from then on the average, *)
(* the smallest and the largest latency are numbers in order.              *)
LatencyInv ==
    /\ load \subseteq Duration
    /\ maxLatencyUs \in Nat /\ 10 * maxLatencyUs < Width
    /\ avgLatencyUs \in Nat
    /\ lowest \in Nat
    /\ lowest = Width => avgLatencyUs = 0 /\ maxLatencyUs = 0
    /\ lowest # Width => /\ lowest < Width /\ 10 * lowest < Width
                         /\ lowest <= avgLatencyUs /\ avgLatencyUs <= maxLatencyUs

(* The average lies between the smallest and the largest latency, on both  *)
(* sides and for every width, as long as no duration overflows it.         *)
THEOREM AverageStaysInRange ==
    ASSUME NoOverflow
    PROVE  Spec => []AverageInRange
  <1>1. Init => LatencyInv
    BY LatencyAssumption DEF Init, LatencyInv
  <1>2. LatencyInv /\ [Next]_vars => LatencyInv'
    <2> SUFFICES ASSUME LatencyInv, [Next]_vars PROVE LatencyInv'
      OBVIOUS
    <2> USE LatencyAssumption
    <2>1. ASSUME NEW d \in load, Record(d) PROVE LatencyInv'
      <3>1. d \in Nat /\ 10 * d < Width
        BY DEF LatencyInv, NoOverflow
      <3>2. Cast(d) = d
        BY <3>1, SmallMod DEF Cast
      <3>3. CASE lowest = Width
        <4>1. avgLatencyUs' = d /\ lowest' = d /\ maxLatencyUs' = d /\ load' = load
          BY <2>1, <3>1, <3>2, <3>3 DEF Record, Rolling, Raised, LatencyInv
        <4> QED BY <3>1, <4>1 DEF LatencyInv
      <3>4. CASE lowest # Width
        <4> DEFINE low == IF d < lowest THEN d ELSE lowest
                   high == IF d > maxLatencyUs THEN d ELSE maxLatencyUs
        <4>1. /\ low \in Nat /\ high \in Nat /\ 10 * high < Width /\ 10 * low < Width
              /\ avgLatencyUs \in low..high /\ d \in low..high
          BY <3>1, <3>4 DEF LatencyInv
        <4>2. Rolling(avgLatencyUs, d) \in low..high
          BY <4>1, RollingInRange
        <4>3. /\ avgLatencyUs' = Rolling(avgLatencyUs, d)
              /\ lowest' = low /\ maxLatencyUs' = high /\ load' = load
          BY <2>1, <3>2 DEF Record, Raised
        <4> HIDE DEF low, high
        <4> QED BY <4>1, <4>2, <4>3 DEF LatencyInv
      <3> QED BY <3>3, <3>4
    <2>2. ASSUME NEW d \in load, Steady(d) PROVE LatencyInv'
      BY <2>2 DEF Steady, LatencyInv
    <2>3. CASE UNCHANGED vars
      BY <2>3 DEF vars, LatencyInv
    <2> QED BY <2>1, <2>2, <2>3 DEF Next
  <1>3. LatencyInv => AverageInRange
    BY DEF LatencyInv, AverageInRange
  <1> QED BY <1>1, <1>2, <1>3, PTL DEF Spec
=============================================================================
