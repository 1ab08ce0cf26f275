---------------------------- MODULE IssuanceProofs ----------------------------
(***************************************************************************)
(* The issuance of a chain of any length, for any halving interval and any *)
(* initial issuance.  The schedule holds as long as the chain is shorter   *)
(* than the interval times the width of the shifted integer; beyond it the *)
(* shift starts again, as the run issuance_wraps shows.                    *)
(***************************************************************************)
EXTENDS IssuanceSchedule, DataLemmas

(* No shift reaches the width of the shifted integer, and none is cut off.   *)
WithinShiftWidth ==
    LastBlock < HalvingInterval * ShiftWidth /\ ShiftWidth <= CutOff

LEMMA HalvedUnfolds ==
    /\ Halved[0] = InitialIssuance
    /\ \A s \in Nat : Halved[s] \in Nat /\ Halved[s + 1] = Halved[s] \div 2
<1> DEFINE step == [s \in Nat |-> [v \in Nat |-> v \div 2]]
<1>1. InitialIssuance \in Nat /\ step \in [Nat -> [Nat -> Nat]]
  <2>1. \A v \in Nat : v \div 2 \in Nat
    BY QuotientBounds
  <2> QED
    BY <2>1, IssuanceAssumption
<1>2. PICK g \in [Nat -> Nat] :
        g = [s \in Nat |-> IF s = 0 THEN InitialIssuance ELSE step[s][g[s - 1]]]
  <2> DEFINE A == Nat
             a == InitialIssuance
  <2>1. a \in A /\ step \in [Nat -> [A -> A]]
    BY <1>1
  <2> HIDE DEF A, a, step
  <2>2. \E g \in [Nat -> A] : g = [n \in Nat |-> IF n = 0 THEN a ELSE step[n][g[n - 1]]]
    BY <2>1, RecursionExists
  <2> QED
    BY <2>2 DEF A, a
<1> DEFINE Halves(f) == f = [s \in Nat |-> IF s = 0 THEN InitialIssuance ELSE f[s - 1] \div 2]
<1>3. Halves(g)
  <2>1. ASSUME NEW s \in Nat
        PROVE  g[s] = IF s = 0 THEN InitialIssuance ELSE g[s - 1] \div 2
    <3>1. s # 0 => s - 1 \in Nat /\ g[s - 1] \in Nat
      OBVIOUS
    <3>2. s # 0 => step[s][g[s - 1]] = g[s - 1] \div 2
      BY <3>1
    <3>3. g[s] = IF s = 0 THEN InitialIssuance ELSE step[s][g[s - 1]]
      <4> HIDE DEF step
      <4> QED BY <1>2
    <3> QED
      BY <3>2, <3>3
  <2> QED
    BY <1>2, <2>1
<1>4. Halved = CHOOSE f : Halves(f)
  BY DEF Halved
<1>5. Halves(Halved)
  <2> HIDE DEF Halves
  <2> QED BY <1>3, <1>4
<1>6. \A f : Halves(f) => f[0] = InitialIssuance /\ \A s \in Nat : f[s + 1] = f[s] \div 2
  OBVIOUS
<1>7. Halved[0] = InitialIssuance /\ \A s \in Nat : Halved[s + 1] = Halved[s] \div 2
  <2> HIDE DEF Halves
  <2> QED BY <1>5, <1>6
<1> DEFINE H == {s \in Nat : Halved[s] \in Nat}
<1>8. Nat \subseteq H
  <2>1. 0 \in H
    BY <1>1, <1>7
  <2>2. ASSUME NEW s \in Nat, s \in H PROVE s + 1 \in H
    <3>1. Halved[s] \in Nat /\ Halved[s + 1] = Halved[s] \div 2 /\ 2 \in Nat \ {0}
      BY <1>7, <2>2
    <3>2. Halved[s] \div 2 \in Nat
      BY <3>1, QuotientBounds
    <3> QED
      BY <3>1, <3>2
  <2> HIDE DEF H
  <2> QED
    BY <2>1, <2>2, NatSetInduction
<1> QED
  BY <1>7, <1>8

LEMMA ScheduleUnfolds ==
    /\ ScheduledSupply[0] = -InitialIssuance
    /\ \A h \in Nat : /\ ScheduledSupply[h] \in Int
                      /\ ScheduledSupply[h + 1] = ScheduledSupply[h] + HalvingInterval * Halved[h]
<1> DEFINE start == -InitialIssuance
           total == [h \in Nat |-> [v \in Int |->
                        IF h = 0 THEN v ELSE v + HalvingInterval * Halved[h - 1]]]
<1>1. start \in Int /\ HalvingInterval \in Nat
  BY IssuanceAssumption
<1>2. \A h \in Nat : HalvingInterval * Halved[h] \in Int
  BY <1>1, HalvedUnfolds
<1> DEFINE Accumulates(f) ==
             f = [h \in Nat |-> IF h = 0 THEN start
                                ELSE f[h - 1] + HalvingInterval * Halved[h - 1]]
<1>3. total \in [Nat -> [Int -> Int]]
  <2>1. ASSUME NEW h \in Nat, NEW v \in Int
        PROVE  (IF h = 0 THEN v ELSE v + HalvingInterval * Halved[h - 1]) \in Int
    <3>1. CASE h = 0
      BY <3>1
    <3>2. CASE h # 0
      <4>1. h - 1 \in Nat
        BY <3>2
      <4> QED
        BY <1>2, <3>2, <4>1
    <3> QED
      BY <3>1, <3>2
  <2> QED
    BY <2>1
<1>4. PICK g \in [Nat -> Int] :
        g = [h \in Nat |-> IF h = 0 THEN start ELSE total[h][g[h - 1]]]
  <2> DEFINE A == Int
  <2>1. start \in A /\ total \in [Nat -> [A -> A]]
    BY <1>1, <1>3
  <2> HIDE DEF A, start, total
  <2>2. \E g \in [Nat -> A] : g = [n \in Nat |-> IF n = 0 THEN start ELSE total[n][g[n - 1]]]
    BY <2>1, RecursionExists
  <2> QED
    BY <2>2 DEF A
<1>5. Accumulates(g)
  <2> HIDE DEF start
  <2>1. ASSUME NEW h \in Nat
        PROVE  g[h] = IF h = 0 THEN start ELSE g[h - 1] + HalvingInterval * Halved[h - 1]
    <3>1. CASE h = 0
      BY <1>4, <3>1
    <3>2. CASE h # 0
      <4>1. h - 1 \in Nat /\ g[h - 1] \in Int
        BY <3>2
      <4> QED
        BY <1>4, <3>2, <4>1
    <3> QED
      BY <3>1, <3>2
  <2>2. g = [h \in Nat |-> g[h]]
    OBVIOUS
  <2> QED
    BY <2>1, <2>2
<1>6. ScheduledSupply = CHOOSE f : Accumulates(f)
  BY DEF ScheduledSupply
<1>7. Accumulates(ScheduledSupply)
  <2> HIDE DEF Accumulates
  <2> QED BY <1>5, <1>6
<1>8. \A f : Accumulates(f) =>
               f[0] = start /\ \A h \in Nat : f[h + 1] = f[h] + HalvingInterval * Halved[h]
  <2> HIDE DEF start
  <2>1. SUFFICES ASSUME NEW f, Accumulates(f), NEW h \in Nat
                 PROVE  f[0] = start /\ f[h + 1] = f[h] + HalvingInterval * Halved[h]
    OBVIOUS
  <2>2. f[0] = start
    BY <2>1
  <2>3. h + 1 \in Nat /\ h + 1 # 0 /\ (h + 1) - 1 = h
    OBVIOUS
  <2>4. f[h + 1] = f[(h + 1) - 1] + HalvingInterval * Halved[(h + 1) - 1]
    BY <2>1, <2>3
  <2> QED
    BY <2>2, <2>3, <2>4
<1>9. /\ ScheduledSupply[0] = start
      /\ \A h \in Nat : ScheduledSupply[h + 1] = ScheduledSupply[h] + HalvingInterval * Halved[h]
  <2> HIDE DEF Accumulates, start
  <2> QED BY <1>7, <1>8
<1> DEFINE H == {h \in Nat : ScheduledSupply[h] \in Int}
<1>10. Nat \subseteq H
  <2>1. 0 \in H
    BY <1>1, <1>9
  <2>2. ASSUME NEW h \in Nat, h \in H PROVE h + 1 \in H
    BY <1>2, <1>9, <2>2
  <2> HIDE DEF H
  <2> QED
    BY <2>1, <2>2, NatSetInduction
<1> QED
  BY <1>9, <1>10

-----------------------------------------------------------------------------
(* The interval that a block lies in, and how the next block leaves it.      *)
LEMMA NextInterval ==
    ASSUME NEW d \in Nat \ {0}, NEW n \in Nat
    PROVE  LET h == n \div d IN
           /\ h \in Nat /\ h * d <= n /\ n < h * d + d
           /\ IF n + 1 = h * d + d THEN (n + 1) \div d = h + 1 ELSE (n + 1) \div d = h
<1> DEFINE h == n \div d
           k == (n + 1) \div d
<1>1. h \in Nat /\ h * d <= n /\ n < h * d + d
  BY QuotientBounds
<1>2. k \in Nat /\ k * d <= n + 1 /\ n + 1 < k * d + d
  BY QuotientBounds
<1>3. \A q \in Nat : q * d <= n + 1 <=> q <= k
  BY ProductFits
<1> HIDE DEF h, k
<1>4. (h + 1) * d = h * d + d /\ (h + 2) * d = h * d + d + d /\ h * d \in Nat
  BY <1>1
<1>5. h <= k /\ k <= h + 1
  <2>1. h <= k
    BY <1>1, <1>3
  <2>2. ~(h + 2 <= k)
    BY <1>1, <1>3, <1>4
  <2> QED
    BY <1>1, <1>2, <2>1, <2>2
<1>6. h + 1 <= k <=> n + 1 = h * d + d
  BY <1>1, <1>3, <1>4
<1>7. IF n + 1 = h * d + d THEN k = h + 1 ELSE k = h
  BY <1>1, <1>2, <1>5, <1>6
<1> QED
  BY <1>1, <1>7 DEF h, k

LEMMA IssuanceIsHalved ==
    ASSUME WithinShiftWidth, NEW n \in 0 .. LastBlock
    PROVE  IssuanceAt(n) = Halved[n \div HalvingInterval]
<1> DEFINE d == HalvingInterval
           h == n \div d
<1>1. d \in Nat \ {0} /\ ShiftWidth \in Nat \ {0} /\ CutOff \in Nat /\ n \in Nat
  BY IssuanceAssumption
<1>2. h \in Nat /\ d * h <= n
  BY <1>1, QuotientBounds
<1> HIDE DEF h
<1>3. h < ShiftWidth
  <2>1. SUFFICES ASSUME ShiftWidth <= h PROVE FALSE
    BY <1>1, <1>2
  <2>2. d * ShiftWidth <= d * h
    BY <1>1, <1>2, <2>1, ProductGrows
  <2>3. d * ShiftWidth \in Nat /\ d * h \in Nat /\ n < d * ShiftWidth
    BY <1>1, <1>2, LastBlockAssumption DEF WithinShiftWidth
  <2> QED
    BY <1>1, <1>2, <2>2, <2>3
<1>4. ~(h >= CutOff) /\ h % ShiftWidth = h
  BY <1>1, <1>2, <1>3 DEF WithinShiftWidth
<1> QED
  BY <1>4 DEF IssuanceAt, ShiftedIssuance, h

LEMMA IssuanceIsNat == ASSUME NEW n \in Nat PROVE IssuanceAt(n) \in Nat
<1> DEFINE h == n \div HalvingInterval
<1>1. h \in Nat
  BY IssuanceAssumption, QuotientBounds
<1> HIDE DEF h
<1>2. h % ShiftWidth \in Nat
  BY <1>1, IssuanceAssumption
<1>3. ShiftedIssuance(h) \in Nat
  BY <1>2, HalvedUnfolds DEF ShiftedIssuance
<1> QED
  BY <1>3 DEF IssuanceAt, h

(* A chain mints what the schedule says, in any number of blocks: the        *)
(* issuance is a natural number, whatever the width of the shift.            *)
THEOREM ScheduleTypeCorrect == Spec => []ScheduleTypeOK
<1>1. Init => ScheduleTypeOK
  BY LastBlockAssumption DEF Init, ScheduleTypeOK
<1>2. ScheduleTypeOK /\ [Next]_scheduleVars => ScheduleTypeOK'
  <2> SUFFICES ASSUME ScheduleTypeOK, [Next]_scheduleVars PROVE ScheduleTypeOK'
    OBVIOUS
  <2>1. CASE MintBlock
    <3>1. block + 1 \in Nat /\ block + 1 \in 0 .. LastBlock
      BY <2>1, LastBlockAssumption DEF ScheduleTypeOK, MintBlock
    <3> QED
      BY <2>1, <3>1, IssuanceIsNat DEF ScheduleTypeOK, MintBlock
  <2>2. CASE UNCHANGED scheduleVars
    BY <2>2 DEF ScheduleTypeOK, scheduleVars
  <2> QED
    BY <2>1, <2>2 DEF Next
<1> QED
  BY <1>1, <1>2, PTL DEF Spec

(* The issuance is that of the intervals that are over, and of the blocks of *)
(* the interval that the next block lies in.                                 *)
PartlyScheduled ==
    LET n == block + 1
        h == n \div HalvingInterval
    IN  minted = ScheduledSupply[h] + (n - h * HalvingInterval) * Halved[h]

ScheduleInv == ScheduleTypeOK /\ PartlyScheduled

LEMMA ScheduleStart == Init => ScheduleInv
<1> SUFFICES ASSUME Init PROVE PartlyScheduled
  BY LastBlockAssumption DEF Init, ScheduleInv, ScheduleTypeOK
<1> DEFINE d == HalvingInterval
           i == InitialIssuance
           q == 1 \div d
<1>1. d \in Nat \ {0} /\ i \in Nat
  BY IssuanceAssumption
<1>2. q \in Nat /\ q * d <= 1 /\ 1 < q * d + d
  BY <1>1, QuotientBounds
<1>3. ScheduledSupply[0] = -i /\ Halved[0] = i
  BY ScheduleUnfolds, HalvedUnfolds
<1>4. 0 = ScheduledSupply[q] + (1 - q * d) * Halved[q]
  <2>1. CASE d = 1
    <3>1. q = 1 /\ 1 - q * d = 0
      BY <1>1, <1>2, <2>1
    <3>2. ScheduledSupply[0 + 1] = ScheduledSupply[0] + d * Halved[0] /\ Halved[0 + 1] \in Nat
      BY ScheduleUnfolds, HalvedUnfolds
    <3>3. d * i = i /\ -i + i = 0
      BY <1>1, <2>1
    <3>4. ScheduledSupply[1] = 0 /\ Halved[1] \in Nat
      BY <1>3, <3>2, <3>3
    <3> HIDE DEF d, i, q
    <3> QED
      BY <3>1, <3>4
  <2>2. CASE d # 1
    <3>1. q = 0
      <4> HIDE DEF q
      <4>1. SUFFICES ASSUME q >= 1 PROVE FALSE
        BY <1>2
      <4>2. d * 1 <= d * q
        BY <1>1, <1>2, <4>1, ProductGrows
      <4>3. d * 1 = d /\ d * q = q * d
        BY <1>1, <1>2
      <4> QED
        BY <1>1, <1>2, <2>2, <4>2, <4>3
    <3>2. 1 - q * d = 1 /\ (1 - q * d) * i = i
      BY <1>1, <3>1
    <3>3. -i + i = 0
      BY <1>1
    <3> HIDE DEF d, i, q
    <3> QED
      BY <1>3, <3>1, <3>2, <3>3
  <2> QED
    BY <2>1, <2>2
<1>5. minted = 0 /\ block + 1 = 1
  BY DEF Init
<1> QED
  BY <1>4, <1>5 DEF PartlyScheduled

LEMMA ScheduleStep == WithinShiftWidth /\ ScheduleInv /\ [Next]_scheduleVars => ScheduleInv'
<1> SUFFICES ASSUME WithinShiftWidth, ScheduleInv, [Next]_scheduleVars PROVE ScheduleInv'
  OBVIOUS
<1>1. CASE UNCHANGED scheduleVars
  BY <1>1 DEF ScheduleInv, ScheduleTypeOK, PartlyScheduled, scheduleVars
<1>2. CASE MintBlock
  <2> DEFINE d == HalvingInterval
             n == block + 1
             h == n \div d
             j == (n + 1) \div d
             u == ScheduledSupply[h]
             v == Halved[h]
  <2>1. n \in 0 .. LastBlock /\ n \in Nat /\ d \in Nat \ {0} /\ block' = n
    BY <1>2, IssuanceAssumption, LastBlockAssumption
       DEF MintBlock, ScheduleInv, ScheduleTypeOK
  <2>2. /\ h \in Nat
        /\ IF n + 1 = h * d + d THEN j = h + 1 ELSE j = h
    BY <2>1, NextInterval
  <2>3. minted = u + (n - h * d) * v /\ minted' = minted + v
    BY <1>2, <2>1, IssuanceIsHalved DEF MintBlock, ScheduleInv, PartlyScheduled
  <2>4. minted' \in Nat
    BY <1>2, <2>1, IssuanceIsNat DEF MintBlock, ScheduleInv, ScheduleTypeOK
  <2> HIDE DEF n, h, j, d
  <2>5. u \in Int /\ v \in Nat /\ ScheduledSupply[h + 1] = u + d * v /\ Halved[h + 1] \in Nat
    BY <2>2, ScheduleUnfolds, HalvedUnfolds DEF d
  <2>6. minted' = u + ((n + 1) - h * d) * v
    <3> HIDE DEF u, v
    <3>1. h * d \in Nat
      BY <2>1, <2>2
    <3>2. ((n + 1) - h * d) * v = (n - h * d) * v + v /\ (n - h * d) * v \in Int
      BY <2>1, <2>5, <3>1
    <3> QED
      BY <2>3, <2>5, <3>2
  <2>7. minted' = ScheduledSupply[j] + ((n + 1) - j * d) * Halved[j]
    <3>1. CASE n + 1 = h * d + d
      <4>1. j = h + 1 /\ j * d = h * d + d /\ (n + 1) - j * d = 0 /\ (n + 1) - h * d = d
        BY <2>1, <2>2, <3>1
      <4>2. minted' = u + d * v
        BY <2>6, <4>1
      <4>3. 0 * Halved[j] = 0 /\ u + d * v + 0 = u + d * v
        BY <2>1, <2>5, <4>1
      <4> HIDE DEF u, v
      <4> QED
        BY <2>5, <4>1, <4>2, <4>3
    <3>2. CASE n + 1 # h * d + d
      BY <2>2, <2>6, <3>2
    <3> QED
      BY <3>1, <3>2
  <2> QED
    BY <2>1, <2>4, <2>7 DEF ScheduleInv, ScheduleTypeOK, PartlyScheduled, n, j, d
<1> QED
  BY <1>1, <1>2 DEF Next

(* Within the width of the shift, whole intervals issue what the comments    *)
(* say: each issues half of the one before, rounded down.                    *)
THEOREM IssuesWhatIsScheduled ==
    ASSUME WithinShiftWidth PROVE Spec => []MatchesSchedule
<1>1. ScheduleInv => MatchesSchedule
  <2> SUFFICES ASSUME ScheduleInv, (block + 1) % HalvingInterval = 0
               PROVE  minted = ScheduledSupply[(block + 1) \div HalvingInterval]
    BY DEF MatchesSchedule
  <2> DEFINE d == HalvingInterval
             n == block + 1
             h == n \div d
  <2>1. n \in Nat /\ d \in Nat \ {0}
    BY IssuanceAssumption, LastBlockAssumption DEF ScheduleInv, ScheduleTypeOK
  <2>2. h \in Nat
    BY <2>1, QuotientBounds
  <2>3. n - h * d = 0
    <3>1. n = d * h + (n % d)
      <4>1. \A m \in Nat, e \in Nat \ {0} : m = e * (m \div e) + (m % e)
        OBVIOUS
      <4> HIDE DEF n, d
      <4> QED
        BY <2>1, <4>1
    <3>2. n % d = 0
      OBVIOUS
    <3> HIDE DEF h, n, d
    <3>3. h * d = d * h /\ h * d \in Nat
      BY <2>1, <2>2
    <3> QED
      BY <2>1, <3>2, <3>1, <3>3
  <2>4. ScheduledSupply[h] \in Int /\ Halved[h] \in Nat
    BY <2>2, ScheduleUnfolds, HalvedUnfolds
  <2>5. minted = ScheduledSupply[h] + (n - h * d) * Halved[h]
    BY DEF ScheduleInv, PartlyScheduled
  <2> HIDE DEF n, d, h
  <2>6. minted = ScheduledSupply[h]
    BY <2>3, <2>4, <2>5
  <2> QED
    BY <2>6 DEF n, d, h
<1> QED
  BY <1>1, ScheduleStart, ScheduleStep, PTL DEF Spec

(* From CutOff halvings on a block issues nothing, whatever the shift does.  *)
NothingFromCutOff == block >= HalvingInterval * CutOff => IssuanceAt(block) = 0

(* The check in front of the shift ends the issuance for good.               *)
THEOREM IssuanceEnds == Spec => []NothingFromCutOff
<1>1. ScheduleTypeOK => NothingFromCutOff
  <2> SUFFICES ASSUME block \in Nat, block >= HalvingInterval * CutOff
               PROVE  IssuanceAt(block) = 0
    BY LastBlockAssumption DEF ScheduleTypeOK, NothingFromCutOff
  <2>1. CutOff * HalvingInterval <= block
    BY IssuanceAssumption
  <2>2. CutOff <= block \div HalvingInterval
    BY <2>1, IssuanceAssumption, ProductFits
  <2> QED
    BY <2>2 DEF IssuanceAt
<1> QED
  BY <1>1, ScheduleTypeCorrect, PTL

(* "Force block reward to zero when right shift is undefined" compares with  *)
(* a number above the width of the shifted integer: at as many halvings as   *)
(* the integer has bits the issuance is that of the first block again, for   *)
(* any interval and any initial issuance.                                    *)
THEOREM IssuanceRestarts ==
    ASSUME ShiftWidth < CutOff
    PROVE  IssuanceAt(HalvingInterval * ShiftWidth) = InitialIssuance
<1> DEFINE d == HalvingInterval
           h == (d * ShiftWidth) \div d
<1>1. d \in Nat \ {0} /\ ShiftWidth \in Nat \ {0} /\ CutOff \in Nat
  BY IssuanceAssumption
<1>2. h = ShiftWidth
  <2>1. d * ShiftWidth \in Nat /\ d * ShiftWidth = ShiftWidth * d
    BY <1>1
  <2>2. h \in Nat /\ h * d <= d * ShiftWidth
    BY <1>1, <2>1, QuotientBounds
  <2>3. ShiftWidth <= h
    BY <1>1, <2>1, ProductFits
  <2> HIDE DEF h
  <2>4. ~(ShiftWidth + 1 <= h)
    <3>1. SUFFICES ASSUME ShiftWidth + 1 <= h PROVE FALSE
      OBVIOUS
    <3>2. d * (ShiftWidth + 1) <= d * h
      BY <1>1, <2>2, <3>1, ProductGrows
    <3>3. d * (ShiftWidth + 1) = d * ShiftWidth + d /\ d * h = h * d
      BY <1>1, <2>2
    <3> QED
      BY <1>1, <2>1, <2>2, <3>2, <3>3
  <2> QED
    BY <1>1, <2>2, <2>3, <2>4
<1> HIDE DEF h
<1>3. ~(h >= CutOff) /\ h % ShiftWidth = 0
  BY <1>1, <1>2
<1> QED
  BY <1>3, HalvedUnfolds DEF IssuanceAt, ShiftedIssuance, h

===============================================================================
