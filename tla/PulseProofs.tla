---------------------------- MODULE PulseProofs ----------------------------
(***************************************************************************)
(* Proofs about what becomes pulses, and where they go: Interpolation (I   *)
(* of MCParts), Jog (J), HandWheel (H) and AxisOutputs (A), for any        *)
(* constants that meet Slow, Debounced, Spaced and Sized.                  *)
(*                                                                         *)
(* Interpolation.  What has been added to the accumulator since the block  *)
(* began is what is in it and CLOCKS for every pulse it made (Made); a     *)
(* clock goes by with each of both.  The pulses counted and those on their *)
(* way to the counter (Rises) are those made.                              *)
(*                                                                         *)
(* Jog.  An axis reaches a switch with a pulse, which sets the counter of  *)
(* its direction to 0; from then on that counter runs no faster than the   *)
(* one that debounces the switch.                                          *)
(*                                                                         *)
(* HandWheel.  The pulses owed are those of the words that wait and the    *)
(* rest of the one being made; a word follows another late enough for the  *)
(* divider to have the first quotient.                                     *)
(*                                                                         *)
(* AxisOutputs.  While the magazine turns of itself, with no command in    *)
(* force, its target is what was last asked for.                           *)
(***************************************************************************)
EXTENDS MCParts, SequenceTheorems, FiniteSetTheorems, TLAPS

-----------------------------------------------------------------------------
(* Interpolation                                                           *)

LEMMA Less ==
  ASSUME NEW a \in Nat, NEW b \in Nat, NEW n \in Nat, a <= b
  PROVE  a * n <= b * n /\ a * n \in Nat /\ b * n \in Nat
<1>1. PICK d \in Nat : b = a + d
  <2>1. b - a \in Nat /\ b = a + (b - a) OBVIOUS
  <2>2. QED BY <2>1
<1>2. d * n \in Nat /\ a * n \in Nat OBVIOUS
<1>3. b * n = a * n + d * n BY <1>1
<1>4. QED BY <1>2, <1>3

LEMMA HalfClocks == 
  /\ CLOCKS \div 2 \in Nat /\ CLOCKS \div 2 >= 4 /\ 2 * (CLOCKS \div 2) <= CLOCKS
  BY InterpolationAssumption DEF I!Slow

LEMMA DataSmall ==
  /\ MaxData \in Nat /\ MaxData * MaxData \in Nat
  /\ MaxData * (MaxData + 2) = MaxData * MaxData + 2 * MaxData
  /\ MaxData * MaxData + 2 * MaxData < CLOCKS \div 2
  /\ 2 * MaxData < CLOCKS \div 2
<1>1. MaxData \in Nat /\ MaxData * (MaxData + 2) < CLOCKS \div 2
  BY InterpolationAssumption DEF I!Slow
<1>2. MaxData * MaxData \in Nat BY <1>1
<1>3. MaxData * (MaxData + 2) = MaxData * MaxData + 2 * MaxData BY <1>1
<1>4. QED BY <1>1, <1>2, <1>3, HalfClocks

LEMMA Rest ==
  ASSUME NEW m \in Nat, m > 0, NEW a \in (1 - m)..(m - 1)
  PROVE  a % m = IF a >= 0 THEN a ELSE a + m
<1>1. CASE a >= 0 BY <1>1
<1>2. CASE a < 0 
  <2>1. a + m \in 0..(m-1) BY <1>2
  <2>2. a % m = (a + m) % m BY <1>2
  <2>3. QED BY <1>2, <2>1, <2>2
<1>3. QED BY <1>1, <1>2

-----------------------------------------------------------------------------
half == CLOCKS \div 2
Bit(b) == IF b THEN 1 ELSE 0

\* The pulses of a block: those counted since the last Settled, and those on their way.
Counted == (card_count - base) % CountModulus
Rises == Counted + Bit(plus_t /\ ~plus_tt) + Bit(i_q /\ ~plus_t)

\* The pulses of the block before are still being counted.
Early == ~clk_flag /\ clk_num <= 2

\* The clocks of the block.
Spent == IF clk_flag THEN I!CLK_DELAY ELSE clk_num

\* The accumulator, after m data have been added and CLOCKS taken off k times.
Made(taken, m) ==
  /\ lo * m <= i_sum + taken * CLOCKS /\ i_sum + taken * CLOCKS <= hi * m
  /\ m + taken <= Spent /\ Spent <= m + taken + 1

FlowInv ==
  /\ clk_flag => clk_num = 0
  /\ i_q => i_sum >= half
  /\ ~i_q => i_sum < half + MaxData
  /\ Early => ~i_q
  /\ Early /\ clk_num = 0 => i_sum = 0
  /\ Early /\ clk_num = 1 => i_sum <= MaxData
  /\ Early /\ clk_num = 2 => i_sum <= 2 * MaxData /\ ~plus_t

BlockInv ==
  \E taken, m \in Nat :
    /\ Made(taken, m)
    /\ Early => taken = 0
    /\ ~Early => Rises <= taken + Bit(i_q) /\ (lo = 0 \/ Rises = taken + Bit(i_q))

CountInv == Early => last.lo <= Rises /\ Rises <= last.hi

PulseType ==
  /\ i_valid \in BOOLEAN /\ fifo31_empty \in BOOLEAN /\ i_clkout \in BOOLEAN
  /\ clk_flag \in BOOLEAN /\ i_q \in BOOLEAN /\ plus_t \in BOOLEAN /\ plus_tt \in BOOLEAN
  /\ i_counter \in 0..CLOCKS /\ clk_num \in 0..(CLOCKS - 2)
  /\ word \in 0..MaxData /\ data_x \in 0..MaxData /\ data_reg \in 0..MaxData
  /\ lo \in 0..MaxData /\ hi \in 0..MaxData
  /\ i_sum \in 0..(CLOCKS + MaxData - 1)
  /\ card_count \in 0..(CountModulus - 1) /\ base \in 0..(CountModulus - 1)
  /\ last \in [lo : 0..MaxData, hi : 0..MaxData]

PulseInv == PulseType /\ FlowInv /\ BlockInv /\ CountInv

ConstantTypes == CLOCKS \in Nat /\ CLOCKS >= 8 /\ MaxData \in Nat /\ CountModulus \in Nat /\ MaxData < CountModulus
LEMMA ConstantsAre == ConstantTypes BY InterpolationAssumption DEF I!Slow, ConstantTypes

LEMMA HalfIs == half \in Nat /\ half >= 4 /\ 2 * half <= CLOCKS /\ 2 * MaxData < half
  BY HalfClocks, DataSmall DEF half

LEMMA Bits == \A b : Bit(b) \in {0, 1} /\ (b => Bit(b) = 1) /\ (~b => Bit(b) = 0) BY DEF Bit

LEMMA Difference ==
  ASSUME NEW n \in 0..(CountModulus - 1), NEW b \in 0..(CountModulus - 1)
  PROVE  /\ (n - b) % CountModulus \in Nat
         /\ (n - b) % CountModulus = IF n >= b THEN n - b ELSE n - b + CountModulus
<1>1. CountModulus \in Nat /\ CountModulus > 0 BY ConstantsAre DEF ConstantTypes
<1> DEFINE d == n - b
<1>2. d \in (1 - CountModulus)..(CountModulus - 1) BY <1>1
<1>3. d % CountModulus = IF d >= 0 THEN d ELSE d + CountModulus BY <1>1, <1>2, Rest
<1>4. (n - b) % CountModulus = IF n >= b THEN n - b ELSE n - b + CountModulus BY <1>3
<1>5. QED BY <1>1, <1>4

LEMMA CountedIs ==
  ASSUME PulseType
  PROVE  /\ Counted \in Nat /\ Rises \in Nat
         /\ Counted = IF card_count >= base THEN card_count - base ELSE card_count - base + CountModulus
<1>1. CountModulus \in Nat /\ CountModulus > 0 BY ConstantsAre DEF ConstantTypes
<1>2. card_count \in 0..(CountModulus - 1) /\ base \in 0..(CountModulus - 1) BY DEF PulseType
<1> DEFINE d == card_count - base
<1>3. d \in (1 - CountModulus)..(CountModulus - 1) BY <1>1, <1>2
<1>4. d % CountModulus = IF d >= 0 THEN d ELSE d + CountModulus BY <1>1, <1>3, Rest
<1>5. Counted = IF card_count >= base THEN card_count - base ELSE card_count - base + CountModulus
  BY <1>2, <1>4 DEF Counted
<1>6. Counted \in Nat BY <1>1, <1>2, <1>5
<1>7. QED BY <1>5, <1>6, Bits DEF Rises

\* No more pulses than the greatest of the data.
LEMMA NoMore ==
  ASSUME PulseType, FlowInv, NEW taken \in Nat, NEW m \in Nat, Made(taken, m)
  PROVE  taken + Bit(i_q) <= hi
<1>1. /\ CLOCKS \in Nat /\ CLOCKS >= 8 /\ hi \in Nat /\ i_sum \in Nat /\ m <= CLOCKS
      /\ i_sum + taken * CLOCKS <= hi * m
  BY ConstantsAre DEF ConstantTypes, PulseType, Made, Spent, I!CLK_DELAY
<1>2. hi * m <= hi * CLOCKS
  <2>1. m * hi <= CLOCKS * hi BY <1>1, Less
  <2>2. hi * m = m * hi /\ hi * CLOCKS = CLOCKS * hi BY <1>1
  <2>3. QED BY <2>1, <2>2
<1>3. CASE i_q
  <2>1. i_sum >= 4 BY <1>3, <1>1, HalfIs DEF FlowInv
  <2>0. Bit(i_q) = 1 BY <1>3, Bits
  <2>2. SUFFICES ASSUME taken >= hi PROVE FALSE BY <1>1, <2>0
  <2>3. hi * CLOCKS <= taken * CLOCKS /\ hi * CLOCKS \in Nat /\ taken * CLOCKS \in Nat
    BY <1>1, <2>2, Less
  <2>4. hi * m \in Nat BY <1>1
  <2>5. QED BY <1>1, <1>2, <2>1, <2>3, <2>4
<1>4. CASE ~i_q
  <2>1. SUFFICES ASSUME taken >= hi + 1 PROVE FALSE BY <1>1, <1>4, Bits
  <2>2. hi + 1 \in Nat BY <1>1
  <2>3. (hi + 1) * CLOCKS <= taken * CLOCKS /\ taken * CLOCKS \in Nat BY <1>1, <2>1, <2>2, Less
  <2>4. (hi + 1) * CLOCKS = hi * CLOCKS + CLOCKS BY <1>1
  <2>5. hi * m \in Nat /\ hi * CLOCKS \in Nat BY <1>1
  <2>6. QED BY <1>1, <1>2, <2>3, <2>4, <2>5
<1>5. QED BY <1>3, <1>4

\* And, at the end of a block, no fewer than the least.
LEMMA NoFewer ==
  ASSUME PulseType, FlowInv, clk_flag, NEW taken \in Nat, NEW m \in Nat, Made(taken, m)
  PROVE  lo <= taken + Bit(i_q)
<1>1. /\ CLOCKS \in Nat /\ CLOCKS >= 8 /\ lo \in Nat /\ lo <= MaxData /\ MaxData \in Nat
      /\ i_sum \in Nat /\ i_sum <= CLOCKS + MaxData - 1
      /\ lo * m <= i_sum + taken * CLOCKS /\ CLOCKS - 2 <= m + taken
  BY ConstantsAre DEF ConstantTypes, PulseType, Made, Spent, I!CLK_DELAY
<1>2. SUFFICES ASSUME lo > taken + Bit(i_q) PROVE FALSE BY <1>1, Bits
<1>3. taken < lo /\ lo >= 1 BY <1>1, <1>2, Bits
<1> DEFINE n == CLOCKS - 2 - taken
<1>4. n \in Nat /\ n <= m BY <1>1, <1>3, HalfIs
<1>5. lo * n <= lo * m /\ lo * n \in Nat /\ lo * m \in Nat
  <2>1. n * lo <= m * lo BY <1>1, <1>4, Less
  <2>2. n * lo = lo * n /\ m * lo = lo * m BY <1>1, <1>4
  <2>3. QED BY <1>1, <1>4, <2>1, <2>2
<1>6. lo * n = lo * CLOCKS - lo * (2 + taken) BY <1>1
<1>7. lo * (2 + taken) <= MaxData * MaxData + MaxData
  <2>1. lo * (2 + taken) <= MaxData * (2 + taken) BY <1>1, Less
  <2>2. 2 + taken <= MaxData + 1 BY <1>1, <1>3
  <2>3. (2 + taken) * MaxData <= (MaxData + 1) * MaxData
    <3>1. 2 + taken \in Nat /\ MaxData + 1 \in Nat BY <1>1
    <3>2. QED BY <1>1, <2>2, <3>1, Less
  <2>4. (2 + taken) * MaxData = MaxData * (2 + taken) /\ (MaxData + 1) * MaxData = MaxData * MaxData + MaxData
    BY <1>1
  <2>5. lo * (2 + taken) \in Nat /\ MaxData * (2 + taken) \in Nat /\ MaxData * MaxData \in Nat
    BY <1>1
  <2>6. QED BY <1>1, <2>1, <2>3, <2>4, <2>5
<1>8. lo * CLOCKS \in Nat /\ taken * CLOCKS \in Nat /\ lo * (2 + taken) \in Nat /\ MaxData * MaxData \in Nat
  BY <1>1
<1>9. lo * CLOCKS - (MaxData * MaxData + MaxData) <= i_sum + taken * CLOCKS
  BY <1>1, <1>5, <1>6, <1>7, <1>8
<1>10. CASE i_q
  <2>0. Bit(i_q) = 1 BY <1>10, Bits
  <2>1. taken + 2 <= lo /\ taken + 2 \in Nat BY <1>1, <1>2, <2>0
  <2>2. (taken + 2) * CLOCKS <= lo * CLOCKS BY <1>1, <2>1, Less
  <2>3. (taken + 2) * CLOCKS = taken * CLOCKS + 2 * CLOCKS BY <1>1
  <2>4. QED BY <1>1, <1>8, <1>9, <2>2, <2>3, DataSmall, HalfIs DEF half
<1>11. CASE ~i_q
  <2>1. taken + 1 <= lo /\ taken + 1 \in Nat BY <1>1, <1>3
  <2>2. (taken + 1) * CLOCKS <= lo * CLOCKS BY <1>1, <2>1, Less
  <2>3. (taken + 1) * CLOCKS = taken * CLOCKS + CLOCKS BY <1>1
  <2>4. i_sum < half + MaxData BY <1>11 DEF FlowInv
  <2>5. QED BY <1>1, <1>8, <1>9, <2>2, <2>3, <2>4, DataSmall, HalfIs DEF half
<1>12. QED BY <1>10, <1>11

LEMMA RisesBounded ==
  ASSUME PulseInv
  PROVE  Rises <= MaxData
<1>1. CASE Early
  <2>1. Rises <= last.hi BY <1>1 DEF PulseInv, CountInv
  <2>2. last.hi \in Nat /\ last.hi <= MaxData
    BY ConstantsAre DEF PulseInv, PulseType, ConstantTypes
  <2>3. QED BY <2>1, <2>2, CountedIs, ConstantsAre DEF PulseInv, ConstantTypes
<1>2. CASE ~Early
  <2>1. PICK taken \in Nat, m \in Nat : Made(taken, m) /\ Rises <= taken + Bit(i_q)
    BY <1>2 DEF PulseInv, BlockInv
  <2>2. taken + Bit(i_q) <= hi BY <2>1, NoMore DEF PulseInv
  <2>3. hi \in Nat /\ hi <= MaxData BY ConstantsAre DEF PulseInv, PulseType, ConstantTypes
  <2>4. QED BY <2>1, <2>2, <2>3, Bits, CountedIs, ConstantsAre DEF PulseInv, ConstantTypes
<1>3. QED BY <1>1, <1>2

Least3(renew) == I!Least(renew, IF data_reg < lo THEN data_reg ELSE lo)
Greatest == IF data_reg > hi THEN data_reg ELSE hi

Clock(renew) ==
  I!clk_2ms /\ I!dda /\ I!interpolation /\ I!pctocard_count(renew) /\ I!history(renew)

LEMMA PulseTypes ==
  ASSUME PulseInv, NEW renew \in BOOLEAN, Clock(renew), i_valid' \in BOOLEAN,
         fifo31_empty' = fifo31_empty
  PROVE  PulseType'
<1>0. PulseType /\ FlowInv /\ ConstantTypes BY ConstantsAre DEF PulseInv
<1>1. CLOCKS \in Nat /\ CLOCKS >= 8 /\ MaxData \in Nat /\ CountModulus \in Nat /\ CountModulus > 0
  BY <1>0 DEF ConstantTypes
<1>2. i_clkout' \in BOOLEAN /\ i_counter' \in 0..CLOCKS /\ word' \in 0..MaxData
  <2>1. i_clkout' \in BOOLEAN BY DEF Clock, I!clk_2ms
  <2>2. i_counter' \in 0..CLOCKS
    <3>1. i_counter \in 0..CLOCKS BY <1>0 DEF PulseType
    <3>2. i_counter' = (IF i_valid /\ i_counter < CLOCKS THEN i_counter + 1 ELSE 0)
      BY DEF Clock, I!clk_2ms
    <3>3. QED BY <1>1, <3>1, <3>2
  <2>3. word' \in 0..MaxData BY <1>0 DEF Clock, I!clk_2ms, PulseType
  <2>4. QED BY <2>1, <2>2, <2>3
<1>3. data_x' \in 0..MaxData BY <1>0, <1>1 DEF Clock, I!dda, I!dataout, PulseType
<1>4. data_reg' \in 0..MaxData BY <1>0, <1>1 DEF Clock, I!interpolation, PulseType
<1>5. clk_flag' \in BOOLEAN /\ i_q' \in BOOLEAN BY DEF Clock, I!interpolation, I!Pulse
<1>6. clk_num' \in 0..(CLOCKS - 2)
  <2>1. clk_num \in 0..(CLOCKS - 2) BY <1>0 DEF PulseType
  <2>2. clk_num' = (IF i_valid /\ clk_num # CLOCKS - 1 - 1 THEN clk_num + 1 ELSE 0)
    BY DEF Clock, I!interpolation, I!CLK_DELAY
  <2>3. QED BY <1>1, <2>1, <2>2
<1>7. i_sum' \in 0..(CLOCKS + MaxData - 1)
  <2>1. i_sum \in 0..(CLOCKS + MaxData - 1) /\ data_reg \in 0..MaxData BY <1>0 DEF PulseType
  <2>2. i_sum' = I!Sum BY DEF Clock, I!interpolation
  <2>3. CASE ~i_valid \/ clk_flag BY <1>1, <2>2, <2>3 DEF I!Sum
  <2>4. CASE i_valid /\ ~clk_flag /\ i_sum >= CLOCKS
    <3>1. i_sum' = i_sum - CLOCKS BY <2>2, <2>4 DEF I!Sum
    <3>2. QED BY <1>1, <2>1, <2>4, <3>1
  <2>5. CASE i_valid /\ ~clk_flag /\ ~(i_sum >= CLOCKS)
    <3>1. i_sum' = i_sum + data_reg BY <2>2, <2>5 DEF I!Sum
    <3>2. QED BY <1>1, <2>1, <2>5, <3>1
  <2>6. QED BY <2>3, <2>4, <2>5
<1>8. plus_t' \in BOOLEAN /\ plus_tt' \in BOOLEAN BY <1>0 DEF Clock, I!pctocard_count, PulseType
<1>9. card_count' \in 0..(CountModulus - 1)
  <2>1. card_count \in 0..(CountModulus - 1) BY <1>0 DEF PulseType
  <2>2. (card_count + 1) % CountModulus \in 0..(CountModulus - 1) BY <1>1, <2>1
  <2>3. QED BY <1>1, <2>1, <2>2 DEF Clock, I!pctocard_count
<1>10. base' \in 0..(CountModulus - 1) BY <1>0, <1>1 DEF Clock, I!history, PulseType
<1>11. lo' \in 0..MaxData /\ hi' \in 0..MaxData
  BY <1>0, <1>1 DEF Clock, I!history, PulseType, I!Least
<1>12. last' \in [lo : 0..MaxData, hi : 0..MaxData]
  BY <1>0, <1>1 DEF Clock, I!history, PulseType, I!Least, I!NoBlock
<1>13. QED
  BY <1>0, <1>2, <1>3, <1>4, <1>5, <1>6, <1>7, <1>8, <1>9, <1>10, <1>11, <1>12 DEF PulseType

\* The count one clock on.
LEMMA Counts ==
  ASSUME PulseInv, NEW renew \in BOOLEAN, Clock(renew), PulseType'
  PROVE  /\ Rises' \in Nat /\ Rises' <= Rises + Bit(i_q' /\ ~i_q)
         /\ ~renew /\ ~I!Settled => Rises' = Rises + Bit(i_q' /\ ~i_q)
         /\ I!Settled => Rises' = Bit(i_q' /\ ~i_q)
<1>0. PulseType /\ FlowInv /\ ConstantTypes BY ConstantsAre DEF PulseInv
<1>1. plus_t' = i_q /\ plus_tt' = plus_t BY DEF Clock, I!pctocard_count
<1>2. /\ i_q \in BOOLEAN /\ plus_t \in BOOLEAN /\ plus_tt \in BOOLEAN /\ i_q' \in BOOLEAN
      /\ card_count \in 0..(CountModulus - 1) /\ base \in 0..(CountModulus - 1)
      /\ CountModulus \in Nat /\ MaxData \in Nat /\ MaxData < CountModulus
  BY <1>0 DEF PulseType, ConstantTypes
<1> DEFINE A1 == Bit(plus_t /\ ~plus_tt)
           A2 == Bit(i_q /\ ~plus_t)
           A3 == Bit(i_q' /\ ~i_q)
<1>3. Rises = Counted + A1 + A2 /\ A1 \in {0, 1} /\ A2 \in {0, 1} /\ A3 \in {0, 1}
  BY Bits DEF Rises
<1>4. Rises' = Counted' + A2 + A3
  <2>1. Rises' = Counted' + (IF plus_t' /\ ~plus_tt' THEN 1 ELSE 0) + (IF i_q' /\ ~plus_t' THEN 1 ELSE 0)
    BY DEF Rises, Bit
  <2>2. (IF plus_t' /\ ~plus_tt' THEN 1 ELSE 0) = A2 BY <1>1 DEF Bit
  <2>3. (IF i_q' /\ ~plus_t' THEN 1 ELSE 0) = A3 BY <1>1 DEF Bit
  <2>4. QED BY <2>1, <2>2, <2>3
<1>5. Counted \in Nat /\ Counted' \in Nat
  <2>1. Counted' \in Nat
    <3>1. card_count' \in 0..(CountModulus - 1) /\ base' \in 0..(CountModulus - 1)
      BY DEF PulseType
    <3>2. QED BY <3>1, Difference DEF Counted
  <2>2. QED BY <1>0, <2>1, CountedIs
<1>6. Counted = IF card_count >= base THEN card_count - base ELSE card_count - base + CountModulus
  BY <1>0, CountedIs
<1>7. Counted' = IF card_count' >= base' THEN card_count' - base' ELSE card_count' - base' + CountModulus
  <2>1. card_count' \in 0..(CountModulus - 1) /\ base' \in 0..(CountModulus - 1) BY DEF PulseType
  <2> DEFINE n == card_count'
             b == base'
  <2>2. n \in 0..(CountModulus - 1) /\ b \in 0..(CountModulus - 1) BY <2>1
  <2> HIDE DEF n, b
  <2>3. (n - b) % CountModulus = IF n >= b THEN n - b ELSE n - b + CountModulus
    BY <2>2, Difference
  <2>4. QED BY <2>3 DEF Counted, n, b
<1>8. /\ card_count' = IF renew THEN 0 ELSE IF plus_t /\ ~plus_tt THEN (card_count + 1) % CountModulus ELSE card_count
      /\ base' = IF renew THEN 0 ELSE IF I!Settled THEN card_count ELSE base
  BY DEF Clock, I!pctocard_count, I!plus_flag, I!history
<1>9. CASE renew
  <2>1. Counted' = 0 BY <1>2, <1>7, <1>8, <1>9
  <2>2. I!Settled => ~i_q BY <1>0, ConstantsAre DEF I!Settled, FlowInv, Early, ConstantTypes
  <2>3. I!Settled => A2 = 0 BY <2>2, Bits
  <2>4. QED BY <1>3, <1>4, <1>5, <1>9, <2>1, <2>3
<1>10. CASE ~renew /\ I!Settled
  <2>1. ~i_q /\ ~plus_t BY <1>0, <1>10, ConstantsAre DEF I!Settled, FlowInv, Early, ConstantTypes
  <2>2. A1 = 0 /\ A2 = 0 BY <2>1, Bits
  <2>3. card_count' = card_count /\ base' = card_count BY <1>8, <1>10, <2>1
  <2>4. Counted' = 0 BY <1>2, <1>7, <2>3
  <2>5. QED BY <1>3, <1>4, <1>5, <1>10, <2>2, <2>4
<1>11. CASE ~renew /\ ~I!Settled /\ ~(plus_t /\ ~plus_tt)
  <2>1. A1 = 0 BY <1>11, Bits
  <2>2. card_count' = card_count /\ base' = base BY <1>8, <1>11
  <2>3. Counted' = Counted BY <2>2 DEF Counted
  <2>4. QED BY <1>3, <1>4, <1>5, <1>11, <2>1, <2>3
<1>12. CASE ~renew /\ ~I!Settled /\ plus_t /\ ~plus_tt
  <2>1. A1 = 1 BY <1>12, Bits
  <2>2. card_count' = (card_count + 1) % CountModulus /\ base' = base BY <1>8, <1>12
  <2>3. Counted + 1 <= MaxData BY <1>2, <1>3, <1>5, <2>1, RisesBounded
  <2>4. (card_count + 1) % CountModulus = IF card_count + 1 = CountModulus THEN 0 ELSE card_count + 1
    BY <1>2
  <2>5. Counted' = Counted + 1
    <3>1. CASE card_count + 1 = CountModulus
      <4>1. card_count' = 0 BY <2>2, <2>4, <3>1
      <4>2. QED BY <1>2, <1>6, <1>7, <2>2, <2>3, <3>1, <4>1
    <3>2. CASE card_count + 1 # CountModulus
      <4>1. card_count' = card_count + 1 BY <2>2, <2>4, <3>2
      <4>2. QED BY <1>2, <1>6, <1>7, <2>2, <2>3, <3>2, <4>1
    <3>3. QED BY <3>1, <3>2
  <2>6. QED BY <1>3, <1>4, <1>5, <1>12, <2>1, <2>5
<1>13. QED BY <1>9, <1>10, <1>11, <1>12

\* One clock of interpolation.v: what it does to the accumulator.
LEMMA Accumulates ==
  ASSUME PulseInv, NEW renew \in BOOLEAN, Clock(renew), PulseType'
  PROVE  /\ ~i_valid \/ clk_flag => i_sum' = 0 /\ ~i_q'
         /\ i_valid /\ ~clk_flag /\ i_sum < CLOCKS =>
              i_sum' = i_sum + data_reg /\ (i_q' <=> i_sum >= half \/ i_q)
         /\ i_valid /\ ~clk_flag /\ i_sum >= CLOCKS => i_sum' = i_sum - CLOCKS /\ ~i_q' /\ i_q
         /\ ~i_valid => clk_num' = 0 /\ ~clk_flag'
         /\ i_valid /\ clk_num # CLOCKS - 2 => clk_num' = clk_num + 1 /\ ~clk_flag'
         /\ i_valid /\ clk_num = CLOCKS - 2 => clk_num' = 0 /\ clk_flag'
         /\ i_valid \in BOOLEAN /\ clk_flag \in BOOLEAN /\ i_q \in BOOLEAN /\ i_q' \in BOOLEAN /\ clk_flag' \in BOOLEAN
<1>0. PulseType /\ FlowInv /\ ConstantTypes BY ConstantsAre DEF PulseInv
<1>1. CLOCKS \in Nat /\ CLOCKS >= 8 /\ MaxData \in Nat /\ i_sum \in Nat /\ data_reg \in Nat
      /\ clk_num \in 0..(CLOCKS - 2)
  BY <1>0 DEF ConstantTypes, PulseType
<1>2. i_sum' = I!Sum /\ (i_q' <=> I!Pulse) BY DEF Clock, I!interpolation
<1>3. /\ clk_flag' <=> (i_valid /\ clk_num = CLOCKS - 2)
      /\ clk_num' = IF i_valid /\ clk_num # CLOCKS - 2 THEN clk_num + 1 ELSE 0
  <2>1. I!CLK_DELAY - 1 = CLOCKS - 2 BY <1>1 DEF I!CLK_DELAY
  <2>2. QED BY <2>1 DEF Clock, I!interpolation
<1>4. ~i_valid \/ clk_flag => i_sum' = 0 /\ ~i_q' BY <1>2 DEF I!Sum, I!Pulse
<1>5. ASSUME i_valid, ~clk_flag, i_sum < CLOCKS
      PROVE  i_sum' = i_sum + data_reg /\ (i_q' <=> i_sum >= half \/ i_q)
  <2>1. ~(i_sum >= CLOCKS) BY <1>1, <1>5
  <2>2. i_sum' = i_sum + data_reg BY <1>2, <1>5, <2>1 DEF I!Sum
  <2>3. QED BY <1>2, <1>5, <2>2 DEF I!Pulse, half
<1>6. ASSUME i_valid, ~clk_flag, i_sum >= CLOCKS
      PROVE  i_sum' = i_sum - CLOCKS /\ ~i_q' /\ i_q
  <2>1. ~(i_sum < CLOCKS) BY <1>1, <1>6
  <2>2. i_q BY <1>0, <1>1, <1>6, HalfIs DEF FlowInv
  <2>3. QED BY <1>2, <1>6, <2>1, <2>2 DEF I!Sum, I!Pulse
<1>7. i_valid \in BOOLEAN /\ clk_flag \in BOOLEAN /\ i_q \in BOOLEAN /\ i_q' \in BOOLEAN /\ clk_flag' \in BOOLEAN
  BY <1>0 DEF PulseType
<1>8. QED BY <1>3, <1>4, <1>5, <1>6, <1>7

LEMMA Flows ==
  ASSUME PulseInv, NEW renew \in BOOLEAN, Clock(renew), PulseType'
  PROVE  FlowInv'
<1>0. PulseType /\ FlowInv /\ ConstantTypes BY ConstantsAre DEF PulseInv
<1>1. /\ CLOCKS \in Nat /\ CLOCKS >= 8 /\ MaxData \in Nat /\ i_sum \in Nat /\ data_reg \in Nat
      /\ data_reg <= MaxData /\ clk_num \in 0..(CLOCKS - 2) /\ i_sum <= CLOCKS + MaxData - 1
  BY <1>0 DEF ConstantTypes, PulseType
<1>2. half \in Nat /\ half >= 4 /\ 2 * half <= CLOCKS /\ 2 * MaxData < half BY HalfIs
<1>3. (clk_flag => clk_num = 0) /\ (i_q => i_sum >= half) /\ (~i_q => i_sum < half + MaxData)
      /\ (~clk_flag /\ clk_num <= 2 => ~i_q) /\ (~clk_flag /\ clk_num = 0 => i_sum = 0)
      /\ (~clk_flag /\ clk_num = 1 => i_sum <= MaxData)
  BY <1>0, <1>1 DEF FlowInv, Early
<1>4. plus_t' = i_q BY DEF Clock, I!pctocard_count
<1>5. clk_flag' => clk_num' = 0 BY Accumulates
<1>6. i_q' => i_sum' >= half BY <1>1, <1>2, <1>3, Accumulates
<1>7. ~i_q' => i_sum' < half + MaxData BY <1>1, <1>2, <1>3, Accumulates
<1>8. CASE ~i_valid
  <2>1. ~i_q' /\ i_sum' = 0 /\ clk_num' = 0 BY <1>8, Accumulates
  <2>2. QED BY <1>1, <1>5, <1>6, <1>7, <2>1 DEF FlowInv, Early
<1>9. CASE i_valid
  <2>1. CASE clk_num = CLOCKS - 2
    <3>1. clk_flag' BY <1>9, <2>1, Accumulates
    <3>2. QED BY <1>5, <1>6, <1>7, <3>1 DEF FlowInv, Early
  <2>2. CASE clk_num # CLOCKS - 2
    <3>1. clk_num' = clk_num + 1 BY <1>9, <2>2, Accumulates
    <3>2. clk_num' # 0 BY <1>1, <3>1
    <3>3. CASE clk_num = 0
      <4>1. clk_num' = 1 BY <3>1, <3>3
      <4>2. i_sum' <= MaxData /\ ~i_q'
        <5>1. CASE clk_flag BY <1>1, <5>1, Accumulates
        <5>2. CASE ~clk_flag BY <1>1, <1>2, <1>3, <1>9, <3>3, <5>2, Accumulates
        <5>3. QED BY <5>1, <5>2
      <4>3. QED BY <1>5, <1>6, <1>7, <4>1, <4>2 DEF FlowInv, Early
    <3>4. CASE clk_num = 1
      <4>1. clk_num' = 2 BY <3>1, <3>4
      <4>2. ~clk_flag /\ ~i_q /\ i_sum <= MaxData BY <1>3, <3>4
      <4>3. i_sum' = i_sum + data_reg /\ ~i_q' BY <1>1, <1>2, <1>9, <4>2, Accumulates
      <4>4. i_sum' <= 2 * MaxData BY <1>1, <4>2, <4>3
      <4>5. ~plus_t' BY <1>4, <4>2
      <4>6. QED BY <1>5, <1>6, <1>7, <4>1, <4>3, <4>4, <4>5 DEF FlowInv, Early
    <3>5. CASE clk_num >= 2
      <4>1. ~(clk_num' <= 2) BY <1>1, <3>1, <3>5
      <4>2. QED BY <1>5, <1>6, <1>7, <4>1 DEF FlowInv, Early
    <3>6. QED BY <1>1, <3>3, <3>4, <3>5
  <2>3. QED BY <2>1, <2>2
<1>10. QED BY <1>0, <1>8, <1>9 DEF PulseType

\* The bounds hold of one more datum.
LEMMA OneMoreDatum ==
  ASSUME NEW l \in Nat, NEW g \in Nat, NEW d \in Nat, NEW m \in Nat, NEW s \in Nat,
         l * m <= s, s <= g * m,
         NEW l2 \in Nat, NEW g2 \in Nat, l2 <= l, l2 <= d, g <= g2, d <= g2
  PROVE  /\ l2 * (m + 1) <= s + d /\ s + d <= g2 * (m + 1)
         /\ l2 * m <= s /\ s <= g2 * m
<1>1. l2 * m <= l * m /\ l2 * m \in Nat /\ l * m \in Nat BY Less
<1>2. g * m <= g2 * m /\ g * m \in Nat /\ g2 * m \in Nat BY Less
<1>3. l2 * (m + 1) = l2 * m + l2 /\ g2 * (m + 1) = g2 * m + g2 OBVIOUS
<1>4. QED BY <1>1, <1>2, <1>3

\* No datum is in the accumulator, and at most one clock of the block has gone.
LEMMA NoData ==
  ASSUME PulseType', lo' = MaxData, hi' = 0, i_sum' = 0, Early', Spent' \in {0, 1}
  PROVE  BlockInv'
<1>1. CLOCKS \in Nat /\ MaxData \in Nat BY ConstantsAre DEF ConstantTypes
<1>2. Made(0, 0)'
  <2>1. lo' * 0 = 0 /\ hi' * 0 = 0 /\ i_sum' + 0 * CLOCKS = 0 BY <1>1
  <2>2. QED BY <2>1 DEF Made
<1>3. QED BY <1>2 DEF BlockInv

\* Between two blocks.
LEMMA Stopped ==
  ASSUME PulseInv, NEW renew \in BOOLEAN, Clock(renew), PulseType', ~i_valid
  PROVE  BlockInv' /\ CountInv'
<1>1. ~i_q' /\ i_sum' = 0 /\ clk_num' = 0 /\ ~clk_flag' BY Accumulates
<1>2. lo' = MaxData /\ hi' = 0 /\ last' = I!NoBlock BY DEF Clock, I!history
<1>3. Early' /\ Spent' = 0 BY <1>1 DEF Early, Spent
<1>4. BlockInv' BY <1>1, <1>2, <1>3, NoData
<1>5. Rises' \in Nat /\ Rises' <= MaxData
  <2>1. Rises \in Nat /\ Rises <= MaxData BY RisesBounded, CountedIs DEF PulseInv
  <2>2. Bit(i_q' /\ ~i_q) = 0 BY <1>1, Bits
  <2>3. QED BY <2>1, <2>2, Counts, ConstantsAre DEF ConstantTypes
<1>6. last'.lo = 0 /\ last'.hi = MaxData BY <1>2 DEF I!NoBlock
<1>7. CountInv' BY <1>5, <1>6 DEF CountInv
<1>8. QED BY <1>4, <1>7

LEMMA BlockEnds ==
  ASSUME PulseInv, NEW renew \in BOOLEAN, Clock(renew), PulseType', i_valid, clk_flag
  PROVE  BlockInv' /\ CountInv'
<1>0. PulseType /\ FlowInv /\ ConstantTypes BY ConstantsAre DEF PulseInv
<1>1. clk_num = 0 /\ CLOCKS \in Nat /\ CLOCKS >= 8 BY <1>0 DEF FlowInv, ConstantTypes
<1>2. clk_num' = 1 /\ ~clk_flag' BY <1>1, Accumulates
<1>3. i_sum' = 0 /\ ~i_q' BY Accumulates
<1>4. lo' = MaxData /\ hi' = 0 /\ last' = [lo |-> I!Least(renew, lo), hi |-> hi]
  BY DEF Clock, I!history
<1>5. Early' /\ Spent' = 1 BY <1>2 DEF Early, Spent
<1>6. BlockInv' BY <1>3, <1>4, <1>5, NoData
<1>7. ~Early BY DEF Early
<1>8. PICK taken \in Nat, m \in Nat : Made(taken, m) /\ Rises <= taken + Bit(i_q) /\ (lo = 0 \/ Rises = taken + Bit(i_q))
  BY <1>7 DEF PulseInv, BlockInv
<1>9. taken + Bit(i_q) <= hi /\ lo <= taken + Bit(i_q) BY <1>0, <1>8, NoMore, NoFewer
<1>10. lo \in Nat /\ hi \in Nat /\ Rises \in Nat /\ Rises' \in Nat /\ Bit(i_q) \in Nat
  BY <1>0, CountedIs, Counts, Bits DEF PulseType
<1>11. Bit(i_q' /\ ~i_q) = 0 BY <1>3, Bits
<1>12. ~I!Settled BY <1>1 DEF I!Settled
<1>13. Rises' <= Rises /\ (~renew => Rises' = Rises) BY <1>10, <1>11, <1>12, Counts
<1>14. Rises' <= hi BY <1>8, <1>9, <1>10, <1>13
<1>15. I!Least(renew, lo) <= Rises'
  <2>1. CASE renew BY <1>10, <2>1 DEF I!Least
  <2>2. CASE ~renew
    <3>1. lo <= Rises BY <1>8, <1>9, <1>10
    <3>2. QED BY <1>10, <1>13, <2>2, <3>1 DEF I!Least
  <2>3. QED BY <2>1, <2>2
<1>16. last'.lo = I!Least(renew, lo) /\ last'.hi = hi BY <1>4
<1>17. CountInv' BY <1>14, <1>15, <1>16 DEF CountInv
<1>18. QED BY <1>6, <1>17

\* What history keeps of a datum that is added or waits to be.
LEMMA Takes ==
  ASSUME PulseInv, NEW renew \in BOOLEAN, Clock(renew), PulseType', i_valid, ~clk_flag
  PROVE  /\ lo' \in Nat /\ hi' \in Nat /\ data_reg \in Nat
         /\ lo' <= lo /\ lo' <= data_reg /\ hi <= hi' /\ data_reg <= hi'
         /\ renew => lo' = 0
         /\ Spent' = Spent + 1
<1>0. PulseType /\ ConstantTypes BY ConstantsAre DEF PulseInv
<1>1. lo \in Nat /\ hi \in Nat /\ data_reg \in Nat /\ CLOCKS \in Nat /\ CLOCKS >= 8
      /\ clk_num \in Nat
  BY <1>0 DEF PulseType, ConstantTypes
<1>2. lo' = I!Least(renew, IF data_reg < lo THEN data_reg ELSE lo)
      /\ hi' = IF data_reg > hi THEN data_reg ELSE hi
  BY DEF Clock, I!history
<1>3. Spent' = Spent + 1
  <2>1. Spent = clk_num BY DEF Spent
  <2>2. CASE clk_num = CLOCKS - 2
    <3>1. clk_flag' BY <2>2, Accumulates
    <3>2. Spent' = CLOCKS - 1 BY <3>1 DEF Spent, I!CLK_DELAY
    <3>3. QED BY <1>1, <2>1, <2>2, <3>2
  <2>3. CASE clk_num # CLOCKS - 2
    <3>1. clk_num' = clk_num + 1 /\ ~clk_flag' BY <2>3, Accumulates
    <3>2. QED BY <2>1, <3>1 DEF Spent
  <2>4. QED BY <2>2, <2>3
<1>4. CASE renew BY <1>1, <1>2, <1>3, <1>4 DEF I!Least
<1>5. CASE ~renew
  <2>1. lo' = IF data_reg < lo THEN data_reg ELSE lo BY <1>2, <1>5 DEF I!Least
  <2>2. QED BY <1>1, <1>2, <1>3, <1>5, <2>1
<1>6. QED BY <1>4, <1>5

LEMMA MoreData ==
  ASSUME PulseInv, NEW renew \in BOOLEAN, Clock(renew), PulseType', i_valid, ~clk_flag, i_sum < CLOCKS,
         NEW taken \in Nat, NEW m \in Nat, Made(taken, m)
  PROVE  Made(taken, m + 1)'
<1>0. PulseType /\ ConstantTypes BY ConstantsAre DEF PulseInv
<1>1. lo \in Nat /\ hi \in Nat /\ i_sum \in Nat /\ CLOCKS \in Nat /\ taken * CLOCKS \in Nat /\ Spent \in Nat
  BY <1>0 DEF PulseType, ConstantTypes, Spent, I!CLK_DELAY
<1>2. i_sum' = i_sum + data_reg BY Accumulates
<1> DEFINE s == i_sum + taken * CLOCKS
           low == lo'
           high == hi'
<1>3. s \in Nat /\ lo * m <= s /\ s <= hi * m /\ m + taken <= Spent /\ Spent <= m + taken + 1
  BY <1>1 DEF Made
<1>4. /\ low \in Nat /\ high \in Nat /\ data_reg \in Nat
      /\ low <= lo /\ low <= data_reg /\ hi <= high /\ data_reg <= high
  BY Takes
<1> HIDE DEF low, high
<1>5. low * (m + 1) <= s + data_reg /\ s + data_reg <= high * (m + 1)
  <2> HIDE DEF s
  <2>1. QED BY <1>1, <1>3, <1>4, OneMoreDatum
<1>6. i_sum' + taken * CLOCKS = s + data_reg BY <1>1, <1>2, <1>4
<1>7. m + 1 + taken <= Spent' /\ Spent' <= m + 1 + taken + 1 BY <1>1, <1>3, Takes
<1>8. lo' * (m + 1) <= i_sum' + taken * CLOCKS /\ i_sum' + taken * CLOCKS <= hi' * (m + 1)
  BY <1>5, <1>6 DEF low, high
<1>9. QED BY <1>7, <1>8 DEF Made

LEMMA Carries ==
  ASSUME PulseInv, NEW renew \in BOOLEAN, Clock(renew), PulseType', i_valid, ~clk_flag, i_sum >= CLOCKS,
         NEW taken \in Nat, NEW m \in Nat, Made(taken, m)
  PROVE  Made(taken + 1, m)'
<1>0. PulseType /\ ConstantTypes BY ConstantsAre DEF PulseInv
<1>1. lo \in Nat /\ hi \in Nat /\ i_sum \in Nat /\ CLOCKS \in Nat /\ taken * CLOCKS \in Nat /\ Spent \in Nat
  BY <1>0 DEF PulseType, ConstantTypes, Spent, I!CLK_DELAY
<1>2. i_sum' = i_sum - CLOCKS BY Accumulates
<1> DEFINE s == i_sum + taken * CLOCKS
           low == lo'
           high == hi'
<1>3. s \in Nat /\ lo * m <= s /\ s <= hi * m /\ m + taken <= Spent /\ Spent <= m + taken + 1
  BY <1>1 DEF Made
<1>4. /\ low \in Nat /\ high \in Nat /\ data_reg \in Nat
      /\ low <= lo /\ low <= data_reg /\ hi <= high /\ data_reg <= high
  BY Takes
<1> HIDE DEF low, high
<1>5. low * m <= s /\ s <= high * m
  <2> HIDE DEF s
  <2>1. QED BY <1>1, <1>3, <1>4, OneMoreDatum
<1>6. i_sum' + (taken + 1) * CLOCKS = s
  <2>1. (taken + 1) * CLOCKS = taken * CLOCKS + CLOCKS BY <1>1
  <2>2. QED BY <1>1, <1>2, <2>1
<1>7. m + (taken + 1) <= Spent' /\ Spent' <= m + (taken + 1) + 1 BY <1>1, <1>3, Takes
<1>8. lo' * m <= i_sum' + (taken + 1) * CLOCKS /\ i_sum' + (taken + 1) * CLOCKS <= hi' * m
  BY <1>5, <1>6 DEF low, high
<1>9. QED BY <1>7, <1>8 DEF Made

\* The first clocks of a block: nothing is owed yet.
LEMMA Begins ==
  ASSUME PulseInv, NEW renew \in BOOLEAN, Clock(renew), PulseType', i_valid, ~clk_flag, clk_num <= 2
  PROVE  BlockInv' /\ CountInv'
<1>0. PulseType /\ FlowInv /\ ConstantTypes BY ConstantsAre DEF PulseInv
<1>1. CLOCKS \in Nat /\ CLOCKS >= 8 /\ clk_num \in Nat /\ i_sum \in Nat /\ MaxData \in Nat
  BY <1>0 DEF ConstantTypes, PulseType
<1>2. Early BY DEF Early
<1>3. ~i_q /\ i_sum <= 2 * MaxData BY <1>0, <1>1, <1>2 DEF FlowInv
<1>4. i_sum < CLOCKS /\ ~(i_sum >= half) BY <1>1, <1>3, HalfIs
<1>5. ~i_q' BY <1>3, <1>4, Accumulates
<1>6. clk_num' = clk_num + 1 /\ ~clk_flag' BY <1>1, Accumulates
<1>7. PICK taken \in Nat, m \in Nat : Made(taken, m) /\ taken = 0
  BY <1>2 DEF PulseInv, BlockInv
<1>8. Made(0, m + 1)' /\ m + 1 \in Nat BY <1>4, <1>7, MoreData
<1>9. Rises \in Nat /\ Rises' \in Nat BY <1>0, Counts, CountedIs
<1>10. Bit(i_q' /\ ~i_q) = 0 /\ (i_q' <=> FALSE) BY <1>5, Bits
<1>11. CASE clk_num = 2
  <2>1. ~Early' BY <1>6, <1>11 DEF Early
  <2>2. I!Settled BY <1>11 DEF I!Settled
  <2>3. Rises' = 0 BY <1>10, <2>2, Counts
  <2>4. CountInv' BY <2>1 DEF CountInv
  <2>5. Bit(i_q') = 0 BY <1>10, Bits
  <2>6. Rises' <= 0 + Bit(i_q') /\ Rises' = 0 + Bit(i_q') BY <2>3, <2>5
  <2>7. BlockInv'
    <3>1. \E a, b \in Nat : /\ Made(a, b)'
                            /\ Early' => a = 0
                            /\ ~Early' => Rises' <= a + Bit(i_q') /\ (lo' = 0 \/ Rises' = a + Bit(i_q'))
      BY <1>8, <2>1, <2>6
    <3>2. QED BY <3>1 DEF BlockInv, Bit
  <2>8. QED BY <2>4, <2>7
<1>12. CASE clk_num < 2
  <2>1. Early' BY <1>1, <1>6, <1>12 DEF Early
  <2>2. BlockInv' BY <1>8, <2>1 DEF BlockInv
  <2>3. ~I!Settled BY <1>1, <1>12 DEF I!Settled
  <2>4. Rises' <= Rises /\ (~renew => Rises' = Rises) BY <1>9, <1>10, <2>3, Counts
  <2>5. last.lo <= Rises /\ Rises <= last.hi BY <1>2 DEF PulseInv, CountInv
  <2>6. last' = [last EXCEPT !.lo = I!Least(renew, last.lo)] BY <2>3 DEF Clock, I!history
  <2>7. last.lo \in Nat /\ last.hi \in Nat /\ last \in [lo : 0..MaxData, hi : 0..MaxData]
    BY <1>0, <1>1 DEF PulseType
  <2>8. last'.lo = I!Least(renew, last.lo) /\ last'.hi = last.hi BY <2>6, <2>7
  <2>9. CountInv'
    <3>1. CASE renew
      <4>1. last'.lo = 0 BY <2>8, <3>1 DEF I!Least
      <4>2. last'.lo <= Rises' /\ Rises' <= last'.hi BY <1>9, <2>4, <2>5, <2>7, <2>8, <4>1
      <4>3. QED BY <4>2 DEF CountInv
    <3>2. CASE ~renew
      <4>1. last'.lo = last.lo /\ Rises' = Rises BY <2>4, <2>8, <3>2 DEF I!Least
      <4>2. last'.lo <= Rises' /\ Rises' <= last'.hi BY <2>5, <2>8, <4>1
      <4>3. QED BY <4>2 DEF CountInv
    <3>3. QED BY <3>1, <3>2
  <2>10. QED BY <2>2, <2>9
<1>13. QED BY <1>1, <1>11, <1>12

\* The rest of the block: every CLOCKS taken off the accumulator is a pulse.
LEMMA GoesOn ==
  ASSUME PulseInv, NEW renew \in BOOLEAN, Clock(renew), PulseType', i_valid, ~clk_flag, clk_num > 2
  PROVE  BlockInv' /\ CountInv'
<1>0. PulseType /\ FlowInv /\ ConstantTypes BY ConstantsAre DEF PulseInv
<1>1. CLOCKS \in Nat /\ CLOCKS >= 8 /\ clk_num \in Nat /\ i_sum \in Nat /\ lo \in Nat
  BY <1>0 DEF ConstantTypes, PulseType
<1>2. ~Early /\ ~I!Settled BY <1>1 DEF Early, I!Settled
<1>3. ~Early'
  <2>1. CASE clk_num = CLOCKS - 2
    <3>1. clk_flag' BY <2>1, Accumulates
    <3>2. QED BY <3>1 DEF Early
  <2>2. CASE clk_num # CLOCKS - 2
    <3>1. clk_num' = clk_num + 1 BY <2>2, Accumulates
    <3>2. QED BY <1>1, <3>1 DEF Early
  <2>3. QED BY <2>1, <2>2
<1>4. CountInv' BY <1>3 DEF CountInv
<1>5. PICK taken \in Nat, m \in Nat : Made(taken, m) /\ Rises <= taken + Bit(i_q) /\ (lo = 0 \/ Rises = taken + Bit(i_q))
  BY <1>2 DEF PulseInv, BlockInv
<1>6. Rises \in Nat /\ Rises' \in Nat BY <1>0, Counts, CountedIs
<1>7. /\ Rises' <= Rises + Bit(i_q' /\ ~i_q)
      /\ ~renew => Rises' = Rises + Bit(i_q' /\ ~i_q)
      /\ renew => lo' = 0
      /\ lo' \in Nat /\ lo' <= lo
  BY <1>2, Counts, Takes
<1>8. \E a, b \in Nat : Made(a, b)' /\ a + Bit(i_q') = taken + Bit(i_q) + Bit(i_q' /\ ~i_q)
  <2>1. CASE i_sum < CLOCKS
    <3>1. Made(taken, m + 1)' /\ m + 1 \in Nat BY <1>5, <2>1, MoreData
    <3>2. i_q' <=> i_sum >= half \/ i_q BY <2>1, Accumulates
    <3>3. taken + Bit(i_q') = taken + Bit(i_q) + Bit(i_q' /\ ~i_q)
      <4>1. CASE i_q
        <5>1. Bit(i_q') = 1 /\ Bit(i_q) = 1 /\ Bit(i_q' /\ ~i_q) = 0 BY <3>2, <4>1, Bits
        <5>2. QED BY <5>1
      <4>2. CASE ~i_q
        <5>1. Bit(i_q) = 0 BY <4>2, Bits
        <5>2. CASE i_q'
          <6>1. Bit(i_q') = 1 /\ Bit(i_q' /\ ~i_q) = 1 BY <4>2, <5>2, Bits
          <6>2. QED BY <5>1, <6>1
        <5>3. CASE ~i_q'
          <6>1. Bit(i_q') = 0 BY <5>3 DEF Bit
          <6>2. Bit(i_q' /\ ~i_q) = 0 BY <5>3 DEF Bit
          <6>3. QED BY <5>1, <6>1, <6>2
        <5>4. QED BY <5>2, <5>3
      <4>3. QED BY <4>1, <4>2
    <3>4. QED BY <3>1, <3>3
  <2>2. CASE i_sum >= CLOCKS
    <3>1. Made(taken + 1, m)' /\ taken + 1 \in Nat BY <1>5, <2>2, Carries
    <3>2. ~i_q' /\ i_q BY <2>2, Accumulates
    <3>3. Bit(i_q') = 0 BY <3>2 DEF Bit
    <3>4. Bit(i_q) = 1 BY <3>2 DEF Bit
    <3>5. Bit(i_q' /\ ~i_q) = 0 BY <3>2 DEF Bit
    <3>6. taken + 1 + Bit(i_q') = taken + Bit(i_q) + Bit(i_q' /\ ~i_q) BY <3>3, <3>4, <3>5
    <3>7. QED BY <3>1, <3>6
  <2>3. QED BY <1>1, <2>1, <2>2
<1>9. PICK a \in Nat, b \in Nat : Made(a, b)' /\ a + Bit(i_q') = taken + Bit(i_q) + Bit(i_q' /\ ~i_q)
  BY <1>8
<1>10. Bit(i_q) \in Nat /\ Bit(i_q' /\ ~i_q) \in Nat BY Bits
<1>11. Rises' <= a + Bit(i_q') /\ (lo' = 0 \/ Rises' = a + Bit(i_q'))
  <2>1. Rises' <= a + Bit(i_q') BY <1>5, <1>6, <1>7, <1>9, <1>10
  <2>2. SUFFICES ASSUME lo' # 0 PROVE Rises' = a + Bit(i_q') BY <2>1
  <2>3. ~renew /\ lo # 0 BY <1>1, <1>7, <2>2
  <2>4. QED BY <1>5, <1>6, <1>7, <1>9, <1>10, <2>3
<1>12. BlockInv'
  <2>1. \E x, y \in Nat : /\ Made(x, y)'
                          /\ Early' => x = 0
                          /\ ~Early' => Rises' <= x + Bit(i_q') /\ (lo' = 0 \/ Rises' = x + Bit(i_q'))
    BY <1>3, <1>9, <1>11
  <2>2. QED BY <2>1 DEF BlockInv, Bit
<1>13. QED BY <1>4, <1>12

LEMMA PulseStep ==
  PulseInv /\ [I!Next]_(I!vars) => PulseInv'
<1>1. SUFFICES ASSUME PulseInv, [I!Next]_(I!vars) PROVE PulseInv' OBVIOUS
<1>2. CASE I!Next
  <2>1. PICK renew \in BOOLEAN : Clock(renew) /\ i_valid' \in BOOLEAN /\ fifo31_empty' = fifo31_empty
    BY <1>2 DEF I!Next, Clock
  <2>2. PulseType' BY <1>1, <2>1, PulseTypes
  <2>3. FlowInv' BY <1>1, <2>1, <2>2, Flows
  <2>4. i_valid \in BOOLEAN /\ clk_flag \in BOOLEAN /\ clk_num \in Nat
    BY <1>1, ConstantsAre DEF PulseInv, PulseType, ConstantTypes
  <2>5. BlockInv' /\ CountInv'
    <3>1. CASE ~i_valid BY <1>1, <2>1, <2>2, <3>1, Stopped
    <3>2. CASE i_valid /\ clk_flag BY <1>1, <2>1, <2>2, <3>2, BlockEnds
    <3>3. CASE i_valid /\ ~clk_flag /\ clk_num <= 2 BY <1>1, <2>1, <2>2, <3>3, Begins
    <3>4. CASE i_valid /\ ~clk_flag /\ clk_num > 2 BY <1>1, <2>1, <2>2, <3>4, GoesOn
    <3>5. QED BY <2>4, <3>1, <3>2, <3>3, <3>4
  <2>6. QED BY <2>2, <2>3, <2>5 DEF PulseInv
<1>3. CASE UNCHANGED I!vars
  <2>1. PulseType' BY <1>1, <1>3 DEF PulseInv, PulseType, I!vars, I!ddavars, I!cardvars
  <2>2. FlowInv' BY <1>1, <1>3 DEF PulseInv, FlowInv, Early, I!vars, I!ddavars, I!cardvars
  <2>3. Rises' = Rises BY <1>3 DEF Rises, Counted, I!vars, I!ddavars, I!cardvars, Bit
  <2>4. (Early' <=> Early) /\ Spent' = Spent BY <1>3 DEF Early, Spent, I!vars, I!ddavars
  <2>5. BlockInv'
    <3>1. \A x, y \in Nat : Made(x, y) => Made(x, y)'
      BY <1>3, <2>4 DEF Made, I!vars, I!ddavars
    <3>2. i_q' = i_q /\ lo' = lo BY <1>3 DEF I!vars, I!ddavars
    <3>3. PICK x \in Nat, y \in Nat :
             /\ Made(x, y)
             /\ Early => x = 0
             /\ ~Early => Rises <= x + Bit(i_q) /\ (lo = 0 \/ Rises = x + Bit(i_q))
      BY <1>1 DEF PulseInv, BlockInv
    <3>4. Made(x, y)' BY <3>1, <3>3
    <3>5. Early' => x = 0 BY <2>4, <3>3
    <3>6. ~Early' => Rises' <= x + Bit(i_q') /\ (lo' = 0 \/ Rises' = x + Bit(i_q'))
      BY <2>3, <2>4, <3>2, <3>3
    <3>7. \E a, b \in Nat :
             /\ Made(a, b)'
             /\ Early' => a = 0
             /\ ~Early' => Rises' <= a + Bit(i_q') /\ (lo' = 0 \/ Rises' = a + Bit(i_q'))
      BY <3>4, <3>5, <3>6
    <3>8. QED BY <3>7 DEF BlockInv, Bit
  <2>6. CountInv' BY <1>1, <1>3, <2>3, <2>4 DEF PulseInv, CountInv, I!vars
  <2>7. QED BY <2>1, <2>2, <2>5, <2>6 DEF PulseInv
<1>4. QED BY <1>1, <1>2, <1>3

LEMMA PulseInitial ==
  I!Init => PulseInv
<1>1. SUFFICES ASSUME I!Init PROVE PulseInv OBVIOUS
<1>2. ConstantTypes BY ConstantsAre
<1>3. PulseType
  <2>1. /\ i_valid \in BOOLEAN /\ fifo31_empty \in BOOLEAN /\ i_clkout \in BOOLEAN
        /\ clk_flag \in BOOLEAN /\ i_q \in BOOLEAN /\ plus_t \in BOOLEAN /\ plus_tt \in BOOLEAN
    BY <1>1 DEF I!Init
  <2>2. /\ i_counter \in 0..CLOCKS /\ clk_num \in 0..(CLOCKS - 2)
        /\ i_sum \in 0..(CLOCKS + MaxData - 1)
        /\ card_count \in 0..(CountModulus - 1) /\ base \in 0..(CountModulus - 1)
    BY <1>1, <1>2 DEF I!Init, ConstantTypes
  <2>3. /\ word \in 0..MaxData /\ data_x \in 0..MaxData /\ data_reg \in 0..MaxData
        /\ lo \in 0..MaxData /\ hi \in 0..MaxData
    BY <1>1, <1>2 DEF I!Init, ConstantTypes
  <2>4. last \in [lo : 0..MaxData, hi : 0..MaxData]
    BY <1>1, <1>2 DEF I!Init, ConstantTypes, I!NoBlock
  <2>5. QED BY <2>1, <2>2, <2>3, <2>4 DEF PulseType
<1>4. FlowInv BY <1>1, <1>2, HalfIs DEF I!Init, FlowInv, Early, ConstantTypes
<1>5. Counted = 0
  <2>1. 0 \in 0..(CountModulus - 1) BY <1>2 DEF ConstantTypes
  <2>2. (0 - 0) % CountModulus = 0 BY <2>1, Difference
  <2>3. QED BY <1>1, <2>2 DEF I!Init, Counted
<1>6. Rises = 0
  <2>1. Bit(plus_t /\ ~plus_tt) = 0 /\ Bit(i_q /\ ~plus_t) = 0 BY <1>1, Bits DEF I!Init
  <2>2. QED BY <1>5, <2>1 DEF Rises
<1>7. Made(0, 0)
  <2>1. /\ CLOCKS \in Nat /\ lo * 0 = 0 /\ hi * 0 = 0 /\ i_sum + 0 * CLOCKS = 0 /\ Spent = 0
    BY <1>1, <1>2 DEF I!Init, ConstantTypes, Spent
  <2>2. QED BY <2>1 DEF Made
<1>8. Early BY <1>1 DEF I!Init, Early
<1>9. BlockInv BY <1>7, <1>8 DEF BlockInv
<1>10. CountInv
  <2>1. last.lo = 0 /\ last.hi = MaxData BY <1>1 DEF I!Init, I!NoBlock
  <2>2. QED BY <1>2, <1>6, <2>1 DEF CountInv, ConstantTypes
<1>11. QED BY <1>3, <1>4, <1>9, <1>10 DEF PulseInv

LEMMA PulseMeans ==
  PulseInv => I!TypeOK /\ I!PulsesWithinData
<1>1. SUFFICES ASSUME PulseInv PROVE I!TypeOK /\ I!PulsesWithinData OBVIOUS
<1>2. PulseType /\ FlowInv /\ CountInv /\ ConstantTypes BY <1>1, ConstantsAre DEF PulseInv
<1>3. I!TypeOK
  <2>1. I!CLK_DELAY - 1 = CLOCKS - 2 BY <1>2 DEF I!CLK_DELAY, ConstantTypes
  <2>2. {i_valid, fifo31_empty, i_clkout, clk_flag, i_q, plus_t, plus_tt} \subseteq BOOLEAN
    BY <1>2 DEF PulseType
  <2>3. {word, data_x, data_reg, lo, hi} \subseteq 0..MaxData
    BY <1>2 DEF PulseType
  <2>4. i_counter \in 0..CLOCKS /\ clk_num \in 0..(I!CLK_DELAY - 1) BY <1>2, <2>1 DEF PulseType
  <2>5. /\ i_sum \in 0..(CLOCKS + MaxData - 1)
        /\ card_count \in 0..(CountModulus - 1) /\ base \in 0..(CountModulus - 1)
        /\ last \in [lo : 0..MaxData, hi : 0..MaxData]
    BY <1>2 DEF PulseType
  <2>6. QED BY <2>2, <2>3, <2>4, <2>5 DEF I!TypeOK
<1>4. ASSUME I!Settled PROVE (card_count - base) % CountModulus \in last.lo..last.hi
  <2>1. Early /\ ~i_q /\ ~plus_t
    BY <1>2, <1>4 DEF I!Settled, FlowInv, Early, ConstantTypes
  <2>2. Bit(plus_t /\ ~plus_tt) = 0 /\ Bit(i_q /\ ~plus_t) = 0 BY <2>1, Bits
  <2>3. Counted \in Nat BY <1>2, CountedIs
  <2>4. Rises = Counted BY <2>2, <2>3 DEF Rises
  <2>5. last.lo <= Counted /\ Counted <= last.hi BY <1>2, <2>1, <2>4 DEF CountInv
  <2>6. last.lo \in Int /\ last.hi \in Int BY <1>2 DEF PulseType, ConstantTypes
  <2>7. QED BY <2>3, <2>5, <2>6 DEF Counted
<1>5. QED BY <1>3, <1>4 DEF I!PulsesWithinData

LEMMA PulseHolds == I!Spec => []PulseInv
BY PulseInitial, PulseStep, PTL DEF I!Spec

\* The accumulator, the counters and the position counter stay in their ranges.
THEOREM PulseTyped == I!Spec => []I!TypeOK
BY PulseHolds, PulseMeans, PTL

\* A block gives no fewer pulses than the least and no more than the greatest of its data,
\* whenever the words come, the FIFO is empty or the counter is cleared: for any length of
\* the block and any width of the data that leave room for the pulses (Slow).
THEOREM PulsesAsWritten == I!Spec => []PulsesWithinData
<1>1. PulseInv => PulsesWithinData BY PulseMeans DEF PulsesWithinData
<1>2. QED BY <1>1, PulseHolds, PTL

-----------------------------------------------------------------------------
(* Jog                                                                     *)

KeyInv ==
  /\ key \in [J!Dirs -> BOOLEAN] /\ j_cnt \in [J!Dirs -> 0..JogHold] /\ flag \in [J!Dirs -> BOOLEAN]

SwitchInv ==
  /\ c \in [J!Dirs -> 0..JogHold] /\ f \in [J!Dirs -> BOOLEAN]

StepInv ==
  /\ dir \in J!Dirs /\ puls \in BOOLEAN /\ cnt_puls \in [J!Dirs -> 0..Half]
  /\ j_at \in 1..Far

\* On a switch: it is seen, or its debouncing is ahead of the next pulse.
SeenInv ==
  \A d \in J!Dirs : j_at = J!SwitchAt[d] => f[d] \/ cnt_puls[d] <= c[d]

JogInv == J!Debounced /\ KeyInv /\ SwitchInv /\ StepInv /\ SeenInv

LEMMA JogInitial == J!Debounced /\ J!Init => JogInv
<1>. SUFFICES ASSUME J!Debounced, J!Init PROVE JogInv
  OBVIOUS
<1>1. KeyInv
  BY DEF J!Debounced, J!Init, KeyInv
<1>2. SwitchInv
  BY DEF J!Debounced, J!Init, SwitchInv
<1>3. StepInv
  <2>1. cnt_puls \in [J!Dirs -> 0..Half] /\ j_at \in 1..Far
    BY DEF J!Debounced, J!Init
  <2>2. dir \in J!Dirs /\ puls \in BOOLEAN
    BY DEF J!Init, J!Dirs
  <2>. QED
    BY <2>1, <2>2 DEF StepInv
<1>4. SeenInv
  BY DEF J!Init, SeenInv
<1>. QED
  BY <1>1, <1>2, <1>3, <1>4 DEF JogInv

LEMMA KeysKept == J!Debounced /\ KeyInv /\ J!keys => KeyInv'
<1>. SUFFICES ASSUME J!Debounced, KeyInv, J!keys PROVE KeyInv'
  OBVIOUS
<1>1. \A d \in J!Dirs : J!Count(key[d], j_cnt[d]) \in 0..JogHold
  BY DEF J!Debounced, KeyInv, J!Count
<1>2. \A d \in J!Dirs : J!Flag(key[d], j_cnt[d], flag[d]) \in BOOLEAN
  BY DEF KeyInv, J!Flag
<1>. QED
  BY <1>1, <1>2 DEF KeyInv, J!keys

LEMMA SwitchesKept == J!Debounced /\ SwitchInv /\ StepInv /\ J!switches => SwitchInv'
<1>. SUFFICES ASSUME J!Debounced, SwitchInv, StepInv, J!switches PROVE SwitchInv'
  OBVIOUS
<1>1. \A d \in J!Dirs : J!Count(J!s(d), c[d]) \in 0..JogHold
  BY DEF J!Debounced, SwitchInv, J!Count
<1>2. \A d \in J!Dirs : J!Flag(J!s(d), c[d], f[d]) \in BOOLEAN
  BY DEF J!Flag
<1>. QED
  BY <1>1, <1>2 DEF SwitchInv, J!switches

\* What a clock does to pulses and axis: a direction makes a step only when its counter
\* is at its end and its switch is not seen, and begins to count again.
LEMMA Stepping ==
  ASSUME J!Debounced, KeyInv, StepInv, SwitchInv, J!pulses, J!axis
  PROVE  /\ dir' \in J!Dirs /\ puls' \in BOOLEAN /\ cnt_puls' \in [J!Dirs -> 0..Half]
         /\ \A d \in J!Dirs : cnt_puls'[d] <= cnt_puls[d] + 1
         /\ \/ j_at' = j_at
            \/ \E d \in J!Dirs :
                 /\ cnt_puls[d] = Half /\ cnt_puls'[d] = 0 /\ ~f[d]
                 /\ j_at' = IF d = "neg" THEN j_at - 1 ELSE j_at + 1
<1>1. CASE J!Asked = "none"
  <2>1. dir' = "neg" /\ puls' = FALSE /\ cnt_puls' = [d \in J!Dirs |-> 0]
    BY <1>1 DEF J!pulses
  <2>2. cnt_puls' \in [J!Dirs -> 0..Half] /\ \A d \in J!Dirs : cnt_puls'[d] <= cnt_puls[d] + 1
    BY <2>1 DEF J!Debounced, StepInv
  <2>. QED
    BY <2>1, <2>2 DEF J!axis, J!Dirs
<1>2. CASE J!Asked # "none" /\ J!Blocked(J!Asked)
  <2>1. dir' = "neg" /\ puls' = FALSE /\ cnt_puls' = cnt_puls
    BY <1>2 DEF J!pulses
  <2>2. cnt_puls' \in [J!Dirs -> 0..Half] /\ \A d \in J!Dirs : cnt_puls'[d] <= cnt_puls[d] + 1
    BY <2>1 DEF J!Debounced, StepInv
  <2>. QED
    BY <2>1, <2>2 DEF J!axis, J!Dirs
<1>3. CASE J!Asked # "none" /\ ~J!Blocked(J!Asked)
  <2>. DEFINE d == J!Asked
  <2>1. d \in J!Dirs /\ ~f[d]
    BY <1>3 DEF J!Asked, J!Dirs, J!Blocked
  <2>2. /\ dir' = d /\ puls' = (puls # (cnt_puls[d] = Half))
        /\ cnt_puls' = [cnt_puls EXCEPT ![d] = IF @ = Half THEN 0 ELSE @ + 1]
    BY <1>3 DEF J!pulses
  <2>. HIDE DEF d
  <2>3. puls' \in BOOLEAN /\ dir' \in J!Dirs
    BY <2>1, <2>2
  <2>4. cnt_puls' \in [J!Dirs -> 0..Half] /\ \A e \in J!Dirs : cnt_puls'[e] <= cnt_puls[e] + 1
    BY <2>1, <2>2 DEF J!Debounced, StepInv
  <2>5. j_at' # j_at => cnt_puls[d] = Half /\ j_at' = IF d = "neg" THEN j_at - 1 ELSE j_at + 1
    BY <2>1, <2>2 DEF J!axis, StepInv, J!Dirs
  <2>6. cnt_puls[d] = Half => cnt_puls'[d] = 0
    BY <2>1, <2>2 DEF StepInv
  <2>. QED
    BY <2>1, <2>3, <2>4, <2>5, <2>6
<1>. QED
  BY <1>1, <1>2, <1>3

LEMMA SeenKept ==
  ASSUME JogInv, J!switches, J!pulses, J!axis
  PROVE  j_at' \in 1..Far /\ SeenInv'
<1>0. J!Debounced /\ KeyInv /\ SwitchInv /\ StepInv /\ SeenInv
  BY DEF JogInv
<1>1. /\ JogHold \in Nat /\ Half \in Nat /\ Far \in Nat \ {0} /\ JogHold < Half
      /\ j_at \in 1..Far
      /\ \A d \in J!Dirs : c[d] \in 0..JogHold /\ f[d] \in BOOLEAN /\ cnt_puls[d] \in 0..Half
      /\ \A d \in J!Dirs : c'[d] = J!Count(J!s(d), c[d]) /\ f'[d] = J!Flag(J!s(d), c[d], f[d])
      /\ \A d \in J!Dirs : j_at = J!SwitchAt[d] => f[d] \/ cnt_puls[d] <= c[d]
  BY <1>0 DEF J!Debounced, SwitchInv, StepInv, SeenInv, J!switches
<1>2. /\ cnt_puls' \in [J!Dirs -> 0..Half]
      /\ \A d \in J!Dirs : cnt_puls'[d] <= cnt_puls[d] + 1
  BY <1>0, Stepping
<1>3. CASE j_at' = j_at
  <2>1. ASSUME NEW d \in J!Dirs, j_at = J!SwitchAt[d] PROVE f'[d] \/ cnt_puls'[d] <= c'[d]
    <3>1. J!s(d)
      BY <1>1, <2>1 DEF J!s
    <3>2. CASE f[d] \/ c[d] = JogHold
      BY <1>1, <3>1, <3>2 DEF J!Flag
    <3>3. CASE ~f[d] /\ c[d] # JogHold
      <4>1. c'[d] = c[d] + 1
        BY <1>1, <3>1, <3>3 DEF J!Count
      <4>. QED
        BY <1>1, <1>2, <2>1, <3>3, <4>1
    <3>. QED
      BY <3>2, <3>3
  <2>. QED
    BY <1>1, <1>3, <2>1 DEF SeenInv
<1>4. ASSUME NEW d \in J!Dirs, cnt_puls[d] = Half, cnt_puls'[d] = 0, ~f[d],
             j_at' = IF d = "neg" THEN j_at - 1 ELSE j_at + 1
      PROVE  j_at' \in 1..Far /\ SeenInv'
  <2>1. j_at # J!SwitchAt[d]
    BY <1>1, <1>4
  <2>2. j_at' \in 1..Far
    BY <1>1, <1>4, <2>1 DEF J!Dirs, J!SwitchAt
  <2>3. ASSUME NEW e \in J!Dirs, j_at' = J!SwitchAt[e] PROVE f'[e] \/ cnt_puls'[e] <= c'[e]
    <3>1. e = d
      BY <1>1, <1>4, <2>1, <2>3 DEF J!Dirs, J!SwitchAt
    <3>2. c'[e] \in 0..JogHold
      BY <1>1 DEF J!Count
    <3>. QED
      BY <1>4, <3>1, <3>2
  <2>. QED
    BY <2>2, <2>3 DEF SeenInv
<1>. QED
  BY <1>0, <1>3, <1>4, Stepping

LEMMA JogStep == JogInv /\ [J!Next]_(J!vars) => JogInv'
<1>1. ASSUME JogInv, J!Next PROVE JogInv'
  <2>0. J!Debounced /\ KeyInv /\ SwitchInv /\ StepInv /\ SeenInv
    BY <1>1 DEF JogInv
  <2>1. KeyInv'
    BY <1>1, <2>0, KeysKept DEF J!Next
  <2>2. SwitchInv'
    BY <1>1, <2>0, SwitchesKept DEF J!Next
  <2>3. j_at' \in 1..Far /\ SeenInv'
    BY <1>1, SeenKept DEF J!Next
  <2>4. StepInv'
    BY <1>1, <2>0, <2>3, Stepping DEF J!Next, StepInv
  <2>. QED
    BY <2>0, <2>1, <2>2, <2>3, <2>4 DEF JogInv, J!Debounced
<1>2. JogInv /\ UNCHANGED J!vars => JogInv'
  BY DEF JogInv, J!vars, J!Debounced, KeyInv, SwitchInv, StepInv, SeenInv, J!SwitchAt
<1>. QED
  BY <1>1, <1>2

LEMMA JogHolds == J!Spec => []JogInv
<1>1. J!Init => JogInv
  BY JogAssumption, JogInitial
<1>. QED
  BY <1>1, JogStep, PTL DEF J!Spec

\* The debouncing counters and the axis stay in their ranges, for any times.
THEOREM JogTyped == J!Spec => []J!TypeOK
<1>1. JogInv => J!TypeOK
  BY DEF JogInv, J!Debounced, KeyInv, SwitchInv, StepInv, J!TypeOK
<1>. QED
  BY <1>1, JogHolds, PTL

\* Jogging stays between the switches, if only a switch is debounced within half a pulse.
THEOREM BetweenSwitches == J!Spec => []StaysBetweenSwitches
<1>1. JogInv => StaysBetweenSwitches
  BY DEF JogInv, StepInv, StaysBetweenSwitches, J!StaysBetweenSwitches, J!SwitchAt
<1>. QED
  BY <1>1, JogHolds, PTL

-----------------------------------------------------------------------------
(* HandWheel                                                               *)

\* The times fsm_hw measures.
MeasureInv ==
  /\ deal_sign => since = 1
  /\ h_wrreq => curr_state_M = "M2" /\ data \in (Gap - 1)..Timeout
  /\ curr_state_M = "M2" => since = 2 /\ ~deal_sign
  /\ curr_state_M = "M1" /\ deal_sign => t0 >= Gap - 1
  /\ curr_state_M = "M1" /\ ~deal_sign => since >= 2 /\ t0 >= since - 2

Queued == c0 * Len(queue)

F0Inv ==
  /\ ~rdreq /\ q_in = 0 /\ c1 = 0 /\ owed = Queued
  /\ ~H!empty => Len(queue) = 1 /\ since = 3

\* rdreq is up: the word is taken out with the first of these clocks.
F1Inv ==
  /\ rdreq /\ c1 = 0
  /\ ~H!empty =>
       /\ owed = Queued
       /\ q_sign => q_in >= 1 /\ h_q >= c0
       /\ ~q_sign => Len(queue) = 1 /\ since = 4 /\ q_in = h_q \div c0
  /\ H!empty =>
       /\ owed = c0 /\ h_q >= c0
       /\ q_sign => q_in >= 1
       /\ ~q_sign => (since = 5 /\ q_in = 0) \/ (since = 6 /\ q_in >= 1)

F23Inv ==
  /\ ~rdreq /\ q_in >= 1 /\ h_q >= c0
  /\ owed = Queued + c0 - c1
  /\ curr_state_F = "F2" => c1 < c0

WheelInv ==
  /\ MeasureInv
  /\ queue \in Seq((Gap - 1)..Timeout)
  /\ h_q = 0 \/ h_q >= c0
  /\ curr_state_F = "F0" => F0Inv
  /\ curr_state_F = "F1" => F1Inv
  /\ curr_state_F \in {"F2", "F3"} => F23Inv

-----------------------------------------------------------------------------
LEMMA Quotient ==
  ASSUME NEW n \in Nat, NEW by \in Nat \ {0}
  PROVE  n \div by \in 0..n /\ (n >= by => n \div by >= 1)
<1>1. n \div by >= 0
  OBVIOUS
<1>2. n \div by <= n
  OBVIOUS
<1>3. n >= by => n \div by >= 1
  OBVIOUS
<1> QED BY <1>1, <1>2, <1>3

LEMMA Product ==
  ASSUME NEW by \in Nat, NEW n \in Nat
  PROVE  by * n \in Nat /\ by * (n + 1) = by * n + by /\ (n >= 1 => by * (n - 1) = by * n - by)
         /\ by * 0 = 0 /\ by * 1 = by
  OBVIOUS

\* The type invariant, conjunct by conjunct.
WheelType ==
  /\ c0 \in Ratios /\ since \in 0..Gap
  /\ deal_sign \in BOOLEAN /\ S_timer \in BOOLEAN /\ h_wrreq \in BOOLEAN
  /\ rdreq \in BOOLEAN /\ q_sign \in BOOLEAN /\ F_timer \in BOOLEAN /\ p \in BOOLEAN
  /\ curr_state_M \in {"M0", "M1", "M2"} /\ curr_state_F \in {"F0", "F1", "F2", "F3"}
  /\ t0 \in 0..Timeout /\ data \in 0..Timeout
  /\ h_q \in 0..Timeout /\ q_in \in 0..Timeout /\ q_out \in 0..Timeout
  /\ Len(queue) <= Words
  /\ h_sum \in 0..(Timeout + c0) /\ c1 \in 0..c0
  /\ owed \in Int

LEMMA WheelNumbers ==
  /\ Gap \in Nat /\ Gap >= 7 /\ Timeout \in Nat /\ Timeout >= Gap /\ Words \in Nat \ {0}
  /\ \A r \in Ratios : r \in Nat \ {0} /\ r <= Gap - 1
  BY WheelAssumption DEF H!Spaced

LEMMA TypeOfWheel == WheelType /\ WheelInv => H!TypeOK
<1> SUFFICES ASSUME WheelType, WheelInv PROVE H!TypeOK
  OBVIOUS
<1>1. (Gap - 1)..Timeout \subseteq 1..Timeout
  BY WheelNumbers
<1>2. queue \in Seq(1..Timeout)
  <2>1. queue \in Seq((Gap - 1)..Timeout)
    BY DEF WheelInv
  <2> QED BY <1>1, <2>1, SeqMonotonic
<1> QED BY <1>2 DEF WheelType, H!TypeOK

LEMMA WheelInitial == H!Init => WheelType /\ WheelInv
<1> SUFFICES ASSUME H!Init PROVE WheelType /\ WheelInv
  OBVIOUS
<1> USE WheelNumbers
<1>1. c0 \in Ratios /\ c0 \in Nat \ {0} /\ queue = <<>> /\ Len(queue) = 0 /\ owed = 0
  BY DEF H!Init
<1>2. WheelType
  <2>1. since \in 0..Gap /\ t0 \in 0..Timeout /\ data \in 0..Timeout /\ c1 \in 0..c0
    BY <1>1 DEF H!Init
  <2>2. /\ h_q \in 0..Timeout /\ q_in \in 0..Timeout /\ q_out \in 0..Timeout
        /\ h_sum \in 0..(Timeout + c0)
    BY <1>1 DEF H!Init
  <2>3. Len(queue) <= Words /\ owed \in Int
    BY <1>1
  <2> QED BY <1>1, <2>1, <2>2, <2>3 DEF H!Init, WheelType
<1>3. queue \in Seq((Gap - 1)..Timeout)
  BY <1>1
<1>4. owed = Queued
  BY <1>1, Product DEF Queued
<1>5. WheelInv
  BY <1>1, <1>3, <1>4 DEF H!Init, WheelInv, MeasureInv, F0Inv, H!empty
<1> QED BY <1>2, <1>5

\* fsm_hw: a word it writes is a time between two edges.
LEMMA Measures ==
  ASSUME WheelType, MeasureInv, H!Edge, H!fsm_hw
  PROVE  /\ MeasureInv'
         /\ since' \in 0..Gap /\ deal_sign' \in BOOLEAN /\ S_timer' \in BOOLEAN
         /\ h_wrreq' \in BOOLEAN /\ curr_state_M' \in {"M0", "M1", "M2"}
         /\ t0' \in 0..Timeout /\ data' \in 0..Timeout
<1> USE WheelNumbers
<1>0. /\ since \in 0..Gap /\ t0 \in 0..Timeout /\ curr_state_M \in {"M0", "M1", "M2"}
      /\ deal_sign \in BOOLEAN /\ S_timer \in BOOLEAN
  BY DEF WheelType
<1>1. /\ deal_sign' \in BOOLEAN /\ since' \in 0..Gap
      /\ deal_sign' => since = Gap /\ since' = 1
      /\ ~deal_sign' => since' = (IF since < Gap THEN since + 1 ELSE since)
  BY <1>0 DEF H!Edge
<1>2. curr_state_M' = H!next_state_M
  BY DEF H!fsm_hw
<1>3. CASE H!next_state_M = "M0"
  <2>1. t0' = 0 /\ S_timer' = FALSE /\ data' = 0 /\ h_wrreq' = FALSE
    BY <1>3 DEF H!fsm_hw
  <2>2. MeasureInv'
    BY <1>1, <1>2, <1>3, <2>1 DEF MeasureInv
  <2>3. t0' \in 0..Timeout /\ data' \in 0..Timeout
    BY <2>1
  <2> QED BY <1>1, <1>2, <1>3, <2>1, <2>2, <2>3
<1>4. CASE H!next_state_M = "M1"
  <2>1. /\ data' = t0 /\ h_wrreq' = FALSE /\ S_timer' = (t0 >= Timeout)
        /\ t0' = IF t0 >= Timeout THEN t0 ELSE t0 + 1
    BY <1>4 DEF H!fsm_hw
  <2>2. \/ curr_state_M = "M0" /\ deal_sign
        \/ curr_state_M = "M1" /\ ~deal_sign
        \/ curr_state_M = "M2"
    BY <1>0, <1>4 DEF H!next_state_M
  <2>3. t0' \in 0..Timeout
    BY <1>0, <2>1
  <2>4. deal_sign' => t0' >= Gap - 1
    BY <1>0, <1>1, <2>1, <2>2 DEF MeasureInv
  <2>5. ASSUME ~deal_sign' PROVE since' >= 2 /\ t0' >= since' - 2
    <3>1. since' = IF since < Gap THEN since + 1 ELSE since
      BY <1>1, <2>5
    <3>2. t0' = IF t0 >= Timeout THEN t0 ELSE t0 + 1
      BY <2>1
    <3>3. since \in {1, 2} \/ (since >= 2 /\ t0 >= since - 2)
      BY <2>2 DEF MeasureInv
    <3> QED BY <1>0, <3>1, <3>2, <3>3
  <2>6. MeasureInv'
    BY <1>1, <1>2, <1>4, <2>1, <2>4, <2>5 DEF MeasureInv
  <2>7. S_timer' \in BOOLEAN /\ data' \in 0..Timeout
    BY <1>0, <2>1
  <2> QED BY <1>1, <1>2, <1>4, <2>1, <2>3, <2>6, <2>7
<1>5. CASE H!next_state_M = "M2"
  <2>1. /\ h_wrreq' = ~H!full /\ data' = (IF H!full THEN 0 ELSE t0) /\ t0' = 0 /\ S_timer' = FALSE
    BY <1>5 DEF H!fsm_hw
  <2>2. curr_state_M = "M1" /\ deal_sign
    BY <1>0, <1>5 DEF H!next_state_M, MeasureInv
  <2>3. since = 1 /\ t0 >= Gap - 1
    BY <2>2 DEF MeasureInv
  <2>4. ~deal_sign' /\ since' = 2
    BY <1>1, <2>3
  <2>5. h_wrreq' \in BOOLEAN
    BY <2>1
  <2>6. data' \in 0..Timeout
    BY <1>0, <2>1
  <2>7. h_wrreq' => data' \in (Gap - 1)..Timeout
    <3>1. CASE H!full
      BY <2>1, <3>1
    <3>2. CASE ~H!full
      BY <1>0, <2>1, <2>3, <3>2
    <3> QED BY <3>1, <3>2
  <2>8. MeasureInv'
    BY <1>1, <1>2, <1>5, <2>1, <2>4, <2>7 DEF MeasureInv
  <2>9. t0' \in 0..Timeout
    BY <2>1
  <2> QED BY <1>1, <1>2, <1>5, <2>1, <2>5, <2>6, <2>8, <2>9
<1> QED BY <1>0, <1>3, <1>4, <1>5 DEF H!next_state_M

Taken == rdreq /\ ~H!empty

\* The queue: what is written is appended, what is read becomes q.
LEMMA Queueing ==
  ASSUME WheelType, WheelInv, H!fifo
  PROVE  /\ queue' \in Seq((Gap - 1)..Timeout)
         /\ Len(queue) \in Nat /\ Len(queue') \in Nat /\ Len(queue') <= Words
         /\ H!empty <=> Len(queue) = 0
         /\ H!empty' <=> Len(queue') = 0
         /\ Len(queue') = Len(queue) - (IF Taken THEN 1 ELSE 0) + (IF H!Accepted THEN 1 ELSE 0)
         /\ IF Taken THEN h_q' \in (Gap - 1)..Timeout ELSE h_q' = h_q
<1> USE WheelNumbers
<1> DEFINE W == (Gap - 1)..Timeout
           rest == IF Taken THEN Tail(queue) ELSE queue
<1>1. queue \in Seq(W) /\ Len(queue) \in Nat /\ Len(queue) <= Words
  BY DEF WheelInv, WheelType
<1>2. H!empty <=> Len(queue) = 0
  BY <1>1, EmptySeq DEF H!empty
<1>3. /\ rest \in Seq(W) /\ Len(rest) = Len(queue) - (IF Taken THEN 1 ELSE 0)
      /\ Taken => Head(queue) \in W
  <2>1. CASE Taken
    BY <1>1, <2>1, HeadTailProperties DEF Taken, H!empty
  <2>2. CASE ~Taken
    BY <1>1, <2>2
  <2> QED BY <2>1, <2>2
<1>4. queue' = (IF H!Accepted THEN Append(rest, data) ELSE rest)
  BY DEF H!fifo, Taken
<1>5. h_q' = (IF Taken THEN Head(queue) ELSE h_q)
  BY DEF H!fifo, Taken
<1>6. H!Accepted => data \in W /\ Len(queue) < Words
  BY <1>1 DEF H!Accepted, H!full, WheelInv, MeasureInv
<1> HIDE DEF rest, W
<1>7. /\ queue' \in Seq(W)
      /\ Len(queue') = Len(rest) + (IF H!Accepted THEN 1 ELSE 0)
  <2>1. CASE H!Accepted
    BY <1>3, <1>4, <1>6, <2>1, AppendProperties
  <2>2. CASE ~H!Accepted
    BY <1>1, <1>3, <1>4, <2>2
  <2> QED BY <2>1, <2>2
<1>8. /\ Len(queue') \in Nat /\ Len(queue') <= Words
      /\ Len(queue') = Len(queue) - (IF Taken THEN 1 ELSE 0) + (IF H!Accepted THEN 1 ELSE 0)
  <2>1. Taken => Len(queue) >= 1
    BY <1>1, <1>2 DEF Taken
  <2> QED BY <1>1, <1>3, <1>6, <1>7, <2>1
<1>9. H!empty' <=> Len(queue') = 0
  BY <1>7, EmptySeq DEF H!empty
<1> QED BY <1>1, <1>2, <1>3, <1>5, <1>7, <1>8, <1>9 DEF W

LEMMA Timing ==
  ASSUME WheelType, WheelInv, H!Edge
  PROVE  (since < Gap => since' = since + 1) /\ (H!Accepted => since = 2)
<1>1. since < Gap => since' = since + 1
  BY WheelNumbers DEF H!Edge, WheelType
<1>2. H!Accepted => since = 2
  BY DEF H!Accepted, WheelInv, MeasureInv
<1> QED BY <1>1, <1>2

LEMMA Owing ==
  ASSUME WheelType, WheelInv, H!fifo, c0' = c0
  PROVE  /\ Queued \in Nat /\ Queued' \in Nat
         /\ Queued' = Queued - (IF Taken THEN c0 ELSE 0) + (IF H!Accepted THEN c0 ELSE 0)
         /\ (H!empty => Queued = 0) /\ (Len(queue) = 1 => Queued = c0)
<1>1. c0 \in Nat
  BY WheelNumbers DEF WheelType
<1>2. /\ Len(queue) \in Nat /\ Len(queue') \in Nat /\ (H!empty <=> Len(queue) = 0)
      /\ Len(queue') = Len(queue) - (IF Taken THEN 1 ELSE 0) + (IF H!Accepted THEN 1 ELSE 0)
  BY Queueing
<1> DEFINE n == Len(queue)
           m == Len(queue')
<1> HIDE DEF n, m
<1>3. n \in Nat /\ m \in Nat /\ m = n - (IF Taken THEN 1 ELSE 0) + (IF H!Accepted THEN 1 ELSE 0)
  BY <1>2 DEF n, m
<1>4. c0 * n \in Nat /\ c0 * m \in Nat /\ c0 * 0 = 0 /\ c0 * 1 = c0
  BY <1>1, <1>3, Product
<1>5. c0 * m = c0 * n - (IF Taken THEN c0 ELSE 0) + (IF H!Accepted THEN c0 ELSE 0)
  <2>1. CASE Taken /\ ~H!Accepted
    <3>1. n = m + 1
      BY <1>3, <2>1
    <3>2. c0 * (m + 1) = c0 * m + c0
      BY <1>1, <1>3, Product
    <3> QED BY <1>1, <1>4, <2>1, <3>1, <3>2
  <2>2. CASE ~Taken /\ H!Accepted
    <3>1. m = n + 1 /\ c0 * (n + 1) = c0 * n + c0
      BY <1>1, <1>3, <2>2, Product
    <3> QED BY <1>4, <2>2, <3>1
  <2>3. CASE (Taken /\ H!Accepted) \/ (~Taken /\ ~H!Accepted)
    <3>1. m = n
      BY <1>3, <2>3
    <3> QED BY <1>1, <1>4, <2>3, <3>1
  <2> QED BY <2>1, <2>2, <2>3
<1>6. Queued = c0 * n /\ Queued' = c0 * m
  BY DEF Queued, n, m
<1>7. (H!empty => n = 0) /\ (Len(queue) = 1 => n = 1)
  BY <1>2 DEF n
<1> QED BY <1>4, <1>5, <1>6, <1>7

\* What the states of puls_hw promise of the rest.
PulsInv ==
  /\ curr_state_F = "F0" => F0Inv
  /\ curr_state_F = "F1" => F1Inv
  /\ curr_state_F \in {"F2", "F3"} => F23Inv

LEMMA Makes ==
  ASSUME WheelType, WheelInv, H!Edge, H!fifo, H!puls_hw, c0' = c0,
         owed' = owed + (IF H!Accepted THEN c0 ELSE 0) - (IF H!next_state_F = "F3" THEN 1 ELSE 0)
  PROVE  PulsInv'
<1> USE WheelNumbers
<1>0. /\ c0 \in Nat \ {0} /\ c0 <= Gap - 1 /\ c1 \in 0..c0 /\ h_q \in Nat /\ q_in \in Nat /\ owed \in Int
      /\ since \in 0..Gap
  BY DEF WheelType
<1>1. /\ Queued \in Nat /\ Queued' \in Nat
      /\ Queued' = Queued - (IF Taken THEN c0 ELSE 0) + (IF H!Accepted THEN c0 ELSE 0)
      /\ (H!empty => Queued = 0) /\ (Len(queue) = 1 => Queued = c0)
  BY Owing
<1>2. /\ Len(queue) \in Nat /\ Len(queue') \in Nat
      /\ (H!empty <=> Len(queue) = 0) /\ (H!empty' <=> Len(queue') = 0)
      /\ Len(queue') = Len(queue) - (IF Taken THEN 1 ELSE 0) + (IF H!Accepted THEN 1 ELSE 0)
      /\ IF Taken THEN h_q' >= c0 ELSE h_q' = h_q
  BY <1>0, Queueing
<1>3. (since < Gap => since' = since + 1) /\ (H!Accepted => since = 2)
  BY Timing
<1>4. curr_state_F' = H!next_state_F /\ (q_sign' <=> q_in # 0)
  BY DEF H!puls_hw
<1>5. h_q >= c0 => h_q \div c0 \in Nat /\ h_q \div c0 >= 1
  BY <1>0, Quotient
<1>6. CASE curr_state_F = "F0" /\ H!empty
  <2>1. H!next_state_F = "F0" /\ F0Inv
    BY <1>6 DEF H!next_state_F, WheelInv
  <2>2. H!Idle
    BY <2>1 DEF H!puls_hw
  <2>3. owed' = Queued' /\ ~Taken
    BY <1>0, <1>1, <2>1 DEF F0Inv, Taken
  <2>4. ~H!empty' => Len(queue') = 1 /\ since' = 3
    BY <1>2, <1>3, <1>6, <2>3
  <2>5. F0Inv'
    BY <2>2, <2>3, <2>4 DEF F0Inv, H!Idle
  <2> QED BY <1>4, <2>1, <2>5 DEF PulsInv
<1>7. CASE curr_state_F = "F0" /\ ~H!empty
  <2>1. H!next_state_F = "F1" /\ F0Inv
    BY <1>7 DEF H!next_state_F, WheelInv
  <2>2. H!Fetch
    BY <2>1 DEF H!puls_hw
  <2>3. ~Taken /\ ~H!Accepted /\ since' = 4 /\ Len(queue') = 1
    BY <1>2, <1>3, <1>7, <2>1 DEF F0Inv, Taken
  <2>4. owed' = Queued' /\ ~q_sign' /\ h_q' = h_q /\ ~H!empty'
    BY <1>0, <1>1, <1>2, <1>4, <2>1, <2>3 DEF F0Inv
  <2>5. F1Inv'
    BY <2>2, <2>3, <2>4 DEF F1Inv, H!Fetch
  <2> QED BY <1>4, <2>1, <2>5 DEF PulsInv
<1>8. CASE curr_state_F = "F1" /\ ~q_sign
  <2>1. H!next_state_F = "F1" /\ F1Inv
    BY <1>8 DEF H!next_state_F, WheelInv
  <2>2. H!Fetch
    BY <2>1 DEF H!puls_hw
  <2>3. CASE ~H!empty
    <3>1. since = 4 /\ Len(queue) = 1 /\ q_in = h_q \div c0 /\ owed = Queued /\ Taken /\ ~H!Accepted
      BY <1>3, <1>8, <2>1, <2>3 DEF F1Inv, Taken
    <3>2. since' = 5 /\ H!empty' /\ h_q' >= c0 /\ owed' = c0 /\ q_in' = q_in
      BY <1>0, <1>1, <1>2, <1>3, <2>1, <2>2, <3>1 DEF H!Fetch
    <3>3. (q_sign' => q_in' >= 1) /\ (~q_sign' => q_in' = 0)
      BY <1>0, <1>4, <3>2
    <3>4. F1Inv'
      BY <2>2, <3>2, <3>3 DEF F1Inv, H!Fetch
    <3> QED BY <1>4, <2>1, <3>4 DEF PulsInv
  <2>4. CASE H!empty
    <3>1. /\ owed = c0 /\ h_q >= c0 /\ ((since = 5 /\ q_in = 0) \/ (since = 6 /\ q_in >= 1))
      BY <1>8, <2>1, <2>4 DEF F1Inv
    <3>2. ~Taken /\ ~H!Accepted
      BY <1>3, <2>4, <3>1 DEF Taken
    <3>3. H!empty' /\ h_q' = h_q /\ owed' = c0 /\ q_in' >= 1 /\ q_in' \in Nat
      BY <1>0, <1>2, <1>5, <2>1, <2>2, <2>4, <3>1, <3>2 DEF H!Fetch
    <3>4. ~q_sign' => since' = 6
      BY <1>3, <1>4, <3>1
    <3>5. F1Inv'
      BY <2>2, <3>1, <3>3, <3>4 DEF F1Inv, H!Fetch
    <3> QED BY <1>4, <2>1, <3>5 DEF PulsInv
  <2> QED BY <2>3, <2>4
<1>9. CASE curr_state_F = "F1" /\ q_sign
  <2>1. H!next_state_F = "F2" /\ F1Inv
    BY <1>9 DEF H!next_state_F, WheelInv
  <2>2. H!Wait
    BY <2>1 DEF H!puls_hw
  <2>3. q_in >= 1 /\ c1 = 0 /\ (Taken <=> ~H!empty)
    BY <1>9, <2>1 DEF F1Inv, Taken
  <2>4. owed' = Queued' + c0
    BY <1>0, <1>1, <2>1, <2>3 DEF F1Inv
  <2>5. h_q' >= c0
    BY <1>2, <1>9, <2>1, <2>3 DEF F1Inv
  <2>6. F23Inv'
    BY <1>0, <1>1, <1>4, <2>1, <2>2, <2>3, <2>4, <2>5 DEF F23Inv, H!Wait, H!ReadsOn
  <2> QED BY <1>4, <2>1, <2>6 DEF PulsInv
<1>10. CASE curr_state_F = "F2"
  <2>1. H!next_state_F \in {"F2", "F3"} /\ F23Inv
    BY <1>10 DEF H!next_state_F, WheelInv
  <2>2. ~Taken /\ h_q' = h_q
    BY <1>2, <2>1 DEF F23Inv, Taken
  <2>3. CASE H!next_state_F = "F2"
    <3>1. H!Wait
      BY <2>3 DEF H!puls_hw
    <3>2. owed' = Queued' + c0 - c1
      BY <1>0, <1>1, <2>1, <2>2, <2>3 DEF F23Inv
    <3>3. F23Inv'
      BY <1>10, <2>1, <2>2, <3>1, <3>2 DEF F23Inv, H!Wait, H!ReadsOn
    <3> QED BY <1>4, <2>3, <3>3 DEF PulsInv
  <2>4. CASE H!next_state_F = "F3"
    <3>1. H!Toggle
      BY <2>4 DEF H!puls_hw
    <3>2. c1' = c1 + 1 /\ owed' = Queued' + c0 - c1'
      BY <1>0, <1>1, <2>1, <2>2, <2>4, <3>1 DEF F23Inv, H!Toggle
    <3>3. F23Inv'
      BY <1>4, <2>1, <2>2, <2>4, <3>1, <3>2 DEF F23Inv, H!Toggle
    <3> QED BY <1>4, <2>4, <3>3 DEF PulsInv
  <2> QED BY <2>1, <2>3, <2>4
<1>11. CASE curr_state_F = "F3" /\ H!LastEdge
  <2>1. F23Inv /\ owed = Queued /\ ~Taken /\ h_q' = h_q /\ c1 = c0
    BY <1>0, <1>1, <1>2, <1>11 DEF WheelInv, F23Inv, Taken, H!LastEdge
  <2>2. CASE H!empty
    <3>1. H!next_state_F = "F0"
      BY <1>11, <2>2 DEF H!next_state_F
    <3>2. H!Idle
      BY <3>1 DEF H!puls_hw
    <3>3. owed' = Queued'
      BY <1>0, <1>1, <2>1, <3>1
    <3>4. ~H!empty' => Len(queue') = 1 /\ since' = 3
      BY <1>2, <1>3, <2>1, <2>2
    <3>5. F0Inv'
      BY <3>2, <3>3, <3>4 DEF F0Inv, H!Idle
    <3> QED BY <1>4, <3>1, <3>5 DEF PulsInv
  <2>3. CASE ~H!empty
    <3>1. H!next_state_F = "F1"
      BY <1>11, <2>3 DEF H!next_state_F
    <3>2. H!Fetch
      BY <3>1 DEF H!puls_hw
    <3>3. owed' = Queued' /\ ~H!empty' /\ q_sign'
      BY <1>0, <1>1, <1>2, <1>4, <2>1, <2>3, <3>1 DEF F23Inv
    <3>4. q_in' >= 1 /\ h_q' >= c0
      BY <1>5, <2>1, <3>2 DEF F23Inv, H!Fetch
    <3>5. F1Inv'
      BY <3>2, <3>3, <3>4 DEF F1Inv, H!Fetch
    <3> QED BY <1>4, <3>1, <3>5 DEF PulsInv
  <2> QED BY <2>2, <2>3
<1>12. CASE curr_state_F = "F3" /\ ~H!LastEdge
  <2>1. H!next_state_F = "F2" /\ F23Inv
    BY <1>12 DEF H!next_state_F, WheelInv
  <2>2. H!Wait
    BY <2>1 DEF H!puls_hw
  <2>3. ~Taken /\ h_q' = h_q /\ c1 < c0
    BY <1>0, <1>2, <1>12, <2>1 DEF F23Inv, Taken, H!LastEdge
  <2>4. owed' = Queued' + c0 - c1
    BY <1>0, <1>1, <2>1, <2>3 DEF F23Inv
  <2>5. F23Inv'
    BY <2>1, <2>2, <2>3, <2>4 DEF F23Inv, H!Wait, H!ReadsOn
  <2> QED BY <1>4, <2>1, <2>5 DEF PulsInv
<1> QED BY <1>6, <1>7, <1>8, <1>9, <1>10, <1>11, <1>12 DEF WheelType

LEMMA PulsTypes ==
  ASSUME WheelType, WheelInv, H!puls_hw, c0' = c0
  PROVE  /\ rdreq' \in BOOLEAN /\ q_sign' \in BOOLEAN /\ F_timer' \in BOOLEAN /\ p' \in BOOLEAN
         /\ curr_state_F' \in {"F0", "F1", "F2", "F3"}
         /\ q_in' \in 0..Timeout /\ q_out' \in 0..Timeout
         /\ h_sum' \in 0..(Timeout + c0) /\ c1' \in 0..c0
<1> USE WheelNumbers
<1>0. /\ c0 \in Nat \ {0} /\ c1 \in 0..c0 /\ h_q \in 0..Timeout /\ q_in \in 0..Timeout
      /\ q_out \in 0..Timeout /\ h_sum \in 0..(Timeout + c0) /\ p \in BOOLEAN
      /\ curr_state_F \in {"F0", "F1", "F2", "F3"}
  BY DEF WheelType
<1>1. q_sign' \in BOOLEAN /\ curr_state_F' = H!next_state_F
  BY DEF H!puls_hw
<1>2. CASE H!next_state_F = "F0"
  <2>1. H!Idle
    BY <1>2 DEF H!puls_hw
  <2>2. /\ c1' = 0 /\ F_timer' = FALSE /\ h_sum' = 0 /\ rdreq' = FALSE /\ p' = FALSE
        /\ q_out' = 0 /\ q_in' = 0
    BY <2>1 DEF H!Idle
  <2>3. q_in' \in 0..Timeout /\ h_sum' \in 0..(Timeout + c0) /\ c1' \in 0..c0 /\ q_out' \in 0..Timeout
    BY <1>0, <2>2
  <2> QED BY <1>1, <1>2, <2>2, <2>3
<1>3. CASE H!next_state_F = "F1"
  <2>1. H!Fetch
    BY <1>3 DEF H!puls_hw
  <2>2. /\ c1' = 0 /\ F_timer' = FALSE /\ h_sum' = 0 /\ rdreq' = TRUE /\ p' = FALSE
        /\ q_out' = q_in /\ q_in' = h_q \div c0
    BY <2>1 DEF H!Fetch
  <2>3. h_q \div c0 \in 0..h_q
    BY <1>0, Quotient
  <2>4. q_in' \in 0..Timeout /\ h_sum' \in 0..(Timeout + c0) /\ c1' \in 0..c0 /\ q_out' \in 0..Timeout
    BY <1>0, <2>2, <2>3
  <2> QED BY <1>1, <1>3, <2>2, <2>4
<1>4. CASE H!next_state_F = "F2"
  <2>1. H!Wait
    BY <1>4 DEF H!puls_hw
  <2>2. F_timer' \in BOOLEAN /\ rdreq' = FALSE /\ p' = p /\ c1' = c1 /\ q_in' = q_in /\ q_out' = q_in
    BY <2>1 DEF H!Wait, H!ReadsOn
  <2>3. h_sum' = IF h_sum >= q_out THEN 0 ELSE h_sum + c0
    BY <2>1 DEF H!Wait
  <2>4. h_sum' \in 0..(Timeout + c0)
    BY <1>0, <2>3
  <2> QED BY <1>0, <1>1, <1>4, <2>2, <2>4
<1>5. CASE H!next_state_F = "F3"
  <2>1. H!Toggle
    BY <1>5 DEF H!puls_hw
  <2>2. /\ p' \in BOOLEAN /\ c1' = c1 + 1 /\ rdreq' = FALSE /\ F_timer' = FALSE /\ h_sum' = 0
        /\ q_out' = q_out /\ q_in' = q_in
    BY <2>1 DEF H!Toggle
  <2>3. curr_state_F = "F2"
    BY <1>0, <1>5 DEF H!next_state_F
  <2>4. c1 < c0
    BY <2>3 DEF WheelInv, F23Inv
  <2>5. h_sum' \in 0..(Timeout + c0) /\ c1' \in 0..c0
    BY <1>0, <2>2, <2>4
  <2> QED BY <1>0, <1>1, <1>5, <2>2, <2>5
<1> QED BY <1>0, <1>2, <1>3, <1>4, <1>5 DEF H!next_state_F

LEMMA WheelStep == WheelType /\ WheelInv /\ [H!Next]_(H!vars) => WheelType' /\ WheelInv'
<1> SUFFICES ASSUME WheelType, WheelInv, [H!Next]_(H!vars)
             PROVE  WheelType' /\ WheelInv'
  OBVIOUS
<1>1. CASE UNCHANGED H!vars
  BY <1>1 DEF H!vars, H!fsmvars, H!pulsvars, WheelType, WheelInv, MeasureInv, F0Inv, F1Inv,
       F23Inv,
     Queued, H!empty
<1>2. CASE H!Next
  <2>1. /\ H!Edge /\ H!fsm_hw /\ H!fifo /\ H!puls_hw /\ c0' = c0
        /\ owed' = owed + (IF H!Accepted THEN c0 ELSE 0) - (IF H!next_state_F = "F3" THEN 1 ELSE 0)
    BY <1>2 DEF H!Next
  <2>2. c0 \in Ratios /\ c0 \in Nat \ {0} /\ c0 <= Gap - 1 /\ owed \in Int /\ h_q \in 0..Timeout
        /\ (h_q = 0 \/ h_q >= c0) /\ MeasureInv
    BY WheelNumbers DEF WheelType, WheelInv
  <2>3. PulsInv'
    BY <2>1, Makes
  <2>4. /\ MeasureInv'
        /\ since' \in 0..Gap /\ deal_sign' \in BOOLEAN /\ S_timer' \in BOOLEAN
        /\ h_wrreq' \in BOOLEAN /\ curr_state_M' \in {"M0", "M1", "M2"}
        /\ t0' \in 0..Timeout /\ data' \in 0..Timeout
    BY <2>1, <2>2, Measures
  <2>5. /\ queue' \in Seq((Gap - 1)..Timeout) /\ Len(queue') <= Words
        /\ IF Taken THEN h_q' \in (Gap - 1)..Timeout ELSE h_q' = h_q
    BY <2>1, Queueing
  <2>6. h_q' \in 0..Timeout /\ (h_q' = 0 \/ h_q' >= c0')
    BY <2>1, <2>2, <2>5, WheelNumbers
  <2>7. owed' \in Int
    BY <2>1, <2>2
  <2>8. /\ rdreq' \in BOOLEAN /\ q_sign' \in BOOLEAN /\ F_timer' \in BOOLEAN /\ p' \in BOOLEAN
        /\ curr_state_F' \in {"F0", "F1", "F2", "F3"}
        /\ q_in' \in 0..Timeout /\ q_out' \in 0..Timeout
        /\ h_sum' \in 0..(Timeout + c0)' /\ c1' \in 0..c0'
    BY <2>1, PulsTypes
  <2>9. WheelType'
    BY <2>1, <2>2, <2>4, <2>5, <2>6, <2>7, <2>8 DEF WheelType
  <2>10. WheelInv'
    BY <2>3, <2>4, <2>5, <2>6 DEF WheelInv, PulsInv
  <2> QED BY <2>9, <2>10
<1> QED BY <1>1, <1>2

LEMMA WordsAreMade == WheelType /\ WheelInv => H!EveryWordMade
<1> SUFFICES ASSUME WheelType, WheelInv PROVE H!EveryWordMade
  OBVIOUS
<1>1. c0 \in Nat /\ c1 \in 0..c0 /\ Len(queue) \in Nat /\ curr_state_F \in {"F0", "F1", "F2", "F3"}
  BY WheelNumbers DEF WheelType, WheelInv
<1>2. Queued \in Nat
  BY <1>1, Product DEF Queued
<1>3. H!empty => Queued = 0
  BY <1>1, Product DEF Queued, H!empty
<1>4. owed >= 0
  BY <1>1, <1>2 DEF WheelInv, F0Inv, F1Inv, F23Inv
<1>5. curr_state_F = "F0" /\ H!empty => owed = 0
  BY <1>3 DEF WheelInv, F0Inv
<1> QED BY <1>4, <1>5 DEF H!EveryWordMade

\* For every ratio: no edge of the hand wheel is lost or made twice.
LEMMA WheelHolds == H!Spec => [](WheelType /\ WheelInv)
BY WheelInitial, WheelStep, PTL DEF H!Spec

\* The measured times, the FIFO of the hand wheel and the divider stay in their ranges.
THEOREM WheelTyped == H!Spec => []H!TypeOK
BY WheelHolds, TypeOfWheel, PTL

\* Every word the hand wheel puts in its FIFO is made into as many pulses as the ratio
\* says, for any ratios, gap and timeout between which a word can be divided (Spaced).
THEOREM WheelMakesAll == H!Spec => []EveryWordMade
<1>1. WheelType /\ WheelInv => EveryWordMade BY WordsAreMade DEF EveryWordMade
<1>2. QED BY <1>1, WheelHolds, PTL

-----------------------------------------------------------------------------
(* AxisOutputs                                                             *)

OutputInv ==
  /\ co \in Selections /\ coreg \subseteq A!Outputs
  /\ out \in [A!Outputs -> {"x", "y", "z", "a", "magazine", "none"}]
  /\ mag \in BOOLEAN

TimerInv == rot_number \in 0..(RotModulus - 1) /\ time_delay_two \in 0..Hold

MagazineInv ==
  /\ {rst, rot_count, clr_counts, rot_state, use_axis8} \subseteq BOOLEAN
  /\ command \in A!Orders \cup {A!NoOrder}
  /\ asked \in 0..Pockets /\ target_number \in 0..Pockets

TargetInv ==
  /\ command.rotate => command.pocket = asked
  /\ ~command.rotate /\ rot_state => target_number = asked

OutputsInv == A!Sized /\ OutputInv /\ TimerInv /\ MagazineInv /\ TargetInv
-----------------------------------------------------------------------------
(* The table                                                               *)

Drivers == [A!Outputs -> {"x", "y", "z", "a", "magazine", "none"}]

\* What AxisOutputs takes from FiniteSets is FiniteSets' own.
LEMMA SameCardinality == \A s : A!Cardinality(s) = Cardinality(s)
BY DEF A!Cardinality, Cardinality, A!IsFiniteSet, IsFiniteSet

LEMMA InOrderTyped ==
  ASSUME NEW on \in SUBSET A!Outputs, Cardinality(on) <= 4
  PROVE  A!InOrder(on) \in Drivers
<1>1. IsFiniteSet(on)
  <2>1. IsFiniteSet(1..8)
    BY 1 \in Int, 8 \in Int, FS_Interval
  <2>. QED
    BY <2>1, FS_Subset DEF A!Outputs
<1>2. ASSUME NEW o \in on PROVE Cardinality({i \in on : i <= o}) \in 1..4
  <2>. DEFINE below == {i \in on : i <= o}
  <2>1. below \subseteq on /\ o \in below
    BY DEF A!Outputs
  <2>2. IsFiniteSet(below) /\ Cardinality(below) <= Cardinality(on)
    BY <1>1, <2>1, FS_Subset
  <2>3. Cardinality(below) \in Nat /\ Cardinality(on) \in Nat /\ Cardinality(below) # 0
    BY <1>1, <2>1, <2>2, FS_CardinalityType, FS_EmptySet
  <2>. QED
    BY <2>2, <2>3
<1>3. \A n \in 1..4 : A!Axes[n] \in {"x", "y", "z", "a"}
  BY DEF A!Axes
<1>. QED
  BY <1>2, <1>3, SameCardinality DEF A!InOrder, Drivers

LEMMA SmallSet ==
  ASSUME NEW a, NEW b, NEW d PROVE Cardinality({a, b, d}) <= 4 /\ Cardinality({a, b}) <= 4
<1>1. Cardinality({a}) = 1 /\ IsFiniteSet({a})
  BY FS_Singleton
<1>2. IsFiniteSet({a, b}) /\ Cardinality({a, b}) \in {1, 2}
  <2>1. {a, b} = {a} \cup {b}
    OBVIOUS
  <2>. QED
    BY <1>1, <2>1, FS_AddElement
<1>3. Cardinality({a, b, d}) \in {1, 2, 3}
  <2>1. {a, b, d} = {a, b} \cup {d}
    OBVIOUS
  <2>. QED
    BY <1>2, <2>1, FS_AddElement
<1>. QED
  BY <1>2, <1>3

LEMMA RowTyped ==
  ASSUME NEW on \in SUBSET A!Outputs
  PROVE  A!Row(on) \in Drivers
<1>1. {{3, 5, 6}, {5, 7, 8}, {5, 8}} \subseteq SUBSET A!Outputs
  BY DEF A!Outputs
<1>2. Cardinality({3, 5, 6}) <= 4 /\ Cardinality({5, 7, 8}) <= 4 /\ Cardinality({5, 8}) <= 4
  BY SmallSet
<1>3. /\ A!InOrder({3, 5, 6}) \in Drivers /\ A!InOrder({5, 7, 8}) \in Drivers
      /\ A!InOrder({5, 8}) \in Drivers
  BY <1>1, <1>2, InOrderTyped
<1>4. A!InOrder(1..4) \in Drivers
  <2>1. Cardinality(1..4) = 4
    <3>1. \A m, n \in Int : Cardinality(m..n) = IF m > n THEN 0 ELSE n - m + 1
      BY FS_Interval
    <3>2. Cardinality(1..4) = IF 1 > 4 THEN 0 ELSE 4 - 1 + 1
      BY <3>1, 1 \in Int, 4 \in Int, Zenon
    <3>. QED
      BY <3>2
  <2>2. 1..4 \in SUBSET A!Outputs
    BY DEF A!Outputs
  <2>. QED
    BY <2>1, <2>2, InOrderTyped
<1>5. Cardinality(on) \in 1..4 => A!InOrder(on) \in Drivers
  BY InOrderTyped
<1>6. /\ [A!InOrder({3, 5, 6}) EXCEPT ![7] = "none"] \in Drivers
      /\ [A!InOrder({5, 7, 8}) EXCEPT ![6] = "none"] \in Drivers
      /\ [A!InOrder({5, 8}) EXCEPT ![7] = "none"] \in Drivers
  BY <1>3 DEF Drivers
<1>. QED
  BY <1>4, <1>5, <1>6, SameCardinality DEF A!Row

-----------------------------------------------------------------------------
(* The invariant                                                           *)

LEMMA OutputsInitial == A!Sized /\ A!Init => OutputsInv
<1>. SUFFICES ASSUME A!Sized, A!Init PROVE OutputsInv
  OBVIOUS
<1>1. OutputInv
  BY DEF A!Init, A!Sized, OutputInv, A!Outputs
<1>2. TimerInv
  BY DEF A!Init, A!Sized, TimerInv
<1>3. MagazineInv
  <2>1. {rst, rot_count, clr_counts, rot_state, use_axis8} \subseteq BOOLEAN
    BY DEF A!Init
  <2>. QED
    BY <2>1 DEF A!Init, A!Sized, MagazineInv
<1>4. TargetInv
  BY DEF A!Init, TargetInv, A!NoOrder
<1>. QED
  BY <1>1, <1>2, <1>3, <1>4 DEF OutputsInv

LEMMA OutputKept ==
  ASSUME OutputsInv, A!co_assign, UNCHANGED co
  PROVE  OutputInv'
<1>1. A!Row(coreg) \in Drivers
  BY RowTyped DEF OutputsInv, OutputInv
<1>2. out' \in Drivers
  BY <1>1 DEF A!co_assign, Drivers
<1>. QED
  BY <1>2 DEF OutputsInv, A!Sized, OutputInv, MagazineInv, A!co_assign, Drivers, A!Outputs

LEMMA CountKept ==
  ASSUME A!Sized, TimerInv, A!tool_mag_ctrl \/ A!Reset
  PROVE  TimerInv'
<1>1. CASE A!tool_mag_ctrl
  BY <1>1 DEF A!Sized, TimerInv, A!tool_mag_ctrl, A!counts
<1>2. CASE A!Reset
  BY <1>2 DEF A!Sized, TimerInv, A!Reset
<1>. QED
  BY <1>1, <1>2

LEMMA MagazineKept ==
  ASSUME A!Sized, MagazineInv, A!pc, A!tool_mag_ctrl \/ A!Reset
  PROVE  MagazineInv'
<1>1. /\ {rst, rot_count, clr_counts}' \subseteq BOOLEAN
      /\ command' \in A!Orders \cup {A!NoOrder} /\ asked' \in 0..Pockets
  BY DEF A!Sized, MagazineInv, A!pc, A!Orders, A!NoOrder
<1>2. rot_state' \in BOOLEAN /\ use_axis8' \in BOOLEAN
  BY DEF MagazineInv, A!tool_mag_ctrl, A!Turning, A!Reset
<1>3. target_number' \in 0..Pockets
  BY DEF A!Sized, MagazineInv, A!tool_mag_ctrl, A!Target, A!Reset, A!Orders, A!NoOrder
<1>. QED
  BY <1>1, <1>2, <1>3 DEF MagazineInv

LEMMA TargetKept ==
  ASSUME MagazineInv, TargetInv, A!pc, A!tool_mag_ctrl \/ A!Reset
  PROVE  TargetInv'
<1>1. command'.rotate => command'.pocket = asked'
  BY DEF A!pc
<1>2. ASSUME ~command'.rotate, rot_state' PROVE target_number' = asked'
  <2>1. A!tool_mag_ctrl /\ asked' = asked
    BY <1>2 DEF A!Reset, A!pc
  <2>2. CASE command.rotate
    <3>1. command.pocket # 0 /\ command.pocket = asked
      BY <2>2 DEF MagazineInv, TargetInv, A!Orders, A!NoOrder
    <3>. QED
      BY <2>1, <3>1 DEF A!tool_mag_ctrl, A!Target
  <2>3. CASE ~command.rotate
    <3>1. command.pocket = 0 /\ rot_state
      BY <1>2, <2>1, <2>3 DEF MagazineInv, A!Orders, A!NoOrder, A!tool_mag_ctrl, A!Turning
    <3>. QED
      BY <2>1, <2>3, <3>1 DEF A!tool_mag_ctrl, A!Target, TargetInv
  <2>. QED
    BY <2>2, <2>3
<1>. QED
  BY <1>1, <1>2 DEF TargetInv

LEMMA OutputsStep == OutputsInv /\ [A!Next]_(A!vars) => OutputsInv'
<1>1. ASSUME OutputsInv, A!Next PROVE OutputsInv'
  <2>1. /\ A!Sized /\ TimerInv /\ MagazineInv /\ TargetInv /\ A!pc /\ A!co_assign /\ UNCHANGED co
        /\ A!tool_mag_ctrl \/ A!Reset
    BY <1>1 DEF OutputsInv, A!Next, A!Clock, A!ClockInReset
  <2>2. OutputInv' /\ TimerInv' /\ MagazineInv' /\ TargetInv'
    BY <1>1, <2>1, OutputKept, CountKept, MagazineKept, TargetKept
  <2>. QED
    BY <2>1, <2>2 DEF OutputsInv, A!Sized
<1>2. OutputsInv /\ UNCHANGED A!vars => OutputsInv'
  BY DEF OutputsInv, A!vars, A!magvars, A!Sized, OutputInv, TimerInv, MagazineInv, TargetInv
<1>. QED
  BY <1>1, <1>2

LEMMA OutputsHolds == A!Spec => []OutputsInv
<1>1. A!Init => OutputsInv
  BY OutputsAssumption, OutputsInitial
<1>. QED
  BY <1>1, OutputsStep, PTL DEF A!Spec

\* Type correctness for any selections, pockets and times.
THEOREM OutputsTyped == A!Spec => []A!TypeOK
<1>1. OutputsInv => A!TypeOK
  BY DEF OutputsInv, OutputInv, TimerInv, MagazineInv, A!TypeOK
<1>. QED
  BY <1>1, OutputsHolds, PTL

\* The magazine stops only at the pocket last asked for, whatever the PC writes, the
\* pocket switch does and resets come between.
THEOREM StopsThere == A!Spec => StopsAtPocket
<1>1. OutputsInv /\ [A!Next]_(A!vars) => [rot_state /\ ~rot_state' /\ ~rst => rot_number = asked]_(A!vars)
  <2>. SUFFICES ASSUME OutputsInv, A!Next, rot_state, ~rot_state', ~rst PROVE rot_number = asked
    BY DEF A!vars, A!magvars
  <2>1. A!tool_mag_ctrl /\ rot_state' = A!Turning
    BY DEF A!Next, A!Clock, A!ClockInReset, A!tool_mag_ctrl
  <2>2. ~command.rotate /\ rot_number = target_number
    BY <2>1 DEF A!Turning, A!Reached, OutputsInv, MagazineInv
  <2>. QED
    BY <2>2 DEF OutputsInv, TargetInv
<1>. QED
  BY <1>1, OutputsHolds, PTL DEF A!Spec, StopsAtPocket, A!StopsAtPocket

=============================================================================
