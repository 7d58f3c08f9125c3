---------------------------- MODULE EncoderProofs ----------------------------
(***************************************************************************)
(* Theorems about Encoder, for every period, width and gap.                *)
(***************************************************************************)
EXTENDS Encoder, TLAPS

Direction(bit) == IF bit = 0 THEN 1 ELSE -1

\* An edge goes down the pipeline alone: where it is follows from the time
\* since the line changed.
PipelineInv ==
  /\ still = 0 => signal_C # Xor(plus_A, plus_B) /\ signal_D = signal_C
  /\ still > 0 => signal_C = Xor(plus_A, plus_B)
  /\ still = 1 => signal_D # signal_C
  /\ still > 1 => signal_D = signal_C
  /\ count_plus = 1 <=> still = 2

\* The samples tell the direction of the last edge once it is counted, and until
\* then dir_reg holds the direction of the one before.
SampleInv ==
  /\ still > 2 => /\ plus_A_t = plus_A /\ plus_B_t = plus_B
                  /\ sign = Direction(Xor(plus_A_tt, plus_B_t))
  /\ still <= 2 => /\ sign = Direction(Xor(plus_A_t, plus_B))
                   /\ dir_reg = Xor(plus_A_tt, plus_B_t)

CountInv ==
  /\ EdgesCounted
  /\ count_up <= count_up_t /\ count_down <= count_down_t

\* The error of the net position is what the lag makes of the first and the last
\* direction; the ones in between cancel out.
NetInv ==
  /\ -edges <= net /\ net <= edges
  /\ count_up_t - count_down_t - net + sign
       + (IF still <= 2 THEN Direction(dir_reg) ELSE 0) \in {-1, 1}

TimerInv ==
  /\ delta_flag = 1 => clk_cnt = 0
  /\ delta_flag_t = 1 => clk_cnt = 1
  /\ delta_flag_tt = 1 => clk_cnt = 2

\* Since the latch the period and the total have counted the same pulses, but for
\* one between the latch and the clear.
DeltaInv ==
  variant = "sum" /\ renewed = 0 =>
    LET grown == count_up_t + count_down_t - total_count
    IN  /\ delta_pos = 0 => grown - (count_up + count_down) \in {0, 1}
        /\ delta_pos = 1 => grown = 0 \/ (grown = 1 /\ count_plus = 0)

IInv == TypeOK /\ PipelineInv /\ SampleInv /\ CountInv /\ NetInv /\ TimerInv /\ DeltaInv

-----------------------------------------------------------------------------
LEMMA Growth ==
  \A up, down, total \in Nat : \A k \in {0, 1} :
    up + down = total + k => up + down - total = k
  OBVIOUS

LEMMA GrowthNext ==
  ASSUME NEW k \in {0, 1}, count_up_t' \in Nat, count_down_t' \in Nat, total_count' \in Nat,
         count_up_t' + count_down_t' = total_count' + k
  PROVE  count_up_t' + count_down_t' - total_count' = k
  BY Growth

LEMMA WithinEdges ==
  ASSUME NEW m \in Nat, NEW e \in 0..m, NEW n \in Int, -e <= n, n <= e
  PROVE  n \in -m..m
  OBVIOUS

LEMMA PulsesWithinEdges ==
  ASSUME NEW m \in Nat, NEW e \in 0..m, NEW up \in Nat, NEW down \in Nat, NEW flight \in Nat,
         up + down + flight = e
  PROVE  up \in 0..m /\ down \in 0..m
  OBVIOUS

LEMMA BelowBound ==
  ASSUME NEW m \in Nat, NEW up \in 0..m, NEW n \in Nat, n <= up
  PROVE  n \in 0..m
  OBVIOUS

USE PeriodAssumption, GapAssumption, EdgeAssumption DEF Bit

LEMMA InitIInv == Init => IInv
  BY DEF Init, IInv, TypeOK, PipelineInv, SampleInv, CountInv, EdgesCounted, InFlight, NetInv,
         TimerInv, DeltaInv, Xor, Direction, Word, delta_pos

\* The pipeline moves on by one stage, or an edge enters it while it is empty.
LEMMA PipelineNext ==
  ASSUME TypeOK, PipelineInv, [Next]_vars
  PROVE  PipelineInv'
  <1> USE DEF PipelineInv, TypeOK, Xor
  <1>1. CASE ClockStill
    BY <1>1 DEF ClockStill, Clock, Rest, Detect, lines
  <1>2. CASE ClockTurning
    <2>1. /\ signal_C = Xor(plus_A, plus_B) /\ signal_D = signal_C /\ count_plus = 0
          /\ still = Gap /\ still' = 0
      BY <1>2 DEF ClockTurning, Turn
    <2>2. signal_C' = signal_C /\ signal_D' = signal_C /\ count_plus' = 0
      BY <1>2, <2>1 DEF ClockTurning, Clock, Detect
    <2>3. Xor(plus_A', plus_B') # Xor(plus_A, plus_B)
      BY <1>2 DEF ClockTurning, Turn
    <2> QED
      BY <2>1, <2>2, <2>3
  <1>3. CASE UNCHANGED vars
    BY <1>3 DEF vars, lines, detector, history
  <1> QED
    BY <1>1, <1>2, <1>3 DEF Next

LEMMA SampleNext ==
  ASSUME TypeOK, PipelineInv, SampleInv, [Next]_vars
  PROVE  SampleInv'
  <1> USE DEF SampleInv, TypeOK, Xor, Direction
  <1>1. CASE ClockStill
    <2>1. /\ UNCHANGED <<plus_A, plus_B, sign>>
          /\ still' = IF still < Gap THEN still + 1 ELSE still
          /\ Sample
      BY <1>1 DEF ClockStill, Clock, Rest, lines
    <2>2. CASE still = 2
      BY <2>1, <2>2 DEF Sample, PipelineInv
    <2>3. CASE still # 2
      BY <2>1, <2>3 DEF Sample, PipelineInv
    <2> QED
      BY <2>2, <2>3
  <1>2. CASE ClockTurning
    <2>1. Sample /\ still = Gap /\ still' = 0 /\ count_plus = 0
      BY <1>2 DEF ClockTurning, Clock, Turn, PipelineInv
    <2>2. sign' = IF plus_A = plus_B' THEN 1 ELSE -1
      BY <1>2 DEF ClockTurning, Turn
    <2> QED
      BY <2>1, <2>2 DEF Sample
  <1>3. CASE UNCHANGED vars
    BY <1>3 DEF vars, lines, samples, history
  <1> QED
    BY <1>1, <1>2, <1>3 DEF Next

\* What one clock does to the counters of all pulses.
Counted(renew) ==
  /\ renew = 1 => count_up_t' = 0 /\ count_down_t' = 0
  /\ renew = 0 /\ still # 2 => UNCHANGED <<count_up_t, count_down_t>>
  /\ renew = 0 /\ still = 2 /\ dir_reg = 0 =>
       count_up_t' = count_up_t + 1 /\ count_down_t' = count_down_t
  /\ renew = 0 /\ still = 2 /\ dir_reg = 1 =>
       count_down_t' = count_down_t + 1 /\ count_up_t' = count_up_t

\* ... and to those of the period.
CountedInPeriod(renew) ==
  LET clear == renew = 1 \/ delta_pos = 1
  IN  /\ clear => count_up' = 0 /\ count_down' = 0
      /\ ~clear /\ still # 2 => UNCHANGED <<count_up, count_down>>
      /\ ~clear /\ still = 2 /\ dir_reg = 0 =>
           count_up' = count_up + 1 /\ count_down' = count_down
      /\ ~clear /\ still = 2 /\ dir_reg = 1 =>
           count_down' = count_down + 1 /\ count_up' = count_up

\* The counters stay below the edges, so none of them wraps.
LEMMA CountingNext ==
  ASSUME TypeOK, PipelineInv, CountInv, NEW renew \in Bit, Count(renew)
  PROVE  Counted(renew) /\ CountedInPeriod(renew)
  <1>1. still = 2 => count_up_t + count_down_t < MaxEdges
    BY DEF CountInv, EdgesCounted, InFlight, TypeOK
  <1>2. still = 2 => count_up + 1 < Modulus /\ count_down + 1 < Modulus
                     /\ count_up_t + 1 < Modulus /\ count_down_t + 1 < Modulus
    BY <1>1 DEF CountInv, TypeOK
  <1>3. Counted(renew)
    BY <1>2 DEF Counted, Count, Counter, Inc, PipelineInv, TypeOK
  <1>4. CountedInPeriod(renew)
    BY <1>2 DEF CountedInPeriod, Count, Counter, Inc, PipelineInv, TypeOK, delta_pos
  <1> QED
    BY <1>3, <1>4

LEMMA CountNext ==
  ASSUME TypeOK, PipelineInv, CountInv, [Next]_vars
  PROVE  CountInv'
  <1> USE DEF TypeOK, CountInv, EdgesCounted, InFlight
  <1>1. ASSUME NEW renew \in Bit, Clock(renew), Rest(renew) PROVE CountInv'
    <2>1. Counted(renew) /\ CountedInPeriod(renew)
      BY <1>1, CountingNext DEF Clock
    <2>2. still' = (IF still < Gap THEN still + 1 ELSE still) /\ edges' = Edges(renew)
      BY <1>1 DEF Rest
    <2> QED
      BY <2>1, <2>2 DEF Counted, CountedInPeriod, Edges
  <1>2. ASSUME NEW renew \in Bit, Clock(renew), Turn(renew) PROVE CountInv'
    <2>1. Counted(renew) /\ CountedInPeriod(renew)
      BY <1>2, CountingNext DEF Clock
    <2>2. still = Gap /\ still' = 0 /\ edges' = Edges(renew) + 1
      BY <1>2 DEF Turn
    <2> QED
      BY <2>1, <2>2 DEF Counted, CountedInPeriod, Edges
  <1>3. CASE UNCHANGED vars
    BY <1>3 DEF vars, counters, history
  <1> QED
    BY <1>1, <1>2, <1>3 DEF Next, ClockStill, ClockTurning

LEMMA NetNext ==
  ASSUME TypeOK, PipelineInv, SampleInv, CountInv, NetInv, [Next]_vars
  PROVE  NetInv'
  <1> USE DEF TypeOK, NetInv, Direction
  <1>1. ASSUME NEW renew \in Bit, Clock(renew), Rest(renew) PROVE NetInv'
    <2>1. Counted(renew)
      BY <1>1, CountingNext DEF Clock
    <2>2. /\ still' = (IF still < Gap THEN still + 1 ELSE still)
          /\ edges' = Edges(renew) /\ net' = Net(renew) /\ sign' = sign
      BY <1>1 DEF Rest
    <2>3. still < 2 => dir_reg' = dir_reg
      BY <1>1 DEF Clock, Sample, SampleInv, PipelineInv
    <2>4. still = 2 => edges >= 1
      BY DEF CountInv, EdgesCounted, InFlight
    <2>5. CASE renew = 0
      BY <2>1, <2>2, <2>3, <2>5 DEF Counted, Edges, Net
    <2>6. CASE renew = 1
      BY <2>1, <2>2, <2>3, <2>6 DEF Counted, Edges, Net
    <2> QED
      BY <2>5, <2>6
  <1>2. ASSUME NEW renew \in Bit, Clock(renew), Turn(renew) PROVE NetInv'
    <2>1. Counted(renew)
      BY <1>2, CountingNext DEF Clock
    <2>2. still = Gap /\ still' = 0 /\ (sign' = 1 \/ sign' = -1)
      BY <1>2 DEF Turn
    <2>3. Direction(dir_reg') = sign
      BY <1>2, <2>2 DEF Clock, Sample, SampleInv, PipelineInv, Xor
    <2>4. count_up_t - count_down_t - net + sign \in {-1, 1}
      BY <2>2
    <2>5. CASE renew = 0
      <3>1. UNCHANGED <<count_up_t, count_down_t>>
        BY <2>1, <2>2, <2>5 DEF Counted
      <3>2. net' = net + sign' /\ edges' = edges + 1
        BY <1>2, <2>5 DEF Turn, Edges, Net
      <3>3. edges \in Nat /\ net \in Int /\ count_up_t \in Nat /\ count_down_t \in Nat
            /\ -edges <= net /\ net <= edges
        OBVIOUS
      <3>4. -edges' <= net' /\ net' <= edges'
        BY <2>2, <3>2, <3>3
      <3>5. count_up_t' - count_down_t' - net' + sign' + Direction(dir_reg') \in {-1, 1}
        BY <2>2, <2>3, <2>4, <3>1, <3>2, <3>3
      <3> QED
        BY <2>2, <3>4, <3>5
    <2>6. CASE renew = 1
      <3>1. count_up_t' = 0 /\ count_down_t' = 0
        BY <2>1, <2>6 DEF Counted
      <3>2. net' = sign' /\ edges' = 1
        BY <1>2, <2>2, <2>6 DEF Turn, Edges, Net
      <3> QED
        BY <2>2, <2>3, <3>1, <3>2
    <2> QED
      BY <2>5, <2>6
  <1>3. CASE UNCHANGED vars
    BY <1>3 DEF vars, counters, history, samples
  <1> QED
    BY <1>1, <1>2, <1>3 DEF Next, ClockStill, ClockTurning

LEMMA TimerNext ==
  ASSUME TypeOK, TimerInv, [Next]_vars
  PROVE  TimerInv'
  BY DEF TypeOK, TimerInv, Next, ClockStill, ClockTurning, Clock, Timer, vars, timer

\* A period begins at the latch and is cleared one clock later.
LEMMA DeltaNext ==
  ASSUME TypeOK, PipelineInv, CountInv, TimerInv, DeltaInv, [Next]_vars
  PROVE  DeltaInv'
  <1> USE DEF TypeOK, Word
  <1>1. ASSUME NEW renew \in Bit, Clock(renew),
               still' \in {0, still + 1} \/ (still' = still /\ still = Gap)
        PROVE  DeltaInv'
    <2> SUFFICES ASSUME variant' = "sum", renewed' = 0 PROVE DeltaInv'
      BY DEF DeltaInv
    <2>1. renew = 0 /\ variant = "sum"
      BY <1>1 DEF Clock
    <2>2. Counted(0) /\ CountedInPeriod(0)
      BY <1>1, <2>1, CountingNext DEF Clock
    <2>3. CASE delta_flag = 1
      <3>1. total_count' = count_up_t + count_down_t
        BY <1>1, <2>1, <2>3 DEF Clock, Latch, Output, Add, CountInv, EdgesCounted, InFlight
      <3>2. delta_pos' = 1
        BY <1>1, <2>3 DEF Clock, Timer, TimerInv, delta_pos
      <3>3. still = 2 => count_plus' = 0
        BY <1>1 DEF Clock, Detect, PipelineInv, Xor
      <3>4. count_up_t' \in Nat /\ count_down_t' \in Nat /\ total_count' \in Nat
        BY <2>2, <3>1 DEF Counted
      <3>5. CASE still = 2
        <4>1. count_up_t' + count_down_t' = total_count' + 1
          BY <2>2, <3>1, <3>5 DEF Counted
        <4>2. count_up_t' + count_down_t' - total_count' = 1
          BY <3>4, <4>1, GrowthNext
        <4> QED
          BY <3>2, <3>3, <3>5, <4>2 DEF DeltaInv
      <3>6. CASE still # 2
        <4>1. count_up_t' + count_down_t' = total_count' + 0
          BY <2>2, <3>1, <3>6 DEF Counted
        <4>2. count_up_t' + count_down_t' - total_count' = 0
          BY <3>4, <4>1, GrowthNext
        <4> QED
          BY <3>2, <4>2 DEF DeltaInv
      <3> QED
        BY <3>5, <3>6
    <2>4. CASE delta_flag = 0
      <3>1. total_count' = total_count /\ delta_pos' = 0 /\ renewed = 0
        BY <1>1, <2>1, <2>4 DEF Clock, Latch, latches, Timer, delta_pos
      <3>2. CASE delta_pos = 1
        BY <2>1, <2>2, <3>1, <3>2 DEF Counted, CountedInPeriod, DeltaInv, PipelineInv
      <3>3. CASE delta_pos = 0
        BY <2>1, <2>2, <3>1, <3>3 DEF Counted, CountedInPeriod, DeltaInv
      <3> QED
        BY <3>2, <3>3 DEF delta_pos
    <2> QED
      BY <2>3, <2>4
  <1>2. CASE UNCHANGED vars
    <2>1. delta_pos' = delta_pos /\ UNCHANGED <<variant, renewed, counters, total_count, count_plus>>
      BY <1>2 DEF vars, timer, detector, latches, history, delta_pos
    <2> QED
      BY <2>1 DEF DeltaInv, counters
  <1>3. CASE ClockStill
    <2>1. PICK renew \in Bit : Clock(renew) /\ Rest(renew)
      BY <1>3 DEF ClockStill
    <2>2. still' \in {0, still + 1} \/ (still' = still /\ still = Gap)
      BY <2>1 DEF Rest
    <2> QED
      BY <1>1, <2>1, <2>2
  <1>4. CASE ClockTurning
    BY <1>1, <1>4 DEF ClockTurning, Turn
  <1> QED
    BY <1>2, <1>3, <1>4 DEF Next

LEMMA TypeNext ==
  ASSUME TypeOK, PipelineInv, CountInv, NetInv', CountInv', [Next]_vars
  PROVE  TypeOK'
  <1>1. ASSUME NEW renew \in Bit, Clock(renew), Rest(renew) \/ Turn(renew) PROVE TypeOK'
    <2>1. Counted(renew) /\ CountedInPeriod(renew)
      BY <1>1, CountingNext DEF Clock
    <2>2. /\ variant' \in {"sum", "difference"} /\ renewed' \in Bit
          /\ clk_cnt' \in 0..Last
          /\ delta_flag' \in Bit /\ delta_flag_t' \in Bit /\ delta_flag_tt' \in Bit
      BY <1>1 DEF Clock, Timer, TypeOK
    <2>3. /\ signal_C' \in Bit /\ signal_D' \in Bit /\ count_plus' \in Bit
          /\ plus_A_t' \in Bit /\ plus_A_tt' \in Bit /\ plus_B_t' \in Bit /\ dir_reg' \in Bit
      BY <1>1 DEF Clock, Detect, Sample, Xor, TypeOK
    <2>4. /\ plus_A' \in Bit /\ plus_B' \in Bit
          /\ still' \in 0..Gap /\ sign' \in {-1, 1}
      BY <1>1 DEF Rest, Turn, lines, TypeOK
    <2>5. edges' \in 0..MaxEdges
      <3>1. CASE Rest(renew)
        BY <3>1 DEF Rest, Edges, TypeOK
      <3>2. CASE Turn(renew)
        BY <3>2 DEF Turn, Edges, TypeOK
      <3> QED
        BY <1>1, <3>1, <3>2
    <2>6. net' \in -MaxEdges..MaxEdges
      <3>1. net' \in Int
        BY <1>1, <2>4 DEF Rest, Turn, Net, TypeOK
      <3>2. -edges' <= net' /\ net' <= edges'
        BY DEF NetInv
      <3> QED
        BY <2>5, <3>1, <3>2, WithinEdges
    <2>7. /\ count_up_t' \in Nat /\ count_down_t' \in Nat
          /\ count_up' \in Nat /\ count_down' \in Nat
      BY <2>1 DEF Counted, CountedInPeriod, TypeOK
    <2>8. /\ count_up' \in 0..MaxEdges /\ count_down' \in 0..MaxEdges
          /\ count_up_t' \in 0..MaxEdges /\ count_down_t' \in 0..MaxEdges
      <3>1. PICK flight \in Nat : count_up_t' + count_down_t' + flight = edges'
        BY DEF CountInv, EdgesCounted, InFlight
      <3>2. count_up_t' \in 0..MaxEdges /\ count_down_t' \in 0..MaxEdges
        BY <2>5, <2>7, <3>1, PulsesWithinEdges
      <3>3. count_up' <= count_up_t' /\ count_down' <= count_down_t'
        BY DEF CountInv
      <3> QED
        BY <2>7, <3>2, <3>3, BelowBound
    <2>9. delta_count' \in Word /\ total_count' \in Word
      BY <1>1 DEF Clock, Latch, latches, Output, Add, Sub, Word, TypeOK
    <2> QED
      BY <2>2, <2>3, <2>4, <2>5, <2>6, <2>8, <2>9 DEF TypeOK
  <1>2. CASE UNCHANGED vars
    BY <1>2 DEF vars, lines, timer, detector, samples, counters, latches, history, TypeOK
  <1> QED
    BY <1>1, <1>2 DEF Next, ClockStill, ClockTurning

LEMMA NextIInv == IInv /\ [Next]_vars => IInv'
  BY PipelineNext, SampleNext, CountNext, NetNext, TimerNext, DeltaNext, TypeNext DEF IInv

LEMMA IInvInvariant == Spec => []IInv
  BY InitIInv, NextIInv, PTL DEF Spec

-----------------------------------------------------------------------------
\* The registers of the counters hold values of their widths, for any period, gap
\* and width.
THEOREM TypeCorrect == Spec => []TypeOK
  <1>1. IInv => TypeOK
    BY DEF IInv
  <1> QED
    BY <1>1, IInvInvariant, PTL

\* No edge is lost or counted twice on its way through the detector of encode_pd.
THEOREM EveryEdgeCounted == Spec => []EdgesCounted
  <1>1. IInv => EdgesCounted
    BY DEF IInv, CountInv
  <1> QED
    BY <1>1, IInvInvariant, PTL

\* The lag of dir_reg moves the position of axis A by two edges and no more.
THEOREM NetError == Spec => NetWithinTwo
  <1>1. IInv /\ [Next]_vars =>
          [variant = "difference" /\ delta_flag = 1 /\ still = Gap =>
             \E e \in {-2, 0, 2} : total_count' = AsWord(net + e)]_vars
    <2> SUFFICES ASSUME IInv, Next, variant = "difference", delta_flag = 1, still = Gap
                 PROVE  \E e \in {-2, 0, 2} : total_count' = AsWord(net + e)
      OBVIOUS
    <2> USE DEF IInv, TypeOK
    <2>1. total_count' = Sub(count_up_t, count_down_t)
      BY DEF Next, ClockStill, ClockTurning, Clock, Latch, Output
    <2>2. count_up_t - count_down_t - net + sign \in {-1, 1}
      BY DEF NetInv
    <2>3. PICK e \in {-2, 0, 2} : count_up_t - count_down_t = net + e
      BY <2>2
    <2>4. Sub(count_up_t, count_down_t) = AsWord(count_up_t - count_down_t)
      BY DEF Sub, AsWord
    <2> QED
      BY <2>1, <2>3, <2>4
  <1> QED
    BY <1>1, IInvInvariant, PTL DEF Spec, NetWithinTwo

\* A period reported to the PC misses one pulse of the total at most.
THEOREM DeltaError == Spec => DeltaShortByOne
  <1>1. IInv /\ [Next]_vars =>
          [variant = "sum" /\ delta_flag = 1 /\ renewed = 0 =>
             total_count' - total_count - delta_count' \in {0, 1}]_vars
    <2> SUFFICES ASSUME IInv, Next, variant = "sum", delta_flag = 1, renewed = 0
                 PROVE  total_count' - total_count - delta_count' \in {0, 1}
      OBVIOUS
    <2> USE DEF IInv, TypeOK, Word
    <2>1. /\ total_count' = Add(count_up_t, count_down_t)
          /\ delta_count' = Add(count_up, count_down)
      BY DEF Next, ClockStill, ClockTurning, Clock, Latch, Output
    <2>2. count_up_t + count_down_t <= MaxEdges
      BY DEF CountInv, EdgesCounted, InFlight
    <2>3. /\ total_count' = count_up_t + count_down_t
          /\ delta_count' = count_up + count_down
      BY <2>1, <2>2 DEF Add, CountInv
    <2>4. delta_pos = 0
      BY DEF delta_pos, TimerInv
    <2> QED
      BY <2>3, <2>4 DEF DeltaInv
  <1> QED
    BY <1>1, IInvInvariant, PTL DEF Spec, DeltaShortByOne
=============================================================================
