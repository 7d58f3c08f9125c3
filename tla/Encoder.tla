------------------------------- MODULE Encoder -------------------------------
(***************************************************************************)
(* The encoder counters of the card: rtl/encode_pd.v (axes X, Y and Z) and *)
(* rtl/encode_pd_a.v (axis A), which differ only in the outputs: the sum   *)
(* of the pulses in both directions, or their difference.                  *)
(*                                                                         *)
(* One step is one rising edge of clk: every register takes its next value *)
(* from the old values of all, and meanwhile the encoder may turn by one   *)
(* edge of one of its two lines.  Bits are 0 and 1.  The model starts when *)
(* the asynchronous reset ends, with the encoder at rest on 00.            *)
(*                                                                         *)
(* A definition whose name begins with Bug is a deliberate fault in the    *)
(* definition after it; no specification uses it.                          *)
(***************************************************************************)
EXTENDS Integers

CONSTANTS
  Last,      \* last value of clk_cnt in a period ('d99999)
  Modulus,   \* the counters are counted modulo 2^32
  Gap,       \* whole clocks the encoder stands still between two edges
  MaxEdges   \* bound: edges between two clears, so that no counter wraps

\* A period outlasts the four clocks around its end, and an edge the pipeline.
ASSUME PeriodAssumption == Last \in Nat /\ Last >= 4
ASSUME GapAssumption == Gap \in Nat /\ Gap >= 3
ASSUME EdgeAssumption ==
  /\ MaxEdges \in Nat /\ Modulus \in Nat
  /\ MaxEdges >= 2 /\ Modulus > MaxEdges

VARIABLES
  variant,                                      \* "sum" for encode_pd, "difference" for encode_pd_a
  plus_A, plus_B,                               \* the lines of the encoder
  clk_cnt, delta_flag, delta_flag_t, delta_flag_tt,
  signal_C, signal_D, count_plus,
  plus_A_t, plus_A_tt, plus_B_t, dir_reg,
  count_up, count_down,                         \* pulses of this period
  count_up_t, count_down_t,                     \* pulses since the last clear
  delta_count, total_count,                     \* what the PC reads
  still,     \* history: clocks since the last edge, up to Gap
  sign,      \* history: direction of the last edge, 1 or -1
  edges,     \* history: edges since the last clear
  net,       \* history: where they have taken the axis
  renewed    \* history: whether counters were cleared since the last latch

lines == <<plus_A, plus_B>>
timer == <<clk_cnt, delta_flag, delta_flag_t, delta_flag_tt>>
detector == <<signal_C, signal_D, count_plus>>
samples == <<plus_A_t, plus_A_tt, plus_B_t, dir_reg>>
counters == <<count_up, count_down, count_up_t, count_down_t>>
latches == <<delta_count, total_count>>
history == <<still, sign, edges, net, renewed>>
vars == <<variant, lines, timer, detector, samples, counters, latches, history>>

Bit == {0, 1}
Xor(x, y) == IF x = y THEN 0 ELSE 1
Word == 0 .. Modulus - 1
Inc(x) == IF x = Modulus - 1 THEN 0 ELSE x + 1
Add(x, y) == IF x + y < Modulus THEN x + y ELSE x + y - Modulus
Sub(x, y) == IF x >= y THEN x - y ELSE x - y + Modulus

-----------------------------------------------------------------------------
(* The always blocks.                                                      *)

BugPeriodTooLong ==
  /\ clk_cnt' = IF clk_cnt > Last THEN 0 ELSE clk_cnt + 1
  /\ delta_flag' = IF clk_cnt = Last THEN 1 ELSE 0
  /\ delta_flag_t' = delta_flag
  /\ delta_flag_tt' = delta_flag_t

Timer ==
  /\ clk_cnt' = IF clk_cnt = Last THEN 0 ELSE clk_cnt + 1
  /\ delta_flag' = IF clk_cnt = Last THEN 1 ELSE 0
  /\ delta_flag_t' = delta_flag
  /\ delta_flag_tt' = delta_flag_t

BugNeverPos == 0

\* Rising edge of delta_flag, one clock after the outputs were latched.
delta_pos == IF delta_flag_tt = 0 /\ delta_flag_t = 1 THEN 1 ELSE 0

BugOneLineDetected ==
  /\ signal_C' = plus_A
  /\ signal_D' = signal_C
  /\ count_plus' = Xor(signal_C, signal_D)

Detect ==
  /\ signal_C' = Xor(plus_A, plus_B)
  /\ signal_D' = signal_C
  /\ count_plus' = Xor(signal_C, signal_D)

BugDirectionOfSamples ==
  /\ IF count_plus = 1
     THEN plus_A_t' = plus_A /\ plus_A_tt' = plus_A_t /\ plus_B_t' = plus_B
     ELSE UNCHANGED <<plus_A_t, plus_A_tt, plus_B_t>>
  /\ dir_reg' = Xor(plus_A_t, plus_B_t)

\* The lines are sampled while a pulse is counted, so the direction that counts
\* it is that of the pulse before.
Sample ==
  /\ IF count_plus = 1
     THEN plus_A_t' = plus_A /\ plus_A_tt' = plus_A_t /\ plus_B_t' = plus_B
     ELSE UNCHANGED <<plus_A_t, plus_A_tt, plus_B_t>>
  /\ dir_reg' = Xor(plus_A_tt, plus_B_t)

\* A counter: cleared first, then counting.
Counter(old, new, clear, counts) ==
  new = IF clear = 1 THEN 0 ELSE IF counts THEN Inc(old) ELSE old

Count(renew) ==
  LET forward == dir_reg = 0 /\ count_plus = 1
      backward == dir_reg = 1 /\ count_plus = 1
      clear == IF renew = 1 THEN 1 ELSE delta_pos
  IN  /\ Counter(count_up, count_up', clear, forward)
      /\ Counter(count_down, count_down', clear, backward)
      /\ Counter(count_up_t, count_up_t', renew, forward)
      /\ Counter(count_down_t, count_down_t', renew, backward)

Output(up, down) == IF variant = "sum" THEN Add(up, down) ELSE Sub(up, down)

Latch ==
  IF delta_flag = 1
  THEN /\ delta_count' = Output(count_up, count_down)
       /\ total_count' = Output(count_up_t, count_down_t)
  ELSE UNCHANGED latches

-----------------------------------------------------------------------------
(* The encoder.  Turned forwards it goes through 00, 10, 11, 01.           *)

\* An edge takes three clocks from the line to the counters.
InFlight == IF still <= 2 THEN 1 ELSE 0

\* What is known of the edges after a clock with this clear, before the next edge.
Edges(renew) == IF renew = 1 THEN (IF still < 2 THEN 1 ELSE 0) ELSE edges
Net(renew) == IF renew = 1 THEN (IF still < 2 THEN sign ELSE 0) ELSE net

Rest(renew) ==
  /\ UNCHANGED <<lines, sign>>
  /\ still' = IF still < Gap THEN still + 1 ELSE still
  /\ edges' = Edges(renew)
  /\ net' = Net(renew)

Turn(renew) ==
  /\ still = Gap
  /\ edges < MaxEdges
  /\ \/ plus_A' = 1 - plus_A /\ plus_B' = plus_B
     \/ plus_B' = 1 - plus_B /\ plus_A' = plus_A
  /\ sign' = IF plus_A = plus_B' THEN 1 ELSE -1
  /\ still' = 0
  /\ edges' = Edges(renew) + 1
  /\ net' = Net(renew) + sign'

Clock(renew) ==
  /\ Timer /\ Detect /\ Sample /\ Count(renew) /\ Latch
  /\ renewed' = IF renew = 1 THEN 1 ELSE IF delta_flag = 1 THEN 0 ELSE renewed
  /\ variant' = variant

-----------------------------------------------------------------------------
Init ==
  /\ variant \in {"sum", "difference"}
  /\ plus_A = 0 /\ plus_B = 0
  /\ clk_cnt = 0 /\ delta_flag = 0 /\ delta_flag_t = 0 /\ delta_flag_tt = 0
  /\ signal_C = 0 /\ signal_D = 0 /\ count_plus = 0
  /\ plus_A_t = 0 /\ plus_A_tt = 0 /\ plus_B_t = 0 /\ dir_reg = 0
  /\ count_up = 0 /\ count_down = 0 /\ count_up_t = 0 /\ count_down_t = 0
  /\ delta_count = 0 /\ total_count = 0
  /\ still = Gap /\ sign = 1 /\ edges = 0 /\ net = 0 /\ renewed = 0

ClockStill == \E renew \in Bit : Clock(renew) /\ Rest(renew)

ClockTurning == \E renew \in Bit : Clock(renew) /\ Turn(renew)

Next == ClockStill \/ ClockTurning

Spec == Init /\ [][Next]_vars

-----------------------------------------------------------------------------
\* Registers have their widths, and the counters never reach the bound at
\* which they would wrap.
TypeOK ==
  /\ variant \in {"sum", "difference"}
  /\ plus_A \in Bit /\ plus_B \in Bit
  /\ clk_cnt \in 0..Last
  /\ delta_flag \in Bit /\ delta_flag_t \in Bit /\ delta_flag_tt \in Bit
  /\ signal_C \in Bit /\ signal_D \in Bit /\ count_plus \in Bit
  /\ plus_A_t \in Bit /\ plus_A_tt \in Bit /\ plus_B_t \in Bit /\ dir_reg \in Bit
  /\ count_up \in 0..MaxEdges /\ count_down \in 0..MaxEdges
  /\ count_up_t \in 0..MaxEdges /\ count_down_t \in 0..MaxEdges
  /\ delta_count \in Word /\ total_count \in Word
  /\ still \in 0..Gap /\ sign \in {-1, 1}
  /\ edges \in 0..MaxEdges /\ net \in -MaxEdges..MaxEdges
  /\ renewed \in Bit

\* Every edge of either line is counted once, three clocks later, in one of
\* the two directions, whatever clears and period ends fall in between.
EdgesCounted == count_up_t + count_down_t + InFlight = edges

\* A number as the PC reads it from a register.
AsWord(n) == IF n >= 0 THEN n ELSE n + Modulus

\* The position of axis A that the PC reads is off by two edges at most, however
\* often the axis has turned round: the lag of one pulse in dir_reg does not
\* add up.
NetWithinTwo ==
  [][variant = "difference" /\ delta_flag = 1 /\ still = Gap =>
       \E e \in {-2, 0, 2} : total_count' = AsWord(net + e)]_vars

\* delta_count and total_count are read out of different counters, cleared at
\* different times: a period falls short of the growth of the total by one
\* pulse at most, the one that comes between the latch and the clear.
DeltaShortByOne ==
  [][variant = "sum" /\ delta_flag = 1 /\ renewed = 0 =>
       total_count' - total_count - delta_count' \in {0, 1}]_vars

-----------------------------------------------------------------------------
(* Stated by the source, and not kept by it.                               *)

\* total_count is forward minus backward (encode_pd_a.v:239).
NetExact ==
  [][variant = "difference" /\ delta_flag = 1 /\ still = Gap =>
       total_count' = AsWord(net)]_vars
=============================================================================
