--------------------------- MODULE Interpolation ---------------------------
(***************************************************************************)
(* Interpolation: how a word of the motion FIFO becomes pulses, for one    *)
(* axis.  rtl/clk_2ms.v brings a new word every 2 ms, rtl/sel_assign.v and *)
(* rtl/dda.v hand its field to rtl/interpolation.v, which accumulates it   *)
(* and makes the pulses that rtl/pctocard_count.v counts for the PC.       *)
(*                                                                         *)
(* One step is one rising edge of tlpclk.  The direction follows the word  *)
(* two clocks before the pulses do and is left out; so are the registers   *)
(* of interpolation.v that no output depends on (delta, delta_flag,        *)
(* plus_num, plus_total, q_t, q_tt).                                       *)
(*                                                                         *)
(* A definition whose name begins with Bug is a deliberate fault in the    *)
(* definition after it; no specification uses it.                          *)
(***************************************************************************)
EXTENDS Integers

CONSTANTS
  CLOCKS,   \* 250000
  MaxData,  \* 127: seven bits
  Modulus   \* 2^32

CLK_DELAY == CLOCKS - 1

\* A block is long enough for the pulses of the greatest word and for the clocks they cost.
Slow ==
  /\ MaxData \in Nat /\ CLOCKS \in Nat /\ CLOCKS >= 8
  /\ MaxData * (MaxData + 2) < CLOCKS \div 2
  /\ Modulus \in Nat /\ MaxData < Modulus

VARIABLES
  valid,
  fifo31_empty,  \* gates the word; fifo31 is another FIFO than the word's
  counter, clkout, word,    \* clk_2ms and the output of fifo33
  data_x, data_reg, clk_num, clk_flag, sum, q,
  plus_t, plus_tt, card_count,
  lo, hi,  \* history: least and greatest data_reg of the block
  last,    \* history: lo and hi of the block that has just ended
  base     \* history: card_count at the beginning of the block

ddavars == <<data_x, data_reg, clk_num, clk_flag, sum, q>>
cardvars == <<plus_t, plus_tt, card_count>>
vars == <<valid, fifo31_empty, counter, clkout, word, ddavars, cardvars, lo, hi, last, base>>

NoBlock == [lo |-> 0, hi |-> MaxData]

\* fifo33 is not empty: module MotionPath has what happens when it is.
clk_2ms ==
  /\ clkout' = (valid /\ counter = CLOCKS)
  /\ counter' = IF valid /\ counter < CLOCKS THEN counter + 1 ELSE 0
  /\ IF clkout THEN word' \in 0..MaxData ELSE UNCHANGED word

dataout == IF fifo31_empty THEN 0 ELSE word

dda == data_x' = IF valid THEN dataout ELSE 0

BugNotCarried == IF sum >= CLOCKS THEN 0 ELSE sum + data_reg
Sum ==
  CASE ~valid \/ clk_flag -> 0
    [] valid /\ ~clk_flag /\ sum >= CLOCKS -> sum - CLOCKS
    [] OTHER -> sum + data_reg

Pulse ==
  /\ valid /\ ~clk_flag
  /\ sum < CLOCKS
  /\ sum >= CLOCKS \div 2 \/ q

interpolation ==
  /\ data_reg' = IF valid THEN data_x ELSE 0
  /\ clk_flag' = (valid /\ clk_num = CLK_DELAY - 1)
  /\ clk_num' = IF valid /\ clk_num # CLK_DELAY - 1 THEN clk_num + 1 ELSE 0
  /\ sum' = Sum
  /\ q' = Pulse

plus_flag == plus_t /\ ~plus_tt

pctocard_count(renew) ==
  /\ plus_t' = q
  /\ plus_tt' = plus_t
  /\ card_count' = IF renew THEN 0 ELSE IF plus_flag THEN (card_count + 1) % Modulus
                   ELSE card_count

\* A pulse is counted three clocks after it is made, before the next block makes one.
Settled == clk_num = 2

\* What renew clears need not be seen again.
Least(renew, least) == IF renew THEN 0 ELSE least

history(renew) ==
  /\ base' = IF renew THEN 0 ELSE IF Settled THEN card_count ELSE base
  /\ IF valid /\ ~clk_flag
     THEN /\ lo' = Least(renew, IF data_reg < lo THEN data_reg ELSE lo)
          /\ hi' = IF data_reg > hi THEN data_reg ELSE hi
          /\ last' = IF Settled THEN NoBlock ELSE [last EXCEPT !.lo = Least(renew, @)]
     ELSE /\ lo' = MaxData /\ hi' = 0
          /\ last' = IF valid THEN [lo |-> Least(renew, lo), hi |-> hi] ELSE NoBlock

-----------------------------------------------------------------------------
Init ==
  /\ valid = FALSE /\ fifo31_empty \in BOOLEAN
  /\ counter = 0 /\ clkout = FALSE /\ word \in 0..MaxData
  /\ data_x = 0 /\ data_reg = 0 /\ clk_num = 0 /\ clk_flag = FALSE /\ sum = 0 /\ q = FALSE
  /\ plus_t = FALSE /\ plus_tt = FALSE /\ card_count = 0
  /\ lo = MaxData /\ hi = 0 /\ last = NoBlock /\ base = 0

Next ==
  \E renew \in BOOLEAN :
    /\ valid' \in BOOLEAN /\ UNCHANGED fifo31_empty
    /\ clk_2ms /\ dda /\ interpolation /\ pctocard_count(renew) /\ history(renew)

Spec == Init /\ [][Next]_vars

-----------------------------------------------------------------------------
TypeOK ==
  /\ {valid, fifo31_empty, clkout, clk_flag, q, plus_t, plus_tt} \subseteq BOOLEAN
  /\ counter \in 0..CLOCKS /\ clk_num \in 0..(CLK_DELAY - 1)
  /\ {word, data_x, data_reg, lo, hi} \subseteq 0..MaxData
  /\ sum \in 0..(CLOCKS + MaxData - 1)
  /\ card_count \in 0..(Modulus - 1) /\ base \in 0..(Modulus - 1)
  /\ last \in [lo : 0..MaxData, hi : 0..MaxData]

\* In a block pctocard_count counts at least the least and at most the greatest of the
\* data that were in effect, so a block with one word gives exactly as many pulses as the
\* word says: although a clock is lost with every pulse, what is owed at the end of a
\* block is dropped, and blocks (249999 clocks) drift against words (250001).
PulsesWithinData ==
  Settled => (card_count - base) % Modulus \in last.lo..last.hi
=============================================================================
