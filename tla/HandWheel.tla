----------------------------- MODULE HandWheel -----------------------------
(***************************************************************************)
(* HandWheel: how a turn of the hand wheel becomes pulses.  rtl/fsm_hw.v   *)
(* measures the time between two edges of the wheel and queues it;         *)
(* rtl/puls_hw.v takes it out and makes, for each, c0 edges of its own     *)
(* within less than that time.                                             *)
(*                                                                         *)
(* One step is one rising edge of the 50 MHz clock.  rtl/filter_encode.v   *)
(* keeps two edges of the wheel Gap clocks apart or more; the ratio switch *)
(* stands still, so that the debounced flags and c0 do, too.               *)
(*                                                                         *)
(* A definition whose name begins with Bug is a deliberate fault in the    *)
(* definition after it; no specification uses it.                          *)
(***************************************************************************)
EXTENDS Integers, Sequences

CONSTANTS
  Ratios,   \* the values of c0: 2, 12, 32
  Gap,      \* least number of clocks between two edges of the wheel
  Timeout,  \* clocks after which fsm_hw stops measuring
  Words     \* words the queue holds: 32

\* A word can be divided, and the next comes after the first quotient.
Spaced ==
  /\ Gap \in Nat /\ Gap >= 7 /\ Timeout \in Nat /\ Timeout >= Gap /\ Words \in Nat \ {0}
  /\ Ratios \subseteq 1..(Gap - 1)

VARIABLES
  c0,
  since,    \* clocks since the last edge, up to Gap
  deal_sign,                             \* fsm_hw has seen an edge
  curr_state_M, t0, S_timer, data, wrreq,
  queue, q,
  curr_state_F, rdreq, q_in, q_out, q_sign, sum, F_timer, c1, p,
  owed      \* history: edges of p that words in the queue or out of it still call for

fsmvars == <<since, deal_sign, curr_state_M, t0, S_timer, data, wrreq>>
pulsvars == <<curr_state_F, rdreq, q_in, q_out, q_sign, sum, F_timer, c1, p>>
vars == <<c0, fsmvars, queue, q, pulsvars, owed>>

-----------------------------------------------------------------------------
(* fsm_hw                                                                  *)

next_state_M ==
  CASE curr_state_M = "M0" -> IF deal_sign THEN "M1" ELSE "M0"
    [] curr_state_M = "M1" -> IF deal_sign THEN "M2" ELSE IF S_timer THEN "M0" ELSE "M1"
    [] curr_state_M = "M2" -> IF deal_sign THEN "M2" ELSE "M1"

full == Len(queue) = Words
empty == queue = <<>>

\* After filter_encode and the edge detection.
Edge ==
  \E edge \in BOOLEAN :
    /\ edge => since = Gap
    /\ deal_sign' = edge
    /\ since' = IF edge THEN 1 ELSE IF since < Gap THEN since + 1 ELSE since

fsm_hw ==
  /\ curr_state_M' = next_state_M
  /\ CASE next_state_M = "M0" -> t0' = 0 /\ S_timer' = FALSE /\ data' = 0 /\ wrreq' = FALSE
       [] next_state_M = "M1" ->
            /\ data' = t0 /\ wrreq' = FALSE
            /\ S_timer' = (t0 >= Timeout)
            /\ t0' = IF t0 >= Timeout THEN t0 ELSE t0 + 1
       [] next_state_M = "M2" ->
            /\ wrreq' = ~full
            /\ data' = IF full THEN 0 ELSE t0
            /\ t0' = 0 /\ S_timer' = FALSE

Accepted == wrreq /\ ~full

fifo ==
  LET left == IF rdreq /\ ~empty THEN Tail(queue) ELSE queue
  IN  /\ queue' = IF Accepted THEN Append(left, data) ELSE left
      /\ q' = IF rdreq /\ ~empty THEN Head(queue) ELSE q

-----------------------------------------------------------------------------
(* puls_hw                                                                 *)

LastEdge == c1 = c0

next_state_F ==
  CASE curr_state_F = "F0" -> IF empty THEN "F0" ELSE "F1"
    [] curr_state_F = "F1" -> IF q_sign THEN "F2" ELSE "F1"
    [] curr_state_F = "F2" -> IF F_timer THEN "F3" ELSE "F2"
    [] curr_state_F = "F3" /\ LastEdge -> IF empty THEN "F0" ELSE "F1"
    [] OTHER -> "F2"

Idle ==
  /\ c1' = 0 /\ F_timer' = FALSE /\ sum' = 0 /\ rdreq' = FALSE /\ p' = FALSE
  /\ q_out' = 0 /\ q_in' = 0

\* The word that is divided is the one read before, not the one asked for here.
Fetch ==
  /\ c1' = 0 /\ F_timer' = FALSE /\ sum' = 0 /\ rdreq' = TRUE /\ p' = FALSE
  /\ q_out' = q_in /\ q_in' = q \div c0

BugKeepsReading == TRUE
ReadsOn == FALSE

Wait ==
  /\ q_out' = q_in /\ rdreq' = ReadsOn
  /\ F_timer' = (sum >= q_out \div 2 /\ sum < q_out)
  /\ sum' = IF sum >= q_out THEN 0 ELSE sum + c0
  /\ UNCHANGED <<c1, p, q_in>>

Toggle ==
  /\ p' = ~p /\ c1' = c1 + 1 /\ rdreq' = FALSE /\ F_timer' = FALSE /\ sum' = 0
  /\ UNCHANGED <<q_out, q_in>>

puls_hw ==
  /\ curr_state_F' = next_state_F
  /\ q_sign' = (q_in # 0)
  /\ CASE next_state_F = "F0" -> Idle
       [] next_state_F = "F1" -> Fetch
       [] next_state_F = "F2" -> Wait
       [] next_state_F = "F3" -> Toggle

-----------------------------------------------------------------------------
Init ==
  /\ c0 \in Ratios
  /\ since = Gap /\ deal_sign = FALSE
  /\ curr_state_M = "M0" /\ t0 = 0 /\ S_timer = FALSE /\ data = 0 /\ wrreq = FALSE
  /\ queue = <<>> /\ q = 0
  /\ curr_state_F = "F0" /\ rdreq = FALSE /\ q_in = 0 /\ q_out = 0 /\ q_sign = FALSE
  /\ sum = 0 /\ F_timer = FALSE /\ c1 = 0 /\ p = FALSE
  /\ owed = 0

Next ==
  /\ Edge /\ fsm_hw /\ fifo /\ puls_hw
  /\ owed' = owed + (IF Accepted THEN c0 ELSE 0) - (IF next_state_F = "F3" THEN 1 ELSE 0)
  /\ UNCHANGED c0

Spec == Init /\ [][Next]_vars

-----------------------------------------------------------------------------
TypeOK ==
  /\ c0 \in Ratios /\ since \in 0..Gap
  /\ {deal_sign, S_timer, wrreq, rdreq, q_sign, F_timer, p} \subseteq BOOLEAN
  /\ curr_state_M \in {"M0", "M1", "M2"} /\ curr_state_F \in {"F0", "F1", "F2", "F3"}
  /\ {t0, data, q, q_in, q_out} \subseteq 0..Timeout
  /\ queue \in Seq(1..Timeout) /\ Len(queue) <= Words
  /\ sum \in 0..(Timeout + c0) /\ c1 \in 0..c0
  /\ owed \in Int

\* puls_hw makes c0 edges for every word that fsm_hw queues, no more and no less: rdreq
\* stays high while it waits for a quotient, and would take out words that nothing is
\* made of.
EveryWordMade ==
  /\ owed >= 0
  /\ curr_state_F = "F0" /\ empty => owed = 0
=============================================================================
