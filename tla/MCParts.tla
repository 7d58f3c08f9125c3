------------------------------ MODULE MCParts ------------------------------
(***************************************************************************)
(* MCParts: model checking of the parts that share no state, in one run.   *)
(* A behaviour is one of the part it begins with; the others stand still.  *)
(* A name two parts use for a variable has the part before it here.  What  *)
(* is not named as of a part is of module CncDevice, the driver.           *)
(***************************************************************************)
EXTENDS CncDevice

CONSTANTS
  Parts,  \* those that are checked
  MaxPackets, MaxGap, MaxStall,
  Depth, AlmostEmpty, Batch, Period, Hold, MaxBatches,
  CLOCKS, MaxData, CountModulus,
  JogHold, Half, Far,
  Ratios, Gap, Timeout, Words,
  Selections, Pockets, RotModulus,
  ByteTime, Rounds, Between

VARIABLES
  part,
  packets, todo, gap, fifo1, rx, rx_state, headrega, headregb, addr, memsel1,
  extdqreg, dqoen, sel, dqinreg, pctocardreg, wr_flag, cnt, wrreq, plain, tx_state,
  memrdcpheadregb, memrdack, stall, pushed, answers,
  start, halt, cnt_start, flag_start, cnt_stop, flag_stop, valid, counter, clkout,
  fifo33, q, intreg, pre_state1, app_int_sts, line, batches, m_pc, sent, written,
  executed,
  i_valid, i_counter, i_clkout, i_q, i_sum, fifo31_empty, word, data_x, data_reg,
  clk_num, clk_flag, plus_t, plus_tt, card_count, lo, hi, last, base,
  key, j_cnt, flag, c, f, dir, puls, cnt_puls, j_at,
  c0, since, deal_sign, curr_state_M, t0, S_timer, data, h_wrreq, queue, h_q,
  curr_state_F, rdreq, q_in, q_out, q_sign, h_sum, F_timer, c1, p, owed,
  co, coreg, mag, out, command, rst, rot_count, clr_counts, rot_number,
  time_delay_two, target_number, rot_state, use_axis8, asked,
  op, turn, place, s_pc, wait, credits, RRDY_seen, result, hasty, tx_holding, shift, left,
  rx_holding, RRDY, SSO, esc_turn, esc_place

pcievars == <<packets, todo, gap, fifo1, rx, rx_state, headrega, headregb, addr,
              memsel1, extdqreg, dqoen, sel, dqinreg, pctocardreg, wr_flag, cnt, wrreq,
              plain, tx_state, memrdcpheadregb, memrdack, stall, pushed, answers>>
motionvars == <<start, halt, cnt_start, flag_start, cnt_stop, flag_stop, valid, counter,
                clkout, fifo33, q, intreg, pre_state1, app_int_sts, line, batches, m_pc,
                sent, written, executed>>
interpolationvars == <<i_valid, i_counter, i_clkout, i_q, i_sum, fifo31_empty, word,
                       data_x, data_reg, clk_num, clk_flag, plus_t, plus_tt, card_count,
                       lo, hi, last, base>>
jogvars == <<key, j_cnt, flag, c, f, dir, puls, cnt_puls, j_at>>
wheelvars == <<c0, since, deal_sign, curr_state_M, t0, S_timer, data, h_wrreq, queue,
               h_q, curr_state_F, rdreq, q_in, q_out, q_sign, h_sum, F_timer, c1, p,
               owed>>
outputvars == <<co, coreg, mag, out, command, rst, rot_count, clr_counts, rot_number,
                time_delay_two, target_number, rot_state, use_axis8, asked>>
spivars == <<op, turn, place, s_pc, wait, credits, RRDY_seen, result, hasty, tx_holding,
             shift, left, rx_holding, RRDY, SSO, esc_turn, esc_place>>
partsvars == <<part, pcievars, motionvars, interpolationvars, jogvars, wheelvars, outputvars,
               spivars, vars>>

P == INSTANCE PcieCore
M == INSTANCE MotionPath WITH pc <- m_pc
I == INSTANCE Interpolation
       WITH valid <- i_valid, counter <- i_counter, clkout <- i_clkout, q <- i_q,
            sum <- i_sum, Modulus <- CountModulus
J == INSTANCE Jog WITH cnt <- j_cnt, at <- j_at, Hold <- JogHold
H == INSTANCE HandWheel WITH wrreq <- h_wrreq, q <- h_q, sum <- h_sum
A == INSTANCE AxisOutputs WITH Modulus <- RotModulus
S == INSTANCE SpiTransfer WITH pc <- s_pc

\* What the proofs assume of the constants.
ASSUME MotionAssumption == M!Fits
ASSUME JogAssumption == J!Debounced
ASSUME OutputsAssumption == A!Sized
ASSUME PcieAssumption == P!Paced
ASSUME InterpolationAssumption == I!Slow
ASSUME WheelAssumption == H!Spaced
ASSUME SpiAssumption == S!Timed

\* A part that stands still does so in one state.
Still ==
  /\ part # "interpolation" => ~fifo31_empty /\ word = 0
  /\ part # "jog" => j_at = 1
  /\ part # "hand wheel" => \A r \in Ratios : c0 <= r
  /\ part # "outputs" => co = CHOOSE s \in Selections : TRUE

PartsInit ==
  /\ part \in Parts
  /\ P!Init /\ M!Init /\ I!Init /\ J!Init /\ H!Init /\ A!Init /\ S!Init /\ Init
  /\ Still

Pcie ==
  /\ part = "pcie" /\ P!Next
  /\ UNCHANGED <<part, motionvars, interpolationvars, jogvars, wheelvars, outputvars, spivars,
                 vars>>
Motion ==
  /\ part = "motion" /\ M!Next
  /\ UNCHANGED <<part, pcievars, interpolationvars, jogvars, wheelvars, outputvars, spivars,
                 vars>>
Interpolate ==
  /\ part = "interpolation" /\ I!Next
  /\ UNCHANGED <<part, pcievars, motionvars, jogvars, wheelvars, outputvars, spivars,
                 vars>>
Jogging ==
  /\ part = "jog" /\ J!Next
  /\ UNCHANGED <<part, pcievars, motionvars, interpolationvars, wheelvars, outputvars, spivars,
                 vars>>
Wheel ==
  /\ part = "hand wheel" /\ H!Next
  /\ UNCHANGED <<part, pcievars, motionvars, interpolationvars, jogvars, outputvars, spivars,
                 vars>>
Outputs ==
  /\ part = "outputs" /\ A!Next
  /\ UNCHANGED <<part, pcievars, motionvars, interpolationvars, jogvars, wheelvars, spivars,
                 vars>>
Driver ==
  /\ part = "driver" /\ Next
  /\ UNCHANGED <<part, pcievars, motionvars, interpolationvars, jogvars, wheelvars, outputvars,
                 spivars>>

Transfer ==
  /\ part = "spi" /\ S!Next
  /\ UNCHANGED <<part, pcievars, motionvars, interpolationvars, jogvars, wheelvars, outputvars,
                 vars>>

PartsNext == Pcie \/ Motion \/ Interpolate \/ Jogging \/ Wheel \/ Outputs \/ Driver \/ Transfer

PartsSpec == PartsInit /\ [][PartsNext]_partsvars

\* The fairness of PcieCore!FairSpec and MotionPath!FairSpec.
PartsFairSpec ==
  /\ PartsSpec
  /\ WF_pcievars(part = "pcie" /\ P!Next)
  /\ WF_motionvars(part = "motion" /\ M!Next)
  /\ WF_motionvars(part = "motion" /\ M!Next /\ line' # line)
  /\ WF_motionvars(part = "motion" /\ M!Handler)

-----------------------------------------------------------------------------
\* The type invariant of every part.
PartsTypeOK ==
  P!TypeOK /\ M!TypeOK /\ I!TypeOK /\ J!TypeOK /\ H!TypeOK /\ A!TypeOK /\ S!TypeOK /\ TypeOK

\* The properties of the parts, each stated in its module.
PushedInOrder == P!PushedInOrder
AnsweredInOrder == P!AnsweredInOrder
WrittenByOwn == P!WrittenByOwn
Served == P!Served
WordsInOrder == M!WordsInOrder
Executed == M!Executed
HandsOver == M!HandsOver
PulsesWithinData == I!PulsesWithinData
StaysBetweenSwitches == J!StaysBetweenSwitches
EveryWordMade == H!EveryWordMade
OwnByteOrZero == S!OwnByteOrZero
StopsAtPocket == A!StopsAtPocket
=============================================================================
