---------------------------- MODULE AxisOutputs ----------------------------
(***************************************************************************)
(* AxisOutputs: which of the eight outputs of the card an axis drives      *)
(* (rtl/co_assign.v), and the tool magazine (rtl/tool_mag_ctrl.v), which   *)
(* takes the outputs for itself while it turns.                            *)
(*                                                                         *)
(* One step is one rising edge of tlpclk.  An output is named by what      *)
(* drives its pulse and direction.  The pulse train of the magazine (rot,  *)
(* rot_dir), its arm and clamp (go, back, tool_loos, enable_tlmag) and     *)
(* what it reports (aux_feedback) are left out.                            *)
(*                                                                         *)
(* A definition whose name begins with Bug is a deliberate fault in the    *)
(* definition after it; no specification uses it.                          *)
(***************************************************************************)
EXTENDS Integers, FiniteSets

CONSTANTS
  Selections,  \* the sets of outputs the PC may enable: co1 to co8
  Hold,        \* the pocket switch counts from 0 to this: 125
  Pockets,     \* pockets the PC may ask for are 1..Pockets: 24
  Modulus      \* of rot_number: 2^20

Sized ==
  /\ Selections \subseteq SUBSET (1..8)
  /\ Hold \in Nat /\ Pockets \in Nat /\ Modulus \in Nat \ {0}

Outputs == 1..8
Axes == <<"x", "y", "z", "a">>

VARIABLES
  co, coreg, mag, out,
  command,    \* aux_data: bits 3..0 (rotate or not) and 8..4 (the pocket, or 0)
  rst,        \* the card is held in reset
  rot_count, clr_counts,   \* the pocket switch, closed or not; a key
  rot_number, time_delay_two, target_number, rot_state, use_axis8,
  asked       \* history: the pocket of the last command to rotate

magvars == <<command, rst, rot_count, clr_counts, rot_number, time_delay_two, target_number,
             rot_state, use_axis8, asked>>
vars == <<co, coreg, mag, out, magvars>>

-----------------------------------------------------------------------------
(* co_assign                                                               *)

\* The first axis on the first enabled output, and so on.
InOrder(on) ==
  [o \in Outputs |-> IF o \in on THEN Axes[Cardinality({i \in on : i <= o})] ELSE "none"]

\* Three rows of the table are not what the other 159 are.
Row(on) ==
  CASE on = {3, 5, 7} -> [InOrder({3, 5, 6}) EXCEPT ![7] = "none"]
    [] on = {5, 6, 8} -> [InOrder({5, 7, 8}) EXCEPT ![6] = "none"]
    [] on = {5, 7, 8} -> [InOrder({5, 8}) EXCEPT ![7] = "none"]
    [] Cardinality(on) \in 1..4 /\ on \notin {{3, 5, 7}, {5, 6, 8}, {5, 7, 8}} -> InOrder(on)
    [] OTHER -> InOrder(1..4)

co_assign ==
  /\ coreg' = co
  /\ mag' = use_axis8
  /\ out' = IF mag THEN [o \in Outputs |-> IF o = 8 THEN "magazine" ELSE "none"]
            ELSE Row(coreg)

-----------------------------------------------------------------------------
(* tool_mag_ctrl                                                           *)

counts ==
  IF clr_counts THEN rot_number' = 0 /\ time_delay_two' = 0
  ELSE IF ~rot_count THEN UNCHANGED <<rot_number, time_delay_two>>
  ELSE IF time_delay_two = Hold
       THEN rot_number' = (rot_number + 1) % Modulus /\ time_delay_two' = 0
       ELSE time_delay_two' = time_delay_two + 1 /\ UNCHANGED rot_number

Reached == rot_number = target_number

\* The default of the case statement keeps what the comparison would clear.
Target == IF command.pocket # 0 THEN command.pocket ELSE target_number

BugStopFirst == ~Reached /\ (command.rotate \/ rot_state)
Turning == command.rotate \/ (rot_state /\ ~Reached)

tool_mag_ctrl ==
  /\ counts
  /\ target_number' = Target
  /\ rot_state' = Turning
  /\ use_axis8' = (command.rotate \/ (use_axis8 /\ ~Reached))

Reset ==
  /\ rot_number' = 0 /\ rot_state' = FALSE
  /\ UNCHANGED <<time_delay_two, target_number, use_axis8>>

\* The PC gives the pocket with the command to rotate, and then takes both back.
Orders == {[rotate |-> TRUE, pocket |-> n] : n \in 1..Pockets}
NoOrder == [rotate |-> FALSE, pocket |-> 0]

pc ==
  /\ command' \in Orders \cup {NoOrder}
  /\ asked' = IF command'.rotate THEN command'.pocket ELSE asked
  /\ rst' \in BOOLEAN /\ rot_count' \in BOOLEAN /\ clr_counts' \in BOOLEAN

-----------------------------------------------------------------------------
Init ==
  /\ co \in Selections /\ coreg = co /\ mag = FALSE /\ out = [o \in Outputs |-> "none"]
  /\ command = NoOrder /\ rst = FALSE /\ rot_count = FALSE /\ clr_counts = FALSE
  /\ rot_number = 0 /\ time_delay_two = 0 /\ target_number = 0
  /\ rot_state = FALSE /\ use_axis8 = FALSE /\ asked = 0

Clock == ~rst /\ tool_mag_ctrl /\ co_assign /\ pc /\ UNCHANGED co
ClockInReset == rst /\ Reset /\ co_assign /\ pc /\ UNCHANGED co

Next == Clock \/ ClockInReset

Spec == Init /\ [][Next]_vars

-----------------------------------------------------------------------------
TypeOK ==
  /\ co \in Selections /\ coreg \subseteq Outputs
  /\ out \in [Outputs -> {"x", "y", "z", "a", "magazine", "none"}]
  /\ {mag, rst, rot_count, clr_counts, rot_state, use_axis8} \subseteq BOOLEAN
  /\ command \in Orders \cup {NoOrder} /\ asked \in 0..Pockets
  /\ rot_number \in 0..(Modulus - 1) /\ time_delay_two \in 0..Hold
  /\ target_number \in 0..Pockets

\* But for a reset the magazine stops only at the pocket last asked for: a command to
\* rotate is in force as long as the PC leaves it and overrides the comparison that would
\* stop the magazine, and the statement that clears the target is overridden, too.
StopsAtPocket ==
  [][rot_state /\ ~rot_state' /\ ~rst => rot_number = asked]_vars

\* An output that is not enabled does not move while one to four are
\* (module_hierarchy.md:173: co1 to co8 select the outputs).
OnlySelected ==
  \A o \in Outputs :
    Cardinality(coreg) \in 1..4 /\ out[o] \notin {"none", "magazine"} => o \in coreg
=============================================================================
