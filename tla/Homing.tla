------------------------------- MODULE Homing -------------------------------
(***************************************************************************)
(* Homing: rtl/motor_ctrl.v (axis Z) and rtl/motor_ctrl_xy.v (axes X and   *)
(* Y), that is key_gen.v with state_ctrl.v or state_ctrl_xy.v, and the     *)
(* switch between homing and jogging, zero_sel.v, as rtl/CNC_CARD.v        *)
(* connects them.                                                          *)
(*                                                                         *)
(* One step is one rising edge of the 40 MHz clock, with all times in the  *)
(* code scaled down, and everything an axis does in that time.  An axis    *)
(* stands at a position between its hard stops; on the way up it passes    *)
(* its home switch and comes to its limit switch.  Direction 1 leads up.   *)
(*                                                                         *)
(* A definition whose name begins with Bug is a deliberate fault in the    *)
(* definition after it; no specification uses it.                          *)
(***************************************************************************)
EXTENDS Integers

CONSTANTS
  Axes,      \* axes that are homed, Z among them
  Z,
  c_button,  \* clocks a switch is closed before it counts (4000000)
  c_40ms,    \* clocks in a tick of the speed table (1600000)
  c_2s,      \* clocks an axis moves back from its home switch (200000000)
  RomLast,   \* ticks in the speed table (100)
  Home,      \* positions that close the home switch: Home..HomeEnd
  HomeEnd,
  Limit,     \* positions that close the limit switch: Limit..End
  End,
  MaxPress,  \* bound: times the button is pressed
  MaxJog     \* bound: clocks on which the operator jogs

ASSUME AxesAssumption == Z \in Axes
ASSUME TimeAssumption ==
  /\ c_button \in Nat /\ c_button >= 3 /\ c_2s \in Nat /\ RomLast \in Nat \ {0}
  /\ c_40ms \in Nat /\ c_40ms >= 2 /\ c_button >= 2 * c_40ms
ASSUME BoundAssumption == MaxPress \in Nat /\ MaxJog \in Nat
ASSUME TrackAssumption ==
  /\ Home \in Nat /\ HomeEnd \in Nat /\ Limit \in Nat /\ End \in Nat
  /\ Home <= HomeEnd /\ HomeEnd + 3 < Limit /\ Limit <= End

\* Where the home switch, met from below, is recognised.
Seen == Home + c_button + 1

\* Where homing leaves an axis: past that point, by what SLOW moves.
HomeRange == Seen .. Seen + (RomLast + 1) * c_40ms + 3

\* SLOW, which does not look at the limit switch, ends before it.
ASSUME SlowAssumption == Seen + (RomLast + 1) * c_40ms + 3 < Limit

VARIABLES
  key_zero,      \* the homing button
  flag,          \* zero_sel passes the pulses of homing on, not those of jogging
  pos,           \* position of each axis
  count,         \* clocks each switch has been closed
  key_rdy,       \* pulse: the switch has been closed for c_button clocks
  r_state, r_state3_cnt, r_pluse_zero, r_dir,
  r_clkdiv_cnt,  \* clocks since the last tick
  r_rom_cnt, r_set,
  clean,         \* history: started properly, button held since
  presses, jogs  \* what MaxPress and MaxJog bound

vars == <<key_zero, flag, pos, count, key_rdy, r_state, r_state3_cnt, r_pluse_zero, r_dir,
          r_clkdiv_cnt, r_rom_cnt, r_set, clean, presses, jogs>>

Keys == {"start", "home", "limit"}
States == {"IDLE", "FAST", "SLOW", "BACK", "LIMIT"}

\* Where the counters stop ('d4194303); any number above c_button does.
c_max == c_button + 1

-----------------------------------------------------------------------------
(* key_gen: a switch that stays closed gives one pulse.                    *)

\* The start key of X and Y is not debounced: key1 is tied to 0.
Closed(a, k) ==
  CASE k = "start" -> a = Z /\ key_zero
    [] k = "home"  -> pos[a] \in Home..HomeEnd
    [] k = "limit" -> pos[a] >= Limit

BugCountsOn ==
  /\ count' = [a \in Axes |-> [k \in Keys |-> IF ~Closed(a, k) THEN 0 ELSE count[a][k] + 1]]
  /\ key_rdy' = [a \in Axes |-> [k \in Keys |-> count[a][k] = c_button]]

BugLevel ==
  /\ count' = [a \in Axes |-> [k \in Keys |->
       IF ~Closed(a, k) THEN 0 ELSE IF count[a][k] < c_max THEN count[a][k] + 1 ELSE c_max]]
  /\ key_rdy' = [a \in Axes |-> [k \in Keys |-> count[a][k] >= c_button]]

key_gen ==
  /\ count' = [a \in Axes |-> [k \in Keys |->
       IF ~Closed(a, k) THEN 0 ELSE IF count[a][k] < c_max THEN count[a][k] + 1 ELSE c_max]]
  /\ key_rdy' = [a \in Axes |-> [k \in Keys |-> count[a][k] = c_button]]

-----------------------------------------------------------------------------
(* state_ctrl and state_ctrl_xy                                            *)

BugStartAtOnce(a) == IF a = Z THEN key_rdy[a]["start"] ELSE key_zero

\* X and Y start on the level of the button, while Z reports that it is done.
Start(a) == IF a = Z THEN key_rdy[a]["start"] ELSE key_zero /\ r_set[Z]

BugLimitIgnored(a) == IF key_rdy[a]["home"] THEN "SLOW" ELSE "FAST"

\* In FAST the home switch outranks the limit switch.
AfterFast(a) ==
  IF key_rdy[a]["home"] THEN "SLOW" ELSE IF key_rdy[a]["limit"] THEN "LIMIT" ELSE "FAST"

BugNoBack(a) == IF key_rdy[a]["home"] THEN "FAST" ELSE "LIMIT"

\* In LIMIT the axis goes back until it meets the home switch from above.
AfterLimit(a) == IF key_rdy[a]["home"] THEN "BACK" ELSE "LIMIT"

NextState(a) ==
  CASE r_state[a] = "IDLE"  -> IF Start(a) THEN "FAST" ELSE "IDLE"
    [] r_state[a] = "FAST"  -> AfterFast(a)
    [] r_state[a] = "SLOW"  -> IF r_set[a] THEN "IDLE" ELSE "SLOW"
    [] r_state[a] = "BACK"  -> IF r_state3_cnt[a] = c_2s THEN "FAST" ELSE "BACK"
    [] r_state[a] = "LIMIT" -> AfterLimit(a)

state_ctrl ==
  /\ r_state' = [a \in Axes |-> NextState(a)]
  /\ r_state3_cnt' = [a \in Axes |->
       IF r_state[a] # "BACK" THEN 0
       ELSE IF r_state3_cnt[a] < c_2s THEN r_state3_cnt[a] + 1 ELSE r_state3_cnt[a]]
  /\ r_pluse_zero' = [a \in Axes |-> r_state[a] = "IDLE"]
  /\ r_dir' = [a \in Axes |-> IF r_state[a] \in {"BACK", "LIMIT"} THEN 0 ELSE 1]

\* The tick: r_clkdiv, raised on the clock after the counter has wrapped, is the
\* clock of the speed table, which sees the states of this clock.  r_state2_zero
\* has the same value as r_set always.
speed_table ==
  /\ r_clkdiv_cnt' = IF r_clkdiv_cnt < c_40ms - 1 THEN r_clkdiv_cnt + 1 ELSE 0
  /\ IF r_clkdiv_cnt = 0
     THEN /\ r_rom_cnt' = [a \in Axes |->
               IF r_state'[a] # "SLOW" THEN 0
               ELSE IF r_rom_cnt[a] < RomLast THEN r_rom_cnt[a] + 1 ELSE r_rom_cnt[a]]
          /\ r_set' = [a \in Axes |-> r_rom_cnt[a] = RomLast]
     ELSE UNCHANGED <<r_rom_cnt, r_set>>

-----------------------------------------------------------------------------
(* The axes and the operator.                                              *)

Stopped(p) == IF p < 0 THEN 0 ELSE IF p > End THEN End ELSE p

\* Homing moves an axis by one position a clock.  What the speed table holds is
\* not in the repository: in SLOW an axis may move or not.
HomingMoves ==
  \E resting \in SUBSET {a \in Axes : r_state[a] = "SLOW"} :
    pos' = [a \in Axes |-> IF r_pluse_zero[a] \/ a \in resting THEN pos[a]
                          ELSE Stopped(IF r_dir[a] = 1 THEN pos[a] + 1 ELSE pos[a] - 1)]

JogMoves ==
  /\ jogs < MaxJog
  /\ jogs' = jogs + 1
  /\ \E a \in Axes, d \in {-1, 1} : pos' = [pos EXCEPT ![a] = Stopped(@ + d)]

\* zero_sel passes on the pulses of homing, or those of the operator.
Move ==
  \/ flag /\ HomingMoves /\ UNCHANGED jogs
  \/ ~flag /\ UNCHANGED <<pos, jogs>>
  \/ ~flag /\ JogMoves

\* zero_sel follows the button 126 clocks of its own later: a fraction of a step.
zero_sel == flag' = key_zero

\* An axis starts properly off its limit switch, with the home switch settled.
ProperStart(a) ==
  /\ r_state[a] = "IDLE" /\ r_state'[a] = "FAST"
  /\ pos[a] < Limit
  /\ count[a]["home"] = IF Closed(a, "home") THEN c_max ELSE 0

Clean == clean' = [a \in Axes |-> key_zero /\ (clean[a] \/ ProperStart(a))]

Clock == key_gen /\ state_ctrl /\ speed_table /\ zero_sel /\ Move /\ Clean

Hold == UNCHANGED <<key_zero, presses>>
Press == ~key_zero /\ key_zero' = TRUE /\ presses < MaxPress /\ presses' = presses + 1
LetGo == key_zero /\ key_zero' = FALSE /\ UNCHANGED presses

Init ==
  /\ key_zero = FALSE /\ flag = FALSE
  /\ pos \in [Axes -> {0, Limit - 1}]
  /\ count = [a \in Axes |-> [k \in Keys |-> 0]]
  /\ key_rdy = [a \in Axes |-> [k \in Keys |-> FALSE]]
  /\ r_state = [a \in Axes |-> "IDLE"]
  /\ r_state3_cnt = [a \in Axes |-> 0]
  /\ r_pluse_zero = [a \in Axes |-> FALSE]
  /\ r_dir = [a \in Axes |-> 0]
  /\ r_clkdiv_cnt = 0
  /\ r_rom_cnt = [a \in Axes |-> 0]
  /\ r_set = [a \in Axes |-> FALSE]
  /\ clean = [a \in Axes |-> FALSE]
  /\ presses = 0 /\ jogs = 0

ClockOnly == Clock /\ Hold
ClockPress == Clock /\ Press
ClockLetGo == Clock /\ LetGo

Next == ClockOnly \/ ClockPress \/ ClockLetGo

Spec == Init /\ [][Next]_vars

\* The clock runs.
FairSpec == Spec /\ WF_vars(Next)

-----------------------------------------------------------------------------
\* Counters, states and positions are in their ranges, and every table has an
\* entry for each axis.
TypeOK ==
  /\ key_zero \in BOOLEAN /\ flag \in BOOLEAN
  /\ pos \in [Axes -> 0..End]
  /\ count \in [Axes -> [Keys -> 0..c_max]] /\ key_rdy \in [Axes -> [Keys -> BOOLEAN]]
  /\ r_state \in [Axes -> States]
  /\ r_state3_cnt \in [Axes -> 0..c_2s]
  /\ r_pluse_zero \in [Axes -> BOOLEAN] /\ r_dir \in [Axes -> {0, 1}]
  /\ r_clkdiv_cnt \in 0..c_40ms - 1
  /\ r_rom_cnt \in [Axes -> 0..RomLast] /\ r_set \in [Axes -> BOOLEAN]
  /\ clean \in [Axes -> BOOLEAN]
  /\ presses \in 0..MaxPress /\ jogs \in 0..MaxJog

\* An axis that started properly runs on over its limit switch no further than
\* the switch needs to be recognised: it never meets its hard stop.
LimitRespected == \A a \in Axes : clean[a] => pos[a] <= Limit + c_button + 3

\* An axis reports that it is at home at the same place, wherever it started.
HomePrecise ==
  [][\A a \in Axes : ~r_set[a] /\ r_set'[a] /\ clean[a] => pos[a] \in HomeRange]_vars

\* X and Y start after Z has gone home, and while it stands there: but for a Z
\* that is started again while it still reports the last time.
XYAfterZ ==
  [][\A a \in Axes \ {Z} :
       r_state[a] = "IDLE" /\ r_state'[a] = "FAST" /\ clean[Z] =>
         \/ pos[Z] \in HomeRange /\ r_state'[Z] = "IDLE"
         \/ r_state[Z] = "FAST" /\ r_set[Z]]_vars

\* Once Z has started properly, X and Y, waiting off their limit switches, get
\* home after it, unless the button is let go.
AllGetHome ==
  \A a \in Axes \ {Z} :
    (clean[Z] /\ r_state[Z] = "FAST" /\ r_state[a] = "IDLE" /\ pos[a] < Limit)
      ~> (r_set[a] \/ ~key_zero)
=============================================================================
