---------------------------- MODULE HomingProofs ----------------------------
(***************************************************************************)
(* Theorems about Homing, for any axes, times and switch positions that    *)
(* satisfy its assumptions.                                                *)
(***************************************************************************)
EXTENDS Homing, TLAPS

USE AxesAssumption, TimeAssumption, BoundAssumption, TrackAssumption

\* Each group of always blocks keeps its registers in range.
LEMMA KeysTyped ==
  ASSUME TypeOK, key_gen
  PROVE  count' \in [Axes -> [Keys -> 0..c_max]] /\ key_rdy' \in [Axes -> [Keys -> BOOLEAN]]
  <1>1. ASSUME NEW a \in Axes, NEW k \in Keys
        PROVE  (IF ~Closed(a, k) THEN 0
                ELSE IF count[a][k] < c_max THEN count[a][k] + 1 ELSE c_max) \in 0..c_max
    <2>1. count[a][k] \in 0..c_max
      BY DEF TypeOK
    <2> QED
      BY <2>1 DEF c_max
  <1> QED
    BY <1>1 DEF key_gen

LEMMA StatesTyped ==
  ASSUME TypeOK, state_ctrl
  PROVE  /\ r_state' \in [Axes -> States] /\ r_state3_cnt' \in [Axes -> 0..c_2s]
         /\ r_pluse_zero' \in [Axes -> BOOLEAN] /\ r_dir' \in [Axes -> {0, 1}]
  <1>1. ASSUME NEW a \in Axes PROVE NextState(a) \in States
    <2>1. r_state[a] \in States
      BY DEF TypeOK
    <2> QED
      BY <2>1 DEF NextState, AfterFast, AfterLimit, States
  <1>2. ASSUME NEW a \in Axes
        PROVE  (IF r_state[a] # "BACK" THEN 0
                ELSE IF r_state3_cnt[a] < c_2s THEN r_state3_cnt[a] + 1 ELSE r_state3_cnt[a])
                 \in 0..c_2s
    <2>1. r_state3_cnt[a] \in 0..c_2s
      BY DEF TypeOK
    <2> QED
      BY <2>1
  <1> QED
    BY <1>1, <1>2 DEF state_ctrl

LEMMA TableTyped ==
  ASSUME TypeOK, speed_table
  PROVE  /\ r_clkdiv_cnt' \in 0..c_40ms - 1
         /\ r_rom_cnt' \in [Axes -> 0..RomLast] /\ r_set' \in [Axes -> BOOLEAN]
  <1>1. r_clkdiv_cnt' \in 0..c_40ms - 1
    BY DEF speed_table, TypeOK
  <1>2. ASSUME NEW a \in Axes
        PROVE  (IF r_state'[a] # "SLOW" THEN 0
                ELSE IF r_rom_cnt[a] < RomLast THEN r_rom_cnt[a] + 1 ELSE r_rom_cnt[a])
                 \in 0..RomLast
    <2>1. r_rom_cnt[a] \in 0..RomLast
      BY DEF TypeOK
    <2> QED
      BY <2>1
  <1>3. CASE r_clkdiv_cnt = 0
    BY <1>1, <1>2, <1>3 DEF speed_table
  <1>4. CASE r_clkdiv_cnt # 0
    BY <1>1, <1>4 DEF speed_table, TypeOK
  <1> QED
    BY <1>3, <1>4

\* An axis stays between its hard stops.
LEMMA MoveTyped ==
  ASSUME TypeOK, Move
  PROVE  pos' \in [Axes -> 0..End] /\ jogs' \in 0..MaxJog
  <1>1. ASSUME NEW p \in Int PROVE Stopped(p) \in 0..End
    BY <1>1 DEF Stopped
  <1>2. \A a \in Axes : pos[a] \in 0..End
    BY DEF TypeOK
  <1>3. CASE HomingMoves /\ UNCHANGED jogs
    <2>1. PICK resting : pos' = [a \in Axes |->
                 IF r_pluse_zero[a] \/ a \in resting THEN pos[a]
                 ELSE Stopped(IF r_dir[a] = 1 THEN pos[a] + 1 ELSE pos[a] - 1)]
      BY <1>3 DEF HomingMoves
    <2>2. ASSUME NEW a \in Axes
          PROVE  Stopped(IF r_dir[a] = 1 THEN pos[a] + 1 ELSE pos[a] - 1) \in 0..End
      BY <1>1, <1>2
    <2> QED
      BY <1>2, <1>3, <2>1, <2>2 DEF TypeOK
  <1>4. CASE JogMoves
    <2>1. PICK a \in Axes, d \in {-1, 1} : pos' = [pos EXCEPT ![a] = Stopped(@ + d)]
      BY <1>4 DEF JogMoves
    <2>2. Stopped(pos[a] + d) \in 0..End
      BY <1>1, <1>2
    <2>3. jogs' \in 0..MaxJog
      BY <1>4 DEF JogMoves, TypeOK
    <2> QED
      BY <2>1, <2>2, <2>3 DEF TypeOK
  <1> QED
    BY <1>3, <1>4 DEF Move, TypeOK

LEMMA TypeNext == TypeOK /\ [Next]_vars => TypeOK'
  <1>1. ASSUME TypeOK, Clock, Hold \/ Press \/ LetGo PROVE TypeOK'
    <2>1. flag' \in BOOLEAN /\ key_zero' \in BOOLEAN /\ presses' \in 0..MaxPress
      <3>1. flag' \in BOOLEAN
        BY <1>1, Zenon DEF Clock, zero_sel, TypeOK
      <3>2. CASE Hold
        BY <1>1, <3>1, <3>2, Zenon DEF Hold, TypeOK
      <3>3. CASE Press
        <4>1. presses' \in 0..MaxPress
          BY <1>1, <3>3 DEF Press, TypeOK
        <4> QED
          BY <3>1, <3>3, <4>1, Zenon DEF Press
      <3>4. CASE LetGo
        BY <1>1, <3>1, <3>4, Zenon DEF LetGo, TypeOK
      <3> QED
        BY <1>1, <3>2, <3>3, <3>4
    <2>2. clean' \in [Axes -> BOOLEAN]
      <3>1. \A a \in Axes : (key_zero /\ (clean[a] \/ ProperStart(a))) \in BOOLEAN
        OBVIOUS
      <3> QED
        BY <1>1, <3>1, Zenon DEF Clock, Clean
    <2>3. key_gen /\ state_ctrl /\ speed_table /\ Move
      BY <1>1 DEF Clock
    <2> QED
      BY <1>1, <2>1, <2>2, <2>3, KeysTyped, StatesTyped, TableTyped, MoveTyped DEF TypeOK
  <1>2. ASSUME TypeOK, UNCHANGED vars PROVE TypeOK'
    BY <1>2 DEF vars, TypeOK
  <1> QED
    BY <1>1, <1>2 DEF Next, ClockOnly, ClockPress, ClockLetGo

LEMMA TypeInit == Init => TypeOK
  <1> SUFFICES ASSUME Init PROVE TypeOK
    OBVIOUS
  <1>1. pos \in [Axes -> 0..End]
    BY DEF Init
  <1>2. 0 \in 0..c_max /\ 0 \in 0..c_2s /\ 0 \in 0..c_40ms - 1 /\ 0 \in 0..RomLast
        /\ 0 \in 0..MaxPress /\ 0 \in 0..MaxJog
    BY DEF c_max
  <1>3. /\ count \in [Axes -> [Keys -> 0..c_max]] /\ r_state3_cnt \in [Axes -> 0..c_2s]
        /\ r_dir \in [Axes -> {0, 1}] /\ r_rom_cnt \in [Axes -> 0..RomLast]
        /\ r_state \in [Axes -> States]
    BY <1>2 DEF Init, States
  <1>4. /\ key_rdy \in [Axes -> [Keys -> BOOLEAN]] /\ r_pluse_zero \in [Axes -> BOOLEAN]
        /\ r_set \in [Axes -> BOOLEAN] /\ clean \in [Axes -> BOOLEAN]
    BY DEF Init
  <1>5. key_zero \in BOOLEAN /\ flag \in BOOLEAN
    BY DEF Init
  <1>6. r_clkdiv_cnt \in 0..c_40ms - 1 /\ presses \in 0..MaxPress /\ jogs \in 0..MaxJog
    BY <1>2 DEF Init
  <1> QED
    BY <1>1, <1>3, <1>4, <1>5, <1>6, Zenon DEF TypeOK

-----------------------------------------------------------------------------
\* The counters of homing never pass their ends, the state machines keep to their
\* five states, and no axis leaves its track, for any number of axes.
THEOREM TypeCorrect == Spec => []TypeOK
  BY TypeInit, TypeNext, PTL DEF Spec

-----------------------------------------------------------------------------
(* Where an axis that started properly is in each state: it meets its      *)
(* limit switch from below and its home switch from below, and SLOW ends   *)
(* between the two.                                                        *)

\* The most clocks until the speed table reports its end, plus one.
Left(a) == IF r_set[a] THEN 0
           ELSE (RomLast - r_rom_cnt[a]) * c_40ms
                  + (IF r_clkdiv_cnt = 0 THEN 0 ELSE c_40ms - r_clkdiv_cnt) + 1

\* On its home switch an axis has been so long that the switch gives no pulse.
Settled(a) == /\ pos[a] \in Home..HomeEnd => count[a]["home"] = c_max
              /\ count[a]["home"] \in {0, c_max}

\* The limit switch counts near its place only, where the home switch is open.
SwitchInv(a) ==
  /\ count[a]["limit"] >= 1 => pos[a] >= Limit - 1
  /\ key_rdy[a]["limit"] => pos[a] >= Limit - 2 /\ count[a]["home"] = 0

\* The speed table is at its end in SLOW, or has reported it.
RomInv(a) == r_rom_cnt[a] = RomLast => r_set[a] \/ r_state[a] = "SLOW"

\* An axis that waits after homing is where homing leaves it.
IdleInv(a) ==
  /\ Settled(a) /\ r_dir[a] = 1 /\ pos[a] >= Seen
  /\ pos[a] <= Seen + (RomLast + 1) * c_40ms + (IF r_pluse_zero[a] THEN 3 ELSE 2)

\* The debounce of the limit switch goes with the way beyond it.
OverLimit(a) ==
  /\ pos[a] <= Limit + count[a]["limit"]
  /\ count[a]["limit"] = c_max => key_rdy[a]["limit"]

\* A pulse of the home switch means that it was met from below.
RisingInv(a) ==
  /\ key_rdy[a]["home"] => pos[a] \in {Seen - 1, Seen} /\ Settled(a)
  /\ pos[a] \in Home..HomeEnd /\ count[a]["home"] = 0 => pos[a] = Home
  /\ count[a]["home"] \in 1..c_button =>
       \/ pos[a] - Home \in {count[a]["home"] - 1, count[a]["home"]}
       \/ count[a]["home"] <= 2 /\ pos[a] >= HomeEnd + count[a]["home"] - 1

\* On the first clock of FAST an axis stands, or moves down still.
FastInv(a) ==
  /\ OverLimit(a)
  /\ r_dir[a] = 0 =>
       ~r_pluse_zero[a] /\ pos[a] <= HomeEnd /\ Settled(a) /\ ~key_rdy[a]["home"]
  /\ r_pluse_zero[a] =>
       /\ count[a]["home"] \in {0, c_max} /\ ~key_rdy[a]["home"]
       /\ pos[a] \in Home..HomeEnd /\ count[a]["home"] = 0 => pos[a] \in {Home, HomeEnd}
  /\ r_dir[a] = 1 /\ ~r_pluse_zero[a] => RisingInv(a)

SlowInv(a) ==
  /\ Settled(a) /\ r_dir[a] = 1 /\ pos[a] >= Seen
  /\ pos[a] + Left(a) <= Seen + 1 + (RomLast + 1) * c_40ms

BackInv(a) == Settled(a) /\ r_dir[a] = 0 /\ pos[a] <= HomeEnd

\* On the first clock of LIMIT an axis moves up still.
LimitInv(a) ==
  /\ r_dir[a] = 1 =>
       /\ pos[a] \in Limit - 3 .. Limit + c_button + 2
       /\ count[a]["home"] = 0 /\ ~key_rdy[a]["home"]
  /\ r_dir[a] = 0 =>
       /\ pos[a] <= Limit + c_button + 3
       /\ count[a]["home"] >= 1 => pos[a] <= HomeEnd
       /\ key_rdy[a]["home"] => pos[a] <= HomeEnd /\ Settled(a)

PlaceInv(a) ==
  /\ r_state[a] = "IDLE" => IdleInv(a)
  /\ r_state[a] = "FAST" => FastInv(a)
  /\ r_state[a] = "SLOW" => SlowInv(a)
  /\ r_state[a] = "BACK" => BackInv(a)
  /\ r_state[a] = "LIMIT" => LimitInv(a)

\* While the button is held nobody jogs.
AxisInv(a) == SwitchInv(a) /\ RomInv(a) /\ (clean[a] => flag /\ PlaceInv(a))

IInv == TypeOK /\ \A a \in Axes : AxisInv(a)

\* What one clock does to the registers of an axis, and to its place.
LEMMA RegisterStep ==
  ASSUME TypeOK, Clock, NEW a \in Axes
  PROVE  /\ count'[a]["home"] = IF pos[a] \notin Home..HomeEnd THEN 0
              ELSE IF count[a]["home"] < c_max THEN count[a]["home"] + 1 ELSE c_max
         /\ count'[a]["limit"] = IF pos[a] < Limit THEN 0
              ELSE IF count[a]["limit"] < c_max THEN count[a]["limit"] + 1 ELSE c_max
         /\ (key_rdy'[a]["home"] <=> count[a]["home"] = c_button)
         /\ (key_rdy'[a]["limit"] <=> count[a]["limit"] = c_button)
         /\ r_state'[a] = NextState(a)
         /\ (r_pluse_zero'[a] <=> r_state[a] = "IDLE")
         /\ r_dir'[a] = IF r_state[a] \in {"BACK", "LIMIT"} THEN 0 ELSE 1
         /\ (clean'[a] <=> key_zero /\ (clean[a] \/ ProperStart(a)))
         /\ flag' = key_zero
  <1>1. key_gen /\ state_ctrl /\ Clean /\ zero_sel
    BY DEF Clock
  <1>2. (Closed(a, "home") <=> pos[a] \in Home..HomeEnd) /\ (Closed(a, "limit") <=> pos[a] >= Limit)
    BY DEF Closed
  <1>3. "home" \in Keys /\ "limit" \in Keys
    BY DEF Keys
  <1>4. pos[a] \in Int
    BY DEF TypeOK
  <1>5. /\ count'[a]["home"] = IF pos[a] \notin Home..HomeEnd THEN 0
              ELSE IF count[a]["home"] < c_max THEN count[a]["home"] + 1 ELSE c_max
        /\ count'[a]["limit"] = IF pos[a] < Limit THEN 0
              ELSE IF count[a]["limit"] < c_max THEN count[a]["limit"] + 1 ELSE c_max
    <2>1. \A k \in Keys : count'[a][k] = IF ~Closed(a, k) THEN 0
              ELSE IF count[a][k] < c_max THEN count[a][k] + 1 ELSE c_max
      BY <1>1 DEF key_gen
    <2>2. ~Closed(a, "limit") <=> pos[a] < Limit
      BY <1>2, <1>4
    <2> QED
      BY <1>2, <1>3, <2>1, <2>2
  <1>6. /\ (key_rdy'[a]["home"] <=> count[a]["home"] = c_button)
        /\ (key_rdy'[a]["limit"] <=> count[a]["limit"] = c_button)
    BY <1>1, <1>3 DEF key_gen
  <1>7. /\ r_state'[a] = NextState(a)
        /\ (r_pluse_zero'[a] <=> r_state[a] = "IDLE")
        /\ r_dir'[a] = IF r_state[a] \in {"BACK", "LIMIT"} THEN 0 ELSE 1
    BY <1>1 DEF state_ctrl
  <1>8. (clean'[a] <=> key_zero /\ (clean[a] \/ ProperStart(a))) /\ flag' = key_zero
    BY <1>1, Zenon DEF Clean, zero_sel
  <1> QED
    BY <1>5, <1>6, <1>7, <1>8

LEMMA PlaceStep ==
  ASSUME TypeOK, Move, NEW a \in Axes
  PROVE  /\ pos[a] \in 0..End /\ pos'[a] \in 0..End /\ pos'[a] - pos[a] \in -1..1
         /\ flag /\ r_pluse_zero[a] => pos'[a] = pos[a]
         /\ flag /\ r_dir[a] = 1 => pos'[a] >= pos[a]
         /\ flag /\ r_dir[a] = 0 => pos'[a] <= pos[a]
         /\ flag /\ r_dir[a] = 1 /\ ~r_pluse_zero[a] /\ r_state[a] # "SLOW" =>
              pos'[a] = pos[a] + 1 \/ (pos'[a] = End /\ pos[a] = End)
  <1>1. pos[a] \in 0..End /\ pos'[a] \in 0..End /\ r_dir[a] \in {0, 1}
    BY MoveTyped DEF TypeOK
  <1>2. CASE flag
    <2>1. PICK resting \in SUBSET {b \in Axes : r_state[b] = "SLOW"} :
            pos' = [b \in Axes |-> IF r_pluse_zero[b] \/ b \in resting THEN pos[b]
                      ELSE Stopped(IF r_dir[b] = 1 THEN pos[b] + 1 ELSE pos[b] - 1)]
      BY <1>2 DEF Move, HomingMoves
    <2>2. pos'[a] = IF r_pluse_zero[a] \/ a \in resting THEN pos[a]
                    ELSE Stopped(IF r_dir[a] = 1 THEN pos[a] + 1 ELSE pos[a] - 1)
      BY <2>1
    <2>3. a \in resting => r_state[a] = "SLOW"
      OBVIOUS
    <2>4. CASE r_pluse_zero[a] \/ a \in resting
      BY <1>1, <2>2, <2>3, <2>4
    <2>5. CASE ~(r_pluse_zero[a] \/ a \in resting)
      <3>1. CASE r_dir[a] = 1
        BY <1>1, <2>2, <2>5, <3>1 DEF Stopped
      <3>2. CASE r_dir[a] = 0
        BY <1>1, <2>2, <2>5, <3>2 DEF Stopped
      <3> QED
        BY <1>1, <3>1, <3>2
    <2> QED
      BY <2>4, <2>5
  <1>3. CASE ~flag
    <2>1. CASE UNCHANGED pos
      BY <1>1, <1>3, <2>1
    <2>2. CASE JogMoves
      <3>1. PICK b \in Axes, d \in {-1, 1} : pos' = [pos EXCEPT ![b] = Stopped(@ + d)]
        BY <2>2 DEF JogMoves
      <3>2. pos \in [Axes -> 0..End]
        BY DEF TypeOK
      <3>3. pos'[a] = IF a = b THEN Stopped(pos[a] + d) ELSE pos[a]
        BY <3>1, <3>2
      <3> QED
        BY <1>1, <1>3, <3>3 DEF Stopped
    <2> QED
      BY <1>3, <2>1, <2>2 DEF Move
  <1> QED
    BY <1>2, <1>3

LEMMA SwitchNext ==
  ASSUME TypeOK, Clock, NEW a \in Axes, SwitchInv(a)
  PROVE  SwitchInv(a)'
  <1>1. Move /\ count[a]["limit"] \in 0..c_max
    BY DEF Clock, TypeOK, Keys
  <1>2. pos[a] \in 0..End /\ pos'[a] \in 0..End /\ pos'[a] - pos[a] \in -1..1
    BY <1>1, PlaceStep
  <1>3. /\ count'[a]["home"] = IF pos[a] \notin Home..HomeEnd THEN 0
              ELSE IF count[a]["home"] < c_max THEN count[a]["home"] + 1 ELSE c_max
        /\ count'[a]["limit"] = IF pos[a] < Limit THEN 0
              ELSE IF count[a]["limit"] < c_max THEN count[a]["limit"] + 1 ELSE c_max
        /\ (key_rdy'[a]["limit"] <=> count[a]["limit"] = c_button)
    BY RegisterStep
  <1>4. count'[a]["limit"] >= 1 => pos'[a] >= Limit - 1
    BY <1>1, <1>2, <1>3
  <1>5. ASSUME key_rdy'[a]["limit"] PROVE pos'[a] >= Limit - 2 /\ count'[a]["home"] = 0
    <2>1. pos[a] >= Limit - 1
      BY <1>1, <1>3, <1>5 DEF SwitchInv
    <2> QED
      BY <1>2, <1>3, <2>1
  <1> QED
    BY <1>4, <1>5 DEF SwitchInv

LEMMA RomNext ==
  ASSUME TypeOK, Clock, NEW a \in Axes, RomInv(a)
  PROVE  RomInv(a)'
  <1>1. speed_table /\ r_state'[a] = NextState(a)
    BY RegisterStep DEF Clock
  <1>2. r_rom_cnt[a] \in 0..RomLast /\ r_set[a] \in BOOLEAN
    BY DEF TypeOK
  <1>3. CASE r_clkdiv_cnt = 0
    BY <1>1, <1>2, <1>3 DEF speed_table, RomInv
  <1>4. CASE r_clkdiv_cnt # 0
    BY <1>1, <1>2, <1>4 DEF speed_table, RomInv, NextState
  <1> QED
    BY <1>3, <1>4

\* The types of what the steps of one axis are about.
LEMMA AxisTyped ==
  ASSUME TypeOK, NEW a \in Axes
  PROVE  /\ count[a]["home"] \in 0..c_button + 1 /\ count[a]["limit"] \in 0..c_button + 1
         /\ key_rdy[a]["home"] \in BOOLEAN /\ key_rdy[a]["limit"] \in BOOLEAN
         /\ r_state[a] \in {"IDLE", "FAST", "SLOW", "BACK", "LIMIT"}
         /\ r_pluse_zero[a] \in BOOLEAN /\ r_dir[a] \in {0, 1} /\ r_set[a] \in BOOLEAN
         /\ r_rom_cnt[a] \in 0..RomLast /\ r_clkdiv_cnt \in 0..c_40ms - 1
  BY DEF TypeOK, Keys, States, c_max

\* A settled home switch stays so, unless the axis comes to it from outside.
LEMMA SettledNext ==
  ASSUME TypeOK, Clock, NEW a \in Axes, Settled(a),
         pos'[a] \in Home..HomeEnd => pos[a] \in Home..HomeEnd
  PROVE  Settled(a)' /\ ~key_rdy'[a]["home"]
  <1>1. count[a]["home"] \in 0..c_button + 1
    BY AxisTyped
  <1>2. count'[a]["home"] = IF pos[a] \notin Home..HomeEnd THEN 0 ELSE c_max
    BY <1>1, RegisterStep DEF Settled, c_max
  <1>3. ~key_rdy'[a]["home"]
    BY RegisterStep DEF Settled, c_max
  <1> QED
    BY <1>2, <1>3 DEF Settled

\* Before an axis is at its limit switch, FAST begins with the switch open.
LEMMA BelowLimit ==
  ASSUME TypeOK, Clock, NEW a \in Axes, pos[a] < Limit
  PROVE  OverLimit(a)'
  <1>1. pos'[a] <= Limit
    BY PlaceStep DEF Clock
  <1>2. count'[a]["limit"] = 0
    BY RegisterStep
  <1> QED
    BY <1>1, <1>2 DEF OverLimit, c_max

LEMMA StartNext ==
  ASSUME TypeOK, Clock, NEW a \in Axes, ProperStart(a)
  PROVE  PlaceInv(a)'
  <1>1. /\ r_state[a] = "IDLE" /\ r_state'[a] = "FAST" /\ pos[a] < Limit
        /\ count[a]["home"] = IF pos[a] \in Home..HomeEnd THEN c_max ELSE 0
    BY DEF ProperStart, Closed
  <1>2. r_pluse_zero'[a] /\ r_dir'[a] = 1 /\ ~key_rdy'[a]["home"]
    BY <1>1, RegisterStep DEF c_max
  <1>3. count'[a]["home"] = IF pos[a] \in Home..HomeEnd THEN c_max ELSE 0
    BY <1>1, RegisterStep DEF c_max
  <1>4. pos'[a] \in Home..HomeEnd /\ count'[a]["home"] = 0 => pos'[a] \in {Home, HomeEnd}
    BY <1>3, PlaceStep DEF Clock, c_max
  <1>5. OverLimit(a)'
    BY <1>1, BelowLimit
  <1>6. FastInv(a)'
    BY <1>2, <1>3, <1>4, <1>5 DEF FastInv
  <1> QED
    BY <1>1, <1>6 DEF PlaceInv

LEMMA IdleNext ==
  ASSUME TypeOK, Clock, NEW a \in Axes, flag, r_state[a] = "IDLE", IdleInv(a)
  PROVE  PlaceInv(a)'
  <1> DEFINE Way == (RomLast + 1) * c_40ms
  <1>0. Way \in Nat /\ Seen \in Nat /\ Seen >= Home + 4 /\ Seen + Way + 3 < Limit
    BY SlowAssumption DEF Seen
  <1>a. r_pluse_zero[a] \in BOOLEAN
    BY AxisTyped
  <1> HIDE DEF Way
  <1>1. /\ pos[a] \in 0..End /\ pos'[a] \in 0..End /\ pos'[a] - pos[a] \in 0..1
        /\ r_pluse_zero[a] => pos'[a] = pos[a]
    BY PlaceStep DEF Clock, IdleInv
  <1>2. r_pluse_zero'[a] /\ r_dir'[a] = 1 /\ r_state'[a] \in {"IDLE", "FAST"}
    BY RegisterStep DEF NextState
  <1>3. pos[a] >= Seen /\ pos[a] <= Seen + Way + (IF r_pluse_zero[a] THEN 3 ELSE 2)
    BY DEF IdleInv, Way
  <1>4. Settled(a)' /\ ~key_rdy'[a]["home"]
    BY <1>0, <1>1, <1>3, SettledNext DEF IdleInv
  <1>5. IdleInv(a)'
    <2>1. pos'[a] >= Seen /\ pos'[a] <= Seen + Way + 3
      BY <1>0, <1>a, <1>1, <1>3
    <2> QED
      BY <1>2, <1>4, <2>1 DEF IdleInv, Way
  <1>6. FastInv(a)'
    <2>1. pos[a] < Limit
      BY <1>0, <1>1, <1>3
    <2>2. OverLimit(a)'
      BY <2>1, BelowLimit
    <2> QED
      BY <1>2, <1>4, <2>2 DEF FastInv, Settled, c_max
  <1> QED
    BY <1>2, <1>5, <1>6 DEF PlaceInv

LEMMA BackNext ==
  ASSUME TypeOK, Clock, NEW a \in Axes, flag, r_state[a] = "BACK", BackInv(a)
  PROVE  PlaceInv(a)'
  <1>1. pos[a] \in 0..End /\ pos'[a] \in 0..End /\ pos'[a] <= pos[a] /\ pos[a] <= HomeEnd
    BY PlaceStep DEF Clock, BackInv
  <1>2. ~r_pluse_zero'[a] /\ r_dir'[a] = 0 /\ r_state'[a] \in {"BACK", "FAST"}
    BY RegisterStep DEF NextState
  <1>3. Settled(a)' /\ ~key_rdy'[a]["home"]
    BY <1>1, SettledNext DEF BackInv
  <1>4. OverLimit(a)'
    BY <1>1, BelowLimit
  <1>5. BackInv(a)' /\ FastInv(a)'
    BY <1>1, <1>2, <1>3, <1>4 DEF BackInv, FastInv
  <1> QED
    BY <1>2, <1>5 DEF PlaceInv

LEMMA LimitNext ==
  ASSUME TypeOK, Clock, NEW a \in Axes, flag, r_state[a] = "LIMIT", LimitInv(a)
  PROVE  PlaceInv(a)'
  <1>1. /\ pos[a] \in 0..End /\ pos'[a] \in 0..End /\ pos'[a] - pos[a] \in -1..1
        /\ r_dir[a] = 0 => pos'[a] <= pos[a]
    BY PlaceStep DEF Clock
  <1>2. /\ r_dir'[a] = 0 /\ r_state'[a] \in {"LIMIT", "BACK"}
        /\ r_state'[a] = "BACK" => key_rdy[a]["home"]
    BY RegisterStep DEF NextState, AfterLimit
  <1>3. count[a]["home"] \in 0..c_button + 1 /\ r_dir[a] \in {0, 1}
    BY AxisTyped
  <1>4. /\ count'[a]["home"] = IF pos[a] \notin Home..HomeEnd THEN 0
             ELSE IF count[a]["home"] < c_max THEN count[a]["home"] + 1 ELSE c_max
        /\ key_rdy'[a]["home"] <=> count[a]["home"] = c_button
    BY RegisterStep
  <1>5. CASE r_dir[a] = 1
    <2>1. count'[a]["home"] = 0 /\ ~key_rdy'[a]["home"] /\ ~key_rdy[a]["home"]
      BY <1>4, <1>5 DEF LimitInv
    <2>2. pos'[a] <= Limit + c_button + 3
      BY <1>1, <1>5 DEF LimitInv
    <2> QED
      BY <1>2, <2>1, <2>2 DEF PlaceInv, LimitInv
  <1>6. CASE r_dir[a] = 0
    <2>1. pos'[a] <= Limit + c_button + 3
      BY <1>1, <1>6 DEF LimitInv
    <2>2. count'[a]["home"] >= 1 => pos'[a] <= HomeEnd
      BY <1>1, <1>4, <1>6
    <2>3. key_rdy'[a]["home"] => pos'[a] <= HomeEnd /\ Settled(a)'
      BY <1>1, <1>3, <1>4, <1>6 DEF LimitInv, Settled, c_max
    <2>4. ASSUME key_rdy[a]["home"] PROVE BackInv(a)'
      <3>1. Settled(a) /\ pos[a] <= HomeEnd
        BY <1>6, <2>4 DEF LimitInv
      <3>2. Settled(a)'
        BY <1>1, <1>6, <3>1, SettledNext
      <3> QED
        BY <1>1, <1>2, <1>6, <3>1, <3>2 DEF BackInv
    <2> QED
      BY <1>2, <2>1, <2>2, <2>3, <2>4 DEF PlaceInv, LimitInv
  <1> QED
    BY <1>3, <1>5, <1>6

\* In SLOW every clock brings the end of the speed table one clock nearer.
LEMMA LeftNext ==
  ASSUME TypeOK, Clock, NEW a \in Axes, r_state'[a] = "SLOW", ~r_set[a]
  PROVE  Left(a)' \in Int /\ Left(a)' <= Left(a) - 1
  <1>1. speed_table
    BY DEF Clock
  <1>2. r_rom_cnt[a] \in 0..RomLast /\ r_clkdiv_cnt \in 0..c_40ms - 1
    BY AxisTyped
  <1>3. CASE r_clkdiv_cnt # 0
    <2>1. /\ r_rom_cnt'[a] = r_rom_cnt[a] /\ ~r_set'[a]
          /\ r_clkdiv_cnt' = IF r_clkdiv_cnt < c_40ms - 1 THEN r_clkdiv_cnt + 1 ELSE 0
      BY <1>1, <1>3 DEF speed_table
    <2> DEFINE Rest == (RomLast - r_rom_cnt[a]) * c_40ms
    <2>2. Rest \in Int
      BY <1>2
    <2>3. Left(a) = Rest + (c_40ms - r_clkdiv_cnt) + 1
      BY <1>3 DEF Left
    <2>4. Left(a)' = Rest + (IF r_clkdiv_cnt' = 0 THEN 0 ELSE c_40ms - r_clkdiv_cnt') + 1
      BY <2>1 DEF Left
    <2> HIDE DEF Rest
    <2> QED
      BY <1>2, <2>1, <2>2, <2>3, <2>4
  <1>4. CASE r_clkdiv_cnt = 0
    <2>1. r_clkdiv_cnt' = 1 /\ (r_set'[a] <=> r_rom_cnt[a] = RomLast)
      <3>1. r_clkdiv_cnt' = 1
        BY <1>1, <1>4 DEF speed_table
      <3>2. r_set' = [b \in Axes |-> r_rom_cnt[b] = RomLast]
        BY <1>1, <1>4 DEF speed_table
      <3> QED
        BY <3>1, <3>2
    <2>2. Left(a) = (RomLast - r_rom_cnt[a]) * c_40ms + 1
      BY <1>2, <1>4 DEF Left
    <2>3. CASE r_rom_cnt[a] = RomLast
      BY <2>1, <2>2, <2>3 DEF Left
    <2>4. CASE r_rom_cnt[a] < RomLast
      <3>1. r_rom_cnt'[a] = r_rom_cnt[a] + 1
        BY <1>1, <1>4, <2>4 DEF speed_table
      <3>2. Left(a)' = (RomLast - (r_rom_cnt[a] + 1)) * c_40ms + (c_40ms - 1) + 1
        BY <2>1, <2>4, <3>1 DEF Left
      <3>3. (RomLast - (r_rom_cnt[a] + 1)) * c_40ms = (RomLast - r_rom_cnt[a]) * c_40ms - c_40ms
        BY <1>2
      <3>4. (RomLast - r_rom_cnt[a]) * c_40ms \in Int
        BY <1>2
      <3> QED
        BY <2>2, <3>2, <3>3, <3>4
    <2> QED
      BY <1>2, <2>3, <2>4
  <1> QED
    BY <1>3, <1>4

LEMMA TableBound ==
  ASSUME NEW rom \in 0..RomLast, NEW c \in 0..c_40ms - 1
  PROVE  LET left == (RomLast - rom) * c_40ms + (IF c = 0 THEN 0 ELSE c_40ms - c) + 1
         IN  left \in Nat /\ left <= (RomLast + 1) * c_40ms
  <1>1. (RomLast - rom) * c_40ms \in Nat
    OBVIOUS
  <1>2. (RomLast - rom) * c_40ms <= RomLast * c_40ms
    OBVIOUS
  <1>3. (RomLast + 1) * c_40ms = RomLast * c_40ms + c_40ms /\ RomLast * c_40ms \in Nat
    OBVIOUS
  <1> QED
    BY <1>1, <1>2, <1>3

\* The table is never further from its end than when it begins.
LEMMA LeftBound ==
  ASSUME TypeOK, NEW a \in Axes
  PROVE  /\ Left(a) \in Nat /\ Left(a) <= (RomLast + 1) * c_40ms
         /\ Clock => Left(a)' \in Nat /\ Left(a)' <= (RomLast + 1) * c_40ms
  <1>0. 0 <= (RomLast + 1) * c_40ms
    OBVIOUS
  <1>1. r_rom_cnt[a] \in 0..RomLast /\ r_clkdiv_cnt \in 0..c_40ms - 1
    BY AxisTyped
  <1>2. Left(a) \in Nat /\ Left(a) <= (RomLast + 1) * c_40ms
    BY <1>0, <1>1, TableBound DEF Left
  <1>3. ASSUME Clock PROVE Left(a)' \in Nat /\ Left(a)' <= (RomLast + 1) * c_40ms
    <2>1. r_rom_cnt'[a] \in 0..RomLast /\ r_clkdiv_cnt' \in 0..c_40ms - 1
      BY <1>3, TableTyped DEF Clock
    <2> QED
      BY <1>0, <2>1, TableBound DEF Left
  <1> QED
    BY <1>2, <1>3

LEMMA SlowNext ==
  ASSUME TypeOK, Clock, NEW a \in Axes, flag, r_state[a] = "SLOW", SlowInv(a)
  PROVE  PlaceInv(a)'
  <1> DEFINE Way == (RomLast + 1) * c_40ms
  <1>0. Way \in Nat /\ Seen \in Nat /\ Seen >= Home + 4
    BY DEF Seen
  <1> HIDE DEF Way
  <1>1. pos[a] \in 0..End /\ pos'[a] \in 0..End /\ pos'[a] - pos[a] \in 0..1
    BY PlaceStep DEF Clock, SlowInv
  <1>2. /\ ~r_pluse_zero'[a] /\ r_dir'[a] = 1
        /\ r_state'[a] = IF r_set[a] THEN "IDLE" ELSE "SLOW"
    BY RegisterStep DEF NextState
  <1>3. pos[a] >= Seen /\ pos[a] + Left(a) <= Seen + 1 + Way
    BY DEF SlowInv, Way
  <1>4. Settled(a)'
    BY <1>0, <1>1, <1>3, SettledNext DEF SlowInv
  <1>5. CASE r_set[a]
    <2>1. pos[a] <= Seen + 1 + Way
      BY <1>0, <1>1, <1>3, <1>5 DEF Left
    <2>2. pos'[a] >= Seen /\ pos'[a] <= Seen + Way + 2
      BY <1>0, <1>1, <1>3, <2>1
    <2>3. IdleInv(a)'
      BY <1>2, <1>4, <2>2 DEF IdleInv, Way
    <2> QED
      BY <1>2, <1>5, <2>3 DEF PlaceInv
  <1>6. CASE ~r_set[a]
    <2>1. Left(a)' \in Int /\ Left(a)' <= Left(a) - 1 /\ Left(a) \in Nat
      BY <1>2, <1>6, LeftNext, LeftBound
    <2>2. pos'[a] >= Seen /\ pos'[a] + Left(a)' <= Seen + 1 + Way
      BY <1>0, <1>1, <1>3, <2>1
    <2>3. SlowInv(a)'
      BY <1>2, <1>4, <2>2 DEF SlowInv, Way
    <2> QED
      BY <1>2, <1>6, <2>3 DEF PlaceInv
  <1> QED
    BY <1>5, <1>6

\* A pulse of the home switch in FAST begins SLOW, at the place Seen.
LEMMA FastToSlow ==
  ASSUME TypeOK, Clock, NEW a \in Axes, flag, r_state[a] = "FAST", FastInv(a),
         key_rdy[a]["home"]
  PROVE  PlaceInv(a)'
  <1> DEFINE Way == (RomLast + 1) * c_40ms
  <1>0. Way \in Nat /\ Seen \in Nat /\ Seen >= Home + 4 /\ Seen + Way + 3 < Limit
    BY SlowAssumption DEF Seen
  <1> HIDE DEF Way
  <1>1. r_dir[a] = 1 /\ ~r_pluse_zero[a]
    BY AxisTyped DEF FastInv
  <1>2. pos[a] \in {Seen - 1, Seen} /\ Settled(a)
    BY <1>1 DEF FastInv, RisingInv
  <1>3. pos'[a] = pos[a] + 1
    BY <1>0, <1>1, <1>2, PlaceStep DEF Clock
  <1>4. r_state'[a] = "SLOW" /\ r_dir'[a] = 1
    BY RegisterStep DEF NextState, AfterFast
  <1>5. Settled(a)'
    BY <1>0, <1>2, <1>3, SettledNext
  <1>6. Left(a)' \in Nat /\ Left(a)' <= Way
    BY LeftBound DEF Way
  <1>7. pos'[a] >= Seen /\ pos'[a] + Left(a)' <= Seen + 1 + Way
    BY <1>0, <1>2, <1>3, <1>6
  <1> QED
    BY <1>4, <1>5, <1>7 DEF PlaceInv, SlowInv, Way

\* A pulse of the limit switch in FAST begins LIMIT, while the axis moves on.
LEMMA FastToLimit ==
  ASSUME TypeOK, Clock, NEW a \in Axes, SwitchInv(a), flag, r_state[a] = "FAST", FastInv(a),
         ~key_rdy[a]["home"], key_rdy[a]["limit"]
  PROVE  PlaceInv(a)'
  <1>1. r_state'[a] = "LIMIT" /\ r_dir'[a] = 1
    BY RegisterStep DEF NextState, AfterFast
  <1>2. /\ pos[a] \in 0..End /\ pos[a] >= Limit - 2 /\ count[a]["home"] = 0
        /\ pos[a] <= Limit + c_button + 1
    BY AxisTyped, PlaceStep DEF Clock, SwitchInv, FastInv, OverLimit
  <1>3. pos'[a] \in Limit - 3 .. Limit + c_button + 2
    BY <1>2, PlaceStep DEF Clock
  <1>4. count'[a]["home"] = 0 /\ ~key_rdy'[a]["home"]
    BY <1>2, RegisterStep
  <1> QED
    BY <1>1, <1>3, <1>4 DEF PlaceInv, LimitInv

LEMMA FastRising ==
  ASSUME TypeOK, Clock, NEW a \in Axes, flag, r_state[a] = "FAST", FastInv(a),
         ~key_rdy[a]["home"]
  PROVE  RisingInv(a)'
  <1>1. /\ pos[a] \in 0..End /\ pos'[a] \in 0..End
        /\ r_pluse_zero[a] => pos'[a] = pos[a]
        /\ r_dir[a] = 0 => pos'[a] <= pos[a]
        /\ r_dir[a] = 1 /\ ~r_pluse_zero[a] =>
             pos'[a] = pos[a] + 1 \/ (pos'[a] = End /\ pos[a] = End)
    BY PlaceStep DEF Clock
  <1>2. count[a]["home"] \in 0..c_button + 1 /\ r_dir[a] \in {0, 1}
    BY AxisTyped
  <1>3. /\ count'[a]["home"] = IF pos[a] \notin Home..HomeEnd THEN 0
             ELSE IF count[a]["home"] < c_button + 1 THEN count[a]["home"] + 1 ELSE c_button + 1
        /\ key_rdy'[a]["home"] <=> count[a]["home"] = c_button
    BY RegisterStep DEF c_max
  <1>4. CASE r_dir[a] = 0
    <2>1. Settled(a) /\ pos[a] <= HomeEnd
      BY <1>4 DEF FastInv
    <2>2. Settled(a)' /\ ~key_rdy'[a]["home"]
      BY <1>1, <1>4, <2>1, SettledNext
    <2> QED
      BY <2>2 DEF RisingInv, Settled, c_max
  <1>5. CASE r_dir[a] = 1 /\ r_pluse_zero[a]
    <2>1. /\ count[a]["home"] \in {0, c_button + 1} /\ pos'[a] = pos[a]
          /\ pos[a] \in Home..HomeEnd /\ count[a]["home"] = 0 => pos[a] \in {Home, HomeEnd}
      BY <1>1, <1>5 DEF FastInv, c_max
    <2> QED
      BY <1>1, <1>3, <2>1 DEF RisingInv
  <1>6. CASE r_dir[a] = 1 /\ ~r_pluse_zero[a]
    <2>1. RisingInv(a)
      BY <1>6 DEF FastInv
    <2>2. pos'[a] = pos[a] + 1 \/ (pos'[a] = End /\ pos[a] = End)
      BY <1>1, <1>6
    <2>3. CASE pos[a] \notin Home..HomeEnd
      <3>1. count'[a]["home"] = 0 /\ (pos'[a] \in Home..HomeEnd => pos'[a] = Home)
        BY <1>1, <1>3, <2>2, <2>3
      <3>2. key_rdy'[a]["home"] => pos'[a] \in {Seen - 1, Seen} /\ pos'[a] > HomeEnd
        <4>1. ASSUME count[a]["home"] = c_button
              PROVE  pos[a] \in {Seen - 2, Seen - 1} /\ Seen < Limit
          <5>1. pos[a] - Home \in {c_button - 1, c_button}
            BY <2>1, <4>1 DEF RisingInv
          <5>2. (RomLast + 1) * c_40ms \in Nat
            OBVIOUS
          <5> QED
            BY <1>1, <5>1, <5>2, SlowAssumption DEF Seen
        <4>2. Seen \in Nat /\ Seen >= Home + 4
          BY DEF Seen
        <4> QED
          BY <1>1, <1>3, <2>2, <2>3, <4>1, <4>2
      <3> QED
        BY <3>1, <3>2 DEF RisingInv, Settled
    <2>4. CASE pos[a] \in Home..HomeEnd
      <3>1. pos'[a] = pos[a] + 1
        BY <2>2, <2>4
      <3>2. CASE count[a]["home"] = 0
        BY <1>3, <2>1, <2>4, <3>1, <3>2 DEF RisingInv
      <3>3. CASE count[a]["home"] = c_button + 1
        BY <1>3, <2>4, <3>1, <3>3 DEF RisingInv
      <3>4. CASE count[a]["home"] \in 1..c_button - 1
        <4>1. \/ pos[a] - Home \in {count[a]["home"] - 1, count[a]["home"]}
              \/ count[a]["home"] <= 2 /\ pos[a] >= HomeEnd + count[a]["home"] - 1
          BY <2>1, <3>4 DEF RisingInv
        <4>2. count'[a]["home"] = count[a]["home"] + 1 /\ ~key_rdy'[a]["home"]
          BY <1>3, <2>4, <3>4
        <4>3. \/ pos'[a] - Home \in {count'[a]["home"] - 1, count'[a]["home"]}
              \/ count'[a]["home"] <= 2 /\ pos'[a] >= HomeEnd + count'[a]["home"] - 1
          BY <1>1, <2>4, <3>1, <3>4, <4>1, <4>2
        <4> QED
          BY <3>4, <4>2, <4>3 DEF RisingInv
      <3>5. CASE count[a]["home"] = c_button
        BY <1>3, <2>1, <2>4, <3>1, <3>5 DEF RisingInv, Settled, Seen, c_max
      <3> QED
        BY <1>2, <3>2, <3>3, <3>4, <3>5
    <2> QED
      BY <2>3, <2>4
  <1> QED
    BY <1>2, <1>4, <1>5, <1>6

LEMMA FastNext ==
  ASSUME TypeOK, Clock, NEW a \in Axes, SwitchInv(a), flag, r_state[a] = "FAST", FastInv(a)
  PROVE  PlaceInv(a)'
  <1>1. CASE key_rdy[a]["home"]
    BY <1>1, FastToSlow
  <1>2. CASE ~key_rdy[a]["home"] /\ key_rdy[a]["limit"]
    BY <1>2, FastToLimit
  <1>3. CASE ~key_rdy[a]["home"] /\ ~key_rdy[a]["limit"]
    <2>1. r_state'[a] = "FAST" /\ r_dir'[a] = 1 /\ ~r_pluse_zero'[a]
      BY <1>3, RegisterStep DEF NextState, AfterFast
    <2>2. RisingInv(a)'
      BY <1>3, FastRising
    <2>3. OverLimit(a)'
      <3>1. count[a]["limit"] \in 0..c_button /\ pos[a] <= Limit + count[a]["limit"]
        BY <1>3, AxisTyped DEF FastInv, OverLimit, c_max
      <3>2. pos[a] \in 0..End /\ pos'[a] \in 0..End /\ pos'[a] <= pos[a] + 1
        BY PlaceStep DEF Clock
      <3>3. /\ count'[a]["limit"] = IF pos[a] < Limit THEN 0 ELSE count[a]["limit"] + 1
            /\ key_rdy'[a]["limit"] <=> count[a]["limit"] = c_button
        BY <3>1, RegisterStep DEF c_max
      <3> QED
        BY <3>1, <3>2, <3>3 DEF OverLimit, c_max
    <2> QED
      BY <2>1, <2>2, <2>3 DEF PlaceInv, FastInv
  <1> QED
    BY <1>1, <1>2, <1>3

LEMMA AxisNext ==
  ASSUME TypeOK, Clock, NEW a \in Axes, AxisInv(a)
  PROVE  AxisInv(a)'
  <1>1. SwitchInv(a)' /\ RomInv(a)'
    BY SwitchNext, RomNext DEF AxisInv
  <1>2. ASSUME clean'[a] PROVE flag' /\ PlaceInv(a)'
    <2>1. key_zero /\ flag' /\ (clean[a] \/ ProperStart(a))
      BY <1>2, RegisterStep
    <2>2. CASE ProperStart(a)
      BY <2>1, <2>2, StartNext
    <2>3. CASE clean[a]
      <3>1. flag /\ PlaceInv(a) /\ SwitchInv(a)
        BY <2>3 DEF AxisInv
      <3> QED
        BY <2>1, <3>1, AxisTyped, IdleNext, FastNext, SlowNext, BackNext, LimitNext DEF PlaceInv
    <2> QED
      BY <2>1, <2>2, <2>3
  <1> QED
    BY <1>1, <1>2 DEF AxisInv

LEMMA PlaceInit == Init => IInv
  <1> SUFFICES ASSUME Init, NEW a \in Axes PROVE TypeOK /\ AxisInv(a)
    BY DEF IInv
  <1>1. TypeOK
    BY TypeInit
  <1>2. /\ count[a]["limit"] = 0 /\ ~key_rdy[a]["limit"] /\ r_rom_cnt[a] = 0 /\ ~clean[a]
    BY DEF Init, Keys
  <1> QED
    BY <1>1, <1>2 DEF AxisInv, SwitchInv, RomInv

LEMMA PlaceNext == IInv /\ [Next]_vars => IInv'
  <1>1. ASSUME IInv, Next PROVE IInv'
    <2>1. TypeOK' /\ Clock
      BY <1>1, TypeNext DEF IInv, Next, ClockOnly, ClockPress, ClockLetGo
    <2>2. ASSUME NEW a \in Axes PROVE AxisInv(a)'
      BY <1>1, <2>1, AxisNext DEF IInv
    <2> QED
      BY <2>1, <2>2 DEF IInv
  <1>2. ASSUME IInv, UNCHANGED vars PROVE IInv'
    BY <1>2 DEF vars, IInv, TypeOK, AxisInv, SwitchInv, RomInv, PlaceInv, IdleInv, FastInv,
      OverLimit, RisingInv, SlowInv, BackInv, LimitInv, Settled, Left
  <1> QED
    BY <1>1, <1>2

\* An axis that started properly reports its end only in SLOW.
LEMMA EndInSlow ==
  ASSUME IInv, [Next]_vars, NEW a \in Axes, ~r_set[a], r_set'[a], clean[a]
  PROVE  pos[a] \in HomeRange
  <1>1. TypeOK /\ RomInv(a) /\ PlaceInv(a)
    BY DEF IInv, AxisInv
  <1>2. speed_table
    BY DEF vars, Next, ClockOnly, ClockPress, ClockLetGo, Clock
  <1>3. r_rom_cnt[a] = RomLast
    BY <1>2 DEF speed_table
  <1>4. SlowInv(a)
    BY <1>1, <1>3 DEF RomInv, PlaceInv
  <1>5. pos[a] \in Int /\ Left(a) \in Nat
    BY <1>1, LeftBound DEF TypeOK
  <1>6. Seen \in Nat /\ (RomLast + 1) * c_40ms \in Nat
    BY DEF Seen
  <1> QED
    BY <1>4, <1>5, <1>6 DEF SlowInv, HomeRange

LEMMA PlaceBound == IInv => LimitRespected
  <1> SUFFICES ASSUME IInv, NEW a \in Axes, clean[a] PROVE pos[a] <= Limit + c_button + 3
    BY DEF LimitRespected
  <1> DEFINE Way == (RomLast + 1) * c_40ms
  <1>0. Way \in Nat /\ Seen \in Nat /\ Seen + Way + 3 < Limit
    BY SlowAssumption DEF Seen
  <1>1. TypeOK /\ PlaceInv(a)
    BY DEF IInv, AxisInv
  <1>2. pos[a] \in 0..End /\ Left(a) \in Nat
    BY <1>1, LeftBound DEF TypeOK
  <1>3. count[a]["limit"] \in 0..c_button + 1 /\ r_pluse_zero[a] \in BOOLEAN /\ r_dir[a] \in {0, 1}
        /\ r_state[a] \in {"IDLE", "FAST", "SLOW", "BACK", "LIMIT"}
    BY <1>1, AxisTyped
  <1>4. CASE r_state[a] = "IDLE"
    <2>1. pos[a] <= Seen + Way + 3
      BY <1>0, <1>1, <1>2, <1>3, <1>4 DEF PlaceInv, IdleInv
    <2> HIDE DEF Way
    <2> QED
      BY <1>0, <1>2, <2>1
  <1>5. CASE r_state[a] = "FAST"
    BY <1>1, <1>2, <1>3, <1>5 DEF PlaceInv, FastInv, OverLimit
  <1>6. CASE r_state[a] = "SLOW"
    <2>1. pos[a] + Left(a) <= Seen + 1 + Way
      BY <1>1, <1>6 DEF PlaceInv, SlowInv
    <2> HIDE DEF Way
    <2> QED
      BY <1>0, <1>2, <2>1
  <1>7. CASE r_state[a] = "BACK"
    BY <1>1, <1>2, <1>7 DEF PlaceInv, BackInv
  <1>8. CASE r_state[a] = "LIMIT"
    BY <1>1, <1>2, <1>3, <1>8 DEF PlaceInv, LimitInv
  <1> QED
    BY <1>3, <1>4, <1>5, <1>6, <1>7, <1>8

\* An axis that started properly overruns its limit switch by the debounce only,
\* through every turn between limit and home switch and after it has come home.
THEOREM NoHardStop == Spec => []LimitRespected
  BY PlaceInit, PlaceNext, PlaceBound, PTL DEF Spec

\* An axis that started properly reports the same place as its home, to what the
\* speed table leaves open, whatever way it has come.
THEOREM SameHome == Spec => HomePrecise
  <1>1. IInv /\ [Next]_vars =>
          [\A a \in Axes : ~r_set[a] /\ r_set'[a] /\ clean[a] => pos[a] \in HomeRange]_vars
    BY EndInSlow
  <1> QED
    BY <1>1, PlaceInit, PlaceNext, PTL DEF Spec, HomePrecise

-----------------------------------------------------------------------------
(* When X and Y start.                                                     *)

\* The most clocks for which Z, out of SLOW, still reports its last homing.
Fading == (IF r_rom_cnt[Z] = RomLast THEN c_40ms ELSE 0)
            + (IF r_clkdiv_cnt = 0 THEN 0 ELSE c_40ms - r_clkdiv_cnt) + 1

\* While the button is debounced Z is not moved down.
ButtonInv ==
  /\ count[Z]["start"] >= 1 => flag
  /\ r_state[Z] = "SLOW" \/ (r_state[Z] = "IDLE" /\ flag) => r_dir[Z] = 1
  /\ r_state[Z] = "IDLE" /\ key_rdy[Z]["start"] /\ count[Z]["limit"] >= 1 => pos[Z] >= Limit

\* The button has been held for longer than the home switch has been closed, and
\* starts Z once only.
OnceInv ==
  /\ count[Z]["home"] \in 1..c_button => count[Z]["start"] >= count[Z]["home"]
  /\ key_rdy[Z]["home"] => count[Z]["start"] = c_max
  /\ r_state[Z] \in {"IDLE", "SLOW"} => count[Z]["start"] = c_max /\ ~key_rdy[Z]["start"]

\* Z no longer reports its last homing when it turns at its limit.
ReportInv ==
  /\ r_state[Z] = "FAST" /\ r_set[Z] =>
       count[Z]["limit"] + Fading <= 2 * c_40ms /\ ~key_rdy[Z]["limit"]
  /\ r_state[Z] \in {"BACK", "LIMIT"} => ~r_set[Z]

ZInv == ButtonInv /\ (clean[Z] => OnceInv /\ ReportInv)

LEMMA ButtonStep ==
  ASSUME TypeOK, Clock
  PROVE  /\ count[Z]["start"] \in 0..c_button + 1
         /\ count'[Z]["start"] = IF ~key_zero THEN 0
              ELSE IF count[Z]["start"] < c_max THEN count[Z]["start"] + 1 ELSE c_max
         /\ key_rdy'[Z]["start"] <=> count[Z]["start"] = c_button
  <1>1. key_gen /\ "start" \in Keys /\ (Closed(Z, "start") <=> key_zero)
    BY DEF Clock, Keys, Closed
  <1>2. count[Z]["start"] \in 0..c_button + 1
    BY <1>1 DEF TypeOK, c_max
  <1>3. count'[Z]["start"] = IF ~key_zero THEN 0
              ELSE IF count[Z]["start"] < c_max THEN count[Z]["start"] + 1 ELSE c_max
    <2>1. \A k \in Keys : count'[Z][k] = IF ~Closed(Z, k) THEN 0
              ELSE IF count[Z][k] < c_max THEN count[Z][k] + 1 ELSE c_max
      BY <1>1 DEF key_gen
    <2> QED
      BY <1>1, <2>1
  <1>4. key_rdy'[Z]["start"] <=> count[Z]["start"] = c_button
    BY <1>1 DEF key_gen
  <1> QED
    BY <1>2, <1>3, <1>4

LEMMA ButtonNext ==
  ASSUME TypeOK, Clock, ButtonInv
  PROVE  ButtonInv'
  <1>1. count'[Z]["start"] >= 1 => flag'
    BY ButtonStep, RegisterStep
  <1>2. r_state'[Z] \in {"SLOW", "IDLE"} => r_dir'[Z] = 1 /\ r_state[Z] \in {"FAST", "SLOW", "IDLE"}
    BY AxisTyped, RegisterStep DEF NextState, AfterFast, AfterLimit
  <1>3. ASSUME r_state'[Z] = "IDLE", key_rdy'[Z]["start"], count'[Z]["limit"] >= 1
        PROVE  pos'[Z] >= Limit
    <2>1. flag /\ r_state[Z] \in {"SLOW", "IDLE"}
      BY <1>3, AxisTyped, ButtonStep, RegisterStep DEF ButtonInv, NextState, AfterFast, AfterLimit
    <2>2. r_dir[Z] = 1 /\ ~(pos[Z] < Limit)
      BY <1>3, <2>1, RegisterStep DEF ButtonInv
    <2> QED
      BY <2>1, <2>2, PlaceStep DEF Clock
  <1> QED
    BY <1>1, <1>2, <1>3 DEF ButtonInv

\* Out of SLOW the report fades with every clock.
LEMMA FadingNext ==
  ASSUME TypeOK, Clock, RomInv(Z), r_state[Z] # "SLOW", r_state'[Z] # "SLOW", r_set'[Z]
  PROVE  r_set[Z] /\ Fading' <= Fading - 1
  <1>1. speed_table
    BY DEF Clock
  <1>2. r_rom_cnt[Z] \in 0..RomLast /\ r_clkdiv_cnt \in 0..c_40ms - 1
    BY AxisTyped
  <1>3. CASE r_clkdiv_cnt # 0
    <2>1. /\ r_rom_cnt'[Z] = r_rom_cnt[Z] /\ r_set'[Z] = r_set[Z]
          /\ r_clkdiv_cnt' = IF r_clkdiv_cnt < c_40ms - 1 THEN r_clkdiv_cnt + 1 ELSE 0
      BY <1>1, <1>3 DEF speed_table
    <2> QED
      BY <1>2, <1>3, <2>1 DEF Fading
  <1>4. CASE r_clkdiv_cnt = 0
    <2>1. r_rom_cnt[Z] = RomLast /\ r_rom_cnt'[Z] = 0
      BY <1>1, <1>4 DEF speed_table
    <2>2. r_clkdiv_cnt' = 1
      BY <1>1, <1>4 DEF speed_table
    <2> QED
      BY <1>4, <2>1, <2>2 DEF Fading, RomInv
  <1> QED
    BY <1>3, <1>4

LEMMA FadingBound ==
  ASSUME TypeOK
  PROVE  /\ Fading \in 1..2 * c_40ms
         /\ Clock => Fading' \in 1..2 * c_40ms
  <1>1. ASSUME NEW rom, NEW c \in 0..c_40ms - 1
        PROVE  (IF rom = RomLast THEN c_40ms ELSE 0)
                 + (IF c = 0 THEN 0 ELSE c_40ms - c) + 1 \in 1..2 * c_40ms
    OBVIOUS
  <1>2. r_clkdiv_cnt \in 0..c_40ms - 1 /\ (Clock => r_clkdiv_cnt' \in 0..c_40ms - 1)
    BY TableTyped DEF TypeOK, Clock
  <1> QED
    BY <1>1, <1>2 DEF Fading

LEMMA OnceNext ==
  ASSUME TypeOK, Clock, clean'[Z], clean[Z] => OnceInv
  PROVE  OnceInv'
  <1>1. key_zero /\ (clean[Z] \/ ProperStart(Z))
    BY RegisterStep
  <1>2. /\ count[Z]["start"] \in 0..c_button + 1
        /\ count'[Z]["start"] =
             IF count[Z]["start"] < c_button + 1 THEN count[Z]["start"] + 1 ELSE c_button + 1
        /\ key_rdy'[Z]["start"] <=> count[Z]["start"] = c_button
    BY <1>1, ButtonStep DEF c_max
  <1>3. /\ count[Z]["home"] \in 0..c_button + 1
        /\ count'[Z]["home"] = IF pos[Z] \notin Home..HomeEnd THEN 0
             ELSE IF count[Z]["home"] < c_button + 1 THEN count[Z]["home"] + 1 ELSE c_button + 1
        /\ key_rdy'[Z]["home"] <=> count[Z]["home"] = c_button
    BY AxisTyped, RegisterStep DEF c_max
  <1>4. CASE clean[Z]
    <2>1. /\ count[Z]["home"] \in 1..c_button => count[Z]["start"] >= count[Z]["home"]
          /\ key_rdy[Z]["home"] => count[Z]["start"] = c_button + 1
          /\ r_state[Z] \in {"IDLE", "SLOW"} => count[Z]["start"] = c_button + 1 /\ ~key_rdy[Z]["start"]
      BY <1>4 DEF OnceInv, c_max
    <2>2. count'[Z]["home"] \in 1..c_button => count'[Z]["start"] >= count'[Z]["home"]
      BY <1>2, <1>3, <2>1
    <2>3. key_rdy'[Z]["home"] => count'[Z]["start"] = c_button + 1
      BY <1>2, <1>3, <2>1
    <2>4. ASSUME r_state'[Z] \in {"IDLE", "SLOW"}
          PROVE  count'[Z]["start"] = c_button + 1 /\ ~key_rdy'[Z]["start"]
      <3>1. r_state[Z] \in {"IDLE", "SLOW"} \/ key_rdy[Z]["home"]
        BY <2>4, AxisTyped, RegisterStep DEF NextState, AfterFast, AfterLimit
      <3>2. count[Z]["start"] = c_button + 1
        BY <2>1, <3>1
      <3> QED
        BY <1>2, <3>2
    <2> QED
      BY <2>2, <2>3, <2>4 DEF OnceInv, c_max
  <1>5. CASE ProperStart(Z)
    <2>1. /\ r_state'[Z] = "FAST"
          /\ count[Z]["home"] = IF pos[Z] \in Home..HomeEnd THEN c_button + 1 ELSE 0
      BY <1>5 DEF ProperStart, Closed, c_max
    <2>2. count'[Z]["home"] \in {0, c_button + 1} /\ ~key_rdy'[Z]["home"]
      BY <1>3, <2>1
    <2> QED
      BY <2>1, <2>2 DEF OnceInv
  <1> QED
    BY <1>1, <1>4, <1>5

LEMMA ReportNext ==
  ASSUME TypeOK, Clock, RomInv(Z), ButtonInv, clean'[Z],
         clean[Z] => OnceInv /\ ReportInv /\ PlaceInv(Z)
  PROVE  ReportInv'
  <1>1. clean[Z] \/ ProperStart(Z)
    BY RegisterStep
  <1>2. /\ count[Z]["limit"] \in 0..c_button + 1
        /\ count'[Z]["limit"] = IF pos[Z] < Limit THEN 0
             ELSE IF count[Z]["limit"] < c_button + 1 THEN count[Z]["limit"] + 1 ELSE c_button + 1
        /\ key_rdy'[Z]["limit"] <=> count[Z]["limit"] = c_button
    BY AxisTyped, RegisterStep DEF c_max
  <1>3. Fading \in 1..2 * c_40ms /\ Fading' \in 1..2 * c_40ms
    BY FadingBound
  <1>4. CASE ProperStart(Z)
    <2>1. r_state[Z] = "IDLE" /\ r_state'[Z] = "FAST" /\ pos[Z] < Limit
      BY <1>4 DEF ProperStart
    <2>2. key_rdy[Z]["start"]
      BY <2>1, RegisterStep DEF NextState, Start
    <2>3. ~(count[Z]["limit"] >= 1)
      BY <2>1, <2>2, PlaceStep DEF ButtonInv, Clock
    <2>4. count'[Z]["limit"] = 0 /\ ~key_rdy'[Z]["limit"]
      BY <1>2, <2>1, <2>3
    <2>5. count'[Z]["limit"] + Fading' <= 2 * c_40ms
      <3>1. \A f \in 1..2 * c_40ms : 0 + f <= 2 * c_40ms
        OBVIOUS
      <3> QED
        BY <1>3, <2>4, <3>1
    <2> QED
      BY <2>1, <2>4, <2>5 DEF ReportInv
  <1>5. CASE clean[Z]
    <2>1. ASSUME r_state[Z] \in {"BACK", "LIMIT"} \/ (r_state[Z] = "FAST" /\ r_state'[Z] = "LIMIT"),
                 r_set'[Z]
          PROVE  FALSE
      <3>1. r_state[Z] # "SLOW" /\ r_state'[Z] # "SLOW"
        BY <2>1, RegisterStep DEF NextState, AfterLimit
      <3>2. r_set[Z]
        BY <2>1, <3>1, FadingNext
      <3>3. r_state[Z] = "FAST" => key_rdy[Z]["limit"]
        BY <2>1, RegisterStep DEF NextState, AfterFast
      <3> QED
        BY <1>5, <2>1, <3>2, <3>3 DEF ReportInv
    <2>2. ASSUME r_state[Z] = "FAST", r_state'[Z] = "FAST", r_set'[Z]
          PROVE  count'[Z]["limit"] + Fading' <= 2 * c_40ms /\ ~key_rdy'[Z]["limit"]
      <3>1. r_set[Z] /\ Fading' <= Fading - 1
        BY <2>2, FadingNext
      <3>2. count[Z]["limit"] + Fading <= 2 * c_40ms
        BY <1>5, <2>2, <3>1 DEF ReportInv
      <3> QED
        BY <1>2, <1>3, <3>1, <3>2
    <2>3. r_state[Z] = "IDLE" => r_state'[Z] = "IDLE"
      BY <1>5, RegisterStep DEF NextState, Start, OnceInv
    <2>4. r_state[Z] = "SLOW" => r_state'[Z] \in {"IDLE", "SLOW"}
      BY RegisterStep DEF NextState
    <2>5. r_state[Z] \in {"IDLE", "FAST", "SLOW", "BACK", "LIMIT"}
      BY AxisTyped
    <2>6. r_state[Z] = "FAST" => r_state'[Z] \in {"FAST", "SLOW", "LIMIT"}
      BY RegisterStep DEF NextState, AfterFast
    <2> QED
      BY <2>1, <2>2, <2>3, <2>4, <2>5, <2>6 DEF ReportInv
  <1> QED
    BY <1>1, <1>4, <1>5

LEMMA ZInit == Init => ZInv
  <1> SUFFICES ASSUME Init PROVE ZInv
    OBVIOUS
  <1>1. count[Z]["start"] = 0 /\ ~key_rdy[Z]["start"] /\ r_state[Z] = "IDLE" /\ ~flag /\ ~clean[Z]
    BY DEF Init, Keys
  <1> QED
    BY <1>1 DEF ZInv, ButtonInv

LEMMA ZNext == IInv /\ ZInv /\ [Next]_vars => ZInv'
  <1>1. ASSUME IInv, ZInv, Next PROVE ZInv'
    <2>1. TypeOK /\ Clock /\ RomInv(Z) /\ ButtonInv /\ (clean[Z] => PlaceInv(Z))
      BY <1>1 DEF IInv, AxisInv, ZInv, Next, ClockOnly, ClockPress, ClockLetGo
    <2>2. ButtonInv'
      BY <2>1, ButtonNext
    <2>3. clean'[Z] => OnceInv' /\ ReportInv'
      BY <1>1, <2>1, OnceNext, ReportNext DEF ZInv
    <2> QED
      BY <2>2, <2>3 DEF ZInv
  <1>2. ASSUME ZInv, UNCHANGED vars PROVE ZInv'
    BY <1>2 DEF vars, ZInv, ButtonInv, OnceInv, ReportInv, Fading
  <1> QED
    BY <1>1, <1>2

LEMMA ZStandsAtHome ==
  ASSUME IInv, ZInv, [Next]_vars, NEW a \in Axes \ {Z},
         r_state[a] = "IDLE", r_state'[a] = "FAST", clean[Z]
  PROVE  \/ pos[Z] \in HomeRange /\ r_state'[Z] = "IDLE"
         \/ r_state[Z] = "FAST" /\ r_set[Z]
  <1>1. TypeOK /\ Clock /\ PlaceInv(Z) /\ OnceInv /\ ReportInv
    BY DEF IInv, AxisInv, ZInv, vars, Next, ClockOnly, ClockPress, ClockLetGo
  <1>2. r_set[Z]
    BY <1>1, RegisterStep DEF NextState, Start
  <1>3. pos[Z] \in Int /\ Seen \in Nat /\ (RomLast + 1) * c_40ms \in Nat
    BY <1>1 DEF TypeOK, Seen
  <1>4. CASE r_state[Z] = "IDLE"
    <2>1. r_state'[Z] = "IDLE"
      BY <1>1, <1>4, RegisterStep DEF NextState, Start, OnceInv
    <2>2. pos[Z] \in HomeRange
      BY <1>1, <1>3, <1>4 DEF PlaceInv, IdleInv, HomeRange
    <2> QED
      BY <2>1, <2>2
  <1>5. CASE r_state[Z] = "SLOW"
    <2>1. r_state'[Z] = "IDLE"
      BY <1>1, <1>2, <1>5, RegisterStep DEF NextState
    <2>2. Left(Z) = 0
      BY <1>2 DEF Left
    <2>3. pos[Z] \in HomeRange
      BY <1>1, <1>3, <1>5, <2>2 DEF PlaceInv, SlowInv, HomeRange
    <2> QED
      BY <2>1, <2>3
  <1> QED
    BY <1>1, <1>2, <1>4, <1>5, AxisTyped DEF ReportInv

\* X and Y start only when Z has gone home and stands there, for any times that
\* the debounce outlasts; but for a Z that has been started again meanwhile.
THEOREM ZFirst == Spec => XYAfterZ
  <1>1. IInv /\ ZInv /\ [Next]_vars =>
          [\A a \in Axes \ {Z} :
             r_state[a] = "IDLE" /\ r_state'[a] = "FAST" /\ clean[Z] =>
               \/ pos[Z] \in HomeRange /\ r_state'[Z] = "IDLE"
               \/ r_state[Z] = "FAST" /\ r_set[Z]]_vars
    BY ZStandsAtHome
  <1> QED
    BY <1>1, PlaceInit, PlaceNext, ZInit, ZNext, PTL DEF Spec, XYAfterZ
=============================================================================
