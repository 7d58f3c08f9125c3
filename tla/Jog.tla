-------------------------------- MODULE Jog --------------------------------
(***************************************************************************)
(* Jog: the jog keys of one axis (rtl/jog.v) and the axis they move, with  *)
(* its two limit switches.  The four axes of jog.v are alike, but that A   *)
(* has no switches of its own and uses those of Z.                         *)
(*                                                                         *)
(* One step is one rising edge of tlpclk.  The axis makes a step, in the   *)
(* direction of dir, with a rising edge of puls; it stands between its     *)
(* switches, or on one, when the card is switched on.                      *)
(*                                                                         *)
(* A definition whose name begins with Bug is a deliberate fault in the    *)
(* definition after it; no specification uses it.                          *)
(***************************************************************************)
EXTENDS Integers

CONSTANTS
  Hold,  \* a key or switch is debounced by counting from 0 to this: 125
  Half,  \* half a pulse counts from 0 to this: 15625
  Far    \* the switches are at positions 1 and Far of 0..(Far + 1)

\* A switch is debounced within half a pulse.
Debounced ==
  /\ Hold \in Nat /\ Half \in Nat /\ Far \in Nat \ {0}
  /\ Hold < Half

Dirs == {"neg", "pos"}
SwitchAt == [neg |-> 1, pos |-> Far]

VARIABLES
  key,   \* the two keys
  cnt, flag,  \* their debouncing
  c, f,       \* that of the switches
  dir, puls, cnt_puls,
  at     \* where the axis is

vars == <<key, cnt, flag, c, f, dir, puls, cnt_puls, at>>

Count(on, n) == IF on /\ n < Hold THEN n + 1 ELSE 0
Flag(on, n, was) == on /\ (n = Hold \/ was)

\* The switch of direction d.
s(d) == IF d = "neg" THEN at <= SwitchAt[d] ELSE at >= SwitchAt[d]

keys ==
  /\ key' \in [Dirs -> BOOLEAN]
  /\ cnt' = [d \in Dirs |-> Count(key[d], cnt[d])]
  /\ flag' = [d \in Dirs |-> Flag(key[d], cnt[d], flag[d])]

switches ==
  /\ c' = [d \in Dirs |-> Count(s(d), c[d])]
  /\ f' = [d \in Dirs |-> Flag(s(d), c[d], f[d])]

\* Of two keys the negative one counts.
Asked == IF flag["neg"] THEN "neg" ELSE IF flag["pos"] THEN "pos" ELSE "none"

BugOtherSwitch(d) == f[IF d = "neg" THEN "pos" ELSE "neg"]
Blocked(d) == f[d]

pulses ==
  CASE Asked = "none" ->
         dir' = "neg" /\ puls' = FALSE /\ cnt_puls' = [d \in Dirs |-> 0]
    [] Asked # "none" /\ Blocked(Asked) ->
         dir' = "neg" /\ puls' = FALSE /\ UNCHANGED cnt_puls
    [] OTHER ->
         /\ dir' = Asked
         /\ puls' = (puls # (cnt_puls[Asked] = Half))
         /\ cnt_puls' = [cnt_puls EXCEPT ![Asked] = IF @ = Half THEN 0 ELSE @ + 1]

\* Outside 0..(Far + 1) there is nowhere to go.
axis ==
  at' = IF ~puls /\ puls'
        THEN IF dir' = "neg" THEN (IF at > 0 THEN at - 1 ELSE at)
                             ELSE (IF at <= Far THEN at + 1 ELSE at)
        ELSE at

Init ==
  /\ key = [d \in Dirs |-> FALSE] /\ cnt = [d \in Dirs |-> 0] /\ flag = [d \in Dirs |-> FALSE]
  /\ c = [d \in Dirs |-> 0] /\ f = [d \in Dirs |-> FALSE]
  /\ dir = "neg" /\ puls = FALSE /\ cnt_puls = [d \in Dirs |-> 0]
  /\ at \in 1..Far

Next == keys /\ switches /\ pulses /\ axis

Spec == Init /\ [][Next]_vars

-----------------------------------------------------------------------------
TypeOK ==
  /\ key \in [Dirs -> BOOLEAN] /\ cnt \in [Dirs -> 0..Hold] /\ flag \in [Dirs -> BOOLEAN]
  /\ c \in [Dirs -> 0..Hold] /\ f \in [Dirs -> BOOLEAN]
  /\ dir \in Dirs /\ puls \in BOOLEAN /\ cnt_puls \in [Dirs -> 0..Half]
  /\ at \in 0..(Far + 1)

\* Jogging never takes the axis beyond a switch, however the keys are pressed, released
\* and changed: a switch is seen only after it is debounced, and the counter of a
\* direction keeps its value while the other key is pressed.
StaysBetweenSwitches == at \in SwitchAt["neg"]..SwitchAt["pos"]
=============================================================================
