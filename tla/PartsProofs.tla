---------------------------- MODULE PartsProofs ----------------------------
(***************************************************************************)
(* Proofs about SpiTransfer (S of MCParts), for any time of a byte, rounds *)
(* and time between two of them that are Timed, and about all parts        *)
(* together.                                                               *)
(*                                                                         *)
(* SpiTransfer.  Between two steps of the driver the byte of its place is  *)
(* still to be sent (Shifted), on its way (Flight) or in (Arrived), by     *)
(* where the driver is; a byte that is on its way when a loop ends early   *)
(* is in again before the next needs the registers (InHold, InRelease).    *)
(***************************************************************************)
EXTENDS WordPathProofs, PulseProofs, CncDeviceProofs

Quiet == tx_holding = S!NoByte /\ shift = S!NoByte
\* Byte p is on its way.
Flight(pos) ==
  /\ ~RRDY /\ esc_place = pos - 1
  /\ \/ tx_holding = S!Own(pos) /\ shift = S!NoByte
     \/ tx_holding = S!NoByte /\ shift = S!Own(pos) /\ left \in 1..ByteTime
\* The steps until it is in.
due == IF tx_holding # S!NoByte THEN ByteTime + 1 ELSE IF shift # S!NoByte THEN left ELSE 0
\* It is in and was not taken.
Arrived(pos) == Quiet /\ esc_place = pos /\ RRDY /\ rx_holding = S!Own(pos)
Shifted(pos) == Quiet /\ esc_place = pos

Filled(n) ==
  \A pos \in 3..n : result[pos] = S!Own(pos) \/ (result[pos] = S!NoByte /\ pos \in hasty)

CommandPlaces == {"select", "discard", "poll", "send", "receive", "finish"}
ExchangePlaces == {"discard8", "status8", "send8", "wait8", "check8", "take8", "return8"}

InCommand ==
  /\ place <= 2 + op.n
  /\ op.kind = "read" => place <= 2
  /\ s_pc \in {"select", "discard"} => Shifted(place - 1) /\ credits = 1
  /\ s_pc = "poll" /\ credits = 1 => Shifted(place - 1) /\ ~RRDY
  /\ s_pc = "poll" /\ credits = 0 => Flight(place) \/ Arrived(place)
  /\ s_pc = "send" => Shifted(place - 1) /\ ~RRDY /\ ~RRDY_seen /\ credits = 1
  /\ s_pc \in {"receive", "finish"} => Shifted(place)

InExchange ==
  /\ op.kind = "read" /\ place \in 3..(2 + op.n)
  /\ Filled(place - 1)
  /\ s_pc = "discard8" => Shifted(place - 1)
  /\ s_pc \in {"status8", "send8"} => Shifted(place - 1) /\ ~RRDY
  /\ s_pc = "send8" => wait >= 6 /\ (place \in hasty \/ wait > ByteTime)
  /\ s_pc = "wait8" =>
       /\ Flight(place) \/ Arrived(place)
       /\ wait >= 1
       /\ due <= wait + 1 + Between /\ due <= wait + 6
       /\ place \in hasty \/ due <= wait
  /\ s_pc = "check8" =>
       /\ Flight(place) \/ Arrived(place)
       /\ due <= 1 + Between /\ due <= 6
       /\ place \in hasty \/ due = 0
  /\ s_pc = "take8" => Arrived(place)
  /\ s_pc = "return8" =>
       /\ Flight(place - 1) \/ Shifted(place - 1)
       /\ wait >= 1 /\ due <= wait

InHold ==
  /\ op.kind = "read" /\ S!LastPlace /\ Filled(place)
  /\ Flight(place) \/ Shifted(place)
  /\ wait >= 1 /\ due <= wait

InRelease ==
  /\ S!LastPlace /\ Shifted(place)
  /\ op.kind = "read" => Filled(place)

SpiInv ==
  /\ wait \in Nat
  /\ s_pc = "idle" => Shifted(0) /\ esc_turn = 1 - turn /\ ~SSO
  /\ s_pc # "idle" => esc_turn = turn
  /\ s_pc \notin {"idle", "select"} => SSO
  /\ s_pc \in CommandPlaces => InCommand
  /\ s_pc \in ExchangePlaces => InExchange
  /\ s_pc = "hold8" => InHold
  /\ s_pc = "release" => InRelease

\* The part of the type invariant that no step of the core changes but the core.
CoreTypeOK ==
  /\ tx_holding \in S!Byte \cup {S!NoByte} /\ shift \in S!Byte \cup {S!NoByte}
  /\ rx_holding \in S!Byte \cup {S!NoByte} /\ left \in 0..ByteTime
  /\ RRDY \in BOOLEAN /\ SSO \in BOOLEAN /\ esc_turn \in {0, 1} /\ esc_place \in 0..6
ProgTypeOK ==
  /\ op \in S!Ops /\ turn \in {0, 1} /\ place \in 1..6
  /\ s_pc \in {"idle", "select", "discard", "poll", "send", "receive", "finish", "discard8",
             "status8", "send8", "wait8", "check8", "take8", "return8", "hold8",
             "release"}
  /\ credits \in {0, 1} /\ RRDY_seen \in BOOLEAN
  /\ result \in [3..6 -> S!Byte \cup {S!NoByte}] /\ hasty \subseteq 3..6

LEMMA TypeParts ==
  /\ S!TypeOK <=> ProgTypeOK /\ CoreTypeOK
  /\ S!TypeOK' <=> ProgTypeOK' /\ CoreTypeOK'
  BY DEF S!TypeOK, ProgTypeOK, CoreTypeOK

-----------------------------------------------------------------------------
LEMMA OwnIsByte ==
  ASSUME turn \in {0, 1}, NEW pos \in 1..7
  PROVE  /\ S!Own(pos) \in S!Byte /\ S!Own(pos) # S!NoByte
         /\ S!Own(pos) = [turn |-> turn, place |-> pos]
<1>1. S!Own(pos) = [turn |-> turn, place |-> pos]
  BY DEF S!Own
<1>2. S!Own(pos) \in S!Byte
  BY <1>1 DEF S!Byte
<1>3. S!Own(pos).place = pos /\ S!NoByte.place = 0
  BY <1>1 DEF S!NoByte
<1>4. S!Own(pos) # S!NoByte
  BY <1>3
<1> QED BY <1>1, <1>2, <1>4

LEMMA CoreQuiet ==
  ASSUME S!TypeOK, Quiet, NEW reg, NEW val, S!core(S!Access(reg, val)), reg # "TXDATA",
         reg = "CONTROL" => val = TRUE
  PROVE  /\ Quiet' /\ esc_place' = esc_place /\ esc_turn' = esc_turn
         /\ RRDY' = (RRDY /\ reg # "RXDATA") /\ rx_holding' = rx_holding
         /\ SSO' = (reg = "CONTROL" \/ SSO)
         /\ CoreTypeOK'
<1>1. ~S!Done /\ ~S!Loads /\ S!Access(reg, val).reg = reg /\ S!Access(reg, val).val = val
  BY DEF S!Done, S!Loads, Quiet, S!Access
<1>2. tx_holding' = tx_holding /\ shift' = shift
  BY <1>1 DEF S!core, Quiet
<1>3. left' \in 0..ByteTime
  BY <1>1, SpiAssumption DEF S!core, S!TypeOK, S!Timed
<1>4. RRDY' = (RRDY /\ reg # "RXDATA") /\ rx_holding' = rx_holding
  BY <1>1 DEF S!core
<1>6. SSO' = (reg = "CONTROL" \/ SSO)
  BY <1>1, TypeParts DEF S!core, CoreTypeOK
<1>5. esc_place' = esc_place /\ esc_turn' = esc_turn
  BY <1>1, <1>2, <1>6 DEF S!core, Quiet
<1>7. CoreTypeOK'
  BY <1>2, <1>3, <1>4, <1>5, <1>6, TypeParts DEF CoreTypeOK
<1> QED BY <1>2, <1>3, <1>4, <1>5, <1>6, <1>7 DEF Quiet

LEMMA CoreStill ==
  ASSUME S!TypeOK, Quiet, S!core(S!Nothing), SSO
  PROVE  /\ Quiet' /\ esc_place' = esc_place /\ esc_turn' = esc_turn /\ SSO'
         /\ RRDY => RRDY'
         /\ rx_holding' = rx_holding /\ CoreTypeOK'
<1>1. ~S!Done /\ S!Nothing.reg = "none"
  BY DEF S!Done, Quiet, S!Nothing, S!Access
<1>2. RRDY => RRDY'
  BY <1>1 DEF S!core
<1>3. S!core(S!Access("none", 0))
  BY DEF S!Nothing
<1>4. /\ Quiet' /\ esc_place' = esc_place /\ esc_turn' = esc_turn /\ SSO' = TRUE
      /\ rx_holding' = rx_holding /\ CoreTypeOK'
  BY <1>3, CoreQuiet
<1> QED BY <1>2, <1>4

\* TXDATA, written while nothing is on its way.
LEMMA CoreSend ==
  ASSUME S!TypeOK, Quiet, NEW pos \in 1..6, S!core(S!Access("TXDATA", S!Own(pos))), SSO,
         esc_place = pos - 1, ~RRDY, turn' = turn
  PROVE  /\ Flight(pos)' /\ due' = ByteTime + 1 /\ SSO' /\ esc_turn' = esc_turn
         /\ CoreTypeOK'
<1>1. ~S!Done /\ ~S!Loads /\ S!TRDY
  BY DEF S!Done, S!Loads, Quiet, S!TRDY
<1>2. S!Access("TXDATA", S!Own(pos)).reg = "TXDATA" /\ S!Access("TXDATA", S!Own(pos)).val = S!Own(pos)
  BY DEF S!Access
<1>3. tx_holding' = S!Own(pos) /\ shift' = S!NoByte /\ SSO' = SSO
  BY <1>1, <1>2 DEF S!core, Quiet
<1>4. esc_place' = pos - 1 /\ esc_turn' = esc_turn
  BY <1>1, <1>2, <1>3 DEF S!core, Quiet
<1>5. RRDY' = FALSE /\ rx_holding' = rx_holding /\ left' \in 0..ByteTime
  BY <1>1, <1>2, SpiAssumption DEF S!core, S!TypeOK, S!Timed
<1>6. S!Own(pos) # S!NoByte /\ S!Own(pos) \in S!Byte
  BY OwnIsByte DEF S!TypeOK
<1>7. CoreTypeOK'
  BY <1>3, <1>4, <1>5, <1>6, TypeParts DEF CoreTypeOK
<1> QED BY <1>3, <1>4, <1>5, <1>6, <1>7 DEF Flight, due, S!Own

\* A step of a loop while a byte is on its way.
LEMMA CoreFlight ==
  ASSUME S!TypeOK, NEW pos \in 1..6, Flight(pos), S!core(S!Nothing), SSO,
         turn' = turn, esc_turn = turn
  PROVE  /\ (Flight(pos) \/ Arrived(pos))'
         /\ due' = due - 1 /\ due \in 1..(ByteTime + 1)
         /\ SSO' /\ esc_turn' = esc_turn
         /\ CoreTypeOK'
<1>0. /\ S!Own(pos) # S!NoByte /\ S!Own(pos)' = S!Own(pos) /\ S!Own(pos) \in S!Byte
      /\ S!Own(pos) = [turn |-> turn, place |-> pos]
  BY OwnIsByte DEF S!Own, S!TypeOK
<1>1. /\ S!Nothing.reg = "none" /\ SSO' = SSO
  BY DEF S!Nothing, S!Access, S!core
<1>t. /\ ByteTime \in Nat \ {0} /\ esc_place = pos - 1 /\ ~RRDY
      /\ rx_holding \in S!Byte \cup {S!NoByte}
  BY SpiAssumption DEF S!Timed, Flight, S!TypeOK
<1>s. SSO' \in BOOLEAN /\ esc_turn \in {0, 1}
  BY <1>1 DEF S!TypeOK
<1>2. CASE tx_holding = S!Own(pos) /\ shift = S!NoByte
  <2>1. ~S!Done /\ S!Loads
    BY <1>0, <1>2 DEF S!Done, S!Loads
  <2>2. tx_holding' = S!NoByte /\ shift' = S!Own(pos) /\ left' = ByteTime
    BY <1>1, <1>2, <2>1 DEF S!core
  <2>3. RRDY' = FALSE /\ rx_holding' = rx_holding /\ esc_place' = pos - 1 /\ esc_turn' = esc_turn
    BY <1>0, <1>1, <1>t, <2>1, <2>2 DEF S!core
  <2>4. due = ByteTime + 1 /\ due' = ByteTime
    BY <1>0, <1>2, <2>2 DEF due
  <2>5. Flight(pos)'
    BY <1>0, <1>1, <1>t, <2>2, <2>3 DEF Flight
  <2>6. due' = due - 1 /\ due \in 1..(ByteTime + 1)
    BY <1>t, <2>4
  <2>7. /\ tx_holding' \in S!Byte \cup {S!NoByte} /\ shift' \in S!Byte \cup {S!NoByte}
        /\ rx_holding' \in S!Byte \cup {S!NoByte}
    BY <1>0, <1>t, <2>2, <2>3
  <2>8. left' \in 0..ByteTime /\ esc_place' \in 0..6
    BY <1>t, <2>2, <2>3
  <2>9. CoreTypeOK'
    BY <1>1, <1>s, <2>3, <2>7, <2>8 DEF CoreTypeOK
  <2> QED BY <1>1, <2>3, <2>5, <2>6, <2>9
<1>3. CASE tx_holding = S!NoByte /\ shift = S!Own(pos) /\ left \in 2..ByteTime
  <2>1. ~S!Done /\ ~S!Loads
    BY <1>0, <1>3 DEF S!Done, S!Loads
  <2>2. tx_holding' = S!NoByte /\ shift' = S!Own(pos) /\ left' = left - 1
    BY <1>1, <1>3, <1>t, <2>1 DEF S!core
  <2>3. RRDY' = FALSE /\ rx_holding' = rx_holding /\ esc_place' = pos - 1 /\ esc_turn' = esc_turn
    BY <1>0, <1>1, <1>t, <2>1, <2>2 DEF S!core
  <2>4. due = left /\ due' = left - 1
    BY <1>0, <1>3, <2>2 DEF due
  <2>5. Flight(pos)'
    BY <1>0, <1>1, <1>t, <1>3, <2>2, <2>3 DEF Flight
  <2>6. due' = due - 1 /\ due \in 1..(ByteTime + 1)
    BY <1>t, <1>3, <2>4
  <2>7. /\ tx_holding' \in S!Byte \cup {S!NoByte} /\ shift' \in S!Byte \cup {S!NoByte}
        /\ rx_holding' \in S!Byte \cup {S!NoByte}
    BY <1>0, <1>t, <2>2, <2>3
  <2>8. left' \in 0..ByteTime /\ esc_place' \in 0..6
    BY <1>t, <1>3, <2>2, <2>3
  <2>9. CoreTypeOK'
    BY <1>1, <1>s, <2>3, <2>7, <2>8 DEF CoreTypeOK
  <2> QED BY <1>1, <2>3, <2>5, <2>6, <2>9
<1>4. CASE tx_holding = S!NoByte /\ shift = S!Own(pos) /\ left = 1
  <2>1. S!Done /\ ~S!Loads
    BY <1>0, <1>4 DEF S!Done, S!Loads
  <2>2. tx_holding' = S!NoByte /\ shift' = S!NoByte /\ left' = 0
    BY <1>1, <1>4, <2>1 DEF S!core
  <2>5. esc_place + 1 = pos
    BY <1>t
  <2>6. SSO' /\ [turn |-> esc_turn, place |-> esc_place + 1] = S!Own(pos)
    BY <1>0, <1>1, <2>5
  <2>3. RRDY' = TRUE /\ rx_holding' = S!Own(pos) /\ esc_place' = pos /\ esc_turn' = esc_turn
    BY <1>1, <2>1, <2>5, <2>6 DEF S!core
  <2>4. due = 1 /\ due' = 0
    BY <1>0, <1>4, <2>2 DEF due
  <2>7. /\ tx_holding' \in S!Byte \cup {S!NoByte} /\ shift' \in S!Byte \cup {S!NoByte}
        /\ rx_holding' \in S!Byte \cup {S!NoByte} /\ left' \in 0..ByteTime /\ esc_place' \in 0..6
    BY <1>0, <1>t, <2>2, <2>3
  <2>8. CoreTypeOK'
    BY <1>1, <1>s, <2>3, <2>7 DEF CoreTypeOK
  <2>9. due' = due - 1 /\ due \in 1..(ByteTime + 1)
    BY <1>t, <2>4
  <2> QED BY <1>0, <1>1, <2>2, <2>3, <2>8, <2>9 DEF Arrived, Quiet
<1> QED BY <1>2, <1>3, <1>4 DEF Flight

-----------------------------------------------------------------------------
LEMMA SpiInitial == S!Init => S!TypeOK /\ SpiInv
<1> SUFFICES ASSUME S!Init PROVE S!TypeOK /\ SpiInv
  OBVIOUS
<1>1. op \in S!Ops
  BY DEF S!Init, S!Ops
<1>2. ProgTypeOK /\ CoreTypeOK
  <2>0. ByteTime \in Nat
    BY SpiAssumption DEF S!Timed
  <2>1. result \in [3..6 -> S!Byte \cup {S!NoByte}]
    BY DEF S!Init
  <2>2. ProgTypeOK
    <3>1. hasty \subseteq 3..6 /\ s_pc = "idle" /\ credits = 1 /\ RRDY_seen \in BOOLEAN
      BY DEF S!Init
    <3>2. turn \in {0, 1} /\ place \in 1..6
      BY DEF S!Init
    <3> QED BY <1>1, <2>1, <3>1, <3>2 DEF ProgTypeOK
  <2>3. left \in 0..ByteTime
    BY <2>0 DEF S!Init
  <2>4. CoreTypeOK
    <3>1. /\ tx_holding = S!NoByte /\ shift = S!NoByte /\ rx_holding = S!NoByte
          /\ RRDY = FALSE /\ SSO = FALSE /\ esc_turn = 0 /\ esc_place = 0
      BY DEF S!Init
    <3>2. esc_place \in 0..6 /\ esc_turn \in {0, 1}
      BY <3>1
    <3> QED BY <2>3, <3>1, <3>2 DEF CoreTypeOK
  <2> QED BY <2>2, <2>4
<1>3. SpiInv
  BY DEF S!Init, SpiInv, Shifted, Quiet, CommandPlaces, ExchangePlaces
<1> QED BY <1>2, <1>3, TypeParts

LEMMA OpShape ==
  ASSUME op \in S!Ops
  PROVE  /\ op.kind \in {"read", "write"} /\ op.n \in 1..4
         /\ op.kind = "write" => op.n \in 1..2
  BY DEF S!Ops

\* The steps of alt_avalon_spi_command.
LEMMA CommandSteps ==
  ASSUME S!TypeOK, SpiInv, S!Command
  PROVE  S!TypeOK' /\ SpiInv'
<1> USE TypeParts DEF CommandPlaces, ExchangePlaces
<1>0. /\ op.kind \in {"read", "write"} /\ op.n \in 1..4
      /\ op.kind = "write" => op.n \in 1..2
  BY OpShape DEF S!TypeOK
<1>1. CASE S!Select
  <2>1. Shifted(place - 1) /\ credits = 1 /\ InCommand
    BY <1>1 DEF S!Select, SpiInv, InCommand
  <2>2. /\ Quiet' /\ esc_place' = esc_place /\ esc_turn' = esc_turn /\ SSO' = TRUE
        /\ CoreTypeOK'
    BY <1>1, <2>1, CoreQuiet DEF S!Select, Shifted
  <2>3. ProgTypeOK'
    BY <1>1 DEF S!Select, S!Same, S!Goto, ProgTypeOK
  <2>4. SpiInv'
    BY <1>1, <2>1, <2>2 DEF S!Select, S!Same, S!Goto, SpiInv, InCommand, Shifted
  <2> QED BY <2>2, <2>3, <2>4
<1>2. CASE S!Discard
  <2>1. Shifted(place - 1) /\ credits = 1 /\ InCommand /\ SSO
    BY <1>2 DEF S!Discard, SpiInv, InCommand
  <2>2. /\ Quiet' /\ esc_place' = esc_place /\ esc_turn' = esc_turn /\ SSO'
        /\ ~RRDY' /\ CoreTypeOK'
    BY <1>2, <2>1, CoreQuiet DEF S!Discard, Shifted
  <2>3. ProgTypeOK'
    BY <1>2 DEF S!Discard, S!Same, S!Goto, ProgTypeOK
  <2>4. SpiInv'
    BY <1>2, <2>1, <2>2 DEF S!Discard, S!Same, S!Goto, SpiInv, InCommand, Shifted
  <2> QED BY <2>2, <2>3, <2>4
<1>3. CASE S!Poll
  <2>0. InCommand /\ SSO /\ esc_turn = turn /\ turn' = turn /\ place \in 1..6 /\ wait' = wait
    BY <1>3 DEF S!Poll, SpiInv, S!TypeOK
  <2>1. ProgTypeOK'
    BY <1>3, TypeParts DEF S!Poll, S!Goto, ProgTypeOK, CoreTypeOK
  <2>2. CASE credits = 1
    <3>1. Shifted(place - 1) /\ ~RRDY
      BY <1>3, <2>0, <2>2 DEF S!Poll, InCommand
    <3>2. S!TRDY
      BY <3>1 DEF Shifted, Quiet, S!TRDY
    <3>3. /\ Quiet' /\ esc_place' = esc_place /\ esc_turn' = esc_turn /\ SSO' = TRUE
          /\ RRDY' = FALSE /\ CoreTypeOK'
      BY <1>3, <2>0, <3>1, CoreQuiet DEF S!Poll, S!Nothing, Shifted
    <3>4. s_pc' = "send" /\ RRDY_seen' = FALSE /\ credits' = 1 /\ op' = op /\ place' = place
      BY <1>3, <2>2, <3>1, <3>2 DEF S!Poll, S!Goto
    <3>5. InCommand'
      BY <2>0, <3>1, <3>3, <3>4 DEF InCommand, Shifted
    <3>6. SpiInv'
      BY <2>0, <3>3, <3>4, <3>5 DEF SpiInv
    <3> QED BY <2>1, <3>3, <3>6
  <2>3. CASE credits = 0 /\ Flight(place)
    <3>1. /\ (Flight(place) \/ Arrived(place))' /\ SSO' /\ esc_turn' = esc_turn
          /\ CoreTypeOK'
      <4>1. \A b \in 1..6 : place = b =>
              (Flight(b) \/ Arrived(b))' /\ SSO' /\ esc_turn' = esc_turn /\ CoreTypeOK'
        BY <1>3, <2>0, <2>3, CoreFlight DEF S!Poll
      <4>2. place' = place
        BY <1>3 DEF S!Poll
      <4> QED BY <2>0, <4>1, <4>2 DEF Flight, Arrived, S!Own
    <3>2. s_pc' = "poll" /\ credits' = 0 /\ op' = op /\ place' = place
      BY <1>3, <2>3 DEF S!Poll, S!Goto, Flight
    <3>3. InCommand'
      BY <2>0, <3>1, <3>2 DEF InCommand
    <3>4. SpiInv'
      BY <2>0, <3>1, <3>2, <3>3 DEF SpiInv
    <3> QED BY <2>1, <3>1, <3>4
  <2>4. CASE credits = 0 /\ Arrived(place)
    <3>1. /\ Quiet' /\ esc_place' = esc_place /\ esc_turn' = esc_turn /\ SSO' = TRUE
          /\ CoreTypeOK'
      BY <1>3, <2>0, <2>4, CoreQuiet DEF S!Poll, S!Nothing, Arrived
    <3>2. s_pc' = "receive" /\ credits' = 0 /\ op' = op /\ place' = place
      BY <1>3, <2>4 DEF S!Poll, S!Goto, Arrived
    <3>3. InCommand'
      BY <2>0, <2>4, <3>1, <3>2 DEF InCommand, Shifted, Arrived
    <3>4. SpiInv'
      BY <2>0, <3>1, <3>2, <3>3 DEF SpiInv
    <3> QED BY <2>1, <3>1, <3>4
  <2> QED BY <1>3, <2>0, <2>2, <2>3, <2>4 DEF InCommand, S!Poll, S!TypeOK
<1>4. CASE S!Send
  <2>0. /\ InCommand /\ SSO /\ esc_turn = turn /\ turn' = turn /\ place \in 1..6
        /\ wait' = wait /\ Shifted(place - 1) /\ ~RRDY /\ ~RRDY_seen /\ credits = 1
    BY <1>4 DEF S!Send, SpiInv, S!TypeOK, InCommand
  <2>1. s_pc' = "poll" /\ credits' = 0 /\ op' = op /\ place' = place
    BY <1>4, <2>0 DEF S!Send, S!Goto
  <2>2. ProgTypeOK'
    BY <1>4, <2>0, <2>1 DEF S!Send, ProgTypeOK
  <2>3. /\ Flight(place)' /\ SSO' /\ esc_turn' = esc_turn /\ CoreTypeOK'
    <3>1. \A b \in 1..6 : place = b =>
              Flight(b)' /\ SSO' /\ esc_turn' = esc_turn /\ CoreTypeOK'
      BY <1>4, <2>0, CoreSend DEF S!Send, Shifted
    <3> QED BY <2>0, <2>1, <3>1 DEF Flight, S!Own
  <2>4. InCommand'
    BY <2>0, <2>1, <2>3 DEF InCommand
  <2>5. SpiInv'
    BY <2>0, <2>1, <2>3, <2>4 DEF SpiInv
  <2> QED BY <2>2, <2>3, <2>5
<1>5. CASE S!Receive
  <2>0. InCommand /\ SSO /\ esc_turn = turn /\ Shifted(place)
    BY <1>5 DEF S!Receive, SpiInv, InCommand
  <2>1. /\ Quiet' /\ esc_place' = esc_place /\ esc_turn' = esc_turn /\ SSO'
        /\ CoreTypeOK'
    BY <1>5, <2>0, CoreQuiet DEF S!Receive, Shifted
  <2>2. ProgTypeOK'
    BY <1>5 DEF S!Receive, S!Same, S!Goto, ProgTypeOK
  <2>3. SpiInv'
    BY <1>5, <2>0, <2>1 DEF S!Receive, S!Same, S!Goto, SpiInv, InCommand, Shifted
  <2> QED BY <2>1, <2>2, <2>3
<1>6. CASE S!Finish
  <2>0. InCommand /\ SSO /\ esc_turn = turn /\ Shifted(place) /\ place \in 1..6
    BY <1>6 DEF S!Finish, SpiInv, InCommand, S!TypeOK
  <2>1. /\ Quiet' /\ esc_place' = esc_place /\ esc_turn' = esc_turn /\ SSO'
        /\ CoreTypeOK'
    BY <1>6, <2>0, CoreQuiet DEF S!Finish, S!Nothing, Shifted
  <2>2. S!TMT
    BY <2>0 DEF S!TMT, Shifted, Quiet
  <2>3. CASE S!LastPlace
    <3>1. S!Goto("release") /\ S!Same
      BY <1>6, <2>2, <2>3 DEF S!Finish
    <3>2. ProgTypeOK'
      BY <3>1 DEF S!Same, S!Goto, ProgTypeOK
    <3>3. op.kind = "write"
      BY <1>0, <2>0, <2>3 DEF InCommand, S!LastPlace
    <3>4. InRelease'
      BY <2>0, <2>1, <2>3, <3>1, <3>3 DEF S!Same, InRelease, S!LastPlace, Shifted
    <3>5. SpiInv'
      BY <2>0, <2>1, <3>1, <3>4 DEF S!Same, S!Goto, SpiInv
    <3> QED BY <2>1, <3>2, <3>5
  <2>4. CASE ~S!LastPlace
    <3>1. S!NextByte /\ UNCHANGED <<op, turn, wait, RRDY_seen, result, hasty>>
      BY <1>6, <2>2, <2>4 DEF S!Finish
    <3>2. place' \in 1..6 /\ place < 2 + op.n /\ place' = place + 1 /\ place' - 1 = place
      BY <1>0, <2>0, <2>4, <3>1 DEF S!NextByte, InCommand, S!LastPlace
    <3>3. ProgTypeOK'
      BY <3>1, <3>2 DEF S!NextByte, S!Goto, ProgTypeOK
    <3>4. CASE op.kind = "read" /\ place >= 2
      <4>1. s_pc' = "discard8" /\ place = 2 /\ place' = 3 /\ op' = op
        BY <2>0, <3>1, <3>2, <3>4 DEF S!NextByte, S!Goto, InCommand
      <4>2. InExchange'
        BY <1>0, <2>0, <2>1, <3>2, <3>4, <4>1 DEF InExchange, Filled, Shifted
      <4>3. SpiInv'
        BY <2>0, <2>1, <3>1, <4>1, <4>2 DEF SpiInv
      <4> QED BY <2>1, <3>3, <4>3
    <3>5. CASE ~(op.kind = "read" /\ place >= 2)
      <4>1. s_pc' = "select" /\ op' = op /\ credits' = 1
        BY <3>1, <3>5 DEF S!NextByte, S!Goto
      <4>2. InCommand'
        BY <1>0, <2>0, <2>1, <3>2, <3>5, <4>1 DEF InCommand, Shifted
      <4>3. SpiInv'
        BY <2>0, <2>1, <3>1, <4>1, <4>2 DEF SpiInv
      <4> QED BY <2>1, <3>3, <4>3
    <3> QED BY <3>4, <3>5
  <2> QED BY <2>3, <2>4
<1> QED BY <1>1, <1>2, <1>3, <1>4, <1>5, <1>6 DEF S!Command

LEMMA CoreWait ==
  ASSUME S!TypeOK, NEW pos \in 1..6, Flight(pos) \/ Shifted(pos), S!core(S!Nothing), SSO,
         turn' = turn, esc_turn = turn
  PROVE  /\ (Flight(pos) \/ Shifted(pos))'
         /\ Flight(pos) \/ Arrived(pos) => (Flight(pos) \/ Arrived(pos))'
         /\ due \in Nat /\ due' = (IF due = 0 THEN 0 ELSE due - 1) /\ (Flight(pos)' => due' >= 1)
         /\ SSO' /\ esc_turn' = esc_turn
         /\ CoreTypeOK'
<1>t. ByteTime \in Nat \ {0}
  BY SpiAssumption DEF S!Timed
<1>pos. S!Own(pos)' = S!Own(pos) /\ S!Own(pos) # S!NoByte
  BY OwnIsByte DEF S!Own, S!TypeOK
<1>d. Flight(pos)' => due' >= 1
  BY <1>t, <1>pos DEF Flight, due
<1>1. CASE Flight(pos)
  <2>1. /\ (Flight(pos) \/ Arrived(pos))' /\ due' = due - 1 /\ due \in 1..(ByteTime + 1)
        /\ SSO' /\ esc_turn' = esc_turn /\ CoreTypeOK'
    BY <1>1, CoreFlight
  <2>2. (Flight(pos) \/ Shifted(pos))'
    BY <2>1 DEF Arrived, Shifted
  <2>3. due \in Nat /\ due' = (IF due = 0 THEN 0 ELSE due - 1)
    BY <1>t, <2>1
  <2> QED BY <1>d, <2>1, <2>2, <2>3
<1>2. CASE Shifted(pos)
  <2>1. /\ Quiet' /\ esc_place' = esc_place /\ esc_turn' = esc_turn /\ SSO'
        /\ (RRDY => RRDY') /\ rx_holding' = rx_holding /\ CoreTypeOK'
    BY <1>2, CoreStill DEF Shifted
  <2>2. Shifted(pos)' /\ (Arrived(pos) => Arrived(pos)')
    BY <1>2, <1>pos, <2>1 DEF Shifted, Arrived
  <2>3. due = 0 /\ due' = 0
    BY <1>2, <2>1 DEF due, Shifted, Quiet
  <2>4. ~Flight(pos)
    BY <1>2, <1>pos DEF Shifted, Quiet, Flight
  <2> QED BY <1>d, <2>1, <2>2, <2>3, <2>4
<1> QED BY <1>1, <1>2

\* A byte, or 0 for one that is late, has been read.
LEMMA Returned ==
  ASSUME S!TypeOK, SpiInv, InExchange, NEW b \in 1..6, place = b,
         NEW value, S!Return8(value), value = S!Own(b) \/ (value = S!NoByte /\ b \in hasty),
         (Flight(b) \/ Shifted(b))', due' \in Nat, due' <= Between, due' <= 5,
         SSO', esc_turn' = esc_turn, s_pc \in ExchangePlaces, CoreTypeOK'
  PROVE  S!TypeOK' /\ SpiInv'
<1> USE DEF ExchangePlaces
<1>0. /\ op.kind = "read" /\ op.n \in 1..4 /\ b \in 3..(2 + op.n) /\ b \in 3..6
      /\ turn \in {0, 1}
  BY OpShape DEF S!TypeOK, InExchange
<1>t. /\ Between \in Nat \ {0} /\ \A r \in Rounds : r \in Nat /\ r >= 1
  BY SpiAssumption DEF S!Timed
<1>1. value \in S!Byte \cup {S!NoByte}
  BY <1>0, OwnIsByte
<1>2. /\ op' = op /\ turn' = turn /\ hasty' = hasty /\ RRDY_seen' = RRDY_seen
      /\ credits' = credits /\ result' = [result EXCEPT ![b] = value]
  BY DEF S!Return8
<1>3. result' \in [3..6 -> S!Byte \cup {S!NoByte}]
  BY <1>1, <1>2 DEF S!TypeOK
<1>4. result'[b] = value /\ \A pos \in 3..6 : pos # b => result'[pos] = result[pos]
  BY <1>0, <1>2 DEF S!TypeOK
<1>5. \A pos \in 3..b : result'[pos] = S!Own(pos)' \/ (result'[pos] = S!NoByte /\ pos \in hasty')
  <2>1. \A pos \in 3..(b - 1) : result[pos] = S!Own(pos) \/ (result[pos] = S!NoByte /\ pos \in hasty)
    BY DEF InExchange, Filled
  <2>2. TAKE pos \in 3..b
  <2>3. S!Own(pos)' = S!Own(pos)
    BY <1>2 DEF S!Own
  <2>4. CASE pos = b
    BY <1>2, <1>4, <2>3, <2>4
  <2>5. CASE pos # b
    BY <1>0, <1>2, <1>4, <2>1, <2>3, <2>5
  <2> QED BY <2>4, <2>5
<1>6. esc_turn' = turn'
  BY <1>2 DEF SpiInv
<1>7. CASE S!LastPlace
  <2>1. s_pc' = "hold8" /\ place' = b /\ \E r \in Rounds : wait' = 5 * r
    BY <1>7 DEF S!Return8, S!Goto
  <2>2. wait' \in Nat /\ wait' >= 1 /\ due' <= wait'
    BY <1>t, <2>1
  <2>3. ProgTypeOK'
    BY <1>0, <1>2, <1>3, <2>1 DEF ProgTypeOK, S!TypeOK
  <2>4. Filled(place)'
    BY <1>5, <2>1 DEF Filled
  <2>5. InHold'
    BY <1>0, <1>2, <1>7, <2>1, <2>2, <2>4 DEF InHold, S!LastPlace
  <2>6. SpiInv'
    BY <1>6, <2>1, <2>2, <2>5 DEF SpiInv, CommandPlaces
  <2> QED BY <2>3, <2>6, TypeParts
<1>8. CASE ~S!LastPlace
  <2>1. s_pc' = "return8" /\ place' = b + 1 /\ wait' = Between
    BY <1>8 DEF S!Return8, S!Goto
  <2>2. wait' \in Nat /\ wait' >= 1 /\ due' <= wait'
    BY <1>t, <2>1
  <2>3. place' \in 3..(2 + op.n) /\ place' \in 1..6 /\ place' - 1 = b
    BY <1>0, <1>8, <2>1 DEF S!LastPlace
  <2>4. ProgTypeOK'
    BY <1>0, <1>2, <1>3, <2>1, <2>3 DEF ProgTypeOK, S!TypeOK
  <2>5. Filled(place - 1)'
    BY <1>5, <2>3 DEF Filled
  <2>6. InExchange'
    BY <1>0, <1>2, <2>1, <2>2, <2>3, <2>5 DEF InExchange
  <2>7. SpiInv'
    BY <1>6, <2>1, <2>2, <2>6 DEF SpiInv, CommandPlaces
  <2> QED BY <2>4, <2>7, TypeParts
<1> QED BY <1>7, <1>8

\* The steps of spi_tx_rx_8.
LEMMA ExchangeSteps ==
  ASSUME S!TypeOK, SpiInv, S!Exchange
  PROVE  S!TypeOK' /\ SpiInv'
<1> USE TypeParts DEF CommandPlaces, ExchangePlaces
<1>0. /\ op.kind \in {"read", "write"} /\ op.n \in 1..4
      /\ op.kind = "write" => op.n \in 1..2
  BY OpShape DEF S!TypeOK
<1>t. /\ ByteTime \in Nat \ {0} /\ Between \in Nat \ {0} /\ \A r \in Rounds : r \in Nat /\ r >= 1
      /\ ByteTime <= 6 + Between /\ ByteTime <= 11
  BY SpiAssumption DEF S!Timed
<1>1. CASE S!Discard8
  <2>0. /\ InExchange /\ SSO /\ esc_turn = turn /\ Shifted(place - 1)
        /\ wait \in Nat
    BY <1>1 DEF S!Discard8, SpiInv, InExchange
  <2>1. /\ Quiet' /\ esc_place' = esc_place /\ esc_turn' = esc_turn /\ SSO' = TRUE
        /\ RRDY' = FALSE /\ CoreTypeOK'
    BY <1>1, <2>0, CoreQuiet DEF S!Discard8, S!Discarded, Shifted
  <2>2. ProgTypeOK'
    BY <1>1 DEF S!Discard8, S!Same, S!Goto, ProgTypeOK
  <2>3. InExchange'
    BY <1>1, <2>0, <2>1 DEF S!Discard8, S!Same, S!Goto, InExchange, Shifted, Filled, S!Own
  <2>4. SpiInv'
    BY <1>1, <2>0, <2>1, <2>3 DEF S!Discard8, S!Same, S!Goto, SpiInv
  <2> QED BY <2>1, <2>2, <2>4
<1>2. CASE S!Status8
  <2>0. /\ InExchange /\ SSO /\ esc_turn = turn /\ Shifted(place - 1) /\ ~RRDY
        /\ wait \in Nat
    BY <1>2 DEF S!Status8, SpiInv, InExchange
  <2>1. /\ Quiet' /\ esc_place' = esc_place /\ esc_turn' = esc_turn /\ SSO' = TRUE
        /\ RRDY' = FALSE /\ CoreTypeOK'
    BY <1>2, <2>0, CoreQuiet DEF S!Status8, S!Nothing, Shifted
  <2>2. S!TRDY
    BY <2>0 DEF S!TRDY, Shifted, Quiet
  <2>3. PICK r \in Rounds : /\ wait' = 6 * r
                           /\ hasty' = IF 6 * r <= ByteTime THEN hasty \cup {place} ELSE hasty
    BY <1>2 DEF S!Status8
  <2>4. s_pc' = "send8" /\ place' = place /\ op' = op /\ turn' = turn /\ result' = result
    BY <1>2, <2>2 DEF S!Status8, S!Goto
  <2>5. /\ wait' \in Nat /\ wait' >= 6 /\ hasty \subseteq hasty' /\ hasty' \subseteq 3..6
        /\ place \in hasty' \/ wait' > ByteTime
    <3>1. r \in Nat /\ r >= 1
      BY <1>t
    <3>2. place \in 3..6
      BY <1>0, <2>0 DEF InExchange
    <3> QED BY <1>t, <2>3, <3>1, <3>2 DEF S!TypeOK
  <2>6. ProgTypeOK'
    BY <1>2, <2>4, <2>5 DEF S!Status8, ProgTypeOK
  <2>7. Filled(place - 1)'
    BY <2>0, <2>4, <2>5 DEF InExchange, Filled, S!Own
  <2>8. InExchange'
    BY <2>0, <2>1, <2>4, <2>5, <2>7 DEF InExchange, Shifted
  <2>9. SpiInv'
    BY <2>0, <2>1, <2>4, <2>5, <2>8 DEF SpiInv
  <2> QED BY <2>1, <2>6, <2>9
<1>3. CASE S!Send8
  <2>0. /\ InExchange /\ SSO /\ esc_turn = turn /\ Shifted(place - 1) /\ ~RRDY
        /\ wait \in Nat /\ wait >= 6 /\ (place \in hasty \/ wait > ByteTime)
        /\ place \in 3..6
    BY <1>0, <1>3 DEF S!Send8, SpiInv, InExchange
  <2>1. /\ s_pc' = "wait8" /\ place' = place /\ op' = op /\ turn' = turn /\ result' = result
        /\ wait' = wait /\ hasty' = hasty
    BY <1>3 DEF S!Send8, S!Goto, S!Same
  <2>2. /\ Flight(place)' /\ due' = ByteTime + 1 /\ SSO' /\ esc_turn' = esc_turn /\ CoreTypeOK'
    <3>1. \A b \in 1..6 : place = b =>
            Flight(b)' /\ due' = ByteTime + 1 /\ SSO' /\ esc_turn' = esc_turn /\ CoreTypeOK'
      BY <1>3, <2>0, <2>1, CoreSend DEF S!Send8, Shifted
    <3> QED BY <2>0, <2>1, <3>1 DEF Flight, S!Own
  <2>3. ProgTypeOK'
    BY <1>3, <2>1 DEF S!Send8, S!Same, ProgTypeOK
  <2>4. Filled(place - 1)'
    BY <2>0, <2>1 DEF InExchange, Filled, S!Own
  <2>5. InExchange'
    BY <1>t, <2>0, <2>1, <2>2, <2>4 DEF InExchange
  <2>6. SpiInv'
    BY <2>0, <2>1, <2>2, <2>5 DEF SpiInv
  <2> QED BY <2>2, <2>3, <2>6
<1>4. CASE S!Wait8
  <2>0. /\ SSO /\ esc_turn = turn /\ wait \in Nat /\ s_pc \in {"wait8", "hold8", "return8"}
        /\ place \in 1..6 /\ DOMAIN S!AfterLoop = {"wait8", "hold8", "return8"}
    BY <1>4 DEF S!Wait8, SpiInv, S!AfterLoop, S!TypeOK
  <2>1. /\ place' = place /\ op' = op /\ turn' = turn /\ result' = result /\ hasty' = hasty
        /\ wait' = wait - 1 /\ s_pc' = (IF wait > 1 THEN s_pc ELSE S!AfterLoop[s_pc])
        /\ S!core(S!Nothing)
    BY <1>4 DEF S!Wait8, S!Goto
  <2>2. S!AfterLoop["wait8"] = "check8" /\ S!AfterLoop["hold8"] = "release" /\ S!AfterLoop["return8"] = "discard8"
    BY DEF S!AfterLoop
  <2>3. ProgTypeOK'
    BY <1>4, <2>0, <2>1, <2>2 DEF S!Wait8, ProgTypeOK
  <2>4. CASE s_pc = "wait8"
    <3>0. InExchange
      BY <2>4 DEF SpiInv
    <3>1. /\ Flight(place) \/ Arrived(place)
          /\ due <= wait + 1 + Between /\ due <= wait + 6 /\ wait >= 1
          /\ place \in hasty \/ due <= wait
      BY <2>4, <3>0 DEF InExchange
    <3>2. /\ (Flight(place) \/ Arrived(place))' /\ SSO' /\ esc_turn' = esc_turn /\ CoreTypeOK'
          /\ due \in Nat /\ due' = (IF due = 0 THEN 0 ELSE due - 1)
      <4>1. \A b \in 1..6 : place = b =>
              /\ (Flight(b) \/ Arrived(b))' /\ SSO' /\ esc_turn' = esc_turn /\ CoreTypeOK'
              /\ due \in Nat /\ due' = (IF due = 0 THEN 0 ELSE due - 1)
        BY <2>0, <2>1, <3>1, CoreWait DEF Arrived, Shifted
      <4> QED BY <2>0, <2>1, <4>1 DEF Flight, Arrived, S!Own
    <3>3. Filled(place - 1)'
      BY <2>1, <3>0 DEF InExchange, Filled, S!Own
    <3>4. CASE wait > 1
      <4>1. s_pc' = "wait8"
        BY <2>1, <2>4, <3>4
      <4>2. InExchange'
        BY <1>t, <2>0, <2>1, <3>0, <3>1, <3>2, <3>3, <3>4, <4>1 DEF InExchange
      <4>3. SpiInv'
        BY <2>0, <2>1, <3>2, <3>4, <4>1, <4>2 DEF SpiInv
      <4> QED BY <2>3, <3>2, <4>3
    <3>5. CASE wait = 1
      <4>1. s_pc' = "check8"
        BY <2>1, <2>2, <2>4, <3>5
      <4>2. InExchange'
        BY <1>t, <2>0, <2>1, <3>0, <3>1, <3>2, <3>3, <3>5, <4>1 DEF InExchange
      <4>3. SpiInv'
        BY <2>0, <2>1, <3>2, <3>5, <4>1, <4>2 DEF SpiInv
      <4> QED BY <2>3, <3>2, <4>3
    <3> QED BY <2>0, <3>1, <3>4, <3>5
  <2>5. CASE s_pc = "return8"
    <3>0. /\ InExchange /\ place - 1 \in 1..6 /\ wait >= 1 /\ due <= wait
          /\ Flight(place - 1) \/ Shifted(place - 1)
      BY <1>0, <2>5 DEF SpiInv, InExchange
    <3>2. /\ (Flight(place - 1) \/ Shifted(place - 1))' /\ SSO' /\ esc_turn' = esc_turn
          /\ CoreTypeOK' /\ (Flight(place - 1)' => due' >= 1)
          /\ due \in Nat /\ due' = (IF due = 0 THEN 0 ELSE due - 1)
      <4>1. \A b \in 1..6 : place - 1 = b =>
              /\ (Flight(b) \/ Shifted(b))' /\ SSO' /\ esc_turn' = esc_turn /\ CoreTypeOK'
              /\ Flight(b)' => due' >= 1
              /\ due \in Nat /\ due' = (IF due = 0 THEN 0 ELSE due - 1)
        BY <2>0, <2>1, <3>0, CoreWait
      <4> QED BY <2>0, <2>1, <3>0, <4>1 DEF Flight, Shifted, S!Own
    <3>3. Filled(place - 1)'
      BY <2>1, <3>0 DEF InExchange, Filled, S!Own
    <3>4. CASE wait > 1
      <4>1. s_pc' = "return8"
        BY <2>1, <2>5, <3>4
      <4>2. InExchange'
        BY <2>0, <2>1, <3>0, <3>2, <3>3, <3>4, <4>1 DEF InExchange
      <4>3. SpiInv'
        BY <2>0, <2>1, <3>2, <3>4, <4>1, <4>2 DEF SpiInv
      <4> QED BY <2>3, <3>2, <4>3
    <3>5. CASE wait = 1
      <4>1. s_pc' = "discard8"
        BY <2>1, <2>2, <2>5, <3>5
      <4>2. Shifted(place - 1)'
        BY <3>0, <3>2, <3>5
      <4>3. InExchange'
        BY <2>0, <2>1, <3>0, <3>3, <4>1, <4>2 DEF InExchange
      <4>4. SpiInv'
        BY <2>0, <2>1, <3>2, <3>5, <4>1, <4>3 DEF SpiInv
      <4> QED BY <2>3, <3>2, <4>4
    <3> QED BY <2>0, <3>0, <3>4, <3>5
  <2>6. CASE s_pc = "hold8"
    <3>0. InHold /\ wait >= 1 /\ due <= wait /\ (Flight(place) \/ Shifted(place))
      BY <2>6 DEF SpiInv, InHold
    <3>2. /\ (Flight(place) \/ Shifted(place))' /\ SSO' /\ esc_turn' = esc_turn
          /\ CoreTypeOK' /\ (Flight(place)' => due' >= 1)
          /\ due \in Nat /\ due' = (IF due = 0 THEN 0 ELSE due - 1)
      <4>1. \A b \in 1..6 : place = b =>
              /\ (Flight(b) \/ Shifted(b))' /\ SSO' /\ esc_turn' = esc_turn /\ CoreTypeOK'
              /\ Flight(b)' => due' >= 1
              /\ due \in Nat /\ due' = (IF due = 0 THEN 0 ELSE due - 1)
        BY <2>0, <2>1, <3>0, CoreWait
      <4> QED BY <2>0, <2>1, <4>1 DEF Flight, Shifted, S!Own
    <3>3. Filled(place)' /\ S!LastPlace' /\ op'.kind = "read"
      BY <2>1, <3>0 DEF InHold, Filled, S!Own, S!LastPlace
    <3>4. CASE wait > 1
      <4>1. s_pc' = "hold8"
        BY <2>1, <2>6, <3>4
      <4>2. InHold'
        BY <2>0, <2>1, <3>0, <3>2, <3>3, <3>4, <4>1 DEF InHold
      <4>3. SpiInv'
        BY <2>0, <2>1, <3>2, <3>4, <4>1, <4>2 DEF SpiInv
      <4> QED BY <2>3, <3>2, <4>3
    <3>5. CASE wait = 1
      <4>1. s_pc' = "release"
        BY <2>1, <2>2, <2>6, <3>5
      <4>2. Shifted(place)'
        BY <3>0, <3>2, <3>5
      <4>3. InRelease'
        BY <2>1, <3>3, <4>2 DEF InRelease
      <4>4. SpiInv'
        BY <2>0, <2>1, <3>2, <3>5, <4>1, <4>3 DEF SpiInv
      <4> QED BY <2>3, <3>2, <4>4
    <3> QED BY <2>0, <3>0, <3>4, <3>5
  <2> QED BY <2>0, <2>4, <2>5, <2>6
<1>5. CASE S!Check8
  <2>0. /\ InExchange /\ SSO /\ esc_turn = turn /\ wait \in Nat /\ place \in 3..6
        /\ (Flight(place) \/ Arrived(place)) /\ due <= 1 + Between /\ due <= 6
        /\ (place \in hasty \/ due = 0) /\ s_pc = "check8"
    BY <1>0, <1>5 DEF S!Check8, SpiInv, InExchange
  <2>1. CASE RRDY
    <3>1. S!Goto("take8") /\ S!Same /\ S!core(S!Nothing)
      BY <1>5, <2>1 DEF S!Check8
    <3>2. Arrived(place)
      BY <2>0, <2>1 DEF Flight
    <3>3. /\ Quiet' /\ esc_place' = esc_place /\ esc_turn' = esc_turn /\ SSO'
          /\ RRDY' /\ rx_holding' = rx_holding /\ CoreTypeOK'
      BY <2>0, <3>1, <3>2, CoreStill DEF Arrived
    <3>4. ProgTypeOK'
      BY <3>1 DEF S!Same, S!Goto, ProgTypeOK
    <3>5. InExchange'
      BY <2>0, <3>1, <3>2, <3>3 DEF S!Same, S!Goto, InExchange, Arrived, Filled, S!Own
    <3>6. SpiInv'
      BY <2>0, <3>1, <3>3, <3>5 DEF S!Same, S!Goto, SpiInv
    <3> QED BY <3>3, <3>4, <3>6
  <2>2. CASE ~RRDY
    <3>1. S!Return8(S!NoByte) /\ S!core(S!Nothing) /\ turn' = turn
      BY <1>5, <2>2 DEF S!Check8, S!Return8
    <3>2. Flight(place)
      BY <2>0, <2>2 DEF Arrived
    <3>3. due >= 1 /\ place \in hasty
      BY <1>t, <2>0, <3>2, OwnIsByte DEF Flight, due, S!TypeOK
    <3>4. \A b \in 1..6 : place = b =>
            /\ (Flight(b) \/ Shifted(b))' /\ SSO' /\ esc_turn' = esc_turn /\ CoreTypeOK'
            /\ due \in Nat /\ due' = (IF due = 0 THEN 0 ELSE due - 1)
      BY <2>0, <3>1, <3>2, CoreWait
    <3>5. PICK b \in 1..6 : place = b
      BY <2>0
    <3>6. due' \in Nat /\ due' <= Between /\ due' <= 5
      BY <1>t, <2>0, <3>3, <3>4, <3>5
    <3>7. /\ (Flight(b) \/ Shifted(b))' /\ SSO' /\ esc_turn' = esc_turn /\ CoreTypeOK'
          /\ s_pc \in ExchangePlaces /\ b \in hasty
      BY <2>0, <3>3, <3>4, <3>5
    <3> QED BY <2>0, <3>1, <3>5, <3>6, <3>7, Returned
  <2> QED BY <2>1, <2>2
<1>6. CASE S!Take8
  <2>0. /\ InExchange /\ SSO /\ esc_turn = turn /\ Arrived(place) /\ place \in 1..6
        /\ s_pc \in ExchangePlaces
    BY <1>0, <1>6 DEF S!Take8, SpiInv, InExchange
  <2>1. S!Return8(rx_holding) /\ turn' = turn /\ S!core(S!Access("RXDATA", 0))
    BY <1>6 DEF S!Take8, S!Return8
  <2>2. /\ Quiet' /\ esc_place' = esc_place /\ esc_turn' = esc_turn /\ SSO'
        /\ CoreTypeOK'
    BY <2>0, <2>1, CoreQuiet DEF Arrived
  <2>3. due' = 0
    BY <2>2 DEF due, Quiet
  <2>4. \A b \in 1..6 : place = b => (Flight(b) \/ Shifted(b))'
    BY <2>0, <2>2 DEF Shifted, Arrived
  <2>5. PICK b \in 1..6 : place = b
    BY <2>0
  <2>6. rx_holding = S!Own(b) /\ (Flight(b) \/ Shifted(b))'
    BY <2>0, <2>4, <2>5 DEF Arrived
  <2>7. due' \in Nat /\ due' <= Between /\ due' <= 5
    BY <1>t, <2>3
  <2> QED BY <2>0, <2>1, <2>2, <2>5, <2>6, <2>7, Returned
<1> QED BY <1>1, <1>2, <1>3, <1>4, <1>5, <1>6 DEF S!Exchange

LEMMA BeginStep ==
  ASSUME S!TypeOK, SpiInv, S!Begin
  PROVE  S!TypeOK' /\ SpiInv'
<1>1. /\ Shifted(0) /\ esc_turn = 1 - turn /\ ~SSO /\ wait \in Nat /\ turn \in {0, 1}
  BY DEF S!Begin, SpiInv, S!TypeOK
<1>2. /\ op' \in S!Ops /\ turn' = 1 - turn /\ place' = 1 /\ hasty' = {} /\ credits' = 1
      /\ s_pc' = "select" /\ wait' = wait /\ RRDY_seen' = RRDY_seen
      /\ result' = [pos \in 3..6 |-> S!NoByte] /\ S!core(S!Nothing)
  BY DEF S!Begin, S!Goto
<1>3. /\ Quiet' /\ esc_place' = esc_place /\ esc_turn' = esc_turn /\ CoreTypeOK'
  BY <1>1, <1>2, CoreQuiet DEF S!Nothing, Shifted
<1>4. ProgTypeOK'
  <2>1. result' \in [3..6 -> S!Byte \cup {S!NoByte}] /\ hasty' \subseteq 3..6
    BY <1>2
  <2>2. turn' \in {0, 1} /\ place' \in 1..6 /\ RRDY_seen' \in BOOLEAN
    BY <1>1, <1>2 DEF S!TypeOK
  <2> QED BY <1>2, <2>1, <2>2 DEF ProgTypeOK
<1>5. op'.kind \in {"read", "write"} /\ op'.n \in 1..4
  BY <1>2 DEF S!Ops
<1>6. InCommand'
  BY <1>1, <1>2, <1>3, <1>5 DEF InCommand, Shifted
<1>7. SpiInv'
  BY <1>1, <1>2, <1>3, <1>6 DEF SpiInv, CommandPlaces, ExchangePlaces
<1> QED BY <1>3, <1>4, <1>7, TypeParts

LEMMA ReleaseStep ==
  ASSUME S!TypeOK, SpiInv, S!Release
  PROVE  S!TypeOK' /\ SpiInv'
<1>1. /\ Shifted(place) /\ esc_turn = turn /\ SSO /\ wait \in Nat /\ turn \in {0, 1}
  BY DEF S!Release, SpiInv, InRelease, S!TypeOK
<1>2. s_pc' = "idle" /\ S!core(S!Access("CONTROL", FALSE)) /\ S!Same
  BY DEF S!Release, S!Goto
<1>3. ~S!Done /\ ~S!Loads /\ S!Access("CONTROL", FALSE).reg = "CONTROL" /\ S!Access("CONTROL", FALSE).val = FALSE
  BY <1>1 DEF S!Done, S!Loads, Shifted, Quiet, S!Access
<1>4. /\ tx_holding' = tx_holding /\ shift' = shift /\ SSO' = FALSE /\ rx_holding' = rx_holding
      /\ RRDY' = RRDY /\ left' = (IF left > 0 THEN left - 1 ELSE 0)
  BY <1>2, <1>3, TypeParts DEF S!core, CoreTypeOK
<1>5. esc_place' = 0 /\ esc_turn' = 1 - esc_turn
  BY <1>1, <1>2, <1>3, <1>4 DEF S!core, Shifted, Quiet
<1>6. Quiet'
  BY <1>1, <1>4 DEF Shifted, Quiet
<1>7. CoreTypeOK'
  <2>1. left' \in 0..ByteTime
    BY <1>4, SpiAssumption DEF S!Timed, S!TypeOK
  <2>2. esc_place' \in 0..6 /\ esc_turn' \in {0, 1}
    BY <1>1, <1>5
  <2> QED BY <1>4, <2>1, <2>2, TypeParts DEF CoreTypeOK
<1>8. ProgTypeOK'
  BY <1>2, TypeParts DEF S!Same, ProgTypeOK
<1>9. SpiInv'
  BY <1>1, <1>2, <1>4, <1>5, <1>6 DEF S!Same, SpiInv, Shifted, CommandPlaces, ExchangePlaces
<1> QED BY <1>7, <1>8, <1>9, TypeParts

LEMMA SpiStep == S!TypeOK /\ SpiInv /\ [S!Next]_(S!vars) => S!TypeOK' /\ SpiInv'
<1> SUFFICES ASSUME S!TypeOK, SpiInv, [S!Next]_(S!vars)
             PROVE  S!TypeOK' /\ SpiInv'
  OBVIOUS
<1>1. CASE UNCHANGED S!vars
  BY <1>1 DEF S!vars, S!progvars, S!corevars, S!TypeOK, SpiInv, InCommand, InExchange, InHold,
       InRelease,
     Shifted, Quiet, Flight, Arrived, Filled, S!Own, S!LastPlace, due
<1>2. CASE S!Begin
  BY <1>2, BeginStep
<1>3. CASE S!Command
  BY <1>3, CommandSteps
<1>4. CASE S!Exchange
  BY <1>4, ExchangeSteps
<1>5. CASE S!Release
  BY <1>5, ReleaseStep
<1> QED BY <1>1, <1>2, <1>3, <1>4, <1>5 DEF S!Next

LEMMA OwnByte == S!TypeOK /\ SpiInv => S!OwnByteOrZero
<1> SUFFICES ASSUME S!TypeOK, SpiInv PROVE S!OwnByteOrZero
  OBVIOUS
<1> USE DEF CommandPlaces, ExchangePlaces
<1>1. ASSUME shift # S!NoByte
      PROVE  shift = [turn |-> esc_turn, place |-> esc_place + 1]
  <2>1. \A pos2 \in Int : ~Shifted(pos2) /\ ~Arrived(pos2)
    BY <1>1 DEF Shifted, Arrived, Quiet
  <2>2. PICK pos2 \in 0..6 : Flight(pos2) /\ s_pc # "idle"
    <3>1. CASE s_pc \in CommandPlaces
      BY <2>1, <3>1 DEF SpiInv, InCommand, S!TypeOK
    <3>2. CASE s_pc \in ExchangePlaces
      BY <2>1, <3>2 DEF SpiInv, InExchange, S!TypeOK
    <3>3. CASE s_pc \in {"idle", "hold8", "release"}
      BY <2>1, <3>3 DEF SpiInv, InHold, InRelease, S!TypeOK
    <3> QED BY <3>1, <3>2, <3>3 DEF S!TypeOK
  <2>3. shift = S!Own(pos2) /\ esc_place + 1 = pos2 /\ esc_turn = turn
    BY <1>1, <2>2 DEF Flight, SpiInv
  <2> QED BY <2>3 DEF S!Own
<1>2. s_pc = "release" /\ op.kind = "write" => esc_place = 2 + op.n
  BY DEF SpiInv, InRelease, S!LastPlace, Shifted
<1>3. s_pc \in {"hold8", "release"} /\ op.kind = "read" =>
        \A pos \in 3..(2 + op.n) : result[pos] = S!Own(pos) \/ (result[pos] = S!NoByte /\ pos \in hasty)
  BY DEF SpiInv, InHold, InRelease, S!LastPlace, Filled
<1> QED BY <1>1, <1>2, <1>3 DEF S!OwnByteOrZero

\* Whatever the loops take, the controller is never out of step with the program ...
LEMMA SpiHolds == S!Spec => [](S!TypeOK /\ SpiInv)
BY SpiInitial, SpiStep, PTL DEF S!Spec

\* The core's registers and the driver's place in a transfer stay in their ranges.
THEOREM SpiTyped == S!Spec => []S!TypeOK
BY SpiHolds, PTL

\* A byte read over SPI is the one the controller sent at its place, or the 0 of a byte
\* that was not in when its loop ended: never that of another place or another transfer,
\* for any time a byte takes that is Timed.
THEOREM OwnByteRead == S!Spec => []OwnByteOrZero
<1>1. S!TypeOK /\ SpiInv => OwnByteOrZero BY OwnByte DEF OwnByteOrZero
<1>2. QED BY <1>1, SpiHolds, PTL

-----------------------------------------------------------------------------
(***************************************************************************)
(* Every part in one run.  A behaviour of PartsSpec is a behaviour of each *)
(* part: its own steps, and those of another in which it stands still.     *)
(***************************************************************************)
LEMMA PcieAlone == PartsSpec => P!Spec
<1>1. PartsInit => P!Init
  BY DEF PartsInit
<1>2. pcievars' = pcievars => P!vars' = P!vars
  BY DEF pcievars, P!vars, P!rxvars, P!extvars, P!txvars
<1>3. [PartsNext]_partsvars => P!Next \/ pcievars' = pcievars
  BY DEF PartsNext, Pcie, Motion, Interpolate, Jogging, Wheel, Outputs, Driver, Transfer,
       partsvars
<1>4. [PartsNext]_partsvars => [P!Next]_(P!vars)
  BY <1>2, <1>3
<1>. QED
  BY <1>1, <1>4, PTL DEF PartsSpec, P!Spec

LEMMA MotionAlone == PartsSpec => M!Spec
<1>1. PartsInit => M!Init
  BY DEF PartsInit
<1>2. motionvars' = motionvars => M!vars' = M!vars
  BY DEF motionvars, M!vars, M!keyvars, M!fifovars, M!intvars, M!drvvars
<1>3. [PartsNext]_partsvars => M!Next \/ motionvars' = motionvars
  BY DEF PartsNext, Pcie, Motion, Interpolate, Jogging, Wheel, Outputs, Driver, Transfer,
       partsvars
<1>4. [PartsNext]_partsvars => [M!Next]_(M!vars)
  BY <1>2, <1>3
<1>. QED
  BY <1>1, <1>4, PTL DEF PartsSpec, M!Spec

LEMMA InterpolateAlone == PartsSpec => I!Spec
<1>1. PartsInit => I!Init
  BY DEF PartsInit
<1>2. interpolationvars' = interpolationvars => I!vars' = I!vars
  BY DEF interpolationvars, I!vars, I!ddavars, I!cardvars
<1>3. [PartsNext]_partsvars => I!Next \/ interpolationvars' = interpolationvars
  BY DEF PartsNext, Pcie, Motion, Interpolate, Jogging, Wheel, Outputs, Driver, Transfer,
       partsvars
<1>4. [PartsNext]_partsvars => [I!Next]_(I!vars)
  BY <1>2, <1>3
<1>. QED
  BY <1>1, <1>4, PTL DEF PartsSpec, I!Spec

LEMMA JoggingAlone == PartsSpec => J!Spec
<1>1. PartsInit => J!Init
  BY DEF PartsInit
<1>2. jogvars' = jogvars => J!vars' = J!vars
  BY DEF jogvars, J!vars
<1>3. [PartsNext]_partsvars => J!Next \/ jogvars' = jogvars
  BY DEF PartsNext, Pcie, Motion, Interpolate, Jogging, Wheel, Outputs, Driver, Transfer,
       partsvars
<1>4. [PartsNext]_partsvars => [J!Next]_(J!vars)
  BY <1>2, <1>3
<1>. QED
  BY <1>1, <1>4, PTL DEF PartsSpec, J!Spec

LEMMA WheelAlone == PartsSpec => H!Spec
<1>1. PartsInit => H!Init
  BY DEF PartsInit
<1>2. wheelvars' = wheelvars => H!vars' = H!vars
  BY DEF wheelvars, H!vars, H!fsmvars, H!pulsvars
<1>3. [PartsNext]_partsvars => H!Next \/ wheelvars' = wheelvars
  BY DEF PartsNext, Pcie, Motion, Interpolate, Jogging, Wheel, Outputs, Driver, Transfer,
       partsvars
<1>4. [PartsNext]_partsvars => [H!Next]_(H!vars)
  BY <1>2, <1>3
<1>. QED
  BY <1>1, <1>4, PTL DEF PartsSpec, H!Spec

LEMMA OutputsAlone == PartsSpec => A!Spec
<1>1. PartsInit => A!Init
  BY DEF PartsInit
<1>2. outputvars' = outputvars => A!vars' = A!vars
  BY DEF outputvars, A!vars, A!magvars
<1>3. [PartsNext]_partsvars => A!Next \/ outputvars' = outputvars
  BY DEF PartsNext, Pcie, Motion, Interpolate, Jogging, Wheel, Outputs, Driver, Transfer,
       partsvars
<1>4. [PartsNext]_partsvars => [A!Next]_(A!vars)
  BY <1>2, <1>3
<1>. QED
  BY <1>1, <1>4, PTL DEF PartsSpec, A!Spec

LEMMA TransferAlone == PartsSpec => S!Spec
<1>1. PartsInit => S!Init
  BY DEF PartsInit
<1>2. spivars' = spivars => S!vars' = S!vars
  BY DEF spivars, S!vars, S!progvars, S!corevars
<1>3. [PartsNext]_partsvars => S!Next \/ spivars' = spivars
  BY DEF PartsNext, Pcie, Motion, Interpolate, Jogging, Wheel, Outputs, Driver, Transfer,
       partsvars
<1>4. [PartsNext]_partsvars => [S!Next]_(S!vars)
  BY <1>2, <1>3
<1>. QED
  BY <1>1, <1>4, PTL DEF PartsSpec, S!Spec

LEMMA DriverAlone == PartsSpec => Spec
<1>1. PartsInit => Init
  BY DEF PartsInit
<1>2. [PartsNext]_partsvars => [Next]_vars
  BY DEF PartsNext, Pcie, Motion, Interpolate, Jogging, Wheel, Outputs, Driver, Transfer,
       partsvars
<1>. QED
  BY <1>1, <1>2, PTL DEF PartsSpec, Spec

\* In the run that checks them together every part keeps its types, for all values of the
\* constants: no FIFO, counter or register leaves its range.
THEOREM PartsTyped == PartsSpec => []PartsTypeOK
<1>1. P!TypeOK /\ M!TypeOK /\ I!TypeOK /\ J!TypeOK /\ H!TypeOK /\ A!TypeOK /\ S!TypeOK /\ TypeOK
        => PartsTypeOK
  BY DEF PartsTypeOK
<1>. QED
  BY <1>1, PcieAlone, PcieTyped, MotionAlone, MotionTyped, InterpolateAlone, PulseTyped,
     JoggingAlone, JogTyped, WheelAlone, WheelTyped, OutputsAlone, OutputsTyped,
     TransferAlone, SpiTyped, DriverAlone, TypeCorrect, PTL

\* And it keeps what its module promises: the words on the bus, in fifo33, in the pulses of
\* a block and of the hand wheel, the bytes over SPI, the calls and resources of the driver,
\* and the way between the switches.
THEOREM PartsSafe ==
  PartsSpec => []( /\ PushedInOrder /\ AnsweredInOrder /\ WordsInOrder /\ PulsesWithinData
                   /\ StaysBetweenSwitches /\ EveryWordMade /\ OwnByteOrZero
                   /\ GivesBackInOrder /\ CallsDoNotMix )
BY PcieAlone, PushesInOrder, AnswersInOrder, MotionAlone, WordsKept, InterpolateAlone,
   PulsesAsWritten, JoggingAlone, BetweenSwitches, WheelAlone, WheelMakesAll,
   TransferAlone, OwnByteRead, DriverAlone, GivenBack, CallsApart, PTL

\* So do the properties of steps: what is written to a plain register, the words handed from
\* the driver to the interpolation as a stream of batches, and where the magazine stops.
THEOREM PartsStepSafe == PartsSpec => WrittenByOwn /\ HandsOver /\ StopsAtPocket
BY PcieAlone, PlainByOwn, MotionAlone, MotionRefinesStream, OutputsAlone, StopsThere, PTL
=============================================================================
