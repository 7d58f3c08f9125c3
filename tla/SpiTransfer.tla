---------------------------- MODULE SpiTransfer ----------------------------
(***************************************************************************)
(* SpiTransfer: how the Nios II reads and writes the registers of the      *)
(* EtherCAT controller (spi_read_8 to spi_write_16 of                      *)
(* qsys/software/ssc-io/main.c).  The address and what is written go out   *)
(* through alt_avalon_spi_command, which polls; what is read comes in      *)
(* through spi_tx_rx_8, which waits in a counted loop instead.             *)
(*                                                                         *)
(* One step is the time of one access to the SPI core; in it the core      *)
(* shifts, too.  A byte is its transfer (of two that follow one another)   *)
(* and its place in it: 1 and 2 are the address, the others data.  Module  *)
(* EcatSlave takes a transfer for one step.                                *)
(*                                                                         *)
(* A definition whose name begins with Bug is a deliberate fault in the    *)
(* definition after it; no specification uses it.                          *)
(***************************************************************************)
EXTENDS Integers

CONSTANTS
  ByteTime,  \* steps it takes to shift a byte: 72 clocks
  Rounds,    \* steps a round of a waiting loop may take: the cache makes a difference
  Between    \* steps from one call of spi_tx_rx_8 to the next

\* A byte that is not in when its loop ends is in before the next is asked for, or before
\* the controller is deselected.
Timed ==
  /\ ByteTime \in Nat \ {0} /\ Between \in Nat \ {0} /\ Rounds \subseteq Nat \ {0}
  /\ ByteTime <= 6 + Between /\ ByteTime <= 11

VARIABLES
  op,        \* the transfer: spi_read or spi_write, and the bytes of data
  turn,      \* which of two
  place,     \* of the byte the program is at
  pc, wait,  \* where it is, and the steps left in a loop
  credits, RRDY_seen,              \* of alt_avalon_spi_command
  result,    \* the bytes read
  tx_holding, shift, left,         \* the core: waiting to be sent, being sent, steps left
  rx_holding, RRDY, SSO,
  esc_turn, esc_place,             \* where the controller is
  hasty      \* history: places whose loop was shorter than a byte

progvars == <<op, turn, place, pc, wait, credits, RRDY_seen, result, hasty>>
corevars == <<tx_holding, shift, left, rx_holding, RRDY, SSO, esc_turn, esc_place>>
vars == <<progvars, corevars>>

Ops == {[kind |-> "read", n |-> n] : n \in {1, 2, 4}} \cup
       {[kind |-> "write", n |-> n] : n \in {1, 2}}
Byte == [turn : {0, 1}, place : 1..7]
NoByte == [turn |-> 0, place |-> 0]

LastPlace == place = 2 + op.n
Own(p) == [turn |-> turn, place |-> p]

-----------------------------------------------------------------------------
(* the SPI core and the controller behind it                               *)

TRDY == ~(shift # NoByte /\ tx_holding # NoByte)
TMT == shift = NoByte /\ tx_holding = NoByte

Done == shift # NoByte /\ left = 1
Loads == shift = NoByte /\ tx_holding # NoByte

Access(reg, val) == [reg |-> reg, val |-> val]
Nothing == Access("none", 0)

\* The controller is selected while SSO is set or a byte is shifted.
core(access) ==
  /\ tx_holding' = IF access.reg = "TXDATA" /\ TRDY THEN access.val
                   ELSE IF Loads THEN NoByte ELSE tx_holding
  /\ shift' = IF Loads THEN tx_holding ELSE IF Done THEN NoByte ELSE shift
  /\ left' = IF Loads THEN ByteTime ELSE IF left > 0 THEN left - 1 ELSE 0
  /\ rx_holding' = IF Done THEN [turn |-> esc_turn, place |-> esc_place + 1] ELSE rx_holding
  /\ RRDY' = (Done \/ (RRDY /\ access.reg # "RXDATA"))
  /\ SSO' = IF access.reg = "CONTROL" THEN access.val ELSE SSO
  /\ IF ~SSO' /\ shift' = NoByte /\ (SSO \/ shift # NoByte)
     THEN esc_place' = 0 /\ esc_turn' = 1 - esc_turn
     ELSE esc_place' = (IF Done THEN esc_place + 1 ELSE esc_place) /\ UNCHANGED esc_turn

-----------------------------------------------------------------------------
(* the program                                                             *)

Goto(where) == pc' = where
Same == UNCHANGED <<op, turn, place, wait, credits, RRDY_seen, result, hasty>>

\* What follows when a byte is done.
NextByte ==
  /\ place' = place + 1
  /\ Goto(IF op.kind = "read" /\ place >= 2 THEN "discard8" ELSE "select")
  /\ credits' = 1

Begin ==
  /\ pc = "idle"
  /\ op' \in Ops /\ turn' = 1 - turn /\ place' = 1
  /\ result' = [p \in 3..6 |-> NoByte] /\ hasty' = {} /\ credits' = 1
  /\ Goto("select") /\ core(Nothing)
  /\ UNCHANGED <<wait, RRDY_seen>>

\* alt_avalon_spi_command, for one byte that is written.
Select == pc = "select" /\ Goto("discard") /\ core(Access("CONTROL", TRUE)) /\ Same
Discard == pc = "discard" /\ Goto("poll") /\ core(Access("RXDATA", 0)) /\ Same

Poll ==
  /\ pc = "poll"
  /\ RRDY_seen' = RRDY
  /\ Goto(IF TRDY /\ credits > 0 THEN "send" ELSE IF RRDY THEN "receive" ELSE "poll")
  /\ core(Nothing)
  /\ UNCHANGED <<op, turn, place, wait, credits, result, hasty>>

Send ==
  /\ pc = "send"
  /\ credits' = credits - 1
  /\ Goto(IF RRDY_seen THEN "receive" ELSE "poll")
  /\ core(Access("TXDATA", Own(place)))
  /\ UNCHANGED <<op, turn, place, wait, RRDY_seen, result, hasty>>

Receive == pc = "receive" /\ Goto("finish") /\ core(Access("RXDATA", 0)) /\ Same

Finish ==
  /\ pc = "finish"
  /\ core(Nothing)
  /\ IF ~TMT THEN Goto("finish") /\ Same
     ELSE IF LastPlace THEN Goto("release") /\ Same
     ELSE NextByte /\ UNCHANGED <<op, turn, wait, RRDY_seen, result, hasty>>

\* spi_tx_rx_8.
BugStaleKept == "STATUS"
Discarded == "RXDATA"

Discard8 == pc = "discard8" /\ Goto("status8") /\ core(Access(Discarded, 0)) /\ Same

Status8 ==
  /\ pc = "status8"
  /\ Goto(IF TRDY THEN "send8" ELSE "wait8")
  /\ \E r \in Rounds :
       /\ wait' = 6 * r
       /\ hasty' = IF 6 * r <= ByteTime THEN hasty \cup {place} ELSE hasty
  /\ core(Nothing)
  /\ UNCHANGED <<op, turn, place, credits, RRDY_seen, result>>

Send8 == pc = "send8" /\ Goto("wait8") /\ core(Access("TXDATA", Own(place))) /\ Same

AfterLoop == [wait8 |-> "check8", hold8 |-> "release", return8 |-> "discard8"]

Wait8 ==
  /\ pc \in DOMAIN AfterLoop
  /\ wait' = wait - 1
  /\ Goto(IF wait > 1 THEN pc ELSE AfterLoop[pc])
  /\ core(Nothing)
  /\ UNCHANGED <<op, turn, place, credits, RRDY_seen, result, hasty>>

\* With hold_flag 0, for the last byte, another loop gives the chip select time.
Return8(value) ==
  /\ result' = [result EXCEPT ![place] = value]
  /\ IF LastPlace
     THEN /\ Goto("hold8") /\ \E r \in Rounds : wait' = 5 * r
          /\ UNCHANGED <<place, credits>>
     ELSE /\ Goto("return8") /\ wait' = Between
          /\ place' = place + 1 /\ UNCHANGED credits
  /\ UNCHANGED <<op, turn, RRDY_seen, hasty>>

Check8 ==
  /\ pc = "check8"
  /\ core(Nothing)
  /\ IF RRDY THEN Goto("take8") /\ Same ELSE Return8(NoByte)

Take8 == pc = "take8" /\ core(Access("RXDATA", 0)) /\ Return8(rx_holding)

Release == pc = "release" /\ Goto("idle") /\ core(Access("CONTROL", FALSE)) /\ Same

-----------------------------------------------------------------------------
Init ==
  /\ op = [kind |-> "read", n |-> 1] /\ turn = 1 /\ place = 1 /\ pc = "idle" /\ wait = 0
  /\ credits = 1 /\ RRDY_seen = FALSE
  /\ result = [p \in 3..6 |-> NoByte] /\ hasty = {}
  /\ tx_holding = NoByte /\ shift = NoByte /\ left = 0
  /\ rx_holding = NoByte /\ RRDY = FALSE /\ SSO = FALSE
  /\ esc_turn = 0 /\ esc_place = 0

Command == Select \/ Discard \/ Poll \/ Send \/ Receive \/ Finish
Exchange == Discard8 \/ Status8 \/ Send8 \/ Wait8 \/ Check8 \/ Take8

Next == Begin \/ Command \/ Exchange \/ Release

Spec == Init /\ [][Next]_vars

-----------------------------------------------------------------------------
TypeOK ==
  /\ op \in Ops /\ turn \in {0, 1} /\ place \in 1..6
  /\ pc \in {"idle", "select", "discard", "poll", "send", "receive", "finish", "discard8",
             "status8", "send8", "wait8", "check8", "take8", "return8", "hold8",
             "release"}
  /\ credits \in {0, 1} /\ RRDY_seen \in BOOLEAN
  /\ result \in [3..6 -> Byte \cup {NoByte}] /\ hasty \subseteq 3..6
  /\ {tx_holding, shift, rx_holding} \subseteq Byte \cup {NoByte} /\ left \in 0..ByteTime
  /\ {RRDY, SSO} \subseteq BOOLEAN /\ esc_turn \in {0, 1} /\ esc_place \in 0..6

\* The controller takes every byte for the one it is, of this transfer, and a byte that
\* is read is the one of its place; it is 0 instead (main.c:234) only if the loop ended
\* before the byte was in.  One that is late waits in RXDATA when the next is asked for,
\* and is neither taken for that one nor shifts the rest.
OwnByteOrZero ==
  /\ shift # NoByte => shift = [turn |-> esc_turn, place |-> esc_place + 1]
  /\ pc = "release" /\ op.kind = "write" => esc_place = 2 + op.n
  /\ pc \in {"hold8", "release"} /\ op.kind = "read" =>
       \A p \in 3..(2 + op.n) : result[p] = Own(p) \/ (result[p] = NoByte /\ p \in hasty)
=============================================================================
