----------------------------- MODULE MotionPath -----------------------------
(***************************************************************************)
(* MotionPath: from the buffer of the driver to the word the interpolator  *)
(* works on.  rtl/check.v decides from the keys and the limit switches     *)
(* whether the machine moves (valid); rtl/clk_2ms.v takes a word out of    *)
(* fifo33 every 2 ms; rtl/ext_inf.v asks for more when little is left;     *)
(* rtl/txproc.v and the PCIe core make that an interrupt; cnc_interrupt    *)
(* (drv/src/cnc_card.c) answers with a buffer of words.                    *)
(*                                                                         *)
(* One step is one rising edge of tlpclk, in which the handler may gain    *)
(* one access to the card.  Words are numbered as they are written; word 0 *)
(* is the one the probe routine of the driver leaves in the FIFO.          *)
(*                                                                         *)
(* A definition whose name begins with Bug is a deliberate fault in the    *)
(* definition after it; no specification uses it.                          *)
(***************************************************************************)
EXTENDS Integers, Sequences

CONSTANTS
  Depth,        \* words fifo33 holds
  AlmostEmpty,  \* with fewer it is almost empty
  Batch,        \* BUF_SIZE of the driver
  Period,       \* clk_2ms counts from 0 to this
  Hold,         \* check debounces a key by counting from 0 to this
  MaxBatches    \* bound: buffers the program fills

VARIABLES
  start, halt,  \* the start key; the stop key, limit switches s1 to s6 and z_stop
  cnt_start, flag_start, cnt_stop, flag_stop, valid,
  counter, clkout,
  fifo33, q,          \* words waiting, and the one at the output of the FIFO
  intreg, pre_state1, app_int_sts,
  line,         \* the interrupt as the PC knows it
  batches,      \* buffers the program has filled
  pc, sent,     \* where cnc_interrupt is, and the index i of data_send
  written,      \* history: words written to the card
  executed      \* history: words that came to the output of the FIFO

keyvars == <<start, halt, cnt_start, flag_start, cnt_stop, flag_stop, valid>>
fifovars == <<counter, clkout, fifo33, q, executed>>
intvars == <<intreg, pre_state1, app_int_sts, line>>
drvvars == <<batches, pc, sent, written>>
vars == <<keyvars, fifovars, intvars, drvvars>>

IntStates == {"INT_IDLE", "INT_EN", "INT_ACK1", "INT_DISABLE", "INT_ACK2"}
NoAccess == [reg |-> "none", val |-> {}]

\* A whole buffer fits into the FIFO while it is almost empty (2048 words, 200 and 1000).
Fits ==
  /\ {Depth, Period, Hold, MaxBatches} \subseteq Nat /\ {AlmostEmpty, Batch} \subseteq Nat \ {0}
  /\ AlmostEmpty + Batch <= Depth + 1

-----------------------------------------------------------------------------
(* check                                                                   *)

Count(key, cnt) == IF key /\ cnt < Hold THEN cnt + 1 ELSE 0
Flag(key, cnt, flag) == key /\ (cnt = Hold \/ flag)

check ==
  /\ start' \in BOOLEAN /\ halt' \in BOOLEAN
  /\ cnt_start' = Count(start, cnt_start)
  /\ flag_start' = Flag(start, cnt_start, flag_start)
  /\ cnt_stop' = Count(halt, cnt_stop)
  /\ flag_stop' = Flag(halt, cnt_stop, flag_stop)
  /\ valid' = (flag_start /\ ~flag_stop)

-----------------------------------------------------------------------------
(* clk_2ms and fifo33                                                      *)

Running == valid /\ fifo33 # <<>>

clk_2ms ==
  /\ clkout' = (Running /\ counter = Period)
  /\ counter' = IF Running /\ counter < Period THEN counter + 1 ELSE 0

\* What is left after a read; a write finds the FIFO full as it was before.
Left == IF clkout /\ fifo33 # <<>> THEN Tail(fifo33) ELSE fifo33

fifo(access) ==
  /\ fifo33' = IF access.reg = "data" /\ Len(fifo33) < Depth
               THEN Append(Left, access.val) ELSE Left
  /\ IF clkout /\ fifo33 # <<>>
     THEN q' = Head(fifo33) /\ executed' = Append(executed, Head(fifo33))
     ELSE UNCHANGED <<q, executed>>

-----------------------------------------------------------------------------
(* the interrupt: ext_inf, txproc and the PCIe core                        *)

almost_empty == Len(fifo33) < AlmostEmpty

ext_int_req == almost_empty /\ valid

\* intreg as the set of its bits: 0 requested, 1 enabled.
Intreg(access) ==
  IF access.reg = "INTCSR" THEN access.val
  ELSE (intreg \ {0}) \cup (IF ext_int_req THEN {0} ELSE {})

NextInt(ack) ==
  CASE pre_state1 = "INT_IDLE" -> IF intreg = {0, 1} THEN "INT_EN" ELSE "INT_IDLE"
    [] pre_state1 = "INT_EN" -> IF ack THEN "INT_ACK1" ELSE "INT_EN"
    [] pre_state1 = "INT_ACK1" -> IF 0 \in intreg THEN "INT_ACK1" ELSE "INT_DISABLE"
    [] pre_state1 = "INT_DISABLE" -> IF ack THEN "INT_ACK2" ELSE "INT_DISABLE"
    [] pre_state1 = "INT_ACK2" -> "INT_IDLE"

\* The core tells the PC of a change of app_int_sts in its own time, and acknowledges it.
interrupt(access) ==
  \E ack \in {FALSE, app_int_sts # line} :
    /\ line' = IF ack THEN app_int_sts ELSE line
    /\ pre_state1' = NextInt(ack)
    /\ app_int_sts' = (pre_state1 \in {"INT_EN", "INT_ACK1"})
    /\ intreg' = Intreg(access)

Card(access) == check /\ clk_2ms /\ fifo(access) /\ interrupt(access)

-----------------------------------------------------------------------------
(* the driver                                                              *)

BugNeverEmpty == batches * Batch >= written
full == batches * Batch > written
Nothing == UNCHANGED <<batches, pc, sent, written>>

ClockOnly == Card(NoAccess) /\ Nothing

\* Calls of cnc_write have filled the buffer; module CncWrite has their steps.
ClockFill ==
  /\ ~full /\ pc # "send" /\ batches < MaxBatches
  /\ batches' = batches + 1
  /\ Card(NoAccess)
  /\ UNCHANGED <<pc, sent, written>>

\* The interrupt is pending: the handler reads INTCSR.
BugStatusIgnored == TRUE
Requested == intreg = {0, 1}

ClockRead ==
  /\ pc = "idle" /\ line
  /\ pc' = IF Requested THEN "clear" ELSE "idle"
  /\ Card(NoAccess)
  /\ UNCHANGED <<batches, sent, written>>

ClockClear ==
  /\ pc = "clear"
  /\ pc' = IF full THEN "send" ELSE "enable"
  /\ Card([reg |-> "INTCSR", val |-> {}])
  /\ UNCHANGED <<batches, sent, written>>

ClockSend ==
  /\ pc = "send"
  /\ written' = written + 1
  /\ IF sent + 1 < Batch THEN sent' = sent + 1 /\ pc' = pc
                         ELSE sent' = 0 /\ pc' = "enable"
  /\ Card([reg |-> "data", val |-> written'])
  /\ UNCHANGED batches

BugStaysDisabled == {}
EnableBits == {1}

ClockEnable ==
  /\ pc = "enable"
  /\ pc' = "idle"
  /\ Card([reg |-> "INTCSR", val |-> EnableBits])
  /\ UNCHANGED <<batches, sent, written>>

Handler == ClockRead \/ ClockClear \/ ClockSend \/ ClockEnable

-----------------------------------------------------------------------------
Init ==
  /\ start = FALSE /\ halt = FALSE
  /\ cnt_start = 0 /\ flag_start = FALSE /\ cnt_stop = 0 /\ flag_stop = FALSE
  /\ valid = FALSE
  /\ counter = 0 /\ clkout = FALSE /\ fifo33 = <<0>> /\ q = -1 /\ executed = <<>>
  /\ intreg = {1} /\ pre_state1 = "INT_IDLE" /\ app_int_sts = FALSE /\ line = FALSE
  /\ batches = 0 /\ pc = "idle" /\ sent = 0 /\ written = 0

Next == ClockOnly \/ ClockFill \/ Handler

Spec == Init /\ [][Next]_vars

\* The clock runs, the core delivers a change of the interrupt, the PC serves it.
FairSpec ==
  /\ Spec
  /\ WF_vars(Next)
  /\ WF_vars(Next /\ line' # line)
  /\ WF_vars(Handler)

-----------------------------------------------------------------------------
\* Every register stays in its range; fifo33 never holds more than it can.
TypeOK ==
  /\ {start, halt, flag_start, flag_stop, valid, clkout, app_int_sts, line} \subseteq BOOLEAN
  /\ cnt_start \in 0..Hold /\ cnt_stop \in 0..Hold /\ counter \in 0..Period
  /\ written \in 0..(MaxBatches * Batch)
  /\ fifo33 \in Seq(0..written) /\ Len(fifo33) <= Depth /\ q \in -1..written
  /\ executed \in Seq(0..written)
  /\ intreg \subseteq {0, 1} /\ pre_state1 \in IntStates
  /\ batches \in 0..MaxBatches /\ sent \in 0..(Batch - 1)
  /\ pc \in {"idle", "clear", "send", "enable"}

\* Every word that was written is executed or waits, once and in order.  fifo33 drops what
\* it has no room for, and nobody looks at its full flag: only the handshake of the
\* interrupt keeps a buffer from being sent to a FIFO that has no room for it, although
\* the PC may still see an interrupt that the card has withdrawn.
WordsInOrder == executed \o fifo33 = [k \in 1..(written + 1) |-> k - 1]

\* The driver's handler and the card hand the stream of words over as module WordStream
\* says, with what CncWrite accepts as one filled buffer: nothing is sent of a buffer that
\* is not full or was sent before, and each word sent stays on the card until it is
\* executed.  Word 0 is not of the stream.
Stream == INSTANCE WordStream
            WITH BufSize <- Batch, accepted <- batches * Batch,
                 card <- Tail(executed \o fifo33), base <- written - sent
HandsOver == Stream!Spec

\* While the start key is held and nothing stops the machine, every buffer that is filled
\* is fetched by an interrupt, and every word of it executed.
Held == start /\ ~halt
Executed ==
  <>[]Held => []<>(Len(executed) = batches * Batch + 1)
=============================================================================
