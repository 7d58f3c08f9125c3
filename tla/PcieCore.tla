------------------------------ MODULE PcieCore ------------------------------
(***************************************************************************)
(* PcieCore: how the card serves the reads and writes of the PC.  Packets  *)
(* wait in fifo1 for rtl/rxproc.v, which decodes them, writes a word on    *)
(* the bus extdq (to rtl/ext_inf.v, which pushes it into the motion FIFO,  *)
(* or to a register of rtl/txproc.v) or asks txproc for a completion.      *)
(* rtl/PCIECORE.bdf and rtl/CNC_CARD.bdf connect them.                     *)
(*                                                                         *)
(* One step is one rising edge of tlpclk; a primed variable is what a      *)
(* register holds after it.  A packet is its number in `packets', a beat   *)
(* (64 bits) its packet and its place in it, a word of 32 bits its packet  *)
(* and whether it is the data or an address.                               *)
(*                                                                         *)
(* A definition whose name begins with Bug is a deliberate fault in the    *)
(* definition after it; no specification uses it.                          *)
(***************************************************************************)
EXTENDS Integers, Sequences

CONSTANTS
  MaxPackets,  \* bound: packets the PC sends
  MaxGap,      \* longest pause of the core inside a packet, in clocks
  MaxStall     \* longest the core holds up one completion, in clocks

\* The beats of a packet are in before rxproc skips them, and a read is answered before
\* rxproc is at the next.
Paced == MaxPackets \in Nat /\ MaxGap \in 0..3 /\ MaxStall \in 0..6

VARIABLES
  packets,   \* what the PC has sent, oldest first
  todo,      \* beats of the last packet the core has still to deliver
  gap,       \* clocks since it delivered one
  fifo1,     \* beats waiting
  rx,        \* rxdata, rxsop, rxeop: the head of fifo1, one clock later
  rx_state,  \* pre_state of rxproc
  headrega, headregb, addr,  \* packets whose first and second beat, address they hold
  memsel1, extdqreg, dqoen,
  sel,       \* the register that ext_add selects
  dqinreg, pctocardreg, wr_flag, cnt, wrreq,
  plain,     \* a register that holds what is written to it, and who wrote it
  tx_state,  \* pre_state of txproc
  memrdcpheadregb, memrdack,
  stall,     \* clocks the completion has been held up
  pushed,    \* history: words written to the motion FIFO
  answers    \* history: completions sent

rxvars == <<rx, rx_state, headrega, headregb, addr, memsel1, extdqreg, dqoen>>
extvars == <<sel, dqinreg, pctocardreg, wr_flag, cnt, wrreq, plain, pushed>>
txvars == <<tx_state, memrdcpheadregb, memrdack, stall, answers>>
vars == <<packets, todo, gap, fifo1, rxvars, extvars, txvars>>

(***************************************************************************)
(* What the PC sends: writes of a word to the motion FIFO ("push", offset  *)
(* 0x14), the same through another window of the card ("other"), writes of *)
(* a register whose address has bit 2 clear ("even"), reads, and packets   *)
(* the card does not serve ("message").                                    *)
(***************************************************************************)
Kinds == {"push", "other", "even", "read", "message"}
Kind(n) == IF n \in 1..Len(packets) THEN packets[n] ELSE "none"

\* With bit 2 clear the data come in a third beat; a message brings data of its own.
Beats(kind) == CASE kind = "even" -> 3 [] kind = "message" -> 4 [] OTHER -> 2

Beat == [n : 0..MaxPackets, i : 0..4]
NoBeat == [n |-> 0, i |-> 0]
SOP(b) == b.i = 1
EOP(b) == b.n # 0 /\ b.i = Beats(Kind(b.n))

Word == [n : 0..MaxPackets, dw : {"data", "address", "none"}]
Undriven == [n |-> 0, dw |-> "none"]

RxStates == {"IDLE", "RDHEAD1", "HEADPRO1", "RDHEAD2", "HEADPRO2", "WAITST1", "DATAST1",
             "DATAST2", "MEMWRST1", "MEMWRST2", "MEMWRST3", "MEMWRST4", "UNSP1", "UNSP2",
             "MEMRDST1", "MEMRDST2", "MEMRDST3", "MEMRDST4"}
TxStates == {"IDLE", "HEAD1", "HEAD2", "WAITST1", "WAITST2", "DATAST1", "DONE"}

-----------------------------------------------------------------------------
(* rsstinf and fifo1                                                       *)

fiford == rx_state \in {"RDHEAD1", "DATAST1", "UNSP1"}

\* What is left in fifo1 after this clock, but for what arrives.
AfterRead == IF fiford /\ fifo1 # <<>> THEN Tail(fifo1) ELSE fifo1

\* The core delivers the next beat, as rsstinf.vhd stores it.
Deliver ==
  \E kind \in Kinds :
    LET n == IF todo = 0 THEN Len(packets) + 1 ELSE Len(packets)
        left == IF todo = 0 THEN Beats(kind) ELSE todo
    IN  /\ IF todo = 0 THEN n <= MaxPackets /\ packets' = Append(packets, kind)
                       ELSE kind = packets[Len(packets)] /\ UNCHANGED packets
        /\ todo' = left - 1
        /\ fifo1' = Append(AfterRead, [n |-> n, i |-> Beats(kind) - left + 1])
        /\ gap' = 0

\* It makes a pause, which ends inside a packet.
Pause ==
  /\ todo > 0 => gap < MaxGap
  /\ gap' = IF todo > 0 THEN gap + 1 ELSE 0
  /\ fifo1' = AfterRead
  /\ UNCHANGED <<packets, todo>>

-----------------------------------------------------------------------------
(* rxproc                                                                  *)

rxen == Len(fifo1) >= 2
memwrsel == Kind(headrega) \in {"push", "other", "even"}
memrdsel == Kind(headrega) = "read"
Odd(n) == Kind(n) # "even"

Decode ==
  CASE memwrsel /\ Odd(addr) -> "DATAST2"
    [] memwrsel /\ ~Odd(addr) -> "DATAST1"
    [] memrdsel -> "MEMRDST1"
    [] OTHER -> "UNSP1"

BugAckUnchecked == "MEMRDST4"
AfterRequest == IF memrdack THEN "MEMRDST4" ELSE "MEMRDST3"

\* rxeop is that of the beat read in the clock before.
ToEnd == IF EOP(rx) THEN "IDLE" ELSE "UNSP2"

NextRx ==
  CASE rx_state = "IDLE" -> IF rxen /\ SOP(rx) THEN "RDHEAD1" ELSE "IDLE"
    [] rx_state = "RDHEAD1" -> "HEADPRO1"
    [] rx_state = "HEADPRO1" -> "RDHEAD2"
    [] rx_state = "RDHEAD2" -> "HEADPRO2"
    [] rx_state = "HEADPRO2" -> "WAITST1"
    [] rx_state = "WAITST1" -> Decode
    [] rx_state = "DATAST1" -> "DATAST2"
    [] rx_state = "DATAST2" -> "MEMWRST1"
    [] rx_state = "MEMWRST1" -> "MEMWRST2"
    [] rx_state = "MEMWRST2" -> "MEMWRST3"
    [] rx_state = "MEMWRST3" -> "MEMWRST4"
    [] rx_state = "MEMRDST1" -> "MEMRDST2"
    [] rx_state = "MEMRDST2" -> "MEMRDST3"
    [] rx_state = "MEMRDST3" -> AfterRequest
    [] rx_state \in {"MEMWRST4", "MEMRDST4", "UNSP2"} -> "UNSP1"
    [] rx_state = "UNSP1" -> ToEnd

\* The half of a beat that is put on the bus.  The third beat of a packet is all data,
\* the second an address below and, of a packet of two, data above.
Dword(b, high) ==
  [n |-> b.n, dw |-> IF b.i = 3 \/ (b.i = 2 /\ high) THEN "data" ELSE "address"]

rxproc ==
  /\ rx' = IF fifo1 # <<>> THEN Head(fifo1) ELSE NoBeat
  /\ rx_state' = NextRx
  /\ headrega' = IF rx_state = "RDHEAD1" THEN rx.n ELSE headrega
  /\ headregb' = IF rx_state = "RDHEAD2" THEN rx.n ELSE headregb
  /\ memsel1' = IF rx_state = "RDHEAD2" THEN Kind(rx.n) \notin {"other", "none"} ELSE memsel1
  /\ addr' = headregb
  /\ extdqreg' = IF rx_state = "DATAST2" THEN Dword(rx, Odd(addr)) ELSE extdqreg
  /\ dqoen' = (rx_state \in {"MEMWRST1", "MEMWRST2", "MEMWRST3"})

extdq == IF dqoen THEN extdqreg ELSE Undriven
data_wr == rx_state \in {"MEMWRST2", "MEMWRST3"}
memrdreq == rx_state = "MEMRDST3"

-----------------------------------------------------------------------------
(* ext_inf, and the registers of txproc                                    *)

\* The register an address selects, one clock later: ext_inf has its own comparison.
PushSelected == memsel1 /\ Kind(addr) \in {"push", "other"}
PlainSelected == memsel1 /\ Kind(addr) = "even"

BugTwice == wr_flag

\* A write lasts two clocks; the second raises no wrreq.
FirstOfTwo == wr_flag /\ cnt = 0

ext_inf ==
  /\ sel' = IF PushSelected THEN "pctocard" ELSE IF PlainSelected THEN "plain" ELSE "none"
  /\ dqinreg' = extdq
  /\ wr_flag' = (sel = "pctocard" /\ data_wr)
  /\ pctocardreg' = IF sel = "pctocard" /\ data_wr THEN dqinreg ELSE pctocardreg
  /\ wrreq' = FirstOfTwo
  /\ cnt' = IF FirstOfTwo THEN cnt + 1 ELSE 0
  /\ pushed' = IF wrreq THEN Append(pushed, pctocardreg) ELSE pushed

BugSelectIgnored == IF data_wr THEN extdq ELSE plain

\* Of the registers that hold what was written one is modelled: aux_ctl, mcm, co1 to co8,
\* jog_posx to jog_nega, szero_soft, m_cool, m_cw and m_atcw are alike.
Written == IF data_wr /\ sel = "plain" THEN extdq ELSE plain

-----------------------------------------------------------------------------
(* txproc: completions                                                     *)

\* ready stands for tx_st_ready and the credits: cpheaden, cpdataen.
NextTx(ready) ==
  CASE tx_state = "IDLE" -> IF memrdreq THEN "HEAD1" ELSE "IDLE"
    [] tx_state = "HEAD1" -> IF ready THEN "HEAD2" ELSE "HEAD1"
    [] tx_state = "HEAD2" -> IF ready THEN "WAITST1" ELSE "HEAD2"
    [] tx_state = "WAITST1" -> "WAITST2"
    [] tx_state = "WAITST2" -> "DATAST1"
    [] tx_state = "DATAST1" -> IF ready THEN "DONE" ELSE "DATAST1"
    [] tx_state = "DONE" -> "IDLE"

Sending == tx_state \in {"HEAD1", "HEAD2", "DATAST1"}

Acknowledges == tx_state \in {"HEAD1", "HEAD2", "DATAST1"}

\* The tag comes from headrega, the address from ext_add, of this clock.
txproc ==
  \E ready \in BOOLEAN :
    /\ Sending /\ ~ready => stall < MaxStall
    /\ stall' = IF tx_state = "IDLE" THEN 0
                ELSE IF Sending /\ ~ready THEN stall + 1 ELSE stall
    /\ ~Sending => ready
    /\ tx_state' = NextTx(ready)
    /\ memrdcpheadregb' = [tag |-> headrega, add |-> addr]
    /\ memrdack' = Acknowledges
    /\ answers' = IF tx_state = "HEAD2" /\ ready THEN Append(answers, memrdcpheadregb)
                  ELSE answers

-----------------------------------------------------------------------------
Init ==
  /\ packets = <<>> /\ todo = 0 /\ gap = 0 /\ fifo1 = <<>>
  /\ rx = NoBeat /\ rx_state = "IDLE"
  /\ headrega = 0 /\ headregb = 0 /\ addr = 0
  /\ memsel1 = FALSE /\ extdqreg = Undriven /\ dqoen = FALSE
  /\ sel = "none" /\ dqinreg = Undriven /\ pctocardreg = Undriven
  /\ wr_flag = FALSE /\ cnt = 0 /\ wrreq = FALSE /\ plain = Undriven
  /\ tx_state = "IDLE" /\ memrdcpheadregb = [tag |-> 0, add |-> 0] /\ memrdack = FALSE
  /\ stall = 0 /\ pushed = <<>> /\ answers = <<>>

Card == rxproc /\ ext_inf /\ plain' = Written /\ txproc
ClockDeliver == Deliver /\ Card
ClockPause == Pause /\ Card

Next == ClockDeliver \/ ClockPause

Spec == Init /\ [][Next]_vars

\* The clock runs.
FairSpec == Spec /\ WF_vars(Next)

-----------------------------------------------------------------------------
\* Registers, histories and the receive FIFO hold words, beats and states of their kind.
TypeOK ==
  /\ packets \in Seq(Kinds) /\ Len(packets) <= MaxPackets
  /\ todo \in 0..3 /\ gap \in 0..MaxGap
  /\ fifo1 \in Seq(Beat) /\ rx \in Beat /\ rx_state \in RxStates
  /\ headrega \in 0..MaxPackets /\ headregb \in 0..MaxPackets /\ addr \in 0..MaxPackets
  /\ memsel1 \in BOOLEAN /\ extdqreg \in Word /\ dqoen \in BOOLEAN
  /\ sel \in {"none", "pctocard", "plain"}
  /\ dqinreg \in Word /\ pctocardreg \in Word /\ plain \in Word
  /\ wr_flag \in BOOLEAN /\ cnt \in 0..1 /\ wrreq \in BOOLEAN
  /\ tx_state \in TxStates
  /\ memrdcpheadregb \in [tag : 0..MaxPackets, add : 0..MaxPackets]
  /\ memrdack \in BOOLEAN /\ stall \in 0..MaxStall
  /\ pushed \in Seq(Word) /\ answers \in Seq([tag : 0..MaxPackets, add : 0..MaxPackets])

\* The packets of a kind, oldest first.
Sent(kind) == SelectSeq([n \in 1..Len(packets) |-> n], LAMBDA n : packets[n] = kind)

\* A sequence of numbers is that of the first packets of a kind, each once, oldest first.
FirstOnes(numbers, kind) ==
  /\ \A k \in DOMAIN numbers : Kind(numbers[k]) = kind
  /\ \A j, k \in DOMAIN numbers : j < k => numbers[j] < numbers[k]
  /\ \A k \in DOMAIN numbers, n \in 1..Len(packets) :
       Kind(n) = kind /\ n < numbers[k] => \E j \in DOMAIN numbers : numbers[j] = n

\* A write to the data register pushes its word into the motion FIFO, once, in the order
\* of the writes; nothing else is pushed.  The word is on the bus one clock later than
\* the write it belongs to, and the write lasts two.
PushedInOrder ==
  /\ \A k \in DOMAIN pushed : pushed[k].dw = "data"
  /\ FirstOnes([k \in DOMAIN pushed |-> pushed[k].n], "push")

\* A read is answered once, with its own tag and address, in the order of the reads:
\* txproc takes both from registers of rxproc that go on to the next packet as soon as
\* txproc has begun.
AnsweredInOrder ==
  /\ \A k \in DOMAIN answers : answers[k].add = answers[k].tag
  /\ FirstOnes([k \in DOMAIN answers |-> answers[k].tag], "read")

\* A register changes only by a write to its own address, and then takes a word of that
\* write: address, select and data reach it over registers of different depth, while
\* rxproc goes on to the next packet.
WrittenByOwn ==
  [][plain' # plain => Kind(plain'.n) = "even" /\ plain'.n = headrega]_vars

\* Every word that is sent is pushed, and every read answered: nothing is left waiting for
\* ever, whatever follows it or does not.
Served ==
  []<>(Len(pushed) = Len(Sent("push")) /\ Len(answers) = Len(Sent("read")))
=============================================================================
