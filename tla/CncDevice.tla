----------------------------- MODULE CncDevice -----------------------------
(***************************************************************************)
(* CncDevice: the driver of drv/src/cnc_card.c around its transmit path.   *)
(* cnc_probe acquires what the driver needs, one thing after the other,    *)
(* and gives back what it has when one of them fails; cnc_remove gives     *)
(* everything back; meanwhile threads open the device, read positions and  *)
(* send commands, and the interrupt may come.                              *)
(*                                                                         *)
(* What cnc_write and data_send do with the buffer is module CncWrite.  A  *)
(* position word is represented by the call that has read it.  Whoever     *)
(* uses registers that are no longer mapped goes on here with nothing      *)
(* said of what is read.                                                   *)
(*                                                                         *)
(* A definition whose name begins with Bug is a deliberate fault in the    *)
(* definition after it; no specification uses it.                          *)
(***************************************************************************)
EXTENDS Integers, Sequences

CONSTANTS
  Threads,
  NoThread,
  POS_SIZE,  \* position registers: 34
  Commands   \* the commands in use, some of DOMAIN Writes

VARIABLES
  life,     \* "probing", "unwinding", "failed", "bound", "removing" or "removed"
  at,       \* how many steps cnc_probe has to its credit, or cnc_remove has done
  held,     \* what the driver has acquired
  intcsr,   \* the card may interrupt
  handler,  \* where cnc_interrupt is
  pc, mutex, cmd, k, count, pos_data_buf,
  card,     \* the command registers
  got       \* history: the calls that have read the words a thread was given

devvars == <<life, at, held>>
irqvars == <<intcsr, handler>>
callvars == <<pc, mutex, cmd, k, count, pos_data_buf, card, got>>
vars == <<devvars, irqvars, callvars>>

-----------------------------------------------------------------------------
(* probe and remove                                                        *)

Acquired == <<"enabled", "io_region", "mem_region", "mem", "io", "chrdev", "cdev", "class",
              "node", "irq">>
Resources == {Acquired[i] : i \in 1..Len(Acquired)}

\* The register INTCSR is written as soon as both regions are mapped.
Acquire ==
  /\ life = "probing"
  /\ held' = held \cup {Acquired[at + 1]}
  /\ at' = IF at + 1 = Len(Acquired) THEN 0 ELSE at + 1
  /\ life' = IF at + 1 = Len(Acquired) THEN "bound" ELSE life
  /\ intcsr' = (intcsr \/ Acquired[at + 1] = "io")
  /\ UNCHANGED <<handler, callvars>>

BugLabel == IF at > 0 THEN at - 1 ELSE 0
Label == at

AcquireFails ==
  /\ life = "probing"
  /\ life' = "unwinding" /\ at' = Label
  /\ UNCHANGED <<held, irqvars, callvars>>

Unwind ==
  /\ life = "unwinding"
  /\ IF at = 0 THEN life' = "failed" /\ UNCHANGED <<at, held>>
     ELSE held' = held \ {Acquired[at]} /\ at' = at - 1 /\ UNCHANGED life
  /\ UNCHANGED <<irqvars, callvars>>

\* free_irq waits for the handler.
Released == <<"irq", "node", "class", "cdev", "chrdev", "io", "mem", "mem_region",
              "io_region", "enabled">>

Unbind ==
  /\ life = "bound"
  /\ life' = "removing"
  /\ UNCHANGED <<at, held, irqvars, callvars>>

Remove ==
  /\ life = "removing"
  /\ Released[at + 1] = "irq" => handler = "out"
  /\ held' = held \ {Released[at + 1]}
  /\ at' = IF at + 1 = Len(Released) THEN 0 ELSE at + 1
  /\ life' = IF at + 1 = Len(Released) THEN "removed" ELSE life
  /\ UNCHANGED <<irqvars, callvars>>

\* The next cnc_probe has a cnc_dev_t of its own; descriptors of the last one are gone.
Rebind ==
  /\ life \in {"failed", "removed"}
  /\ \A t \in Threads : pc[t] = "closed"
  /\ life' = "probing" /\ at' = 0
  /\ UNCHANGED <<held, irqvars, callvars>>

-----------------------------------------------------------------------------
(* cnc_interrupt; the line is shared, so it may come at any time           *)

Interrupt ==
  /\ "irq" \in held
  /\ CASE handler = "out" -> handler' \in {"clear", "out"} /\ UNCHANGED intcsr
       [] handler = "clear" -> handler' = "enable" /\ intcsr' = FALSE
       [] handler = "enable" -> handler' = "out" /\ intcsr' = TRUE
  /\ UNCHANGED <<devvars, callvars>>

-----------------------------------------------------------------------------
(* open, release, cnc_read and cnc_ioctl                                   *)

OpenUnchanged == UNCHANGED <<devvars, irqvars>>
Goto(t, where) == pc' = [pc EXCEPT ![t] = where]

\* A node may be there before device_create makes one: install_driver.sh has its own.
Open(t) ==
  /\ pc[t] = "closed" /\ "cdev" \in held
  /\ Goto(t, "open")
  /\ OpenUnchanged /\ UNCHANGED <<mutex, cmd, k, count, pos_data_buf, card, got>>

Release(t) ==
  /\ pc[t] = "open"
  /\ Goto(t, "closed")
  /\ OpenUnchanged /\ UNCHANGED <<mutex, cmd, k, count, pos_data_buf, card, got>>

\* What the thread has read before is not of this call.
Call(t, c) ==
  /\ pc[t] = "open"
  /\ Goto(t, "lock")
  /\ cmd' = [cmd EXCEPT ![t] = c]
  /\ count' \in {[count EXCEPT ![t] = n] :
                  n \in 0..(IF c = "read" THEN POS_SIZE + 1 ELSE 0)}
  /\ pos_data_buf' = [i \in 1..POS_SIZE |-> IF pos_data_buf[i] = t THEN NoThread
                                            ELSE pos_data_buf[i]]
  /\ got' = [got EXCEPT ![t] = {}]
  /\ OpenUnchanged /\ UNCHANGED <<mutex, k, card>>

BugFree == TRUE
Free == mutex = NoThread

Lock(t) ==
  /\ pc[t] = "lock" /\ Free
  /\ mutex' = t
  /\ Goto(t, IF cmd[t] = "read" THEN "ioread" ELSE "iowrite")
  /\ k' = [k EXCEPT ![t] = 0]
  /\ OpenUnchanged /\ UNCHANGED <<cmd, count, pos_data_buf, card, got>>

IoRead(t) ==
  /\ pc[t] = "ioread"
  /\ Goto(t, IF k[t] + 1 = POS_SIZE THEN "store" ELSE "ioread")
  /\ k' = [k EXCEPT ![t] = @ + 1]
  /\ OpenUnchanged /\ UNCHANGED <<mutex, cmd, count, pos_data_buf, card, got>>

Store(t) ==
  /\ pc[t] = "store"
  /\ pos_data_buf' = [i \in 1..POS_SIZE |-> t]
  /\ count' = [count EXCEPT ![t] = IF @ > POS_SIZE THEN POS_SIZE ELSE @]
  /\ k' = [k EXCEPT ![t] = 0]
  /\ Goto(t, "copy")
  /\ OpenUnchanged /\ UNCHANGED <<mutex, cmd, card, got>>

CopyWord(t) ==
  /\ pc[t] = "copy" /\ k[t] < count[t]
  /\ got' = [got EXCEPT ![t] = @ \cup {pos_data_buf[k[t] + 1]}]
  /\ k' = [k EXCEPT ![t] = @ + 1]
  /\ OpenUnchanged /\ UNCHANGED <<pc, mutex, cmd, count, pos_data_buf, card>>

\* All is copied, or copy_to_user fails.
CopyEnds(t) ==
  /\ pc[t] = "copy"
  /\ Goto(t, "unlock")
  /\ OpenUnchanged /\ UNCHANGED <<mutex, cmd, k, count, pos_data_buf, card, got>>

\* One command of each kind; "unknown" has a number in range and no case of its own.
Writes ==
  [axis_on |-> <<<<"axis", 1>>>>,            axis_off |-> <<<<"axis", 0>>>>,
   jog_on |-> <<<<"jog", 1>>>>,              jog_off |-> <<<<"jog", 0>>>>,
   return0_on |-> <<<<"return0", 1>>>>,      return0_off |-> <<<<"return0", 0>>>>,
   coolant_on |-> <<<<"coolant", 1>>>>,      coolant_off |-> <<<<"coolant", 0>>>>,
   spindle_pos |-> <<<<"pos", 1>>>>,         spindle_rev |-> <<<<"rev", 1>>>>,
   spindle_stop |-> <<<<"pos", 0>>, <<"rev", 0>>>>,
   aux_clr |-> <<<<"aux", 0>>>>,             mag_go |-> <<<<"aux", 6>>>>,
   tool_1 |-> <<<<"aux", 26>>>>,             unknown |-> <<>>]

ASSUME DeviceAssumption ==
  /\ POS_SIZE \in Nat \ {0}
  /\ NoThread \notin Threads
  /\ Commands \subseteq DOMAIN Writes

Registers == {"axis", "jog", "return0", "coolant", "pos", "rev", "aux"}

IoWrite(t) ==
  /\ pc[t] = "iowrite"
  /\ IF k[t] < Len(Writes[cmd[t]])
     THEN LET w == Writes[cmd[t]][k[t] + 1]
          IN  /\ card' = [card EXCEPT ![w[1]] = w[2]]
              /\ k' = [k EXCEPT ![t] = @ + 1]
              /\ UNCHANGED pc
     ELSE Goto(t, "unlock") /\ UNCHANGED <<card, k>>
  /\ OpenUnchanged /\ UNCHANGED <<mutex, cmd, count, pos_data_buf, got>>

Unlock(t) ==
  /\ pc[t] = "unlock"
  /\ mutex' = NoThread
  /\ Goto(t, "open")
  /\ OpenUnchanged /\ UNCHANGED <<cmd, k, count, pos_data_buf, card, got>>

-----------------------------------------------------------------------------
Init ==
  /\ life = "probing" /\ at = 0 /\ held = {}
  /\ intcsr = FALSE /\ handler = "out"
  /\ pc = [t \in Threads |-> "closed"] /\ mutex = NoThread
  /\ cmd = [t \in Threads |-> "read"] /\ k = [t \in Threads |-> 0]
  /\ count = [t \in Threads |-> 0]
  /\ pos_data_buf = [i \in 1..POS_SIZE |-> NoThread]
  /\ card = [r \in Registers |-> 0]
  /\ got = [t \in Threads |-> {}]

Thread(t) ==
  \/ Open(t) \/ Release(t)
  \/ \E c \in Commands \cup {"read"} : Call(t, c)
  \/ Lock(t) \/ IoRead(t) \/ Store(t) \/ CopyWord(t) \/ CopyEnds(t)
  \/ IoWrite(t) \/ Unlock(t)

Next ==
  \/ Acquire \/ AcquireFails \/ Unwind \/ Unbind \/ Remove \/ Rebind
  \/ Interrupt
  \/ \E t \in Threads : Thread(t)

Spec == Init /\ [][Next]_vars

-----------------------------------------------------------------------------
TypeOK ==
  /\ life \in {"probing", "unwinding", "failed", "bound", "removing", "removed"}
  /\ at \in 0..Len(Acquired) /\ held \subseteq Resources
  /\ intcsr \in BOOLEAN /\ handler \in {"out", "clear", "enable"}
  /\ pc \in [Threads -> {"closed", "open", "lock", "ioread", "store", "copy", "iowrite",
                         "unlock"}]
  /\ mutex \in Threads \cup {NoThread}
  /\ cmd \in [Threads -> Commands \cup {"read"}]
  /\ k \in [Threads -> 0..(POS_SIZE + 2)] /\ count \in [Threads -> 0..(POS_SIZE + 1)]
  /\ pos_data_buf \in [1..POS_SIZE -> Threads \cup {NoThread}]
  /\ card \in [Registers -> Int]
  /\ got \in [Threads -> SUBSET (Threads \cup {NoThread})]

\* What rests on what: a mapping on its region, the class and the number under the node.
Needs(r) ==
  CASE r = "io_region" -> {"enabled"}
    [] r = "mem_region" -> {"enabled"}
    [] r = "mem" -> {"mem_region"}
    [] r = "io" -> {"io_region"}
    [] r = "cdev" -> {"chrdev", "mem"}
    [] r = "node" -> {"class", "chrdev"}
    [] r = "irq" -> {"mem"}
    [] OTHER -> {}

UsesCard(t) == pc[t] \in {"ioread", "iowrite"}

\* Whichever step of cnc_probe fails, and whenever the card is taken away, everything is
\* given back, nothing before what rests on it: the interrupt, which may come at any time
\* on a shared line, finds the registers mapped, and so does a thread that has opened the
\* device before cnc_probe is done.  (A descriptor that is still open when cnc_probe
\* unwinds or cnc_remove runs is not protected: nothing in the driver waits for it.)
GivesBackInOrder ==
  /\ \A r \in held : Needs(r) \subseteq held
  /\ life \in {"failed", "removed"} => held = {}
  /\ handler # "out" => "mem" \in held
  /\ "irq" \in held /\ handler = "out" => intcsr
  /\ life \in {"probing", "bound"} /\ (\E t \in Threads : UsesCard(t)) => "mem" \in held

\* Calls of several threads do not mix: the words a read returns have all been read by
\* that call, although the buffer is one for all, and when the command that stops the
\* spindle, two writes, is done, the spindle is stopped.
CallsDoNotMix ==
  \A t \in Threads :
    /\ got[t] \subseteq {t}
    /\ pc[t] = "unlock" /\ cmd[t] = "spindle_stop" => card["pos"] = 0 /\ card["rev"] = 0
=============================================================================
