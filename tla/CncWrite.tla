------------------------------ MODULE CncWrite ------------------------------
(***************************************************************************)
(* The transmit path of the Linux driver drv/src/cnc_card.c: user threads  *)
(* inside cnc_write, the interrupt handler cnc_interrupt with data_send,   *)
(* the buffer data_buf they share, and the mutex, wait queue and task      *)
(* states through which they meet.                                         *)
(*                                                                         *)
(* Each access to current_buf_num is a step of its own, because the writer *)
(* holds the mutex and the handler the spinlock, and neither takes the     *)
(* other's lock: the handler may run between any two accesses of a writer, *)
(* on the same processor or on another one.                                *)
(*                                                                         *)
(* The n-th word the driver accepts is the number n.  The card side is the *)
(* sequence of words written to PCTOCARD.                                  *)
(***************************************************************************)
EXTENDS Integers, Sequences

CONSTANTS
  Writers,   \* user threads that call write() on the device
  BufSize,   \* BUF_SIZE, the words in data_buf (1000 in the driver)
  MaxReq,    \* bound: most words one write() offers
  MaxWords   \* bound: no write() begins once the card and buffer hold this many

ASSUME SizeAssumption == /\ BufSize \in Nat \ {0}
                         /\ MaxReq \in Nat
                         /\ MaxWords \in Nat

None == "none"
ASSUME WriterAssumption == None \notin Writers

VARIABLES
  mode,             \* per thread, its descriptor: blocking, O_NONBLOCK or none
  apart,            \* whether the handler runs on another processor than the threads
  data_buf,         \* the transmit buffer
  current_buf_num,  \* how many of its words are waiting to be sent
  mutex,            \* holder of dev->mutex, or None
  w_wait,           \* threads on the wait queue dev->w_wait
  task,             \* scheduler state of each thread
  signal,           \* threads with a signal pending
  pc, req, count, dest, copied, loaded,   \* each thread's place and locals in cnc_write
  isr, sent,        \* place of cnc_interrupt, and loop index i of data_send
  intcsr,           \* the card's INTCSR enable bits
  card,             \* history: words written to PCTOCARD
  accepted          \* history: words cnc_write has added to the buffer

setup == <<mode, apart>>
locals == <<req, count, dest, copied, loaded>>
handler == <<isr, sent, intcsr, card>>
shared == <<data_buf, current_buf_num>>
sync == <<mutex, w_wait, task, signal>>
vars == <<setup, shared, sync, pc, locals, handler, accepted>>

Modes == {"blocking", "nonblock", "closed"}

\* Places of a writer; those in Holding are between mutex_lock and mutex_unlock.
Holding == {"check", "setstate", "release", "count", "clamp", "dest",
            "copy", "load", "store", "unlock"}
Places == Holding \union {"idle", "lock", "sleep", "woken", "relock", "leave"}

Full == current_buf_num = BufSize

Goto(w, from, to) ==
  /\ pc[w] = from
  /\ pc' = [pc EXCEPT ![w] = to]

-----------------------------------------------------------------------------
(* cnc_write, in program order.  A definition whose name begins with Bug is *)
(* a deliberate fault in the action after it; no specification uses it.    *)

Enter(w) ==
  /\ mode[w] # "closed"
  /\ Goto(w, "idle", "lock")
  /\ Len(card) + current_buf_num < MaxWords
  /\ \E n \in 0..MaxReq : req' = [req EXCEPT ![w] = n]
  /\ UNCHANGED <<setup, shared, sync, count, dest, copied, loaded, handler, accepted>>

BugLockUnqueued(w) ==
  /\ Goto(w, "lock", "check")
  /\ mutex = None
  /\ mutex' = w
  /\ UNCHANGED <<setup, shared, w_wait, task, signal, locals, handler, accepted>>

\* The first mutex_lock_interruptible, and the add_wait_queue after it.
Lock(w) ==
  /\ Goto(w, "lock", "check")
  /\ mutex = None
  /\ mutex' = w
  /\ w_wait' = w_wait \union {w}
  /\ UNCHANGED <<setup, shared, task, signal, locals, handler, accepted>>

\* A signal ends the wait for the mutex; the call returns at once.
LockInterrupted(w) ==
  /\ Goto(w, "lock", "idle")
  /\ mutex # None
  /\ w \in signal
  /\ signal' = signal \ {w}
  /\ req' = [req EXCEPT ![w] = 0]
  /\ UNCHANGED <<setup, shared, mutex, w_wait, task, count, dest, copied, loaded,
                 handler, accepted>>

CheckRoom(w) ==
  /\ ~Full
  /\ Goto(w, "check", "count")
  /\ UNCHANGED <<setup, shared, sync, locals, handler, accepted>>

BugAgainKeepsMutex(w) ==
  /\ Full
  /\ mode[w] = "nonblock"
  /\ Goto(w, "check", "leave")
  /\ UNCHANGED <<setup, shared, sync, locals, handler, accepted>>

\* O_NONBLOCK: -EAGAIN.
CheckAgain(w) ==
  /\ Full
  /\ mode[w] = "nonblock"
  /\ Goto(w, "check", "unlock")
  /\ UNCHANGED <<setup, shared, sync, locals, handler, accepted>>

CheckFull(w) ==
  /\ Full
  /\ mode[w] = "blocking"
  /\ Goto(w, "check", "setstate")
  /\ UNCHANGED <<setup, shared, sync, locals, handler, accepted>>

SetInterruptible(w) ==
  /\ Goto(w, "setstate", "release")
  /\ task' = [task EXCEPT ![w] = "interruptible"]
  /\ UNCHANGED <<setup, shared, mutex, w_wait, signal, locals, handler, accepted>>

Release(w) ==
  /\ Goto(w, "release", "sleep")
  /\ mutex' = None
  /\ UNCHANGED <<setup, shared, w_wait, task, signal, locals, handler, accepted>>

\* schedule() returns to a thread that is runnable or has a signal pending.
Resume(w) ==
  /\ Goto(w, "sleep", "woken")
  /\ task[w] = "running" \/ w \in signal
  /\ task' = [task EXCEPT ![w] = "running"]
  /\ UNCHANGED <<setup, shared, mutex, w_wait, signal, locals, handler, accepted>>

WokenBySignal(w) ==
  /\ w \in signal
  /\ Goto(w, "woken", "leave")
  /\ UNCHANGED <<setup, shared, sync, locals, handler, accepted>>

WokenBySpace(w) ==
  /\ w \notin signal
  /\ Goto(w, "woken", "relock")
  /\ UNCHANGED <<setup, shared, sync, locals, handler, accepted>>

\* The second mutex_lock_interruptible goes straight on: fullness is not tested again.
Relock(w) ==
  /\ Goto(w, "relock", "count")
  /\ mutex = None
  /\ mutex' = w
  /\ UNCHANGED <<setup, shared, w_wait, task, signal, locals, handler, accepted>>

RelockInterrupted(w) ==
  /\ Goto(w, "relock", "leave")
  /\ mutex # None
  /\ w \in signal
  /\ UNCHANGED <<setup, shared, sync, locals, handler, accepted>>

BugUnclamped(w) ==
  /\ Goto(w, "count", "dest")
  /\ count' = [count EXCEPT ![w] = req[w]]
  /\ UNCHANGED <<setup, shared, sync, req, dest, copied, loaded, handler, accepted>>

BugClampUp(w) ==
  /\ req[w] <= BufSize - current_buf_num
  /\ Goto(w, "count", "dest")
  /\ count' = [count EXCEPT ![w] = BufSize - current_buf_num]
  /\ UNCHANGED <<setup, shared, sync, req, dest, copied, loaded, handler, accepted>>

\* The request fits: the first of the two reads that size the transfer.
CountFits(w) ==
  /\ req[w] <= BufSize - current_buf_num
  /\ Goto(w, "count", "dest")
  /\ count' = [count EXCEPT ![w] = req[w]]
  /\ UNCHANGED <<setup, shared, sync, req, dest, copied, loaded, handler, accepted>>

CountExceeds(w) ==
  /\ req[w] > BufSize - current_buf_num
  /\ Goto(w, "count", "clamp")
  /\ UNCHANGED <<setup, shared, sync, locals, handler, accepted>>

\* The second read of current_buf_num in the clamp.
Clamp(w) ==
  /\ Goto(w, "clamp", "dest")
  /\ count' = [count EXCEPT ![w] = BufSize - current_buf_num]
  /\ UNCHANGED <<setup, shared, sync, req, dest, copied, loaded, handler, accepted>>

\* data_buf + current_buf_num, the address copy_from_user is given.
Dest(w) ==
  /\ Goto(w, "dest", "copy")
  /\ dest' = [dest EXCEPT ![w] = current_buf_num]
  /\ UNCHANGED <<setup, shared, sync, req, count, copied, loaded, handler, accepted>>

CopyWord(w) ==
  /\ pc[w] = "copy"
  /\ copied[w] < count[w]
  /\ data_buf' = [data_buf EXCEPT ![dest[w] + copied[w] + 1] = accepted + copied[w] + 1]
  /\ copied' = [copied EXCEPT ![w] = @ + 1]
  /\ UNCHANGED <<setup, current_buf_num, sync, pc, req, count, dest, loaded, handler, accepted>>

BugFaultIgnored(w) ==
  /\ copied[w] < count[w]
  /\ Goto(w, "copy", "load")
  /\ data_buf' = [i \in 1..BufSize |->
                    IF i \in dest[w] + copied[w] + 1 .. dest[w] + count[w]
                    THEN 0 ELSE data_buf[i]]
  /\ UNCHANGED <<setup, current_buf_num, sync, locals, handler, accepted>>

\* A fault in user memory: the rest of the destination is zeroed, -EFAULT.
CopyFault(w) ==
  /\ copied[w] < count[w]
  /\ Goto(w, "copy", "unlock")
  /\ data_buf' = [i \in 1..BufSize |->
                    IF i \in dest[w] + copied[w] + 1 .. dest[w] + count[w]
                    THEN 0 ELSE data_buf[i]]
  /\ UNCHANGED <<setup, current_buf_num, sync, locals, handler, accepted>>

CopyDone(w) ==
  /\ copied[w] >= count[w]
  /\ Goto(w, "copy", "load")
  /\ UNCHANGED <<setup, shared, sync, locals, handler, accepted>>

\* current_buf_num += count: a load and a store.
Load(w) ==
  /\ Goto(w, "load", "store")
  /\ loaded' = [loaded EXCEPT ![w] = current_buf_num]
  /\ UNCHANGED <<setup, shared, sync, req, count, dest, copied, handler, accepted>>

BugOverwrite(w) ==
  /\ Goto(w, "store", "unlock")
  /\ current_buf_num' = count[w]
  /\ accepted' = accepted + count[w]
  /\ UNCHANGED <<setup, data_buf, sync, locals, handler>>

Store(w) ==
  /\ Goto(w, "store", "unlock")
  /\ current_buf_num' = loaded[w] + count[w]
  /\ accepted' = accepted + count[w]
  /\ UNCHANGED <<setup, data_buf, sync, locals, handler>>

Unlock(w) ==
  /\ Goto(w, "unlock", "leave")
  /\ mutex' = None
  /\ UNCHANGED <<setup, shared, w_wait, task, signal, locals, handler, accepted>>

\* Label out2, and the return to user mode, where a pending signal is delivered.
Leave(w) ==
  /\ Goto(w, "leave", "idle")
  /\ w_wait' = w_wait \ {w}
  /\ task' = [task EXCEPT ![w] = "running"]
  /\ signal' = signal \ {w}
  /\ req' = [req EXCEPT ![w] = 0]
  /\ count' = [count EXCEPT ![w] = 0]
  /\ dest' = [dest EXCEPT ![w] = 0]
  /\ copied' = [copied EXCEPT ![w] = 0]
  /\ loaded' = [loaded EXCEPT ![w] = 0]
  /\ UNCHANGED <<setup, shared, mutex, handler, accepted>>

\* A signal is sent to a thread that is inside the call.
Signal(w) ==
  /\ pc[w] # "idle"
  /\ signal' = signal \union {w}
  /\ UNCHANGED <<setup, shared, mutex, w_wait, task, pc, locals, handler, accepted>>

-----------------------------------------------------------------------------
(* cnc_interrupt and data_send.  The handler is not re-entered: only it    *)
(* takes dev->lock, and INTCSR is 0 while it runs.  A call that finds      *)
(* another device's interrupt returns IRQ_NONE and changes nothing.        *)

IsrTo(from, to) ==
  /\ isr = from
  /\ isr' = to

IsrEnter ==
  /\ IsrTo("idle", "test")
  /\ intcsr = 2
  /\ intcsr' = 0
  /\ UNCHANGED <<setup, shared, sync, pc, locals, sent, card, accepted>>

IsrNotFull ==
  /\ ~Full
  /\ IsrTo("test", "enable")
  /\ UNCHANGED <<setup, shared, sync, pc, locals, sent, intcsr, card, accepted>>

BugSendPartial ==
  /\ IsrTo("test", "send")
  /\ UNCHANGED <<setup, shared, sync, pc, locals, sent, intcsr, card, accepted>>

IsrFull ==
  /\ Full
  /\ IsrTo("test", "send")
  /\ UNCHANGED <<setup, shared, sync, pc, locals, sent, intcsr, card, accepted>>

IsrSendWord ==
  /\ isr = "send"
  /\ sent < BufSize
  /\ card' = Append(card, data_buf[sent + 1])
  /\ sent' = sent + 1
  /\ UNCHANGED <<setup, shared, sync, pc, locals, isr, intcsr, accepted>>

IsrClear ==
  /\ sent = BufSize
  /\ IsrTo("send", "wake")
  /\ current_buf_num' = 0
  /\ sent' = 0
  /\ UNCHANGED <<setup, data_buf, sync, pc, locals, intcsr, card, accepted>>

\* wake_up_interruptible makes every thread on the queue runnable.
IsrWake ==
  /\ IsrTo("wake", "enable")
  /\ task' = [w \in Writers |-> IF w \in w_wait THEN "running" ELSE task[w]]
  /\ UNCHANGED <<setup, shared, mutex, w_wait, signal, pc, locals, sent, intcsr, card, accepted>>

BugNotReenabled ==
  /\ IsrTo("enable", "idle")
  /\ UNCHANGED <<setup, shared, sync, pc, locals, sent, intcsr, card, accepted>>

IsrExit ==
  /\ IsrTo("enable", "idle")
  /\ intcsr' = 2
  /\ UNCHANGED <<setup, shared, sync, pc, locals, sent, card, accepted>>

-----------------------------------------------------------------------------
Init ==
  /\ mode \in [Writers -> Modes]
  /\ apart \in BOOLEAN
  /\ data_buf = [i \in 1..BufSize |-> 0]
  /\ current_buf_num = 0
  /\ mutex = None
  /\ w_wait = {}
  /\ task = [w \in Writers |-> "running"]
  /\ signal = {}
  /\ pc = [w \in Writers |-> "idle"]
  /\ req = [w \in Writers |-> 0]
  /\ count = [w \in Writers |-> 0]
  /\ dest = [w \in Writers |-> 0]
  /\ copied = [w \in Writers |-> 0]
  /\ loaded = [w \in Writers |-> 0]
  /\ isr = "idle"
  /\ sent = 0
  /\ intcsr = 2
  /\ card = <<>>
  /\ accepted = 0

Wait(w) ==
  CheckFull(w) \/ SetInterruptible(w) \/ Release(w) \/ Resume(w)
    \/ WokenBySignal(w) \/ WokenBySpace(w)

Transfer(w) ==
  CountFits(w) \/ CountExceeds(w) \/ Clamp(w) \/ Dest(w) \/ CopyWord(w)
    \/ CopyDone(w) \/ Load(w) \/ Store(w)

\* On the handler's own processor threads stand still until it returns.
Runnable == apart \/ isr = "idle"

\* What a thread inside the call does by itself, without the mutex being given to it.
Advance(w) ==
  CheckRoom(w) \/ CheckAgain(w) \/ Wait(w) \/ Transfer(w) \/ Unlock(w) \/ Leave(w)

Acquire(w) == Lock(w) \/ Relock(w)

Interrupted(w) == LockInterrupted(w) \/ RelockInterrupted(w)

Writer(w) ==
  /\ Runnable
  /\ \/ Enter(w) \/ Acquire(w) \/ Interrupted(w) \/ Advance(w) \/ CopyFault(w) \/ Signal(w)

Isr == IsrEnter \/ IsrNotFull \/ IsrFull \/ IsrSendWord \/ IsrClear \/ IsrWake \/ IsrExit

Next == Isr \/ \E w \in Writers : Writer(w)

Spec == Init /\ [][Next]_vars

(***************************************************************************)
(* Discipline of the calling program under which the stream is correct:    *)
(* a thread that may block in write() is the only one to use the device,   *)
(* and shares its processor with the interrupt.                            *)
(***************************************************************************)
Disciplined ==
  \A w, v \in Writers : mode[w] = "blocking" => ~apart /\ (v # w => mode[v] = "closed")

DisciplinedInit == Init /\ Disciplined

DisciplinedSpec == DisciplinedInit /\ [][Next]_vars

(***************************************************************************)
(* A thread inside the call is scheduled again and again, between two      *)
(* interrupts, and kernel mutexes are granted in turn, so a thread that    *)
(* waits for one gets it.  The interrupt is a level that the card raises   *)
(* again whenever its FIFO drains.  Nobody is obliged to call write, to    *)
(* send a signal or to fault.                                              *)
(***************************************************************************)
Fairness ==
  /\ WF_vars(Isr)
  /\ \A w \in Writers : SF_vars(Runnable /\ Advance(w)) /\ SF_vars(Runnable /\ Acquire(w))

FairSpec == DisciplinedSpec /\ Fairness

-----------------------------------------------------------------------------
TypeOK ==
  /\ mode \in [Writers -> Modes]
  /\ apart \in BOOLEAN
  /\ data_buf \in [1..BufSize -> Nat]
  /\ current_buf_num \in 0..BufSize
  /\ mutex \in Writers \union {None}
  /\ w_wait \in SUBSET Writers
  /\ task \in [Writers -> {"running", "interruptible"}]
  /\ signal \in SUBSET Writers
  /\ pc \in [Writers -> Places]
  /\ req \in [Writers -> 0..MaxReq]
  /\ count \in [Writers -> 0..BufSize]
  /\ dest \in [Writers -> 0..BufSize]
  /\ copied \in [Writers -> 0..BufSize]
  /\ loaded \in [Writers -> 0..BufSize]
  /\ isr \in {"idle", "test", "send", "wake", "enable"}
  /\ sent \in 0..BufSize
  /\ intcsr \in {0, 2}
  /\ card \in Seq(Nat)
  /\ accepted \in Nat
-----------------------------------------------------------------------------
(* Properties that hold however the program calls write().                 *)

\* Data may be put into the buffer only by the holder of the mutex, below
\* BufSize, and never while the handler is reading it out: without a common
\* lock, the buffer belongs to the writers while it is not full and to
\* cnc_interrupt while it is.
BufferOwnership ==
  \A w \in Writers :
    pc[w] = "copy" /\ copied[w] < count[w] =>
      /\ mutex = w
      /\ dest[w] = current_buf_num
      /\ dest[w] + count[w] <= BufSize
      /\ isr # "send"

\* A thread that may be put to sleep by schedule() is on the wait queue where
\* data_send will look for it, and has given up the mutex, so that others
\* can go on.
SleepersCanBeWoken ==
  \A w \in Writers :
    pc[w] = "sleep" => w \in w_wait /\ mutex # w

-----------------------------------------------------------------------------
(* Properties that hold under the discipline.                              *)

\* The card has received words 1, 2, 3, ...: none lost, repeated or out of
\* order, although writer and handler update current_buf_num under
\* different locks.
CardInOrder == Disciplined => \A i \in 1..Len(card) : card[i] = i

\* What has been accepted is what the card has and what the buffer holds: the
\* load and store of current_buf_num += count never undo the handler's reset.
NothingLost ==
  Disciplined => Len(card) + current_buf_num = accepted + (IF isr = "send" THEN sent ELSE 0)

\* write() takes at most what the caller offered: the two reads of
\* current_buf_num that size the transfer agree.
AtMostRequested ==
  \A w \in Writers :
    Disciplined /\ pc[w] \in {"dest", "copy", "load", "store"} => count[w] <= req[w]

\* Every step of the driver is a step of the stream of batches, or none: the
\* full buffer goes out complete and in order before anything is added to it.
SentBatches == Len(card) - (IF isr = "send" /\ sent < BufSize THEN sent ELSE 0)
Stream == INSTANCE WordStream WITH base <- SentBatches
StreamSteps == [][Disciplined => [Stream!Next]_<<accepted, card, SentBatches>>]_vars

\* A full buffer is always sent, so the machine does not starve on a program
\* that keeps writing.
FullIsSent == Full ~> ~Full

\* With O_NONBLOCK a call always comes back, and so does a blocked call once
\* data_send has woken its thread.
CallsReturn ==
  \A w \in Writers :
    /\ pc[w] # "idle" /\ mode[w] = "nonblock" ~> pc[w] = "idle"
    /\ pc[w] = "sleep" /\ task[w] = "running" ~> pc[w] = "idle"

-----------------------------------------------------------------------------
(* Stated by the source, and not kept by it.                               *)

\* current_buf_num = 0 empties the buffer (cnc_card.c:309) and only appended
\* data (cnc_card.c:281) fill it again: a sent batch does not come back.
RefilledByData == [][~Full /\ Full' => accepted' > accepted]_vars

\* data_send wakes the threads that wait for room (cnc_card.c:310), so no
\* thread goes on sleeping while the buffer has room and no wakeup is due.
NoLostWakeup ==
  \A w \in Writers :
    pc[w] = "sleep" /\ task[w] = "interruptible" => Full \/ isr = "wake"
=============================================================================
