--------------------------- MODULE CncWriteProofs ---------------------------
(***************************************************************************)
(* Theorems about CncWrite, for every number of threads and every BufSize. *)
(***************************************************************************)
EXTENDS CncWrite, TLAPS

Sizing == {"count", "clamp", "dest", "copy", "load", "store"}
Waiting == {"setstate", "release", "sleep", "woken", "relock"}

(***************************************************************************)
(* The inductive invariant behind the properties that need no discipline.  *)
(***************************************************************************)

\* The mutex belongs to the thread between mutex_lock and mutex_unlock.
OwnerInv == \A w \in Writers : pc[w] \in Holding <=> mutex = w

\* A thread is on the wait queue from the lock to label out2.
QueueInv == \A w \in Writers : pc[w] \notin {"idle", "lock"} => w \in w_wait

\* The handler reads the buffer out only while it is full.
HandlerInv == isr = "send" => Full

\* A transfer that has been sized always fits: the handler can only make room.
RoomInv ==
  \A w \in Writers :
    /\ pc[w] \notin {"copy", "load", "store", "unlock", "leave"} => copied[w] = 0
    /\ pc[w] \in {"dest", "copy", "load"} => count[w] + current_buf_num <= BufSize
    /\ pc[w] = "copy" => copied[w] <= count[w]
    /\ pc[w] = "copy" /\ count[w] > 0 => dest[w] = current_buf_num
    /\ pc[w] = "store" =>
         /\ loaded[w] + count[w] <= BufSize
         /\ loaded[w] = current_buf_num \/ (loaded[w] = BufSize /\ current_buf_num = 0)

IInv == TypeOK /\ OwnerInv /\ QueueInv /\ HandlerInv /\ RoomInv

(***************************************************************************)
(* The inductive invariant behind the stream, under the discipline.        *)
(***************************************************************************)

\* Whoever sizes a transfer has seen room, or was woken by the handler after it
\* had made some.
SpaceInv ==
  \A w \in Writers :
    /\ pc[w] \in Sizing \union {"relock"} => ~Full
    /\ pc[w] \in {"release", "sleep"} /\ task[w] = "running" => ~Full
    /\ pc[w] = "woken" /\ w \notin signal => ~Full
    /\ pc[w] \in Waiting => mode[w] = "blocking"
    /\ mode[w] = "closed" => pc[w] = "idle"

\* On one processor the writer sees nothing between the reset and the wakeup.
WakeInv == ~apart /\ isr = "wake" => ~Full

\* What the buffer and a copy in progress hold, as positions in the stream.
BufferHolds == \A i \in 1..current_buf_num : data_buf[i] = accepted - current_buf_num + i

CopyHolds(w) ==
  /\ pc[w] \in {"copy", "load", "store"} =>
       /\ dest[w] = current_buf_num
       /\ \A i \in 1..copied[w] : data_buf[dest[w] + i] = accepted + i
  /\ pc[w] \in {"load", "store"} => copied[w] = count[w]
  /\ pc[w] = "store" => loaded[w] = current_buf_num
  /\ pc[w] = "clamp" => req[w] > BufSize - current_buf_num
  /\ pc[w] \in {"dest", "copy", "load", "store"} => count[w] <= req[w]

ContentInv == BufferHolds /\ \A w \in Writers : CopyHolds(w)

CountInv ==
  /\ Len(card) + current_buf_num = accepted + (IF isr = "send" THEN sent ELSE 0)
  /\ isr # "send" => sent = 0

OrderInv == \A i \in 1..Len(card) : card[i] = i

SInv == SpaceInv /\ WakeInv /\ ContentInv /\ CountInv /\ OrderInv

DInv == Disciplined => SInv

-----------------------------------------------------------------------------
LEMMA InitIInv == Init => IInv
  BY SizeAssumption, WriterAssumption
  DEF Init, IInv, TypeOK, OwnerInv, QueueInv, HandlerInv, RoomInv, Full, Places, Holding, Modes

LEMMA OwnerNext ==
  ASSUME TypeOK, OwnerInv, [Next]_vars
  PROVE  OwnerInv'
  <1> USE WriterAssumption DEF TypeOK, Goto, IsrTo, setup, shared, sync, locals, handler, OwnerInv, Places, Holding
  <1>1. ASSUME NEW w \in Writers, Enter(w) \/ Acquire(w) \/ Interrupted(w) PROVE OwnerInv'
    <2>1. CASE Enter(w)
      BY <2>1 DEF Enter
    <2>2. CASE Acquire(w)
      BY <2>2 DEF Acquire, Lock, Relock
    <2>3. CASE Interrupted(w)
      BY <2>3, SMTT(30) DEF Interrupted, LockInterrupted, RelockInterrupted
    <2> QED
      BY <1>1, <2>1, <2>2, <2>3
  <1>2. ASSUME NEW w \in Writers, CheckRoom(w) \/ CheckAgain(w) \/ Wait(w) PROVE OwnerInv'
    BY <1>2, SMTT(30) DEF CheckRoom, CheckAgain, Wait, CheckFull, SetInterruptible, Release, Resume,
                WokenBySignal, WokenBySpace
  <1>3. ASSUME NEW w \in Writers, Transfer(w) \/ CopyFault(w) PROVE OwnerInv'
    BY <1>3, SMTT(30) DEF Transfer, CountFits, CountExceeds, Clamp, Dest, CopyWord, CopyDone, Load, Store,
                CopyFault
  <1>4. ASSUME NEW w \in Writers, Unlock(w) \/ Leave(w) \/ Signal(w) PROVE OwnerInv'
    <2>1. CASE Unlock(w)
      BY <2>1 DEF Unlock
    <2>2. CASE Leave(w)
      BY <2>2 DEF Leave
    <2>3. CASE Signal(w)
      BY <2>3 DEF Signal
    <2> QED
      BY <1>4, <2>1, <2>2, <2>3
  <1>5. CASE Isr
    BY <1>5 DEF Isr, IsrEnter, IsrNotFull, IsrFull, IsrSendWord, IsrClear, IsrWake, IsrExit
  <1>6. CASE UNCHANGED vars
    BY <1>6 DEF vars
  <1> QED
    BY <1>1, <1>2, <1>3, <1>4, <1>5, <1>6 DEF Next, Writer, Advance

LEMMA QueueNext ==
  ASSUME TypeOK, QueueInv, [Next]_vars
  PROVE  QueueInv'
  <1> USE WriterAssumption DEF TypeOK, Goto, IsrTo, setup, shared, sync, locals, handler, QueueInv
  <1>1. ASSUME NEW w \in Writers, Enter(w) \/ Acquire(w) \/ Interrupted(w) PROVE QueueInv'
    BY <1>1 DEF Enter, Acquire, Lock, Relock, Interrupted, LockInterrupted, RelockInterrupted
  <1>2. ASSUME NEW w \in Writers, CheckRoom(w) \/ CheckAgain(w) \/ Wait(w) PROVE QueueInv'
    BY <1>2 DEF CheckRoom, CheckAgain, Wait, CheckFull, SetInterruptible, Release, Resume,
                WokenBySignal, WokenBySpace
  <1>3. ASSUME NEW w \in Writers, Transfer(w) \/ CopyFault(w) PROVE QueueInv'
    BY <1>3 DEF Transfer, CountFits, CountExceeds, Clamp, Dest, CopyWord, CopyDone, Load, Store,
                CopyFault
  <1>4. ASSUME NEW w \in Writers, Unlock(w) \/ Leave(w) \/ Signal(w) PROVE QueueInv'
    BY <1>4 DEF Unlock, Leave, Signal
  <1>5. CASE Isr
    BY <1>5 DEF Isr, IsrEnter, IsrNotFull, IsrFull, IsrSendWord, IsrClear, IsrWake, IsrExit
  <1>6. CASE UNCHANGED vars
    BY <1>6 DEF vars
  <1> QED
    BY <1>1, <1>2, <1>3, <1>4, <1>5, <1>6 DEF Next, Writer, Advance

LEMMA HandlerNext ==
  ASSUME TypeOK, OwnerInv, RoomInv, HandlerInv, [Next]_vars
  PROVE  HandlerInv'
  <1> USE SizeAssumption, WriterAssumption DEF TypeOK, Goto, IsrTo, setup, shared, sync, locals, handler, HandlerInv, RoomInv, Full
  <1>1. ASSUME NEW w \in Writers, Enter(w) \/ Acquire(w) \/ Interrupted(w) PROVE HandlerInv'
    BY <1>1 DEF Enter, Acquire, Lock, Relock, Interrupted, LockInterrupted, RelockInterrupted
  <1>2. ASSUME NEW w \in Writers, CheckRoom(w) \/ CheckAgain(w) \/ Wait(w) PROVE HandlerInv'
    BY <1>2 DEF CheckRoom, CheckAgain, Wait, CheckFull, SetInterruptible, Release, Resume,
                WokenBySignal, WokenBySpace
  <1>3. ASSUME NEW w \in Writers, Transfer(w) \/ CopyFault(w) PROVE HandlerInv'
    BY <1>3 DEF Transfer, CountFits, CountExceeds, Clamp, Dest, CopyWord, CopyDone, Load, Store,
                CopyFault
  <1>4. ASSUME NEW w \in Writers, Unlock(w) \/ Leave(w) \/ Signal(w) PROVE HandlerInv'
    BY <1>4 DEF Unlock, Leave, Signal
  <1>5. CASE Isr
    BY <1>5 DEF Isr, IsrEnter, IsrNotFull, IsrFull, IsrSendWord, IsrClear, IsrWake, IsrExit
  <1>6. CASE UNCHANGED vars
    BY <1>6 DEF vars
  <1> QED
    BY <1>1, <1>2, <1>3, <1>4, <1>5, <1>6 DEF Next, Writer, Advance

LEMMA RoomNext ==
  ASSUME TypeOK, OwnerInv, HandlerInv, RoomInv, [Next]_vars
  PROVE  RoomInv'
  <1> USE SizeAssumption, WriterAssumption DEF Goto, IsrTo, setup, shared, sync, locals, handler, OwnerInv, HandlerInv, RoomInv, Holding, Full
  <1> /\ current_buf_num \in 0..BufSize
      /\ pc \in [Writers -> Places] /\ req \in [Writers -> 0..MaxReq]
      /\ count \in [Writers -> 0..BufSize] /\ dest \in [Writers -> 0..BufSize]
      /\ copied \in [Writers -> 0..BufSize] /\ loaded \in [Writers -> 0..BufSize]
    BY DEF TypeOK
  <1>1. ASSUME NEW w \in Writers, Enter(w) \/ Acquire(w) \/ Interrupted(w) PROVE RoomInv'
    <2>1. CASE Enter(w)
      BY <2>1 DEF Enter
    <2>2. CASE Lock(w)
      BY <2>2 DEF Lock
    <2>3. CASE Relock(w)
      BY <2>3 DEF Relock
    <2>4. CASE LockInterrupted(w)
      BY <2>4 DEF LockInterrupted
    <2>5. CASE RelockInterrupted(w)
      BY <2>5 DEF RelockInterrupted
    <2> QED
      BY <1>1, <2>1, <2>2, <2>3, <2>4, <2>5 DEF Acquire, Interrupted
  <1>2. ASSUME NEW w \in Writers, CheckRoom(w) \/ CheckAgain(w) \/ Wait(w) PROVE RoomInv'
    <2>1. CASE CheckRoom(w)
      BY <2>1 DEF CheckRoom
    <2>2. CASE CheckAgain(w)
      BY <2>2 DEF CheckAgain
    <2>3. CASE CheckFull(w)
      BY <2>3 DEF CheckFull
    <2>4. CASE SetInterruptible(w)
      BY <2>4 DEF SetInterruptible
    <2>5. CASE Release(w)
      BY <2>5 DEF Release
    <2>6. CASE Resume(w)
      BY <2>6 DEF Resume
    <2>7. CASE WokenBySignal(w)
      BY <2>7 DEF WokenBySignal
    <2>8. CASE WokenBySpace(w)
      BY <2>8 DEF WokenBySpace
    <2> QED
      BY <1>2, <2>1, <2>2, <2>3, <2>4, <2>5, <2>6, <2>7, <2>8 DEF Wait
  <1>3. ASSUME NEW w \in Writers, Transfer(w) \/ CopyFault(w) PROVE RoomInv'
    <2>1. CASE CountFits(w)
      BY <2>1, SMTT(30) DEF CountFits
    <2>2. CASE CountExceeds(w)
      BY <2>2 DEF CountExceeds
    <2>3. CASE Clamp(w)
      BY <2>3, SMTT(30) DEF Clamp
    <2>4. CASE Dest(w)
      BY <2>4, SMTT(30) DEF Dest
    <2>5. CASE CopyWord(w)
      BY <2>5, SMTT(30) DEF CopyWord
    <2>6. CASE CopyDone(w)
      BY <2>6 DEF CopyDone
    <2>7. CASE Load(w)
      BY <2>7 DEF Load
    <2>8. CASE Store(w)
      BY <2>8 DEF Store
    <2>9. CASE CopyFault(w)
      BY <2>9 DEF CopyFault
    <2> QED
      BY <1>3, <2>1, <2>2, <2>3, <2>4, <2>5, <2>6, <2>7, <2>8, <2>9 DEF Transfer
  <1>4. ASSUME NEW w \in Writers, Unlock(w) \/ Leave(w) \/ Signal(w) PROVE RoomInv'
    <2>1. CASE Unlock(w)
      BY <2>1 DEF Unlock
    <2>2. CASE Leave(w)
      BY <2>2 DEF Leave
    <2>3. CASE Signal(w)
      BY <2>3 DEF Signal
    <2> QED
      BY <1>4, <2>1, <2>2, <2>3
  <1>5. CASE Isr
    <2>1. CASE IsrEnter \/ IsrNotFull \/ IsrFull \/ IsrExit
      BY <2>1 DEF IsrEnter, IsrNotFull, IsrFull, IsrExit
    <2>2. CASE IsrSendWord
      BY <2>2 DEF IsrSendWord
    <2>3. CASE IsrClear
      BY <2>3 DEF IsrClear
    <2>4. CASE IsrWake
      BY <2>4 DEF IsrWake
    <2> QED
      BY <1>5, <2>1, <2>2, <2>3, <2>4 DEF Isr
  <1>6. CASE UNCHANGED vars
    BY <1>6 DEF vars
  <1> QED
    BY <1>1, <1>2, <1>3, <1>4, <1>5, <1>6 DEF Next, Writer, Advance

LEMMA TypeNext ==
  ASSUME TypeOK, HandlerInv, RoomInv, [Next]_vars
  PROVE  TypeOK'
  <1> USE SizeAssumption, WriterAssumption DEF TypeOK, Goto, IsrTo, setup, shared, sync, locals, handler, RoomInv, HandlerInv, Modes, Places, Holding
  <1>1. ASSUME NEW w \in Writers, Enter(w) \/ Acquire(w) \/ Interrupted(w) PROVE TypeOK'
    <2>1. CASE Enter(w)
      <3>1. req' \in [Writers -> 0..MaxReq]
        <4>1. PICK n \in 0..MaxReq : req' = [req EXCEPT ![w] = n]
          BY <2>1 DEF Enter
        <4>2. req \in [Writers -> 0..MaxReq]
          OBVIOUS
        <4> HIDE DEF TypeOK, RoomInv, HandlerInv
        <4> QED
          BY <4>1, <4>2
      <3>2. pc' \in [Writers -> Places]
        BY <2>1 DEF Enter
      <3> QED
        BY <2>1, <3>1, <3>2 DEF Enter
    <2>2. CASE Lock(w)
      BY <2>2 DEF Lock
    <2>3. CASE Relock(w)
      BY <2>3 DEF Relock
    <2>4. CASE LockInterrupted(w)
      <3>1. req' \in [Writers -> 0..MaxReq] /\ pc' \in [Writers -> Places]
        BY <2>4 DEF LockInterrupted
      <3> QED
        BY <2>4, <3>1 DEF LockInterrupted
    <2>5. CASE RelockInterrupted(w)
      BY <2>5 DEF RelockInterrupted
    <2> QED
      BY <1>1, <2>1, <2>2, <2>3, <2>4, <2>5 DEF Acquire, Interrupted
  <1>2. ASSUME NEW w \in Writers, CheckRoom(w) \/ CheckAgain(w) \/ Wait(w) PROVE TypeOK'
    <2>1. CASE CheckRoom(w)
      BY <2>1 DEF CheckRoom
    <2>2. CASE CheckAgain(w)
      BY <2>2 DEF CheckAgain
    <2>3. CASE CheckFull(w)
      BY <2>3 DEF CheckFull
    <2>4. CASE SetInterruptible(w)
      BY <2>4 DEF SetInterruptible
    <2>5. CASE Release(w)
      BY <2>5 DEF Release
    <2>6. CASE Resume(w)
      BY <2>6 DEF Resume
    <2>7. CASE WokenBySignal(w)
      BY <2>7 DEF WokenBySignal
    <2>8. CASE WokenBySpace(w)
      BY <2>8 DEF WokenBySpace
    <2> QED
      BY <1>2, <2>1, <2>2, <2>3, <2>4, <2>5, <2>6, <2>7, <2>8 DEF Wait
  <1>3. ASSUME NEW w \in Writers, Transfer(w) \/ CopyFault(w) PROVE TypeOK'
    <2>1. CASE CountFits(w)
      <3>1. req[w] \in 0..BufSize
        BY <2>1 DEF CountFits
      <3>2. count' \in [Writers -> 0..BufSize] /\ pc' \in [Writers -> Places]
        BY <2>1, <3>1 DEF CountFits
      <3> QED
        BY <2>1, <3>2 DEF CountFits
    <2>2. CASE CountExceeds(w)
      BY <2>2 DEF CountExceeds
    <2>3. CASE Clamp(w)
      <3>1. BufSize - current_buf_num \in 0..BufSize
        OBVIOUS
      <3>2. count' \in [Writers -> 0..BufSize] /\ pc' \in [Writers -> Places]
        BY <2>3, <3>1 DEF Clamp
      <3> QED
        BY <2>3, <3>2 DEF Clamp
    <2>4. CASE Dest(w)
      BY <2>4 DEF Dest
    <2>5. CASE CopyWord(w)
      <3>1. copied[w] + 1 \in 0..BufSize
        <4>1. copied[w] \in 0..BufSize /\ count[w] \in 0..BufSize
          OBVIOUS
        <4>2. copied[w] < count[w]
          BY <2>5 DEF CopyWord
        <4> HIDE DEF TypeOK, HandlerInv, RoomInv
        <4> QED
          BY <4>1, <4>2
      <3>2. copied' \in [Writers -> 0..BufSize]
        BY <2>5, <3>1 DEF CopyWord
      <3>3. accepted + copied[w] + 1 \in Nat
        BY SMTT(30)
      <3>4. data_buf' \in [1..BufSize -> Nat]
        BY <2>5, <3>3 DEF CopyWord
      <3> QED
        BY <2>5, <3>2, <3>4 DEF CopyWord
    <2>6. CASE CopyDone(w)
      BY <2>6 DEF CopyDone
    <2>7. CASE Load(w)
      BY <2>7 DEF Load
    <2>8. CASE Store(w)
      <3>1. loaded[w] + count[w] \in 0..BufSize /\ accepted + count[w] \in Nat
        <4>1. loaded[w] \in 0..BufSize /\ count[w] \in 0..BufSize /\ accepted \in Nat
          OBVIOUS
        <4>2. loaded[w] + count[w] <= BufSize
          BY <2>8 DEF Store
        <4> HIDE DEF TypeOK, HandlerInv, RoomInv
        <4> QED
          BY <4>1, <4>2
      <3>2. pc' \in [Writers -> Places]
        BY <2>8 DEF Store
      <3> QED
        BY <2>8, <3>1, <3>2 DEF Store
    <2>9. CASE CopyFault(w)
      BY <2>9 DEF CopyFault
    <2> QED
      BY <1>3, <2>1, <2>2, <2>3, <2>4, <2>5, <2>6, <2>7, <2>8, <2>9 DEF Transfer
  <1>4. ASSUME NEW w \in Writers, Unlock(w) \/ Leave(w) \/ Signal(w) PROVE TypeOK'
    <2>1. CASE Unlock(w)
      BY <2>1 DEF Unlock
    <2>2. CASE Leave(w)
      <3>1. /\ req' \in [Writers -> 0..MaxReq]
            /\ count' \in [Writers -> 0..BufSize]
            /\ dest' \in [Writers -> 0..BufSize]
        BY <2>2, SMTT(30) DEF Leave
      <3>2. /\ copied' \in [Writers -> 0..BufSize]
            /\ loaded' \in [Writers -> 0..BufSize]
        BY <2>2 DEF Leave
      <3>3. /\ pc' \in [Writers -> Places]
            /\ task' \in [Writers -> {"running", "interruptible"}]
        BY <2>2 DEF Leave
      <3> QED
        BY <2>2, <3>1, <3>2, <3>3 DEF Leave
    <2>3. CASE Signal(w)
      BY <2>3 DEF Signal
    <2> QED
      BY <1>4, <2>1, <2>2, <2>3
  <1>5. CASE Isr
    <2>1. CASE IsrEnter \/ IsrNotFull \/ IsrFull \/ IsrExit
      BY <2>1 DEF IsrEnter, IsrNotFull, IsrFull, IsrExit
    <2>2. CASE IsrSendWord
      <3>1. card' \in Seq(Nat)
        <4>1. sent + 1 \in 1..BufSize /\ card' = Append(card, data_buf[sent + 1])
          BY <2>2 DEF IsrSendWord
        <4>2. card \in Seq(Nat) /\ data_buf \in [1..BufSize -> Nat]
          OBVIOUS
        <4> HIDE DEF TypeOK, RoomInv, HandlerInv
        <4> QED
          BY <4>1, <4>2
      <3>2. sent' \in 0..BufSize
        BY <2>2 DEF IsrSendWord
      <3> QED
        BY <2>2, <3>1, <3>2 DEF IsrSendWord
    <2>3. CASE IsrClear
      BY <2>3 DEF IsrClear
    <2>4. CASE IsrWake
      BY <2>4 DEF IsrWake
    <2> QED
      BY <1>5, <2>1, <2>2, <2>3, <2>4 DEF Isr
  <1>6. CASE UNCHANGED vars
    BY <1>6 DEF vars
  <1> QED
    BY <1>1, <1>2, <1>3, <1>4, <1>5, <1>6 DEF Next, Writer, Advance

LEMMA NextIInv == IInv /\ [Next]_vars => IInv'
  BY TypeNext, OwnerNext, QueueNext, HandlerNext, RoomNext DEF IInv

\* All four parts of IInv hold in every reachable state.
LEMMA IInvInvariant == Spec => []IInv
  <1> QED
    BY InitIInv, NextIInv, PTL DEF Spec

-----------------------------------------------------------------------------
(* The theorems without a discipline.                                      *)

\* Every variable keeps its type; in particular current_buf_num never leaves
\* 0..BUF_SIZE and copy_from_user never writes outside data_buf.
THEOREM TypeCorrect == Spec => []TypeOK
  BY IInvInvariant, PTL DEF IInv

\* However write() is called, words enter the buffer only under the mutex, at
\* its end, and never while cnc_interrupt reads it out.
THEOREM Ownership == Spec => []BufferOwnership
  <1>1. IInv => BufferOwnership
    BY SizeAssumption DEF IInv, TypeOK, OwnerInv, HandlerInv, RoomInv, BufferOwnership, Holding, Full
  <1> QED
    BY <1>1, IInvInvariant, PTL

\* A thread about to sleep is where data_send looks for it, without the mutex.
THEOREM Wakeable == Spec => []SleepersCanBeWoken
  <1>1. IInv => SleepersCanBeWoken
    BY DEF IInv, OwnerInv, QueueInv, SleepersCanBeWoken, Holding
  <1> QED
    BY <1>1, IInvInvariant, PTL

-----------------------------------------------------------------------------
(* Preservation of the stream invariant, under the discipline.             *)

LEMMA SetupConstant == [Next]_vars => UNCHANGED setup
  BY DEF Next, Isr, Writer, Acquire, Interrupted, Advance, Wait, Transfer, vars, setup,
         Enter, Lock, LockInterrupted, CheckRoom, CheckAgain, CheckFull, SetInterruptible,
         Release, Resume, WokenBySignal, WokenBySpace, Relock, RelockInterrupted, CountFits,
         CountExceeds, Clamp, Dest, CopyWord, CopyFault, CopyDone, Load, Store, Unlock,
         Leave, Signal, IsrEnter, IsrNotFull, IsrFull, IsrSendWord, IsrClear, IsrWake, IsrExit

LEMMA SpaceNext ==
  ASSUME TypeOK, OwnerInv, RoomInv, WakeInv, SpaceInv, Disciplined, [Next]_vars
  PROVE  SpaceInv'
  <1> USE SizeAssumption, WriterAssumption DEF Goto, IsrTo, setup, shared, sync, locals, handler, Full, TypeOK, OwnerInv, SpaceInv, WakeInv, Disciplined, Holding, Sizing, Waiting
  <1>1. ASSUME NEW w \in Writers, Enter(w) \/ Acquire(w) \/ Interrupted(w) PROVE SpaceInv'
    <2>1. CASE Enter(w)
      BY <2>1 DEF Enter
    <2>2. CASE Lock(w)
      BY <2>2 DEF Lock
    <2>3. CASE Relock(w)
      BY <2>3 DEF Relock
    <2>4. CASE LockInterrupted(w)
      BY <2>4 DEF LockInterrupted
    <2>5. CASE RelockInterrupted(w)
      BY <2>5 DEF RelockInterrupted
    <2> QED
      BY <1>1, <2>1, <2>2, <2>3, <2>4, <2>5 DEF Acquire, Interrupted
  <1>2. ASSUME NEW w \in Writers, CheckRoom(w) \/ CheckAgain(w) \/ Wait(w) PROVE SpaceInv'
    <2>1. CASE CheckRoom(w)
      BY <2>1 DEF CheckRoom
    <2>2. CASE CheckAgain(w)
      BY <2>2 DEF CheckAgain
    <2>3. CASE CheckFull(w)
      BY <2>3, SMTT(30) DEF CheckFull
    <2>4. CASE SetInterruptible(w)
      BY <2>4, SMTT(30) DEF SetInterruptible
    <2>5. CASE Release(w)
      BY <2>5 DEF Release
    <2>6. CASE Resume(w)
      BY <2>6, SMTT(30) DEF Resume
    <2>7. CASE WokenBySignal(w)
      BY <2>7 DEF WokenBySignal
    <2>8. CASE WokenBySpace(w)
      BY <2>8 DEF WokenBySpace
    <2> QED
      BY <1>2, <2>1, <2>2, <2>3, <2>4, <2>5, <2>6, <2>7, <2>8 DEF Wait
  <1>3. ASSUME NEW w \in Writers, Transfer(w) \/ CopyFault(w) PROVE SpaceInv'
    <2>1. CASE CountFits(w)
      BY <2>1 DEF CountFits
    <2>2. CASE CountExceeds(w)
      BY <2>2 DEF CountExceeds
    <2>3. CASE Clamp(w)
      BY <2>3 DEF Clamp
    <2>4. CASE Dest(w)
      BY <2>4 DEF Dest
    <2>5. CASE CopyWord(w)
      BY <2>5 DEF CopyWord
    <2>6. CASE CopyDone(w)
      BY <2>6 DEF CopyDone
    <2>7. CASE Load(w)
      BY <2>7 DEF Load
    <2>8. CASE Store(w)
      BY <2>8, SMTT(30) DEF Store
    <2>9. CASE CopyFault(w)
      BY <2>9 DEF CopyFault
    <2> QED
      BY <1>3, <2>1, <2>2, <2>3, <2>4, <2>5, <2>6, <2>7, <2>8, <2>9 DEF Transfer
  <1>4. ASSUME NEW w \in Writers, Unlock(w) \/ Leave(w) \/ Signal(w) PROVE SpaceInv'
    <2>1. CASE Unlock(w)
      BY <2>1 DEF Unlock
    <2>2. CASE Leave(w)
      BY <2>2 DEF Leave
    <2>3. CASE Signal(w)
      BY <2>3 DEF Signal
    <2> QED
      BY <1>4, <2>1, <2>2, <2>3
  <1>5. CASE Isr
    BY <1>5, SMTT(30) DEF Isr, IsrEnter, IsrNotFull, IsrFull, IsrSendWord, IsrClear, IsrWake, IsrExit
  <1>6. CASE UNCHANGED vars
    BY <1>6 DEF vars
  <1> QED
    BY <1>1, <1>2, <1>3, <1>4, <1>5, <1>6 DEF Next, Writer, Advance

LEMMA CountNext ==
  ASSUME TypeOK, HandlerInv, ContentInv, CountInv, SpaceInv, [Next]_vars
  PROVE  CountInv'
  <1> USE SizeAssumption, WriterAssumption DEF Goto, IsrTo, setup, shared, sync, locals, handler, Full, TypeOK, HandlerInv, SpaceInv, CountInv, ContentInv, BufferHolds, CopyHolds, Sizing
  <1>1. ASSUME NEW w \in Writers, Enter(w) \/ Acquire(w) \/ Interrupted(w) PROVE CountInv'
    BY <1>1 DEF Enter, Acquire, Lock, Relock, Interrupted, LockInterrupted, RelockInterrupted
  <1>2. ASSUME NEW w \in Writers, CheckRoom(w) \/ CheckAgain(w) \/ Wait(w) PROVE CountInv'
    BY <1>2 DEF CheckRoom, CheckAgain, Wait, CheckFull, SetInterruptible, Release, Resume,
                WokenBySignal, WokenBySpace
  <1>3. ASSUME NEW w \in Writers, Transfer(w) \/ CopyFault(w) PROVE CountInv'
    <2>1. CASE CountFits(w)
      BY <2>1 DEF CountFits
    <2>2. CASE CountExceeds(w)
      BY <2>2 DEF CountExceeds
    <2>3. CASE Clamp(w)
      BY <2>3 DEF Clamp
    <2>4. CASE Dest(w)
      BY <2>4 DEF Dest
    <2>5. CASE CopyWord(w)
      <3>1. CountInv /\ UNCHANGED <<card, current_buf_num, accepted, isr, sent>>
        BY <2>5 DEF CopyWord
      <3> HIDE DEF TypeOK, HandlerInv, SpaceInv, ContentInv
      <3> QED
        BY <3>1
    <2>6. CASE CopyDone(w)
      BY <2>6 DEF CopyDone
    <2>7. CASE Load(w)
      BY <2>7 DEF Load
    <2>8. CASE Store(w)
      BY <2>8, SMTT(30) DEF Store
    <2>9. CASE CopyFault(w)
      BY <2>9 DEF CopyFault
    <2> QED
      BY <1>3, <2>1, <2>2, <2>3, <2>4, <2>5, <2>6, <2>7, <2>8, <2>9 DEF Transfer
  <1>4. ASSUME NEW w \in Writers, Unlock(w) \/ Leave(w) \/ Signal(w) PROVE CountInv'
    BY <1>4 DEF Unlock, Leave, Signal
  <1>5. CASE Isr
    <2>1. CASE IsrEnter \/ IsrNotFull \/ IsrFull \/ IsrExit
      BY <2>1 DEF IsrEnter, IsrNotFull, IsrFull, IsrExit
    <2>2. CASE IsrSendWord
      <3>1. Len(card') = Len(card) + 1
        BY <2>2 DEF IsrSendWord
      <3>2. isr = "send" /\ isr' = "send" /\ sent' = sent + 1
        BY <2>2 DEF IsrSendWord
      <3>3. accepted' = accepted /\ current_buf_num' = current_buf_num
        BY <2>2 DEF IsrSendWord
      <3>4. Len(card) \in Nat /\ sent \in Nat /\ accepted \in Nat /\ current_buf_num \in Nat
        OBVIOUS
      <3>5. Len(card) + current_buf_num = accepted + sent
        BY <3>2
      <3> HIDE DEF TypeOK, HandlerInv, SpaceInv, ContentInv
      <3> QED
        BY <3>1, <3>2, <3>3, <3>4, <3>5
    <2>3. CASE IsrClear
      BY <2>3 DEF IsrClear
    <2>4. CASE IsrWake
      BY <2>4 DEF IsrWake
    <2> QED
      BY <1>5, <2>1, <2>2, <2>3, <2>4 DEF Isr
  <1>6. CASE UNCHANGED vars
    BY <1>6 DEF vars
  <1> QED
    BY <1>1, <1>2, <1>3, <1>4, <1>5, <1>6 DEF Next, Writer, Advance

LEMMA OrderNext ==
  ASSUME TypeOK, HandlerInv, ContentInv, CountInv, OrderInv, [Next]_vars
  PROVE  OrderInv'
  <1> USE SizeAssumption, WriterAssumption DEF Goto, IsrTo, setup, shared, sync, locals, handler, Full, TypeOK, HandlerInv, OrderInv
  <1>1. ASSUME NEW w \in Writers, Enter(w) \/ Acquire(w) \/ Interrupted(w) PROVE OrderInv'
    BY <1>1 DEF Enter, Acquire, Lock, Relock, Interrupted, LockInterrupted, RelockInterrupted
  <1>2. ASSUME NEW w \in Writers, CheckRoom(w) \/ CheckAgain(w) \/ Wait(w) PROVE OrderInv'
    BY <1>2 DEF CheckRoom, CheckAgain, Wait, CheckFull, SetInterruptible, Release, Resume,
                WokenBySignal, WokenBySpace
  <1>3. ASSUME NEW w \in Writers, Transfer(w) \/ CopyFault(w) PROVE OrderInv'
    BY <1>3 DEF Transfer, CountFits, CountExceeds, Clamp, Dest, CopyWord, CopyDone, Load, Store,
                CopyFault
  <1>4. ASSUME NEW w \in Writers, Unlock(w) \/ Leave(w) \/ Signal(w) PROVE OrderInv'
    BY <1>4 DEF Unlock, Leave, Signal
  <1>5. CASE Isr
    <2>1. CASE IsrEnter \/ IsrNotFull \/ IsrFull \/ IsrExit
      BY <2>1 DEF IsrEnter, IsrNotFull, IsrFull, IsrExit
    <2>2. CASE IsrSendWord
      <3>1. isr = "send" /\ Full /\ sent \in 0..BufSize-1
        BY <2>2 DEF IsrSendWord
      <3>2. Len(card) = accepted - BufSize + sent
        BY <3>1 DEF CountInv
      <3>3. data_buf[sent + 1] = Len(card) + 1
        BY <3>1, <3>2 DEF ContentInv, BufferHolds
      <3>4. card' = Append(card, Len(card) + 1)
        BY <2>2, <3>3 DEF IsrSendWord
      <3>5. Len(card') = Len(card) + 1 /\ \A i \in 1..Len(card) : card'[i] = card[i]
        BY <3>4
      <3>6. card'[Len(card) + 1] = Len(card) + 1
        BY <3>4
      <3>7. Len(card) \in Nat
        OBVIOUS
      <3> HIDE DEF TypeOK, HandlerInv
      <3> QED
        BY <3>5, <3>6, <3>7
    <2>3. CASE IsrClear
      BY <2>3 DEF IsrClear
    <2>4. CASE IsrWake
      BY <2>4 DEF IsrWake
    <2> QED
      BY <1>5, <2>1, <2>2, <2>3, <2>4 DEF Isr
  <1>6. CASE UNCHANGED vars
    BY <1>6 DEF vars
  <1> QED
    BY <1>1, <1>2, <1>3, <1>4, <1>5, <1>6 DEF Next, Writer, Advance

LEMMA ContentNext ==
  ASSUME TypeOK, OwnerInv, RoomInv, HandlerInv, SpaceInv, ContentInv, [Next]_vars
  PROVE  ContentInv'
  <1> USE SizeAssumption, WriterAssumption DEF Goto, IsrTo, setup, shared, sync, locals, handler, Full, TypeOK, OwnerInv, RoomInv, HandlerInv, SpaceInv, ContentInv, BufferHolds, CopyHolds, Holding, Sizing
  <1>1. ASSUME NEW w \in Writers, Enter(w) \/ Acquire(w) \/ Interrupted(w) PROVE ContentInv'
    <2>1. CASE Enter(w)
      BY <2>1 DEF Enter
    <2>2. CASE Lock(w)
      BY <2>2 DEF Lock
    <2>3. CASE Relock(w)
      BY <2>3 DEF Relock
    <2>4. CASE LockInterrupted(w)
      BY <2>4 DEF LockInterrupted
    <2>5. CASE RelockInterrupted(w)
      BY <2>5 DEF RelockInterrupted
    <2> QED
      BY <1>1, <2>1, <2>2, <2>3, <2>4, <2>5 DEF Acquire, Interrupted
  <1>2. ASSUME NEW w \in Writers, CheckRoom(w) \/ CheckAgain(w) \/ Wait(w) PROVE ContentInv'
    <2>1. CASE CheckRoom(w)
      BY <2>1 DEF CheckRoom
    <2>2. CASE CheckAgain(w)
      BY <2>2 DEF CheckAgain
    <2>3. CASE CheckFull(w)
      BY <2>3 DEF CheckFull
    <2>4. CASE SetInterruptible(w)
      BY <2>4 DEF SetInterruptible
    <2>5. CASE Release(w)
      BY <2>5 DEF Release
    <2>6. CASE Resume(w)
      BY <2>6 DEF Resume
    <2>7. CASE WokenBySignal(w)
      BY <2>7 DEF WokenBySignal
    <2>8. CASE WokenBySpace(w)
      BY <2>8 DEF WokenBySpace
    <2> QED
      BY <1>2, <2>1, <2>2, <2>3, <2>4, <2>5, <2>6, <2>7, <2>8 DEF Wait
  <1>3. ASSUME NEW w \in Writers, Transfer(w) \/ CopyFault(w) PROVE ContentInv'
    <2>1. CASE CountFits(w)
      BY <2>1, SMTT(30) DEF CountFits
    <2>2. CASE CountExceeds(w)
      BY <2>2, SMTT(30) DEF CountExceeds
    <2>3. CASE Clamp(w)
      <3>1. BufferHolds'
        BY <2>3 DEF Clamp
      <3>2. CopyHolds(w)'
        <4>1. count'[w] = BufSize - current_buf_num /\ pc'[w] = "dest"
          BY <2>3 DEF Clamp
        <4>2. req[w] > BufSize - current_buf_num /\ req' = req /\ req[w] \in Nat
          BY <2>3 DEF Clamp
        <4>3. BufSize - current_buf_num \in Nat
          OBVIOUS
        <4> HIDE DEF TypeOK, OwnerInv, RoomInv, HandlerInv, SpaceInv, ContentInv
        <4> QED
          BY <4>1, <4>2, <4>3
      <3>3. ASSUME NEW v \in Writers, v # w PROVE CopyHolds(v)'
        BY <2>3, <3>3 DEF Clamp
      <3> QED
        BY <3>1, <3>2, <3>3, SMTT(30) DEF ContentInv
    <2>4. CASE Dest(w)
      <3>1. BufferHolds'
        BY <2>4 DEF Dest
      <3>2. CopyHolds(w)'
        <4>1. pc[w] = "dest" /\ pc'[w] = "copy" /\ dest'[w] = current_buf_num
          BY <2>4 DEF Dest
        <4>2. UNCHANGED <<current_buf_num, copied, count, req>>
          BY <2>4 DEF Dest
        <4>3. copied[w] = 0 /\ count[w] <= req[w]
          BY <4>1
        <4> HIDE DEF TypeOK, OwnerInv, RoomInv, HandlerInv, SpaceInv, ContentInv
        <4> QED
          BY <4>1, <4>2, <4>3
      <3>3. ASSUME NEW v \in Writers, v # w PROVE CopyHolds(v)'
        BY <2>4, <3>3 DEF Dest
      <3> QED
        BY <3>1, <3>2, <3>3, SMTT(30) DEF ContentInv
    <2>5. CASE CopyWord(w)
      <3>1. BufferHolds'
        BY <2>5, SMTT(30) DEF CopyWord
      <3>2. CopyHolds(w)'
        <4>1. /\ pc[w] = "copy" /\ pc'[w] = "copy"
              /\ copied'[w] = copied[w] + 1
              /\ UNCHANGED <<current_buf_num, count, req, dest, accepted>>
          BY <2>5 DEF CopyWord
        <4>2. /\ copied[w] \in Nat /\ dest[w] = current_buf_num /\ count[w] <= req[w]
              /\ dest[w] + copied[w] + 1 \in 1..BufSize
          BY <2>5, SMTT(30) DEF CopyWord
        <4>3. ASSUME NEW i \in 1..copied[w] PROVE data_buf'[dest[w] + i] = accepted + i
          <5>1. data_buf[dest[w] + i] = accepted + i
            <6>1. CopyHolds(w)
              BY DEF ContentInv
            <6> HIDE DEF TypeOK, OwnerInv, RoomInv, HandlerInv, SpaceInv, ContentInv
            <6> QED
              BY <6>1, <4>1
          <5>2. dest[w] + i \in 1..BufSize /\ dest[w] + i # dest[w] + copied[w] + 1
            <6>1. dest[w] \in Nat
              OBVIOUS
            <6> HIDE DEF TypeOK, OwnerInv, RoomInv, HandlerInv, SpaceInv, ContentInv
            <6> QED
              BY <6>1, <4>2
          <5> QED
            BY <5>1, <5>2, <2>5 DEF CopyWord
        <4>4. data_buf'[dest[w] + copied[w] + 1] = accepted + copied[w] + 1
          BY <4>2, <2>5 DEF CopyWord
        <4>5. accepted \in Nat /\ dest[w] \in Nat
          OBVIOUS
        <4> HIDE DEF TypeOK, OwnerInv, RoomInv, HandlerInv, SpaceInv, ContentInv
        <4>6. ASSUME NEW i \in 1..copied'[w] PROVE data_buf'[dest[w] + i] = accepted + i
          <5>1. CASE i = copied[w] + 1
            BY <5>1, <4>2, <4>4, <4>5
          <5>2. CASE i # copied[w] + 1
            BY <5>2, <4>1, <4>2, <4>3
          <5> QED
            BY <5>1, <5>2
        <4> QED
          BY <4>1, <4>2, <4>6
      <3>3. ASSUME NEW v \in Writers, v # w PROVE CopyHolds(v)'
        BY <2>5, <3>3 DEF CopyWord
      <3> QED
        BY <3>1, <3>2, <3>3, SMTT(30) DEF ContentInv
    <2>6. CASE CopyDone(w)
      BY <2>6, SMTT(30) DEF CopyDone
    <2>7. CASE Load(w)
      BY <2>7, SMTT(30) DEF Load
    <2>8. CASE Store(w)
      <3>1. BufferHolds'
        <4>1. /\ pc[w] = "store" /\ UNCHANGED data_buf
              /\ current_buf_num' = loaded[w] + count[w]
              /\ accepted' = accepted + count[w]
          BY <2>8 DEF Store
        <4>2. /\ loaded[w] = current_buf_num /\ dest[w] = current_buf_num
              /\ copied[w] = count[w]
              /\ \A i \in 1..count[w] : data_buf[dest[w] + i] = accepted + i
          BY <4>1
        <4>3. count[w] \in Nat /\ current_buf_num \in Nat /\ accepted \in Nat
          OBVIOUS
        <4>4. \A i \in 1..current_buf_num : data_buf[i] = accepted - current_buf_num + i
          OBVIOUS
        <4> HIDE DEF TypeOK, OwnerInv, RoomInv, HandlerInv, SpaceInv, ContentInv
        <4> SUFFICES ASSUME NEW i \in 1..current_buf_num'
                     PROVE  data_buf[i] = accepted - current_buf_num + i
          BY <4>1, <4>2, <4>3
        <4>5. CASE i <= current_buf_num
          BY <4>5, <4>4, <4>3
        <4>6. CASE i > current_buf_num
          <5>1. i - current_buf_num \in 1..count[w]
            BY <4>6, <4>1, <4>2, <4>3
          <5>2. data_buf[dest[w] + (i - current_buf_num)] = accepted + (i - current_buf_num)
            BY <5>1, <4>2
          <5> QED
            BY <5>2, <4>2, <4>3
        <4> QED
          BY <4>3, <4>5, <4>6
      <3>2. CopyHolds(w)'
        BY <2>8 DEF Store
      <3>3. ASSUME NEW v \in Writers, v # w PROVE CopyHolds(v)'
        BY <2>8, <3>3 DEF Store
      <3> QED
        BY <3>1, <3>2, <3>3, SMTT(30) DEF ContentInv
    <2>9. CASE CopyFault(w)
      <3>1. BufferHolds'
        BY <2>9, SMTT(30) DEF CopyFault
      <3>2. CopyHolds(w)'
        BY <2>9 DEF CopyFault
      <3>3. ASSUME NEW v \in Writers, v # w PROVE CopyHolds(v)'
        BY <2>9, <3>3 DEF CopyFault
      <3> QED
        BY <3>1, <3>2, <3>3, SMTT(30) DEF ContentInv
    <2> QED
      BY <1>3, <2>1, <2>2, <2>3, <2>4, <2>5, <2>6, <2>7, <2>8, <2>9 DEF Transfer
  <1>4. ASSUME NEW w \in Writers, Unlock(w) \/ Leave(w) \/ Signal(w) PROVE ContentInv'
    <2>1. CASE Unlock(w)
      BY <2>1 DEF Unlock
    <2>2. CASE Leave(w)
      BY <2>2 DEF Leave
    <2>3. CASE Signal(w)
      BY <2>3 DEF Signal
    <2> QED
      BY <1>4, <2>1, <2>2, <2>3
  <1>5. CASE Isr
    <2>1. CASE IsrEnter \/ IsrNotFull \/ IsrFull \/ IsrExit
      <3>1. UNCHANGED <<shared, pc, locals, accepted>>
        BY <2>1 DEF IsrEnter, IsrNotFull, IsrFull, IsrExit
      <3> QED
        BY <3>1
    <2>2. CASE IsrSendWord
      BY <2>2 DEF IsrSendWord
    <2>3. CASE IsrClear
      BY <2>3 DEF IsrClear
    <2>4. CASE IsrWake
      BY <2>4 DEF IsrWake
    <2> QED
      BY <1>5, <2>1, <2>2, <2>3, <2>4 DEF Isr
  <1>6. CASE UNCHANGED vars
    BY <1>6 DEF vars
  <1> QED
    BY <1>1, <1>2, <1>3, <1>4, <1>5, <1>6 DEF Next, Writer, Advance

\* On one processor no thread moves between the reset and the wakeup.
LEMMA WakeNext ==
  ASSUME TypeOK, WakeInv, [Next]_vars
  PROVE  WakeInv'
  <1> USE SizeAssumption DEF TypeOK, WakeInv, Full, IsrTo, setup, shared
  <1>1. CASE \E w \in Writers : Writer(w)
    <2>1. apart \/ isr = "idle"
      BY <1>1 DEF Writer, Runnable
    <2>2. UNCHANGED <<apart, isr>>
      BY <1>1 DEF Writer, Acquire, Interrupted, Advance, Wait, Transfer, handler,
         Enter, Lock, LockInterrupted, CheckRoom, CheckAgain, CheckFull, SetInterruptible,
         Release, Resume, WokenBySignal, WokenBySpace, Relock, RelockInterrupted, CountFits,
         CountExceeds, Clamp, Dest, CopyWord, CopyFault, CopyDone, Load, Store, Unlock,
         Leave, Signal
    <2> QED
      BY <2>1, <2>2
  <1>2. CASE Isr
    BY <1>2 DEF Isr, IsrEnter, IsrNotFull, IsrFull, IsrSendWord, IsrClear, IsrWake, IsrExit
  <1>3. CASE UNCHANGED vars
    BY <1>3 DEF vars, handler
  <1> QED
    BY <1>1, <1>2, <1>3 DEF Next

LEMMA InitDInv == Init => DInv
  BY SizeAssumption
  DEF Init, DInv, SInv, SpaceInv, WakeInv, ContentInv, BufferHolds, CopyHolds, CountInv, OrderInv,
      Full, Sizing, Waiting

LEMMA NextDInv == IInv /\ DInv /\ [Next]_vars => DInv'
  <1> SUFFICES ASSUME IInv, DInv, [Next]_vars, Disciplined' PROVE SInv'
    BY DEF DInv
  <1>1. Disciplined
    BY SetupConstant DEF Disciplined, setup
  <1>2. SInv
    BY <1>1 DEF DInv
  <1> QED
    BY <1>1, <1>2, SpaceNext, WakeNext, ContentNext, CountNext, OrderNext DEF IInv, SInv

LEMMA DInvInvariant == Spec => []DInv
  BY InitIInv, NextIInv, InitDInv, NextDInv, PTL DEF Spec

-----------------------------------------------------------------------------
(* The theorems about the stream.                                          *)

\* The card receives the accepted words once each and in order.
THEOREM InOrder == Spec => []CardInOrder
  <1>1. DInv => CardInOrder
    BY DEF DInv, SInv, OrderInv, CardInOrder
  <1> QED
    BY <1>1, DInvInvariant, PTL

\* Accepted words are on the card or in the buffer.
THEOREM Conservation == Spec => []NothingLost
  <1>1. DInv => NothingLost
    BY DEF DInv, SInv, CountInv, NothingLost
  <1> QED
    BY <1>1, DInvInvariant, PTL

\* write() never takes more than it was offered.
THEOREM Sized == Spec => []AtMostRequested
  <1>1. DInv => AtMostRequested
    BY DEF DInv, SInv, ContentInv, CopyHolds, AtMostRequested
  <1> QED
    BY <1>1, DInvInvariant, PTL

-----------------------------------------------------------------------------
(* The driver implements the stream of batches.                            *)

StreamVars == <<accepted, card, SentBatches>>

LEMMA StreamStep ==
  ASSUME IInv, DInv, Disciplined, [Next]_vars
  PROVE  [Stream!Next]_StreamVars
  <1> USE SizeAssumption DEF StreamVars, SentBatches
  <1>0. TypeOK /\ HandlerInv /\ SpaceInv /\ ContentInv /\ CountInv
    BY DEF IInv, DInv, SInv
  <1>1. ASSUME NEW w \in Writers, Store(w) PROVE [Stream!Next]_StreamVars
    <2>1. isr # "send" /\ UNCHANGED <<card, isr, sent>>
      BY <1>0, <1>1 DEF Store, Goto, handler, SpaceInv, HandlerInv, Sizing
    <2>2. /\ accepted' = accepted + count[w]
          /\ current_buf_num + count[w] <= BufSize
      BY <1>0, <1>1 DEF Store, Goto, IInv, RoomInv, ContentInv, CopyHolds
    <2>3. SentBatches + current_buf_num = accepted /\ UNCHANGED SentBatches
      BY <1>0, <2>1 DEF CountInv, TypeOK
    <2>4. /\ count[w] \in Nat /\ accepted \in Nat /\ current_buf_num \in Nat
          /\ SentBatches \in Nat
      BY <1>0, <2>1 DEF TypeOK
    <2> HIDE DEF SentBatches
    <2>5. CASE count[w] = 0
      BY <2>1, <2>2, <2>3, <2>4, <2>5
    <2>6. CASE count[w] # 0
      <3>1. count[w] \in 1 .. SentBatches + BufSize - accepted
        BY <2>2, <2>3, <2>4, <2>6
      <3> QED
        BY <3>1, <2>1, <2>2, <2>3 DEF Stream!Next, Stream!Accept
    <2> QED
      BY <2>5, <2>6
  <1>2. CASE IsrSendWord
    <2>1. /\ isr = "send" /\ sent < BufSize /\ current_buf_num = BufSize
          /\ isr' = isr /\ sent' = sent + 1 /\ accepted' = accepted
      BY <1>0, <1>2 DEF IsrSendWord, HandlerInv, Full
    <2>2. Len(card) \in Nat /\ sent \in Nat /\ accepted \in Nat
      BY <1>0 DEF TypeOK
    <2>3. Len(card) + BufSize = accepted + sent
      BY <1>0, <2>1 DEF CountInv
    <2>4. data_buf[sent + 1] = Len(card) + 1
      BY <1>0, <2>1, <2>2, <2>3 DEF ContentInv, BufferHolds
    <2>5. card' = Append(card, Len(card) + 1)
      BY <1>2, <2>4 DEF IsrSendWord
    <2>6. Len(card') = Len(card) + 1
      BY <1>0, <2>5 DEF TypeOK
    <2>7. SentBatches = Len(card) - sent
      BY <2>1
    <2>8. SentBatches' = IF Len(card) + 1 = SentBatches + BufSize
                         THEN SentBatches + BufSize ELSE SentBatches
      <3>1. sent + 1 < BufSize \/ sent + 1 = BufSize
        BY <2>1, <2>2
      <3>2. SentBatches' = Len(card') - (IF sent + 1 < BufSize THEN sent + 1 ELSE 0)
        BY <2>1
      <3> HIDE DEF SentBatches
      <3>3. CASE sent + 1 < BufSize
        <4>1. SentBatches' = Len(card) + 1 - (sent + 1)
          BY <3>2, <3>3, <2>2, <2>6
        <4>2. Len(card) + 1 # SentBatches + BufSize
          BY <3>3, <2>2, <2>7
        <4> QED
          BY <4>1, <4>2, <2>2, <2>7
      <3>4. CASE sent + 1 = BufSize
        <4>1. SentBatches' = Len(card) + 1
          BY <3>2, <3>4, <2>2, <2>6
        <4>2. Len(card) + 1 = SentBatches + BufSize
          BY <3>4, <2>2, <2>7
        <4> QED
          BY <4>1, <4>2
      <3> QED
        BY <3>1, <3>3, <3>4
    <2>9. accepted = SentBatches + BufSize
      BY <2>2, <2>3, <2>7
    <2> QED
      BY <2>1, <2>5, <2>8, <2>9 DEF Stream!Next, Stream!Deliver
  <1>3. CASE IsrFull \/ IsrClear
    BY <1>0, <1>3 DEF IsrFull, IsrClear, IsrTo, CountInv
  <1>4. CASE \/ IsrEnter \/ IsrNotFull \/ IsrWake \/ IsrExit
             \/ \E w \in Writers : Writer(w) /\ ~Store(w)
             \/ UNCHANGED vars
    <2>1. /\ UNCHANGED <<accepted, card>>
          /\ UNCHANGED <<isr, sent>> \/ (isr # "send" /\ isr' # "send")
      BY <1>4 DEF Writer, Acquire, Interrupted, Advance, Wait, Transfer, handler, vars, IsrTo,
         IsrEnter, IsrNotFull, IsrWake, IsrExit,
         Enter, Lock, LockInterrupted, CheckRoom, CheckAgain, CheckFull, SetInterruptible,
         Release, Resume, WokenBySignal, WokenBySpace, Relock, RelockInterrupted, CountFits,
         CountExceeds, Clamp, Dest, CopyWord, CopyFault, CopyDone, Load, Unlock,
         Leave, Signal
    <2> QED
      BY <2>1
  <1> QED
    BY <1>1, <1>2, <1>3, <1>4 DEF Next, Isr

\* Under the discipline every step of the threads and of the handler is a step
\* of the stream of batches or leaves it as it is.
THEOREM StreamImplemented == Spec => StreamSteps
  <1>1. IInv /\ DInv /\ [Next]_vars =>
          [Disciplined => [Stream!Next]_<<accepted, card, SentBatches>>]_vars
    BY StreamStep DEF StreamVars
  <1> QED
    BY <1>1, IInvInvariant, DInvInvariant, PTL DEF Spec, StreamSteps

LEMMA DisciplineKept == DisciplinedSpec => []Disciplined
  <1>1. Disciplined /\ [Next]_vars => Disciplined'
    BY SetupConstant DEF Disciplined, setup
  <1> QED
    BY <1>1, PTL DEF DisciplinedSpec, DisciplinedInit

\* The disciplined driver refines the abstract stream.
THEOREM StreamRefinement == DisciplinedSpec => Stream!Spec
  <1>1. Init => Stream!Init
    BY DEF Init, Stream!Init, SentBatches
  <1>2. IInv /\ DInv /\ Disciplined /\ [Next]_vars =>
          [Stream!Next]_<<accepted, card, SentBatches>>
    BY StreamStep DEF StreamVars
  <1>3. DisciplinedSpec => Spec
    BY DEF DisciplinedSpec, DisciplinedInit, Spec
  <1> QED
    BY <1>1, <1>2, <1>3, DisciplineKept, IInvInvariant, DInvInvariant, PTL
    DEF DisciplinedSpec, DisciplinedInit, Stream!Spec
=============================================================================
