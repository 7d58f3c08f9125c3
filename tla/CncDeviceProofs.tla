-------------------------- MODULE CncDeviceProofs --------------------------
(***************************************************************************)
(* Proofs about CncDevice, for any threads, commands and number of         *)
(* registers.  What the driver holds is at every moment a beginning of the *)
(* list Acquired, as long as Level says; the calls are kept apart by the   *)
(* mutex.                                                                  *)
(***************************************************************************)
EXTENDS CncDevice, TLAPS

First(n) == {Acquired[i] : i \in 1..n}

Level ==
  IF life \in {"probing", "unwinding"} THEN at
  ELSE IF life \in {"bound", "removing"} THEN 10 - at ELSE 0

\* Where cnc_probe and cnc_remove are, and what that says of the interrupt and the threads.
LifeInv ==
  /\ life \in {"probing", "unwinding", "failed", "bound", "removing", "removed"}
  /\ at \in 0..9
  /\ life \in {"bound", "failed", "removed"} => at = 0
  /\ held = First(Level)
  /\ handler \in {"out", "clear", "enable"} /\ intcsr \in BOOLEAN
  /\ handler # "out" => life \in {"bound", "removing"} /\ at = 0
  /\ life = "probing" /\ at >= 5 => intcsr = TRUE
  /\ life \in {"bound", "removing"} /\ at = 0 /\ handler # "enable" => intcsr = TRUE

Inside == {"ioread", "store", "copy", "iowrite", "unlock"}

CallTypes ==
  /\ pc \in [Threads -> Inside \cup {"closed", "open", "lock"}]
  /\ mutex \in Threads \cup {NoThread}
  /\ cmd \in [Threads -> Commands \cup {"read"}]
  /\ k \in [Threads -> 0..(POS_SIZE + 2)] /\ count \in [Threads -> 0..(POS_SIZE + 1)]
  /\ pos_data_buf \in [1..POS_SIZE -> Threads \cup {NoThread}]
  /\ card \in [Registers -> Int]
  /\ got \in [Threads -> SUBSET (Threads \cup {NoThread})]

\* What thread t has done of its call.
CallInv(t) ==
  /\ mutex = t <=> pc[t] \in Inside
  /\ pc[t] \in {"ioread", "store", "copy"} => cmd[t] = "read"
  /\ pc[t] = "ioread" => k[t] < POS_SIZE
  /\ pc[t] = "copy" => /\ count[t] <= POS_SIZE
                       /\ \A i \in 1..POS_SIZE : pos_data_buf[i] = t
  /\ pc[t] = "iowrite" => cmd[t] # "read" /\ k[t] <= 2
  /\ got[t] \subseteq {t}
  /\ cmd[t] = "spindle_stop" =>
       /\ pc[t] = "iowrite" /\ k[t] >= 1 => card["pos"] = 0
       /\ pc[t] = "iowrite" /\ k[t] >= 2 => card["rev"] = 0
       /\ pc[t] = "unlock" => card["pos"] = 0 /\ card["rev"] = 0

\* Nobody has the device open before cnc_probe has added it.
OpenInv ==
  life = "probing" /\ at < 7 => \A t \in Threads : pc[t] = "closed"

CallsInv == CallTypes /\ \A t \in Threads : CallInv(t)

IInv == LifeInv /\ CallsInv /\ OpenInv

-----------------------------------------------------------------------------
(* The lists of cnc_probe and cnc_remove.                                  *)

LEMMA Lengths == Len(Acquired) = 10 /\ Len(Released) = 10
  BY DEF Acquired, Released

LEMMA Lists ==
  /\ Acquired[1] = "enabled" /\ Acquired[2] = "io_region" /\ Acquired[3] = "mem_region"
  /\ Acquired[4] = "mem" /\ Acquired[5] = "io" /\ Acquired[6] = "chrdev"
  /\ Acquired[7] = "cdev" /\ Acquired[8] = "class" /\ Acquired[9] = "node"
  /\ Acquired[10] = "irq"
  BY DEF Acquired, Released

LEMMA ListReleased ==
  /\ Released[10] = "enabled" /\ Released[9] = "io_region" /\ Released[8] = "mem_region"
  /\ Released[7] = "mem" /\ Released[6] = "io" /\ Released[5] = "chrdev"
  /\ Released[4] = "cdev" /\ Released[3] = "class" /\ Released[2] = "node"
  /\ Released[1] = "irq"
  BY DEF Released

\* cnc_remove goes backwards through the list of cnc_probe.
LEMMA Reversed ==
  ASSUME NEW n \in 0..9
  PROVE  Released[n + 1] = Acquired[10 - n]
  <1>1. \/ n = 0 \/ n = 1 \/ n = 2 \/ n = 3 \/ n = 4
        \/ n = 5 \/ n = 6 \/ n = 7 \/ n = 8 \/ n = 9
    OBVIOUS
  <1> QED
    BY <1>1, Lists, ListReleased

LEMMA Distinct ==
  ASSUME NEW i \in 1..10, NEW j \in 1..10, Acquired[i] = Acquired[j]
  PROVE  i = j
  <1> DEFINE Ten(n) == \/ n = 1 \/ n = 2 \/ n = 3 \/ n = 4 \/ n = 5
                       \/ n = 6 \/ n = 7 \/ n = 8 \/ n = 9 \/ n = 10
  <1>1. Ten(i) /\ Ten(j)
    OBVIOUS
  <1> QED
    BY <1>1, Lists

LEMMA OneMore ==
  ASSUME NEW n \in 0..9
  PROVE  /\ First(n) \cup {Acquired[n + 1]} = First(n + 1)
         /\ First(n + 1) \ {Acquired[n + 1]} = First(n)
  <1>1. \A i \in 1..(n + 1) : i \in 1..n \/ i = n + 1
    OBVIOUS
  <1>2. \A i \in 1..n : i \in 1..(n + 1) /\ Acquired[i] # Acquired[n + 1]
    BY Distinct
  <1> QED
    BY <1>1, <1>2 DEF First

LEMMA Members ==
  ASSUME NEW n \in 0..10, NEW i \in 1..10
  PROVE  Acquired[i] \in First(n) <=> i <= n
  BY Distinct DEF First

LEMMA Named ==
  ASSUME NEW n \in 0..10
  PROVE  /\ "irq" \in First(n) <=> n = 10
         /\ "mem" \in First(n) <=> n >= 4
         /\ "cdev" \in First(n) <=> n >= 7
  <1>1. Acquired[10] = "irq" /\ Acquired[4] = "mem" /\ Acquired[7] = "cdev"
    BY DEF Acquired
  <1> QED
    BY <1>1, Members

\* Each thing comes after what it needs.
LEMMA Based ==
  ASSUME NEW n \in 0..10
  PROVE  \A r \in First(n) : Needs(r) \subseteq First(n)
  <1> SUFFICES ASSUME NEW i \in 1..n
               PROVE  Needs(Acquired[i]) \subseteq First(n)
    BY DEF First
  <1>1. \A j \in 1..i : Acquired[j] \in First(n)
    BY DEF First
  <1>2. /\ Needs("enabled") = {} /\ Needs("chrdev") = {} /\ Needs("class") = {}
        /\ Needs("io_region") = {"enabled"} /\ Needs("mem_region") = {"enabled"}
        /\ Needs("mem") = {"mem_region"} /\ Needs("io") = {"io_region"}
        /\ Needs("cdev") = {"chrdev", "mem"} /\ Needs("node") = {"class", "chrdev"}
        /\ Needs("irq") = {"mem"}
    BY DEF Needs
  <1>3. \/ i = 1 \/ i = 2 \/ i = 3 \/ i = 4 \/ i = 5 \/ i = 6 \/ i = 7 \/ i = 8 \/ i = 9
        \/ i = 10
    OBVIOUS
  <1> QED
    BY <1>1, <1>2, <1>3, Lists

-----------------------------------------------------------------------------
LEMMA InitHolds == Init => IInv
  <1> SUFFICES ASSUME Init PROVE IInv
    OBVIOUS
  <1>1. First(0) = {}
    BY DEF First
  <1>2. LifeInv
    <2>1. Level = 0
      BY DEF Init, Level
    <2>2. held = First(Level)
      BY <1>1, <2>1 DEF Init
    <2>3. intcsr \in BOOLEAN
      BY DEF Init
    <2> QED
      BY <2>2, <2>3 DEF Init, LifeInv
  <1>3. CallsInv
    BY DeviceAssumption DEF Init, CallsInv, CallTypes, CallInv, Inside
  <1> QED
    BY <1>2, <1>3 DEF IInv, Init, OpenInv

\* The steps of cnc_probe, cnc_remove and cnc_interrupt.
LEMMA LifeKept ==
  ASSUME LifeInv,
         Acquire \/ AcquireFails \/ Unwind \/ Unbind \/ Remove \/ Rebind \/ Interrupt
  PROVE  LifeInv'
  <1> USE DEF LifeInv
  <1>1. CASE Acquire
    <2>1. life = "probing" /\ Level = at /\ at \in 0..9
      BY <1>1 DEF Acquire, Level
    <2>2. held' = First(at + 1)
      BY <1>1, <2>1, OneMore DEF Acquire
    <2>3. Level' = at + 1
      BY <1>1, <2>1, Lengths DEF Acquire, Level
    <2>4. Acquired[at + 1] = "io" <=> at = 4
      BY <2>1, Lists, Distinct
    <2>5. intcsr = TRUE \/ at = 4 => intcsr' = TRUE
      BY <1>1, <2>4 DEF Acquire
    <2> QED
      BY <1>1, <2>1, <2>2, <2>3, <2>5, Lengths DEF Acquire
  <1>2. CASE AcquireFails
    BY <1>2 DEF AcquireFails, Label, Level, irqvars
  <1>3. CASE Unwind
    <2>1. life = "unwinding" /\ Level = at /\ at \in 0..9
      BY <1>3 DEF Unwind, Level
    <2>2. CASE at = 0
      BY <1>3, <2>1, <2>2 DEF Unwind, Level, irqvars
    <2>3. CASE at # 0
      <3>1. at - 1 \in 0..9 /\ (at - 1) + 1 = at
        BY <2>1, <2>3
      <3>2. held' = First(at - 1)
        BY <1>3, <2>1, <2>3, <3>1, OneMore DEF Unwind
      <3> QED
        BY <1>3, <2>1, <2>3, <3>1, <3>2 DEF Unwind, Level, irqvars
    <2> QED
      BY <2>2, <2>3
  <1>4. CASE Unbind
    BY <1>4 DEF Unbind, Level, irqvars
  <1>5. CASE Remove
    <2>1. life = "removing" /\ Level = 10 - at /\ at \in 0..9
      BY <1>5 DEF Remove, Level
    <2>2. 9 - at \in 0..9 /\ (9 - at) + 1 = 10 - at
      BY <2>1
    <2>3. held' = First(9 - at)
      BY <1>5, <2>1, <2>2, OneMore, Reversed DEF Remove
    <2>4. Level' = 9 - at
      BY <1>5, <2>1, Lengths DEF Remove, Level
    <2>5. handler = "out"
      BY <1>5, <2>1, ListReleased DEF Remove
    <2> QED
      BY <1>5, <2>1, <2>3, <2>4, <2>5, Lengths DEF Remove, irqvars
  <1>6. CASE Rebind
    BY <1>6 DEF Rebind, Level, irqvars
  <1>7. CASE Interrupt
    <2>1. Level \in 0..10 /\ Level' = Level
      BY <1>7 DEF Interrupt, devvars, Level
    <2>2. Level = 10
      BY <1>7, <2>1, Named DEF Interrupt
    <2>3. life \in {"bound", "removing"} /\ at = 0
      BY <2>2 DEF Level
    <2> QED
      BY <1>7, <2>1, <2>3 DEF Interrupt, devvars
  <1> QED
    BY <1>1, <1>2, <1>3, <1>4, <1>5, <1>6, <1>7

LEMMA OpenKept ==
  ASSUME IInv, Next
  PROVE  OpenInv'
  <1> SUFFICES ASSUME life' = "probing", at' < 7, NEW s \in Threads
               PROVE  pc'[s] = "closed"
    BY DEF OpenInv
  <1> USE DEF IInv, OpenInv
  <1>1. CASE Acquire \/ Interrupt
    <2>1. CASE Acquire
      <3>1. life = "probing" /\ at < 7
        BY <2>1, Lengths DEF Acquire, LifeInv
      <3> QED
        BY <2>1, <3>1 DEF Acquire, callvars
    <2>2. CASE Interrupt
      BY <2>2 DEF Interrupt, callvars, devvars
    <2> QED
      BY <1>1, <2>1, <2>2
  <1>2. CASE AcquireFails \/ Unwind \/ Unbind \/ Remove
    <2>1. CASE AcquireFails
      BY <2>1 DEF AcquireFails
    <2>2. CASE Unwind
      BY <2>2 DEF Unwind
    <2>3. CASE Unbind
      BY <2>3 DEF Unbind
    <2>4. CASE Remove
      BY <2>4 DEF Remove
    <2> QED
      BY <1>2, <2>1, <2>2, <2>3, <2>4
  <1>3. CASE Rebind
    BY <1>3 DEF Rebind, callvars
  <1>4. ASSUME NEW t \in Threads, Thread(t)
        PROVE  pc'[s] = "closed"
    <2>1. life = "probing" /\ at < 7 /\ pc[t] = "closed"
      BY <1>4 DEF Thread, Open, Release, Call, Lock, IoRead, Store, CopyWord, CopyEnds,
                  IoWrite, Unlock, OpenUnchanged, devvars
    <2>2. "cdev" \in held
      BY <1>4, <2>1 DEF Thread, Open, Release, Call, Lock, IoRead, Store, CopyWord, CopyEnds,
                  IoWrite, Unlock
    <2> QED
      BY <2>1, <2>2, Named DEF LifeInv, Level
  <1> QED
    BY <1>1, <1>2, <1>3, <1>4 DEF Next

-----------------------------------------------------------------------------
(* The calls.                                                              *)

LEMMA Stop ==
  /\ Len(Writes["spindle_stop"]) = 2
  /\ Writes["spindle_stop"][1][1] = "pos" /\ Writes["spindle_stop"][1][2] = 0
  /\ Writes["spindle_stop"][2][1] = "rev" /\ Writes["spindle_stop"][2][2] = 0
  BY DEF Writes

IsWrite(w) == w[1] \in Registers /\ w[2] \in Int

LEMMA WritesType ==
  ASSUME NEW c \in Commands
  PROVE  /\ Len(Writes[c]) \in 0..2
         /\ \A j \in 1..Len(Writes[c]) : IsWrite(Writes[c][j])
         /\ c # "read"
  <1>1. c \in {"axis_on", "axis_off", "jog_on", "jog_off", "return0_on", "return0_off",
               "coolant_on", "coolant_off", "spindle_pos", "spindle_rev", "spindle_stop",
               "aux_clr", "mag_go", "tool_1", "unknown"}
    BY DeviceAssumption DEF Writes
  <1>2. CASE c \in {"axis_on", "axis_off", "jog_on", "jog_off", "return0_on"}
    BY <1>2 DEF Writes, Registers, IsWrite
  <1>3. CASE c \in {"return0_off", "coolant_on", "coolant_off", "spindle_pos", "spindle_rev"}
    BY <1>3 DEF Writes, Registers, IsWrite
  <1>4. CASE c \in {"aux_clr", "mag_go", "tool_1"}
    BY <1>4 DEF Writes, Registers, IsWrite
  <1>5. CASE c = "spindle_stop"
    <2>1. \A j \in 1..2 : j = 1 \/ j = 2
      OBVIOUS
    <2> QED
      BY <1>5, <2>1, Stop DEF Registers, IsWrite
  <1>6. CASE c = "unknown"
    <2>1. Writes["unknown"] = <<>>
      BY DEF Writes
    <2> QED
      BY <1>6, <2>1
  <1> QED
    BY <1>1, <1>2, <1>3, <1>4, <1>5, <1>6

\* A step of thread t leaves what the other threads have done of their calls: only the one
\* that holds the mutex writes the buffer and the registers.
LEMMA CallsKept ==
  ASSUME CallsInv, NEW t \in Threads, Thread(t)
  PROVE  CallsInv'
  <1> USE DEF CallsInv, CallTypes, CallInv, Inside, Goto
  <1> NoThread \notin Threads /\ POS_SIZE \in Nat \ {0}
    BY DeviceAssumption
  <1>1. CASE Open(t)
    BY <1>1 DEF Open
  <1>2. ASSUME NEW c \in Commands \cup {"read"}, Call(t, c)
        PROVE  CallsInv'
    <2>1. /\ pc' \in [Threads -> Inside \cup {"closed", "open", "lock"}]
          /\ cmd' \in [Threads -> Commands \cup {"read"}]
          /\ got' \in [Threads -> SUBSET (Threads \cup {NoThread})]
          /\ mutex' = mutex /\ k' = k /\ card' = card
      BY <1>2 DEF Call
    <2>2. count' \in [Threads -> 0..(POS_SIZE + 1)]
      <3>1. PICK n \in 0..(POS_SIZE + 1) : count' = [count EXCEPT ![t] = n]
        <4>1. CASE c = "read"
          BY <1>2, <4>1 DEF Call
        <4>2. CASE c # "read"
          BY <1>2, <4>2 DEF Call
        <4> QED
          BY <4>1, <4>2
      <3> QED
        BY <3>1
    <2>3. pos_data_buf' \in [1..POS_SIZE -> Threads \cup {NoThread}]
      BY <1>2 DEF Call
    <2>4. ASSUME NEW s \in Threads
          PROVE  CallInv(s)'
      <3>1. pc[t] = "open" /\ pc'[t] = "lock"
        BY <1>2 DEF Call
      <3>2. CASE s = t
        <4>1. mutex # t
          BY <3>1
        <4>2. pc'[s] = "lock" /\ mutex' # s
          BY <2>1, <3>1, <3>2, <4>1
        <4>3. got'[s] = {} /\ \A i \in 1..POS_SIZE : pos_data_buf'[i] # s
          BY <1>2, <3>2 DEF Call
        <4> QED
          BY <4>2, <4>3
      <3>3. CASE s # t
        <4>1. /\ pc'[s] = pc[s] /\ cmd'[s] = cmd[s] /\ got'[s] = got[s]
              /\ count'[s] = count[s]
          BY <1>2, <3>3 DEF Call
        <4>2. \A i \in 1..POS_SIZE : pos_data_buf[i] = s => pos_data_buf'[i] = s
          BY <1>2, <3>3 DEF Call
        <4> QED
          BY <2>1, <3>3, <4>1, <4>2
      <3> QED
        BY <3>2, <3>3
    <2> QED
      BY <2>1, <2>2, <2>3, <2>4
  <1>3. CASE Lock(t)
    BY <1>3 DEF Lock, Free
  <1>4. CASE IoRead(t)
    BY <1>4 DEF IoRead
  <1>5. CASE Store(t)
    BY <1>5 DEF Store
  <1>6. CASE CopyWord(t)
    BY <1>6 DEF CopyWord
  <1>7. CASE CopyEnds(t)
    BY <1>7 DEF CopyEnds
  <1>8. CASE IoWrite(t)
    <2> DEFINE c == cmd[t]
               w == Writes[c][k[t] + 1]
    <2>1. c \in Commands /\ pc[t] = "iowrite" /\ mutex = t /\ k[t] \in 0..2
      BY <1>8 DEF IoWrite
    <2>2. Len(Writes[c]) \in 0..2 /\ \A j \in 1..Len(Writes[c]) : IsWrite(Writes[c][j])
      BY <2>1, WritesType
    <2>3. CASE k[t] < Len(Writes[c])
      <3>1. k[t] + 1 \in 1..Len(Writes[c])
        BY <2>1, <2>2, <2>3
      <3>2. w[1] \in Registers /\ w[2] \in Int
        BY <2>2, <3>1 DEF IsWrite
      <3>3. /\ card' = [card EXCEPT ![w[1]] = w[2]] /\ k' = [k EXCEPT ![t] = @ + 1]
            /\ UNCHANGED <<pc, mutex, cmd, count, pos_data_buf, got>>
        BY <1>8, <2>3 DEF IoWrite
      <3>4. CallTypes'
        BY <2>1, <2>2, <2>3, <3>2, <3>3
      <3>5. CallInv(t)'
        <4>1. CASE c = "spindle_stop"
          <5>1. k[t] = 0 \/ k[t] = 1
            BY <2>1, <2>3, <4>1, Stop
          <5>2. card["rev"] \in Int /\ "pos" \in Registers /\ "rev" \in Registers
            BY DEF Registers
          <5>3. CASE k[t] = 0
            BY <2>1, <3>3, <4>1, <5>2, <5>3, Stop
          <5>4. CASE k[t] = 1
            BY <2>1, <3>3, <4>1, <5>2, <5>4, Stop
          <5> QED
            BY <5>1, <5>3, <5>4
        <4>2. CASE c # "spindle_stop"
          BY <2>1, <2>2, <2>3, <3>3, <4>2
        <4> QED
          BY <4>1, <4>2
      <3>6. ASSUME NEW s \in Threads, s # t
            PROVE  CallInv(s)'
        BY <2>1, <3>3, <3>6
      <3> QED
        BY <3>4, <3>5, <3>6
    <2>4. CASE ~(k[t] < Len(Writes[c]))
      <3>1. /\ pc' = [pc EXCEPT ![t] = "unlock"]
            /\ UNCHANGED <<card, k, mutex, cmd, count, pos_data_buf, got>>
        BY <1>8, <2>4 DEF IoWrite
      <3>2. c = "spindle_stop" => card["pos"] = 0 /\ card["rev"] = 0
        BY <2>1, <2>4, Stop
      <3> QED
        BY <2>1, <3>1, <3>2
    <2> QED
      BY <2>3, <2>4
  <1>9. CASE Unlock(t)
    BY <1>9 DEF Unlock
  <1>10. CASE Release(t)
    BY <1>10 DEF Release
  <1> QED
    BY <1>1, <1>2, <1>3, <1>4, <1>5, <1>6, <1>7, <1>8, <1>9, <1>10 DEF Thread

-----------------------------------------------------------------------------
LEMMA IInvKept == IInv /\ [Next]_vars => IInv'
  <1> SUFFICES ASSUME IInv, [Next]_vars PROVE IInv'
    OBVIOUS
  <1>1. CASE UNCHANGED vars
    BY <1>1 DEF IInv, LifeInv, Level, CallsInv, CallTypes, CallInv, OpenInv, vars, devvars,
                irqvars, callvars
  <1>2. CASE Next
    <2>1. OpenInv'
      BY <1>2, OpenKept
    <2>2. CASE Acquire \/ AcquireFails \/ Unwind \/ Unbind \/ Remove \/ Rebind \/ Interrupt
      <3>1. LifeInv'
        BY <2>2, LifeKept DEF IInv
      <3>2. UNCHANGED callvars
        BY <2>2 DEF Acquire, AcquireFails, Unwind, Unbind, Remove, Rebind, Interrupt
      <3>3. CallsInv'
        BY <3>2 DEF callvars, IInv, CallsInv, CallTypes, CallInv
      <3> QED
        BY <2>1, <3>1, <3>3 DEF IInv
    <2>3. ASSUME NEW t \in Threads, Thread(t)
          PROVE  IInv'
      <3>1. UNCHANGED <<devvars, irqvars>>
        BY <2>3 DEF Thread, Open, Release, Call, Lock, IoRead, Store, CopyWord, CopyEnds,
                    IoWrite, Unlock, OpenUnchanged
      <3>2. LifeInv'
        BY <3>1 DEF devvars, irqvars, IInv, LifeInv, Level
      <3>3. CallsInv'
        BY <2>3, CallsKept DEF IInv
      <3> QED
        BY <2>1, <3>2, <3>3 DEF IInv
    <2> QED
      BY <1>2, <2>2, <2>3 DEF Next
  <1> QED
    BY <1>1, <1>2

LEMMA IInvHolds == Spec => []IInv
  BY InitHolds, IInvKept, PTL DEF Spec

\* Every variable keeps its type: cnc_probe and cnc_remove stay within their lists, a
\* thread's word index within pos_data_buf and its command's writes.
THEOREM TypeCorrect == Spec => []TypeOK
  <1>1. IInv => TypeOK
    <2> SUFFICES ASSUME IInv PROVE TypeOK
      OBVIOUS
    <2>1. held \subseteq Resources
      <3>1. Level \in 0..10
        BY DEF IInv, LifeInv, Level
      <3>2. \A i \in 1..Level : i \in 1..10
        BY <3>1
      <3> QED
        BY <3>2, Lengths DEF IInv, LifeInv, First, Resources
    <2> QED
      BY <2>1, Lengths DEF IInv, LifeInv, CallsInv, CallTypes, Inside, TypeOK
  <1> QED
    BY <1>1, IInvHolds, PTL

\* Whichever step of cnc_probe fails and whenever the card is taken away, the driver gives
\* back all it has, nothing before what rests on it, and the interrupt and the threads that
\* open the device early find the registers mapped.
THEOREM GivenBack == Spec => []GivesBackInOrder
  <1>1. IInv => GivesBackInOrder
    <2> SUFFICES ASSUME IInv PROVE GivesBackInOrder
      OBVIOUS
    <2>1. Level \in 0..10 /\ held = First(Level)
      BY DEF IInv, LifeInv, Level
    <2>2. \A r \in held : Needs(r) \subseteq held
      BY <2>1, Based
    <2>3. life \in {"failed", "removed"} => held = {}
      BY <2>1 DEF Level, First
    <2>4. handler # "out" => "mem" \in held
      BY <2>1, Named DEF IInv, LifeInv, Level
    <2>5. "irq" \in held /\ handler = "out" => intcsr = TRUE
      BY <2>1, Named DEF IInv, LifeInv, Level
    <2>6. life \in {"probing", "bound"} /\ (\E t \in Threads : UsesCard(t)) => "mem" \in held
      BY <2>1, Named DEF IInv, LifeInv, Level, OpenInv, UsesCard
    <2> QED
      BY <2>2, <2>3, <2>4, <2>5, <2>6 DEF GivesBackInOrder
  <1> QED
    BY <1>1, IInvHolds, PTL

\* The mutex keeps the calls apart: a read returns what it has read itself, and stopping
\* the spindle, two writes, is not interrupted by a command that turns it.
THEOREM CallsApart == Spec => []CallsDoNotMix
  <1>1. IInv => CallsDoNotMix
    BY DEF IInv, CallsInv, CallInv, CallsDoNotMix
  <1> QED
    BY <1>1, IInvHolds, PTL
=============================================================================
