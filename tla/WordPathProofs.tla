--------------------------- MODULE WordPathProofs ---------------------------
(***************************************************************************)
(* Proofs about the way of a word from the bus to the pulses: PcieCore, P  *)
(* of MCParts, and MotionPath, M, for any constants that meet Paced and    *)
(* Fits.                                                                   *)
(*                                                                         *)
(* PcieCore.  The receive FIFO is a chain: each beat in it is the          *)
(* successor of the one before, and the last has the first beat still to   *)
(* come as its successor (Chained).  So rxproc, which only counts beats,   *)
(* is always within the packet that its state says (PlaceInv), and the     *)
(* header it has latched is that packet's (HeadInv).  What goes to fifo33  *)
(* is two clocks behind on the registers of the bus (PipeInv): what has    *)
(* been pushed are the pushes up to a packet, which the place and the bus  *)
(* together give (PushInv).  txproc answers the packet rxproc has just     *)
(* taken (ReadInv), in time because the next is not there yet (TimeInv).   *)
(*                                                                         *)
(* MotionPath.  The card requests an interrupt only while less than        *)
(* AlmostEmpty words wait; from the moment the handler has found the       *)
(* request standing to the end of its buffer nobody else writes, so the    *)
(* FIFO holds at most what waited then and what has been sent since.       *)
(***************************************************************************)
EXTENDS MCParts, SequenceTheorems, TLAPS

-----------------------------------------------------------------------------
(* PcieCore                                                                *)

KindIn(ps, n) == IF n \in 1..Len(ps) THEN ps[n] ELSE "none"
Size(ps, n) == P!Beats(KindIn(ps, n))

\* The beat that follows one, and the next the core delivers.
Succ(ps, b) ==
  IF b.i = Size(ps, b.n) THEN [n |-> b.n + 1, i |-> 1] ELSE [n |-> b.n, i |-> b.i + 1]
Coming(ps, more) ==
  IF more = 0 THEN [n |-> Len(ps) + 1, i |-> 1]
  ELSE [n |-> Len(ps), i |-> Size(ps, Len(ps)) - more + 1]

Delivered(ps, more, b) ==
  /\ b.n \in 1..Len(ps) /\ b.i \in 1..Size(ps, b.n)
  /\ b.n = Len(ps) => b.i <= Size(ps, b.n) - more

\* The first beat that waits, or the next to come.
Front(ps, more, waiting) == IF waiting # <<>> THEN waiting[1] ELSE Coming(ps, more)

\* All beats of packet m are in within so many clocks.
Within(ps, more, idle, m, clocks) == m = Len(ps) => more * (MaxGap + 1) - idle <= clocks

\* The receive FIFO holds the beats delivered last, each once.
Chained(ps, more, waiting) ==
  /\ more > 0 => Len(ps) > 0 /\ more < Size(ps, Len(ps))
  /\ \A ix \in 1..Len(waiting) : Delivered(ps, more, waiting[ix])
  /\ \A ix \in 1..(Len(waiting) - 1) : waiting[ix + 1] = Succ(ps, waiting[ix])
  /\ waiting # <<>> => Succ(ps, waiting[Len(waiting)]) = Coming(ps, more)

FifoInv == Chained(packets, todo, fifo1)

QueueType ==
  /\ packets \in Seq(P!Kinds) /\ Len(packets) <= MaxPackets
  /\ todo \in 0..3 /\ gap \in 0..MaxGap
  /\ fifo1 \in Seq(P!Beat)

Arrival == P!Deliver \/ P!Pause

LEMMA Sizes == ASSUME NEW kind PROVE P!Beats(kind) \in 2..4 /\ P!Beats(kind) \in Int
  BY DEF P!Beats

LEMMA SizesIn == ASSUME NEW ps, NEW m PROVE Size(ps, m) \in 2..4 /\ Size(ps, m) \in Int
  BY Sizes DEF Size

LEMMA Kept ==
  ASSUME QueueType, Arrival
  PROVE  /\ packets' \in Seq(P!Kinds) /\ Len(packets') <= MaxPackets
         /\ Len(packets') \in {Len(packets), Len(packets) + 1}
         /\ \A m \in 0..Len(packets) : KindIn(packets', m) = KindIn(packets, m)
         /\ \A m \in 0..Len(packets) : Size(packets', m) = Size(packets, m)
<1>1. CASE packets' = packets BY <1>1 DEF QueueType
<1>2. ASSUME NEW kind \in P!Kinds, packets' = Append(packets, kind), Len(packets) + 1 <= MaxPackets
      PROVE  /\ packets' \in Seq(P!Kinds) /\ Len(packets') <= MaxPackets
             /\ Len(packets') = Len(packets) + 1
             /\ \A m \in 0..Len(packets) : KindIn(packets', m) = KindIn(packets, m)
  <2>1. packets' \in Seq(P!Kinds) /\ Len(packets') = Len(packets) + 1
    BY <1>2, AppendProperties DEF QueueType
  <2>2. \A m \in 1..Len(packets) : packets'[m] = packets[m]
    BY <1>2, AppendProperties DEF QueueType
  <2>3. Len(packets) \in Nat BY DEF QueueType
  <2>4. ASSUME NEW m \in 0..Len(packets) PROVE KindIn(packets', m) = KindIn(packets, m)
    BY <2>1, <2>2, <2>3 DEF KindIn
  <2>5. QED BY <1>2, <2>1, <2>3, <2>4
<1>3. \/ packets' = packets
      \/ \E kind \in P!Kinds : packets' = Append(packets, kind) /\ Len(packets) + 1 <= MaxPackets
  BY DEF Arrival, P!Deliver, P!Pause
<1>4. /\ packets' \in Seq(P!Kinds) /\ Len(packets') <= MaxPackets
      /\ Len(packets') \in {Len(packets), Len(packets) + 1}
      /\ \A m \in 0..Len(packets) : KindIn(packets', m) = KindIn(packets, m)
  BY <1>1, <1>2, <1>3
<1>5. QED BY <1>4 DEF Size

\* One clock of the queue: what arrives, what is read.
LEMMA Arrives ==
  ASSUME QueueType, FifoInv, P!Deliver
  PROVE  /\ fifo1' = Append(P!AfterRead, Coming(packets, todo))
         /\ todo = 0 => /\ Len(packets') = Len(packets) + 1 
                        /\ todo' = Size(packets', Len(packets')) - 1
         /\ todo > 0 => packets' = packets /\ todo' = todo - 1
<1>1. PICK kind \in P!Kinds : 
        LET n == IF todo = 0 THEN Len(packets) + 1 ELSE Len(packets)
            more == IF todo = 0 THEN P!Beats(kind) ELSE todo
        IN  /\ IF todo = 0 THEN n <= MaxPackets /\ packets' = Append(packets, kind)
                           ELSE kind = packets[Len(packets)] /\ UNCHANGED packets
            /\ todo' = more - 1
            /\ fifo1' = Append(P!AfterRead, [n |-> n, i |-> P!Beats(kind) - more + 1])
            /\ gap' = 0
  BY DEF P!Deliver
<1>2. CASE todo = 0
  <2>1. packets' = Append(packets, kind) /\ todo' = P!Beats(kind) - 1
    BY <1>1, <1>2
  <2>2. fifo1' = Append(P!AfterRead, [n |-> Len(packets) + 1, i |-> P!Beats(kind) - P!Beats(kind) + 1])
    BY <1>1, <1>2
  <2>3. Len(packets') = Len(packets) + 1 /\ Size(packets', Len(packets')) = P!Beats(kind)
    BY <2>1 DEF QueueType, Size, KindIn
  <2>4. P!Beats(kind) - P!Beats(kind) + 1 = 1 BY Sizes
  <2>5. QED BY <1>2, <2>1, <2>2, <2>3, <2>4 DEF Coming
<1>3. CASE todo # 0
  <2>0. todo > 0 BY <1>3 DEF QueueType
  <2>1. kind = packets[Len(packets)] /\ packets' = packets /\ todo' = todo - 1
    BY <1>1, <1>3
  <2>2. fifo1' = Append(P!AfterRead, [n |-> Len(packets), i |-> P!Beats(kind) - todo + 1])
    BY <1>1, <1>3
  <2>3. Len(packets) > 0 BY <2>0 DEF FifoInv, Chained
  <2>4. QED
    <3>1. Size(packets, Len(packets)) = P!Beats(kind)
      BY <2>1, <2>3 DEF QueueType, Size, KindIn
    <3>2. QED BY <1>3, <2>0, <2>1, <2>2, <3>1 DEF Coming
<1>4. QED BY <1>2, <1>3

LEMMA Paused ==
  ASSUME QueueType, P!Pause
  PROVE  fifo1' = P!AfterRead /\ packets' = packets /\ todo' = todo
  BY DEF P!Pause

LEMMA Tails ==
  ASSUME NEW Elem, NEW sq \in Seq(Elem), sq # <<>>
  PROVE  /\ Len(sq) = 1 \/ Len(sq) >= 2
         /\ Tail(sq) \in Seq(Elem) /\ Len(Tail(sq)) = Len(sq) - 1 /\ Len(Tail(sq)) \in Nat
         /\ Len(sq) = 1 => Tail(sq) = <<>>
         /\ \A ix \in 1..Len(Tail(sq)) : Tail(sq)[ix] = sq[ix + 1]
         /\ Head(sq) = sq[1]
<1>1. Len(sq) \in Nat /\ Len(sq) # 0 BY EmptySeq
<1>2. Tail(sq) \in Seq(Elem) /\ Len(Tail(sq)) = Len(sq) - 1 BY HeadTailProperties
<1>3. Len(sq) = 1 => Tail(sq) = <<>>
  <2>1. HAVE Len(sq) = 1
  <2>2. Len(Tail(sq)) = 0 BY <1>2, <2>1
  <2>3. QED BY <1>2, <2>2, EmptySeq
<1>4. QED BY <1>1, <1>2, <1>3

\* The queue one clock on: the head stays or gives way to the beat that follows it.
LEMMA HeadMoves ==
  ASSUME QueueType, FifoInv, Arrival
  PROVE  /\ fifo1 # <<>> /\ P!fiford =>
              Front(packets', todo', fifo1') = Succ(packets, Front(packets, todo, fifo1))
         /\ ~P!fiford => Front(packets', todo', fifo1') = Front(packets, todo, fifo1)
<1>1. CASE P!Deliver
  <2>1. fifo1' = Append(P!AfterRead, Coming(packets, todo)) BY <1>1, Arrives
  <2>2. fifo1 = <<>> \/ Len(fifo1) >= 1 BY DEF QueueType
  <2>3. CASE ~P!fiford /\ fifo1 # <<>>
    <3>1. fifo1' # <<>> /\ fifo1'[1] = fifo1[1] BY <2>1, <2>3 DEF P!AfterRead, QueueType
    <3>2. QED BY <2>3, <3>1 DEF Front
  <2>4. CASE fifo1 = <<>>
    <3>1. fifo1' # <<>> /\ fifo1'[1] = Coming(packets, todo) BY <2>1, <2>4 DEF P!AfterRead
    <3>2. QED BY <2>4, <3>1 DEF Front
  <2>5. CASE P!fiford /\ fifo1 # <<>>
    <3>1. fifo1' = Append(Tail(fifo1), Coming(packets, todo)) BY <2>1, <2>5 DEF P!AfterRead
    <3>2. CASE Len(fifo1) = 1
      <4>0. fifo1 \in Seq(P!Beat) BY DEF QueueType
      <4>1. Tail(fifo1) = <<>>
        <5>1. fifo1 # <<>> /\ Len(fifo1) = 1 BY <2>5, <3>2
        <5>2. Len(Tail(fifo1)) = 0 /\ Tail(fifo1) \in Seq(P!Beat) BY <4>0, <5>1, Tails
        <5>3. QED BY <5>2, EmptySeq
      <4>2. fifo1' = Append(<<>>, Coming(packets, todo)) BY <3>1, <4>1
      <4>5. fifo1' # <<>> /\ fifo1'[1] = Coming(packets, todo) BY <4>2
      <4>3. Succ(packets, fifo1[1]) = Coming(packets, todo) BY <2>5, <3>2 DEF FifoInv, Chained
      <4>4. QED BY <2>5, <4>5, <4>3 DEF Front
    <3>3. CASE Len(fifo1) >= 2
      <4>1. fifo1' # <<>> /\ fifo1'[1] = fifo1[2] BY <3>1, <3>3 DEF QueueType
      <4>2. fifo1[2] = Succ(packets, fifo1[1])
        <5>1. 1 \in 1..(Len(fifo1) - 1) BY <3>3 DEF QueueType
        <5>2. QED BY <5>1 DEF FifoInv, Chained
      <4>3. QED BY <2>5, <4>1, <4>2 DEF Front
    <3>4. QED BY <2>5, <3>2, <3>3, Tails DEF QueueType
  <2>6. QED BY <2>3, <2>4, <2>5
<1>2. CASE P!Pause
  <2>1. fifo1' = P!AfterRead /\ Coming(packets', todo') = Coming(packets, todo)
    BY <1>2, Paused
  <2>3. CASE ~P!fiford \/ fifo1 = <<>>
    BY <2>1, <2>3 DEF Front, P!AfterRead
  <2>5. CASE P!fiford /\ fifo1 # <<>>
    <3>1. fifo1' = Tail(fifo1) BY <2>1, <2>5 DEF P!AfterRead
    <3>2. CASE Len(fifo1) = 1
      <4>1. fifo1' = <<>> BY <3>1, <3>2 DEF QueueType
      <4>3. Succ(packets, fifo1[1]) = Coming(packets, todo) BY <2>5, <3>2 DEF FifoInv, Chained
      <4>4. QED BY <2>1, <2>5, <4>1, <4>3 DEF Front
    <3>3. CASE Len(fifo1) >= 2
      <4>1. fifo1' # <<>> /\ fifo1'[1] = fifo1[2] BY <3>1, <3>3 DEF QueueType
      <4>2. fifo1[2] = Succ(packets, fifo1[1])
        <5>1. 1 \in 1..(Len(fifo1) - 1) BY <3>3 DEF QueueType
        <5>2. QED BY <5>1 DEF FifoInv, Chained
      <4>3. QED BY <2>5, <4>1, <4>2 DEF Front
    <3>4. QED BY <2>5, <3>2, <3>3, Tails DEF QueueType
  <2>6. QED BY <2>3, <2>5
<1>3. QED BY <1>1, <1>2 DEF Arrival

LEMMA StaysDelivered ==
  ASSUME QueueType, FifoInv, Arrival, NEW b, b.i \in Int, Delivered(packets, todo, b)
  PROVE  Delivered(packets', todo', b)
<1>1. b.n \in 1..Len(packets) /\ Size(packets', b.n) = Size(packets, b.n)
  BY Kept DEF Delivered
<1>2. Len(packets) \in Nat /\ Len(packets') \in Nat /\ Len(packets') >= Len(packets)
  BY Kept DEF QueueType
<1>3. Size(packets, b.n) \in Int BY SizesIn
<1>4. CASE P!Deliver
  <2>1. CASE todo = 0
    <3>1. Len(packets') = Len(packets) + 1 BY <1>4, <2>1, Arrives
    <3>2. QED BY <1>1, <1>2, <1>3, <3>1 DEF Delivered
  <2>2. CASE todo > 0
    <3>1. packets' = packets /\ todo' = todo - 1 BY <1>4, <2>2, Arrives
    <3>2. QED BY <1>1, <1>2, <1>3, <3>1 DEF Delivered, QueueType
  <2>3. QED BY <2>1, <2>2 DEF QueueType
<1>5. CASE P!Pause BY <1>5, Paused
<1>6. QED BY <1>4, <1>5 DEF Arrival

LEMMA ClocksPass ==
  ASSUME QueueType, FifoInv, Arrival, NEW m \in 0..Len(packets), NEW cl \in Nat,
         Within(packets, todo, gap, m, cl)
  PROVE  /\ cl > 0 => Within(packets', todo', gap', m, cl - 1)
         /\ cl = 0 => Within(packets', todo', gap', m, 0)
<1>1. MaxGap \in 0..3 BY PcieAssumption DEF P!Paced
<1>2. CASE P!Deliver /\ todo = 0
  <2>1. Len(packets') = Len(packets) + 1 BY <1>2, Arrives
  <2>2. QED BY <2>1 DEF Within, QueueType
<1>3. CASE P!Deliver /\ todo > 0
  <2>1. packets' = packets /\ todo' = todo - 1 BY <1>3, Arrives
  <2>2. gap' = 0 BY <1>3 DEF P!Deliver
  <2>3. todo \in {1, 2, 3} /\ gap \in 0..MaxGap BY <1>3 DEF QueueType
  <2>4. CASE todo = 1 BY <1>1, <2>1, <2>2, <2>3, <2>4 DEF Within
  <2>5. CASE todo = 2 BY <1>1, <2>1, <2>2, <2>3, <2>5 DEF Within
  <2>6. CASE todo = 3 BY <1>1, <2>1, <2>2, <2>3, <2>6 DEF Within
  <2>7. QED BY <2>3, <2>4, <2>5, <2>6
<1>4. CASE P!Pause
  <2>1. packets' = packets /\ todo' = todo BY <1>4, Paused
  <2>2. todo > 0 => gap < MaxGap /\ gap' = gap + 1 BY <1>4 DEF P!Pause
  <2>3. todo \in {0, 1, 2, 3} /\ gap \in 0..MaxGap BY DEF QueueType
  <2>4. CASE todo = 1 BY <1>1, <2>1, <2>2, <2>3, <2>4 DEF Within
  <2>5. CASE todo = 2 BY <1>1, <2>1, <2>2, <2>3, <2>5 DEF Within
  <2>6. CASE todo = 3 BY <1>1, <2>1, <2>2, <2>3, <2>6 DEF Within
  <2>7. CASE todo = 0 
    <3>1. gap' = 0 BY <1>4, <2>7 DEF P!Pause
    <3>2. QED BY <1>1, <2>1, <2>7, <3>1 DEF Within
  <2>8. QED BY <2>3, <2>4, <2>5, <2>6, <2>7
<1>5. QED BY <1>2, <1>3, <1>4 DEF Arrival, QueueType

LEMMA SuccKept ==
  ASSUME QueueType, Arrival, NEW b, b.n \in 0..Len(packets)
  PROVE  Succ(packets', b) = Succ(packets, b)
  BY Kept DEF Succ

LEMMA AfterReadChained ==
  ASSUME QueueType, FifoInv
  PROVE  P!AfterRead \in Seq(P!Beat) /\ Chained(packets, todo, P!AfterRead)
<1>1. CASE ~(P!fiford /\ fifo1 # <<>>) BY <1>1 DEF P!AfterRead, QueueType, FifoInv
<1>2. CASE P!fiford /\ fifo1 # <<>>
  <2>0. fifo1 \in Seq(P!Beat) /\ Len(fifo1) \in Nat BY DEF QueueType
  <2>1. P!AfterRead = Tail(fifo1) BY <1>2 DEF P!AfterRead
  <2>2. /\ Tail(fifo1) \in Seq(P!Beat) /\ Len(Tail(fifo1)) = Len(fifo1) - 1
        /\ Len(Tail(fifo1)) \in Nat
        /\ \A ix \in 1..Len(Tail(fifo1)) : Tail(fifo1)[ix] = fifo1[ix + 1]
    BY <1>2, <2>0, Tails
  <2>3. ASSUME NEW ix \in 1..Len(Tail(fifo1)) PROVE Delivered(packets, todo, Tail(fifo1)[ix])
    BY <2>0, <2>2 DEF FifoInv, Chained
  <2>4. ASSUME NEW ix \in 1..(Len(Tail(fifo1)) - 1)
        PROVE  Tail(fifo1)[ix + 1] = Succ(packets, Tail(fifo1)[ix])
    <3>1. Tail(fifo1)[ix] = fifo1[ix + 1] /\ Tail(fifo1)[ix + 1] = fifo1[ix + 1 + 1] BY <2>2
    <3>2. ix + 1 \in 1..(Len(fifo1) - 1) BY <2>0, <2>2
    <3>3. QED BY <3>1, <3>2 DEF FifoInv, Chained
  <2>5. Tail(fifo1) # <<>> => Succ(packets, Tail(fifo1)[Len(Tail(fifo1))]) = Coming(packets, todo)
    <3>1. HAVE Tail(fifo1) # <<>>
    <3>2. Len(Tail(fifo1)) >= 1 BY <2>2, <3>1, EmptySeq
    <3>3. Tail(fifo1)[Len(Tail(fifo1))] = fifo1[Len(fifo1)] BY <2>0, <2>2, <3>2
    <3>4. QED BY <1>2, <3>3 DEF FifoInv, Chained
  <2>6. QED BY <2>1, <2>2, <2>3, <2>4, <2>5 DEF FifoInv, Chained
<1>3. QED BY <1>1, <1>2

LEMMA ComingNext ==
  ASSUME QueueType, FifoInv, P!Deliver
  PROVE  /\ Coming(packets, todo) \in P!Beat
         /\ Delivered(packets', todo', Coming(packets, todo))
         /\ Succ(packets', Coming(packets, todo)) = Coming(packets', todo')
         /\ todo' \in 0..3
         /\ todo' > 0 => Len(packets') > 0 /\ todo' < Size(packets', Len(packets'))
<1>1. CASE todo = 0
  <2>1. Len(packets') = Len(packets) + 1 /\ todo' = Size(packets', Len(packets')) - 1
    BY <1>1, Arrives
  <2>2. Len(packets') <= MaxPackets /\ Len(packets) \in Nat BY Kept, <2>1 DEF Arrival, QueueType
  <2>3. Coming(packets, todo) = [n |-> Len(packets'), i |-> 1] BY <1>1, <2>1 DEF Coming
  <2>4. Size(packets', Len(packets')) \in 2..4 /\ Size(packets', Len(packets')) \in Int BY SizesIn
  <2>5. MaxPackets \in Nat BY PcieAssumption DEF P!Paced
  <2>6. Coming(packets, todo) \in P!Beat BY <2>1, <2>2, <2>3, <2>5 DEF P!Beat
  <2>7. Delivered(packets', todo', Coming(packets, todo)) BY <2>1, <2>2, <2>3, <2>4 DEF Delivered
  <2>8. Succ(packets', Coming(packets, todo)) = [n |-> Len(packets'), i |-> 2]
    BY <2>3, <2>4 DEF Succ
  <2>9. Coming(packets', todo') = [n |-> Len(packets'), i |-> 2] BY <2>1, <2>4 DEF Coming
  <2>10. QED BY <2>1, <2>2, <2>4, <2>6, <2>7, <2>8, <2>9
<1>2. CASE todo > 0
  <2>1. packets' = packets /\ todo' = todo - 1 BY <1>2, Arrives
  <2>2. Len(packets) > 0 /\ todo < Size(packets, Len(packets)) BY <1>2 DEF FifoInv, Chained
  <2>3. Coming(packets, todo) = [n |-> Len(packets), i |-> Size(packets, Len(packets)) - todo + 1]
    BY <1>2, <2>1 DEF Coming
  <2>4. Size(packets, Len(packets)) \in 2..4 /\ Size(packets, Len(packets)) \in Int BY SizesIn
  <2>5. MaxPackets \in Nat BY PcieAssumption DEF P!Paced
  <2>6. todo \in 1..3 /\ Len(packets) \in Nat /\ Len(packets) <= MaxPackets
    BY <1>2 DEF QueueType
  <2>7. Coming(packets, todo) \in P!Beat BY <2>2, <2>3, <2>4, <2>5, <2>6 DEF P!Beat
  <2>8. Delivered(packets', todo', Coming(packets, todo)) 
    BY <2>1, <2>2, <2>3, <2>4, <2>6 DEF Delivered
  <2>9. CASE todo = 1
    <3>1. Succ(packets', Coming(packets, todo)) = [n |-> Len(packets) + 1, i |-> 1]
      BY <2>1, <2>3, <2>4, <2>9 DEF Succ
    <3>2. Coming(packets', todo') = [n |-> Len(packets) + 1, i |-> 1] BY <2>1, <2>9 DEF Coming
    <3>3. QED BY <2>1, <2>2, <2>4, <2>6, <2>7, <2>8, <3>1, <3>2
  <2>10. CASE todo > 1
    <3>1. Succ(packets', Coming(packets, todo))
            = [n |-> Len(packets), i |-> Size(packets, Len(packets)) - todo + 1 + 1]
      BY <2>1, <2>3, <2>4, <2>6, <2>10 DEF Succ
    <3>2. Coming(packets', todo')
            = [n |-> Len(packets), i |-> Size(packets, Len(packets)) - (todo - 1) + 1]
      BY <2>1, <2>6, <2>10 DEF Coming
    <3>3. Size(packets, Len(packets)) - (todo - 1) + 1 = Size(packets, Len(packets)) - todo + 1 + 1
      BY <2>4, <2>6
    <3>4. QED BY <2>1, <2>2, <2>4, <2>6, <2>7, <2>8, <3>1, <3>2, <3>3
  <2>11. QED BY <2>6, <2>9, <2>10
<1>3. QED BY <1>1, <1>2 DEF QueueType

LEMMA FifoStep ==
  ASSUME QueueType, FifoInv, Arrival
  PROVE  QueueType' /\ FifoInv'
<1> DEFINE w == P!AfterRead
<1> HIDE DEF w
<1>1. w \in Seq(P!Beat) /\ Chained(packets, todo, w) BY AfterReadChained DEF w
<1>2. \A b \in P!Beat : Delivered(packets, todo, b) => Delivered(packets', todo', b)
  BY StaysDelivered DEF P!Beat
<1>3. Len(w) \in Nat BY <1>1
<1>4. \A ix \in 1..Len(w) : /\ w[ix] \in P!Beat /\ Delivered(packets', todo', w[ix])
                           /\ Succ(packets', w[ix]) = Succ(packets, w[ix])
  <2>1. TAKE ix \in 1..Len(w)
  <2>2. w[ix] \in P!Beat /\ Delivered(packets, todo, w[ix]) BY <1>1 DEF Chained
  <2>3. w[ix].n \in 0..Len(packets) BY <2>2 DEF Delivered, QueueType
  <2>4. QED BY <1>2, <2>2, <2>3, SuccKept
<1>5. packets' \in Seq(P!Kinds) /\ Len(packets') <= MaxPackets BY Kept
<1>6. gap' \in 0..MaxGap
  <2>1. MaxGap \in Nat BY PcieAssumption DEF P!Paced
  <2>2. gap' = 0 \/ (gap < MaxGap /\ gap' = gap + 1) BY DEF Arrival, P!Deliver, P!Pause
  <2>3. QED BY <2>1, <2>2 DEF QueueType
<1>7. CASE P!Deliver
  <2> DEFINE cl == Coming(packets, todo)
  <2>0. /\ cl \in P!Beat /\ Delivered(packets', todo', cl) /\ Succ(packets', cl) = Coming(packets', todo')
        /\ todo' \in 0..3
        /\ todo' > 0 => Len(packets') > 0 /\ todo' < Size(packets', Len(packets'))
    BY <1>7, ComingNext
  <2>1. fifo1' = Append(w, cl) BY <1>7, Arrives DEF w
  <2> HIDE DEF cl
  <2>2. fifo1' \in Seq(P!Beat) /\ Len(fifo1') = Len(w) + 1 BY <1>1, <2>0, <2>1
  <2>3. (\A ix \in 1..Len(w) : fifo1'[ix] = w[ix]) /\ fifo1'[Len(w) + 1] = cl
    BY <1>1, <2>0, <2>1
  <2>4. ASSUME NEW ix \in 1..Len(fifo1') PROVE Delivered(packets', todo', fifo1'[ix])
    BY <1>3, <1>4, <2>0, <2>2, <2>3
  <2>5. ASSUME NEW ix \in 1..(Len(fifo1') - 1) PROVE fifo1'[ix + 1] = Succ(packets', fifo1'[ix])
    <3>1. ix \in 1..Len(w) /\ fifo1'[ix] = w[ix] BY <1>3, <2>2, <2>3
    <3>2. CASE ix = Len(w)
      <4>1. w # <<>> BY <3>1, <3>2
      <4>2. Succ(packets, w[ix]) = cl BY <1>1, <3>2, <4>1 DEF Chained, cl
      <4>3. QED BY <1>4, <2>3, <3>1, <3>2, <4>2
    <3>3. CASE ix < Len(w)
      <4>1. ix \in 1..(Len(w) - 1) /\ ix + 1 \in 1..Len(w) BY <1>3, <3>1, <3>3
      <4>2. w[ix + 1] = Succ(packets, w[ix]) BY <1>1, <4>1 DEF Chained
      <4>3. QED BY <1>4, <2>3, <3>1, <4>1, <4>2
    <3>4. QED BY <1>3, <3>1, <3>2, <3>3
  <2>6. Succ(packets', fifo1'[Len(fifo1')]) = Coming(packets', todo')
    BY <2>0, <2>2, <2>3
  <2>7. FifoInv' BY <2>0, <2>4, <2>5, <2>6 DEF FifoInv, Chained
  <2>8. QED BY <1>5, <1>6, <2>0, <2>2, <2>7 DEF QueueType
<1>8. CASE P!Pause
  <2>1. fifo1' = w /\ packets' = packets /\ todo' = todo BY <1>8, Paused DEF w
  <2>2. QED BY <1>1, <1>6, <2>1 DEF QueueType, FifoInv
<1>9. QED BY <1>7, <1>8 DEF Arrival

\* What rxproc finds at the head of the queue.
LEMMA HeadRead ==
  ASSUME QueueType, FifoInv, rx' = IF fifo1 # <<>> THEN Head(fifo1) ELSE P!NoBeat
  PROVE  /\ rx' \in P!Beat
         /\ fifo1 = <<>> => rx' = P!NoBeat
         /\ fifo1 # <<>> => /\ rx' = Front(packets, todo, fifo1)
                            /\ Delivered(packets, todo, Front(packets, todo, fifo1))
         /\ Delivered(packets, todo, Front(packets, todo, fifo1)) => fifo1 # <<>>
         /\ \A m \in 0..Len(packets) :
              Front(packets, todo, fifo1).n = m /\ Within(packets, todo, gap, m, 0) => fifo1 # <<>>
<1>0. fifo1 \in Seq(P!Beat) /\ Len(packets) \in Nat /\ todo \in 0..3 BY DEF QueueType
<1>1. CASE fifo1 # <<>>
  <2>1. Len(fifo1) >= 1 /\ Head(fifo1) = fifo1[1] BY <1>0, <1>1, Tails
  <2>2. 1 \in 1..Len(fifo1) BY <1>0, <2>1
  <2>3. fifo1[1] \in P!Beat /\ Delivered(packets, todo, fifo1[1])
    BY <1>0, <2>2 DEF FifoInv, Chained
  <2>4. QED BY <1>1, <2>1, <2>3 DEF Front
<1>2. CASE fifo1 = <<>>
  <2>1. Front(packets, todo, fifo1) = Coming(packets, todo) BY <1>2 DEF Front
  <2>2. Size(packets, Len(packets)) \in Int BY SizesIn
  <2>3. ~Delivered(packets, todo, Coming(packets, todo))
    BY <1>0, <2>2 DEF Delivered, Coming
  <2>4. P!NoBeat \in P!Beat BY PcieAssumption DEF P!NoBeat, P!Beat, P!Paced
  <2>5. ASSUME NEW m \in 0..Len(packets), Coming(packets, todo).n = m,
               Within(packets, todo, gap, m, 0)
        PROVE  FALSE
    <3>1. m = Len(packets) /\ todo > 0 BY <1>0, <2>5 DEF Coming
    <3>2. todo * (MaxGap + 1) - gap <= 0 BY <2>5, <3>1 DEF Within
    <3>3. gap \in 0..MaxGap /\ MaxGap \in 0..3 BY PcieAssumption DEF QueueType, P!Paced
    <3>4. todo \in {1, 2, 3} BY <1>0, <3>1
    <3>5. CASE todo = 1 BY <3>2, <3>3, <3>5
    <3>6. CASE todo = 2 BY <3>2, <3>3, <3>6
    <3>7. CASE todo = 3 BY <3>2, <3>3, <3>7
    <3>8. QED BY <3>4, <3>5, <3>6, <3>7
  <2>6. QED BY <1>2, <2>1, <2>3, <2>4, <2>5
<1>3. QED BY <1>1, <1>2

-----------------------------------------------------------------------------
TheFront == Front(packets, todo, fifo1)
HeadBeat(j) == [n |-> headrega, i |-> j]
In(m, clocks) == Within(packets, todo, gap, m, clocks)
TheKind == KindIn(packets, headrega)

WriteStates == {"DATAST1", "DATAST2", "MEMWRST1", "MEMWRST2", "MEMWRST3", "MEMWRST4"}
ReadStates == {"MEMRDST1", "MEMRDST2", "MEMRDST3", "MEMRDST4"}

\* Where rxproc is in the packets.
PlaceInv ==
  /\ headrega \in 0..Len(packets)
  /\ rx_state \in {"IDLE", "RDHEAD1"} => TheFront = [n |-> headrega + 1, i |-> 1]
  /\ rx_state = "IDLE" => (rx.i = 1 => rx.n = headrega + 1)
  /\ rx_state = "RDHEAD1" =>
       /\ rx = [n |-> headrega + 1, i |-> 1] /\ Len(fifo1) >= 2 
       /\ headrega + 1 <= Len(packets) /\ In(headrega + 1, 7)
  /\ rx_state \notin {"IDLE", "RDHEAD1"} => Delivered(packets, todo, HeadBeat(2))
  /\ rx_state \in {"HEADPRO1", "RDHEAD2", "HEADPRO2", "WAITST1", "DATAST1"} \cup ReadStates =>
       TheFront = HeadBeat(2)
  /\ rx_state \in {"RDHEAD2", "HEADPRO2", "WAITST1", "DATAST1", "DATAST2"} => rx = HeadBeat(2)
  /\ rx_state = "HEADPRO1" => In(headrega, 6)
  /\ rx_state = "RDHEAD2" => In(headrega, 5)
  /\ rx_state = "HEADPRO2" => In(headrega, 4)
  /\ rx_state = "WAITST1" => In(headrega, 3)
  /\ rx_state \in WriteStates => TheKind \in {"push", "other", "even"}
  /\ rx_state \in ReadStates => TheKind = "read"
  /\ rx_state = "DATAST1" => TheKind = "even" /\ In(headrega, 2)
  /\ rx_state = "DATAST2" => In(headrega, 1)
  /\ rx_state \in WriteStates \ {"DATAST1", "DATAST2"} => In(headrega, 0)
  /\ rx_state \in WriteStates \ {"DATAST1"} =>
       TheFront = HeadBeat(IF TheKind = "even" THEN 3 ELSE 2)
  /\ rx_state \in {"UNSP1", "UNSP2"} =>
       /\ rx.n = headrega /\ rx.i >= 2 /\ rx.i <= Size(packets, headrega) 
       /\ rx.i = 2 => TheKind # "even"
  /\ rx_state = "UNSP1" =>
       /\ TheFront = rx /\ Delivered(packets, todo, rx)
       /\ In(headrega, IF rx.i = 2 THEN 2 ELSE 0)
  /\ rx_state = "UNSP2" =>
       /\ TheFront = HeadBeat(rx.i + 1) /\ rx.i < Size(packets, headrega)
       /\ In(headrega, IF rx.i = 2 THEN 1 ELSE 0)

\* The registers behind headrega.
HeadInv ==
  /\ headregb \in 0..Len(packets) /\ addr \in 0..Len(packets)
  /\ IF rx_state \in {"HEADPRO1", "RDHEAD2"} THEN headregb + 1 = headrega ELSE headregb = headrega
  /\ IF rx_state \in {"HEADPRO1", "RDHEAD2", "HEADPRO2"} THEN addr + 1 = headrega
     ELSE addr = headrega
  /\ memsel1 \in BOOLEAN /\ (memsel1 <=> KindIn(packets, headregb) \notin {"other", "none"})

RxInv == /\ QueueType /\ rx \in P!Beat /\ rx_state \in P!RxStates
         /\ FifoInv /\ PlaceInv /\ HeadInv

\* What all the steps of rxproc have in common, for the packet it is at or the next.
LEMMA Moves ==
  ASSUME RxInv, Arrival, P!rxproc, NEW m \in Nat, m <= Len(packets)
  PROVE  /\ QueueType' /\ FifoInv' /\ rx' \in P!Beat
         /\ m <= Len(packets')
         /\ KindIn(packets', m) = KindIn(packets, m) /\ Size(packets', m) = Size(packets, m)
         /\ \A j \in Nat : Delivered(packets, todo, [n |-> m, i |-> j])
                            => Delivered(packets', todo', [n |-> m, i |-> j])
         /\ \A cl \in 1..8 : In(m, cl) => Within(packets', todo', gap', m, cl - 1)
         /\ In(m, 0) => Within(packets', todo', gap', m, 0)
         /\ ~P!fiford => Front(packets', todo', fifo1') = TheFront
<1>1. QueueType /\ FifoInv BY DEF RxInv
<1>2. QueueType' /\ FifoInv' BY <1>1, FifoStep
<1>3. rx' \in P!Beat BY <1>1, HeadRead DEF P!rxproc
<1>4. m \in 0..Len(packets) /\ Len(packets) \in Nat /\ Len(packets') \in Nat
  BY <1>1, <1>2 DEF QueueType
<1>5. /\ KindIn(packets', m) = KindIn(packets, m) /\ Size(packets', m) = Size(packets, m)
      /\ Len(packets') \in {Len(packets), Len(packets) + 1}
  BY <1>1, <1>4, Kept
<1>6. ASSUME NEW j \in Nat, Delivered(packets, todo, [n |-> m, i |-> j])
      PROVE  Delivered(packets', todo', [n |-> m, i |-> j])
  BY <1>1, <1>6, StaysDelivered
<1>7. ASSUME NEW cl \in 1..8, In(m, cl) PROVE Within(packets', todo', gap', m, cl - 1)
  BY <1>1, <1>4, <1>7, ClocksPass DEF In
<1>8. In(m, 0) => Within(packets', todo', gap', m, 0)
  BY <1>1, <1>4, ClocksPass DEF In
<1>9. ~P!fiford => Front(packets', todo', fifo1') = TheFront BY <1>1, HeadMoves DEF TheFront
<1>10. QED BY <1>2, <1>3, <1>4, <1>5, <1>6, <1>7, <1>8, <1>9

\* The head of the queue, and the next head if rxproc reads.
LEMMA Reads ==
  ASSUME RxInv, Arrival, P!rxproc
  PROVE  /\ Delivered(packets, todo, TheFront) =>
              /\ fifo1 # <<>> /\ rx' = TheFront
              /\ P!fiford => Front(packets', todo', fifo1') = Succ(packets, TheFront)
         /\ fifo1 # <<>> => rx' = TheFront /\ Delivered(packets, todo, TheFront)
         /\ fifo1 = <<>> => rx' = P!NoBeat
         /\ \A m \in 0..Len(packets) : TheFront.n = m /\ In(m, 0) => fifo1 # <<>>
  BY HeadMoves, HeadRead DEF RxInv, P!rxproc, TheFront, In

LEMMA SizeOf ==
  ASSUME NEW ps, NEW m
  PROVE  Size(ps, m) = IF KindIn(ps, m) = "even" THEN 3
                       ELSE IF KindIn(ps, m) = "message" THEN 4 ELSE 2
  BY DEF Size, P!Beats

LEMMA PlaceIdle ==
  ASSUME RxInv, Arrival, P!rxproc, rx_state \in {"IDLE", "RDHEAD1"}
  PROVE  PlaceInv'
<1>0. /\ headrega \in Nat /\ headrega <= Len(packets) /\ Len(packets) \in Nat
      /\ TheFront = [n |-> headrega + 1, i |-> 1] /\ rx \in P!Beat
      /\ QueueType /\ FifoInv
  BY DEF RxInv, PlaceInv, QueueType
<1>1. headrega <= Len(packets') /\ QueueType' BY <1>0, Moves
<1>2. Len(packets') \in Nat BY <1>1 DEF QueueType
<1>3. CASE rx_state = "IDLE"
  <2>1. headrega' = headrega /\ ~P!fiford BY <1>3 DEF P!rxproc, P!fiford
  <2>2. Front(packets', todo', fifo1') = TheFront BY <1>0, <2>1, Moves
  <2>3. rx'.i = 1 => rx'.n = headrega + 1
    <3>1. fifo1 = <<>> => rx'.i # 1 BY Reads DEF P!NoBeat
    <3>2. fifo1 # <<>> => rx'.n = headrega + 1 BY <1>0, Reads
    <3>3. QED BY <3>1, <3>2
  <2>4. CASE ~(P!rxen /\ P!SOP(rx))
    <3>1. rx_state' = "IDLE" BY <1>3, <2>4 DEF P!rxproc, P!NextRx
    <3>2. QED
      BY <1>0, <1>1, <1>2, <2>1, <2>2, <2>3, <3>1 DEF PlaceInv, TheFront, WriteStates, ReadStates
  <2>5. CASE P!rxen /\ P!SOP(rx)
    <3>1. rx_state' = "RDHEAD1" BY <1>3, <2>5 DEF P!rxproc, P!NextRx
    <3>2. Len(fifo1) >= 2 /\ fifo1 # <<>> BY <1>0, <2>5, EmptySeq DEF P!rxen, QueueType
    <3>3. rx' = [n |-> headrega + 1, i |-> 1] /\ Delivered(packets, todo, TheFront)
      BY <1>0, <3>2, Reads
    <3>4. headrega + 1 <= Len(packets) BY <1>0, <3>3 DEF Delivered
    <3>5. Len(fifo1') >= 2
      <4>1. P!AfterRead = fifo1 BY <2>1 DEF P!AfterRead
      <4>2. fifo1' = fifo1 \/ fifo1' = Append(fifo1, Coming(packets, todo))
        BY <1>0, <4>1, Arrives, Paused DEF Arrival
      <4>3. QED BY <1>0, <3>2, <4>2 DEF QueueType
    <3>6. Delivered(packets, todo, [n |-> headrega + 1, i |-> 2])
      <4>1. fifo1[1] = [n |-> headrega + 1, i |-> 1] BY <1>0, <3>2 DEF TheFront, Front
      <4>2. 1 \in 1..(Len(fifo1) - 1) /\ 2 \in 1..Len(fifo1) BY <1>0, <3>2 DEF QueueType
      <4>3. fifo1[2] = Succ(packets, fifo1[1]) BY <1>0, <4>2 DEF FifoInv, Chained
      <4>4. Succ(packets, fifo1[1]) = [n |-> headrega + 1, i |-> 2] BY <4>1, SizesIn DEF Succ
      <4>5. Delivered(packets, todo, fifo1[2]) BY <1>0, <4>2 DEF FifoInv, Chained
      <4>6. QED BY <4>3, <4>4, <4>5
    <3>7. In(headrega + 1, 8)
      <4>1. SUFFICES ASSUME headrega + 1 = Len(packets) PROVE todo * (MaxGap + 1) - gap <= 8
        BY DEF In, Within
      <4>2. 2 <= Size(packets, headrega + 1) - todo BY <3>6, <4>1 DEF Delivered
      <4>3. todo \in {0, 1, 2} BY <1>0, <4>2, SizesIn DEF QueueType
      <4>4. gap \in 0..MaxGap /\ MaxGap \in 0..3 BY <1>0, PcieAssumption DEF QueueType, P!Paced
      <4>5. CASE todo = 0 BY <4>4, <4>5
      <4>6. CASE todo = 1 BY <4>4, <4>6
      <4>7. CASE todo = 2 BY <4>4, <4>7
      <4>8. QED BY <4>3, <4>5, <4>6, <4>7
    <3>8. Within(packets', todo', gap', headrega + 1, 8 - 1) /\ headrega + 1 <= Len(packets')
      BY <1>0, <3>4, <3>7, Moves
    <3>9. QED BY <1>0, <1>1, <1>2, <2>1, <2>2, <3>1, <3>3, <3>5, <3>8
            DEF PlaceInv, TheFront, WriteStates, ReadStates, In
  <2>6. QED BY <2>4, <2>5
<1>4. CASE rx_state = "RDHEAD1"
  <2>1. /\ rx = [n |-> headrega + 1, i |-> 1] /\ Len(fifo1) >= 2
        /\ headrega + 1 <= Len(packets) /\ In(headrega + 1, 7)
    BY <1>4 DEF RxInv, PlaceInv
  <2>2. rx_state' = "HEADPRO1" /\ headrega' = headrega + 1 /\ P!fiford
    BY <1>4, <2>1 DEF P!rxproc, P!NextRx, P!fiford
  <2>3. Delivered(packets, todo, [n |-> headrega + 1, i |-> 1])
        /\ Delivered(packets, todo, [n |-> headrega + 1, i |-> 2])
    <3>1. fifo1[1] = [n |-> headrega + 1, i |-> 1]
      BY <1>0, <2>1, EmptySeq DEF TheFront, Front, QueueType
    <3>2. 1 \in 1..(Len(fifo1) - 1) /\ 1 \in 1..Len(fifo1) /\ 2 \in 1..Len(fifo1)
      BY <1>0, <2>1 DEF QueueType
    <3>3. fifo1[2] = Succ(packets, fifo1[1]) BY <1>0, <3>2 DEF FifoInv, Chained
    <3>4. Succ(packets, fifo1[1]) = [n |-> headrega + 1, i |-> 2] BY <3>1, SizesIn DEF Succ
    <3>5. Delivered(packets, todo, fifo1[1]) /\ Delivered(packets, todo, fifo1[2])
      BY <1>0, <3>2 DEF FifoInv, Chained
    <3>6. QED BY <3>1, <3>3, <3>4, <3>5
  <2>4. Front(packets', todo', fifo1') = [n |-> headrega + 1, i |-> 2]
    <3>1. Front(packets', todo', fifo1') = Succ(packets, TheFront) BY <1>0, <2>2, <2>3, Reads
    <3>2. QED BY <1>0, <3>1, SizesIn DEF Succ
  <2>5. headrega + 1 \in Nat BY <1>0
  <2>6. /\ Delivered(packets', todo', [n |-> headrega + 1, i |-> 2])
        /\ Within(packets', todo', gap', headrega + 1, 7 - 1) /\ headrega + 1 <= Len(packets')
    BY <2>1, <2>3, <2>5, Moves
  <2>7. QED BY <1>2, <2>2, <2>4, <2>5, <2>6
          DEF PlaceInv, TheFront, WriteStates, ReadStates, In, HeadBeat
<1>5. QED BY <1>3, <1>4

LEMMA PlaceHead ==
  ASSUME RxInv, Arrival, P!rxproc, rx_state \in {"HEADPRO1", "RDHEAD2", "HEADPRO2", "WAITST1"}
  PROVE  PlaceInv'
<1>0. /\ headrega \in Nat /\ headrega <= Len(packets) /\ Len(packets) \in Nat
      /\ TheFront = HeadBeat(2) /\ Delivered(packets, todo, HeadBeat(2))
      /\ QueueType /\ FifoInv
  BY DEF RxInv, PlaceInv, QueueType
<1>1. /\ headrega <= Len(packets') /\ QueueType'
      /\ KindIn(packets', headrega) = TheKind
      /\ Size(packets', headrega) = Size(packets, headrega)
  BY <1>0, Moves DEF TheKind
<1>2. Len(packets') \in Nat BY <1>1 DEF QueueType
<1>3. headrega' = headrega /\ ~P!fiford BY DEF P!rxproc, P!fiford
<1>4. Front(packets', todo', fifo1') = HeadBeat(2) BY <1>0, <1>3, Moves
<1>5. rx' = HeadBeat(2) BY <1>0, Reads
<1>6. Delivered(packets', todo', HeadBeat(2)) BY <1>0, Moves DEF HeadBeat
<1>7. HeadBeat(2)' = HeadBeat(2) BY <1>3 DEF HeadBeat
<1>8. CASE rx_state = "HEADPRO1"
  <2>1. rx_state' = "RDHEAD2" BY <1>8 DEF P!rxproc, P!NextRx
  <2>2. In(headrega, 6) BY <1>8 DEF RxInv, PlaceInv
  <2>3. Within(packets', todo', gap', headrega, 6 - 1) BY <1>0, <2>2, Moves
  <2>4. QED BY <1>0, <1>1, <1>2, <1>3, <1>4, <1>5, <1>6, <1>7, <2>1, <2>3
          DEF PlaceInv, TheFront, WriteStates, ReadStates, In
<1>9. CASE rx_state = "RDHEAD2"
  <2>1. rx_state' = "HEADPRO2" BY <1>9 DEF P!rxproc, P!NextRx
  <2>2. In(headrega, 5) BY <1>9 DEF RxInv, PlaceInv
  <2>3. Within(packets', todo', gap', headrega, 5 - 1) BY <1>0, <2>2, Moves
  <2>4. QED BY <1>0, <1>1, <1>2, <1>3, <1>4, <1>5, <1>6, <1>7, <2>1, <2>3
          DEF PlaceInv, TheFront, WriteStates, ReadStates, In
<1>10. CASE rx_state = "HEADPRO2"
  <2>1. rx_state' = "WAITST1" BY <1>10 DEF P!rxproc, P!NextRx
  <2>2. In(headrega, 4) BY <1>10 DEF RxInv, PlaceInv
  <2>3. Within(packets', todo', gap', headrega, 4 - 1) BY <1>0, <2>2, Moves
  <2>4. QED BY <1>0, <1>1, <1>2, <1>3, <1>4, <1>5, <1>6, <1>7, <2>1, <2>3
          DEF PlaceInv, TheFront, WriteStates, ReadStates, In
<1>11. CASE rx_state = "WAITST1"
  <2>1. In(headrega, 3) BY <1>11 DEF RxInv, PlaceInv
  <2>2. Within(packets', todo', gap', headrega, 3 - 1) BY <1>0, <2>1, Moves
  <2>3. headrega \in 1..Len(packets) /\ 2 <= Size(packets, headrega)
    BY <1>0 DEF Delivered, HeadBeat
  <2>4. addr = headrega /\ P!Kind(headrega) = TheKind /\ TheKind \in P!Kinds
    BY <1>0, <1>11, <2>3 DEF RxInv, HeadInv, P!Kind, TheKind, KindIn, QueueType
  <2>5. TheKind' = TheKind BY <1>1, <1>3 DEF TheKind
  <2>6. Within(packets', todo', gap', headrega, 1) \/ TheKind \in {"even", "read", "message"}
    <3>1. SUFFICES ASSUME TheKind \in {"push", "other"}, headrega = Len(packets')
                   PROVE  todo' * (MaxGap + 1) - gap' <= 1
      BY <2>4 DEF Within, P!Kinds
    <3>2. Size(packets', headrega) = 2 BY <1>1, <3>1, SizeOf DEF TheKind
    <3>6. 2 <= Size(packets', headrega) - todo' BY <1>6, <3>1 DEF Delivered, HeadBeat
    <3>7. todo' \in 0..3 BY <1>1 DEF QueueType
    <3>4. gap' \in 0..MaxGap /\ MaxGap \in 0..3 BY <1>1, PcieAssumption DEF QueueType, P!Paced
    <3> DEFINE more == todo'
               idle == gap'
    <3>8. more \in 0..3 /\ idle \in 0..MaxGap /\ 2 <= 2 - more BY <3>2, <3>4, <3>6, <3>7
    <3> HIDE DEF more, idle
    <3>9. more * (MaxGap + 1) - idle <= 1
      <4>1. more = 0 BY <3>8
      <4>2. QED BY <3>4, <3>8, <4>1
    <3>5. QED BY <3>9 DEF more, idle
  <2>7. CASE TheKind \in {"push", "other"}
    <3>1. rx_state' = "DATAST2"
      BY <1>11, <2>4, <2>7 DEF P!rxproc, P!NextRx, P!Decode, P!memwrsel, P!memrdsel, P!Odd
    <3>2. QED BY <1>0, <1>1, <1>2, <1>3, <1>4, <1>5, <1>6, <1>7, <2>4, <2>5, <2>6, <2>7, <3>1
            DEF PlaceInv, TheFront, WriteStates, ReadStates, In
  <2>8. CASE TheKind = "even"
    <3>1. rx_state' = "DATAST1"
      BY <1>11, <2>4, <2>8 DEF P!rxproc, P!NextRx, P!Decode, P!memwrsel, P!memrdsel, P!Odd
    <3>2. QED BY <1>0, <1>1, <1>2, <1>3, <1>4, <1>5, <1>6, <1>7, <2>2, <2>4, <2>5, <2>8, <3>1
            DEF PlaceInv, TheFront, WriteStates, ReadStates, In
  <2>9. CASE TheKind = "read"
    <3>1. rx_state' = "MEMRDST1"
      BY <1>11, <2>4, <2>9 DEF P!rxproc, P!NextRx, P!Decode, P!memwrsel, P!memrdsel, P!Odd
    <3>2. QED BY <1>0, <1>1, <1>2, <1>3, <1>4, <1>5, <1>6, <1>7, <2>4, <2>5, <2>9, <3>1
            DEF PlaceInv, TheFront, WriteStates, ReadStates, In
  <2>10. CASE TheKind = "message"
    <3>1. rx_state' = "UNSP1"
      BY <1>11, <2>4, <2>10 DEF P!rxproc, P!NextRx, P!Decode, P!memwrsel, P!memrdsel, P!Odd
    <3>2. rx'.n = headrega /\ rx'.i = 2 BY <1>5 DEF HeadBeat
    <3>3. 2 <= Size(packets', headrega) BY <1>1, <2>3
    <3>4. QED
      BY <1>0, <1>1, <1>2, <1>3, <1>4, <1>5, <1>6, <1>7, <2>2, <2>4, <2>5, <2>10, <3>1, <3>2, <3>3
            DEF PlaceInv, TheFront, WriteStates, ReadStates, In
  <2>11. QED BY <2>4, <2>7, <2>8, <2>9, <2>10 DEF P!Kinds
<1>12. QED BY <1>8, <1>9, <1>10, <1>11

LEMMA PlaceWrite ==
  ASSUME RxInv, Arrival, P!rxproc, rx_state \in WriteStates
  PROVE  PlaceInv'
<1>0. /\ headrega \in Nat /\ headrega <= Len(packets) /\ Len(packets) \in Nat
      /\ Delivered(packets, todo, HeadBeat(2)) /\ TheKind \in {"push", "other", "even"}
      /\ QueueType /\ FifoInv
  BY DEF RxInv, PlaceInv, QueueType, WriteStates
<1>1. /\ headrega <= Len(packets') /\ QueueType'
      /\ KindIn(packets', headrega) = TheKind
      /\ Size(packets', headrega) = Size(packets, headrega)
  BY <1>0, Moves DEF TheKind
<1>2. Len(packets') \in Nat BY <1>1 DEF QueueType
<1>3. headrega' = headrega BY DEF P!rxproc, WriteStates
<1>4. Delivered(packets', todo', HeadBeat(2)) BY <1>0, Moves DEF HeadBeat
<1>5. \A j \in 1..3 : HeadBeat(j)' = HeadBeat(j) BY <1>3 DEF HeadBeat
<1>6. TheKind' = TheKind BY <1>1, <1>3 DEF TheKind
<1>7. CASE rx_state = "DATAST1"
  <2>1. /\ rx_state' = "DATAST2" /\ TheFront = HeadBeat(2) /\ TheKind = "even" /\ P!fiford
        /\ In(headrega, 2)
    BY <1>7 DEF P!rxproc, P!NextRx, RxInv, PlaceInv, P!fiford
  <2>2. rx' = HeadBeat(2) /\ Front(packets', todo', fifo1') = Succ(packets, HeadBeat(2))
    BY <1>0, <2>1, Reads
  <2>3. Succ(packets, HeadBeat(2)) = HeadBeat(3) BY <2>1, SizeOf DEF Succ, HeadBeat, TheKind
  <2>4. Within(packets', todo', gap', headrega, 2 - 1) BY <1>0, <2>1, Moves
  <2>5. QED BY <1>0, <1>1, <1>2, <1>3, <1>4, <1>5, <1>6, <2>1, <2>2, <2>3, <2>4
          DEF PlaceInv, TheFront, WriteStates, ReadStates, In
<1>8. CASE rx_state \in WriteStates \ {"DATAST1"}
  <2>1. TheFront = HeadBeat(IF TheKind = "even" THEN 3 ELSE 2) /\ ~P!fiford
    BY <1>8 DEF RxInv, PlaceInv, P!fiford, WriteStates
  <2>2. Front(packets', todo', fifo1') = HeadBeat(IF TheKind = "even" THEN 3 ELSE 2)
    BY <1>0, <2>1, Moves
  <2>3. HeadBeat(IF TheKind = "even" THEN 3 ELSE 2)' = HeadBeat(IF TheKind = "even" THEN 3 ELSE 2)
    BY <1>3, <1>6 DEF HeadBeat
  <2>4. TheFront' = HeadBeat(IF TheKind = "even" THEN 3 ELSE 2)' BY <2>2, <2>3 DEF TheFront
  <2>5. CASE rx_state = "DATAST2"
    <3>1. rx_state' = "MEMWRST1" BY <2>5 DEF P!rxproc, P!NextRx
    <3>2. In(headrega, 1) BY <2>5 DEF RxInv, PlaceInv
    <3>3. Within(packets', todo', gap', headrega, 1 - 1) BY <1>0, <3>2, Moves
    <3>4. In(headrega, 0)' BY <1>3, <3>3 DEF In
    <3>5. QED BY <1>0, <1>1, <1>2, <1>3, <1>4, <1>5, <1>6, <2>4, <3>1, <3>4
          DEF PlaceInv, WriteStates, ReadStates
  <2>6. CASE rx_state \in WriteStates \ {"DATAST1", "DATAST2"}
    <3>1. In(headrega, 0) BY <2>6 DEF RxInv, PlaceInv
    <3>2. In(headrega, 0)' BY <1>0, <1>3, <3>1, Moves DEF In
    <3>3. CASE rx_state # "MEMWRST4"
      <4>1. rx_state' \in WriteStates \ {"DATAST1", "DATAST2"}
        BY <2>6, <3>3 DEF P!rxproc, P!NextRx, WriteStates
      <4>2. QED BY <1>0, <1>1, <1>2, <1>3, <1>4, <1>5, <1>6, <2>4, <3>2, <4>1
          DEF PlaceInv, WriteStates, ReadStates
    <3>4. CASE rx_state = "MEMWRST4"
      <4>1. rx_state' = "UNSP1" BY <3>4 DEF P!rxproc, P!NextRx
      <4>2. headrega \in 0..Len(packets) /\ TheFront.n = headrega BY <1>0, <2>1 DEF HeadBeat
      <4>3. rx' = TheFront /\ Delivered(packets, todo, TheFront) BY <3>1, <4>2, Reads
      <4>4. rx'.n = headrega /\ rx'.i = (IF TheKind = "even" THEN 3 ELSE 2)
        BY <2>1, <4>3 DEF HeadBeat
      <4>5. Delivered(packets', todo', rx') BY <1>0, <2>1, <4>3, Moves DEF HeadBeat
      <4>6. rx'.i <= Size(packets', headrega) BY <1>1, <4>4, SizeOf DEF TheKind
      <4>7. In(headrega, IF rx.i = 2 THEN 2 ELSE 0)'
        <5>1. Within(packets', todo', gap', headrega, 0) BY <1>3, <3>2 DEF In
        <5> DEFINE more == todo'
                   idle == gap'
        <5>3. more \in 0..3 /\ idle \in 0..MaxGap /\ MaxGap \in 0..3
          BY <1>1, PcieAssumption DEF QueueType, P!Paced
        <5> HIDE DEF more, idle
        <5>4. more * (MaxGap + 1) - idle <= 0 => more * (MaxGap + 1) - idle <= 2
          <6>1. more \in {0, 1, 2, 3} BY <5>3
          <6>2. CASE more = 0 BY <5>3, <6>2
          <6>3. CASE more = 1 BY <5>3, <6>3
          <6>4. CASE more = 2 BY <5>3, <6>4
          <6>5. CASE more = 3 BY <5>3, <6>5
          <6>6. QED BY <6>1, <6>2, <6>3, <6>4, <6>5
        <5>5. Within(packets', todo', gap', headrega, 2) BY <5>1, <5>4 DEF Within, more, idle
        <5>6. QED BY <1>3, <5>1, <5>5 DEF In
      <4>8. TheFront' = rx' BY <2>1, <2>2, <4>3 DEF TheFront
      <4>9. rx'.i >= 2 /\ (rx'.i = 2 => TheKind # "even") BY <4>4
      <4>11. HeadBeat(2)' = HeadBeat(2) BY <1>3 DEF HeadBeat
      <4>10. QED
        BY <1>0, <1>1, <1>2, <1>3, <1>4, <4>11, <1>6, <4>1, <4>4, <4>5, <4>6, <4>7, <4>8, <4>9
          DEF PlaceInv, WriteStates, ReadStates
    <3>5. QED BY <3>3, <3>4
  <2>7. QED BY <1>8, <2>5, <2>6 DEF WriteStates
<1>9. QED BY <1>7, <1>8

LEMMA PlaceRead ==
  ASSUME RxInv, Arrival, P!rxproc, rx_state \in ReadStates
  PROVE  PlaceInv'
<1>0. /\ headrega \in Nat /\ headrega <= Len(packets) /\ Len(packets) \in Nat
      /\ Delivered(packets, todo, HeadBeat(2)) /\ TheKind = "read"
      /\ QueueType /\ FifoInv /\ TheFront = HeadBeat(2)
  BY DEF RxInv, PlaceInv, QueueType, ReadStates
<1>1. /\ headrega <= Len(packets') /\ QueueType'
      /\ KindIn(packets', headrega) = TheKind
      /\ Size(packets', headrega) = Size(packets, headrega)
  BY <1>0, Moves DEF TheKind
<1>2. Len(packets') \in Nat BY <1>1 DEF QueueType
<1>3. headrega' = headrega /\ ~P!fiford BY DEF P!rxproc, ReadStates, P!fiford
<1>4. Delivered(packets', todo', HeadBeat(2)) BY <1>0, Moves DEF HeadBeat
<1>5. HeadBeat(2)' = HeadBeat(2) BY <1>3 DEF HeadBeat
<1>6. TheKind' = TheKind BY <1>1, <1>3 DEF TheKind
<1>7. TheFront' = HeadBeat(2) BY <1>0, <1>3, Moves DEF TheFront
<1>8. CASE rx_state # "MEMRDST4"
  <2>1. rx_state' \in ReadStates BY <1>8 DEF P!rxproc, P!NextRx, ReadStates, P!AfterRequest
  <2>2. QED BY <1>0, <1>1, <1>2, <1>3, <1>4, <1>5, <1>6, <1>7, <2>1
          DEF PlaceInv, WriteStates, ReadStates
<1>9. CASE rx_state = "MEMRDST4"
  <2>1. rx_state' = "UNSP1" BY <1>9 DEF P!rxproc, P!NextRx
  <2>2. rx' = HeadBeat(2) BY <1>0, Reads
  <2>3. rx'.n = headrega /\ rx'.i = 2 BY <2>2 DEF HeadBeat
  <2>4. 2 <= Size(packets', headrega) BY SizesIn
  <2>5. Within(packets', todo', gap', headrega, 2)
    <3>1. SUFFICES ASSUME headrega = Len(packets')
                   PROVE  todo' * (MaxGap + 1) - gap' <= 2
      BY DEF Within
    <3>2. Size(packets', headrega) = 2 BY <1>0, <1>1, SizeOf DEF TheKind
    <3>3. 2 <= Size(packets', headrega) - todo' BY <1>4, <3>1 DEF Delivered, HeadBeat
    <3> DEFINE more == todo'
               idle == gap'
    <3>4. more \in 0..3 /\ idle \in 0..MaxGap /\ MaxGap \in 0..3
      BY <1>1, PcieAssumption DEF QueueType, P!Paced
    <3>5. 2 <= 2 - more BY <3>2, <3>3
    <3> HIDE DEF more, idle
    <3>6. more = 0 BY <3>4, <3>5
    <3>7. more * (MaxGap + 1) - idle <= 2 BY <3>4, <3>6
    <3>8. QED BY <3>7 DEF more, idle
  <2>6. QED BY <1>0, <1>1, <1>2, <1>3, <1>4, <1>5, <1>6, <1>7, <2>1, <2>2, <2>3, <2>4, <2>5
          DEF PlaceInv, WriteStates, ReadStates, In
<1>10. QED BY <1>8, <1>9

LEMMA PlaceEnd ==
  ASSUME RxInv, Arrival, P!rxproc, rx_state \in {"UNSP1", "UNSP2"}
  PROVE  PlaceInv'
<1>0. /\ headrega \in Nat /\ headrega <= Len(packets) /\ Len(packets) \in Nat
      /\ Delivered(packets, todo, HeadBeat(2)) /\ rx \in P!Beat
      /\ QueueType /\ FifoInv /\ rx.n = headrega /\ rx.i >= 2 /\ rx.i <= Size(packets, headrega)
      /\ rx.i = 2 => TheKind # "even"
  BY DEF RxInv, PlaceInv, QueueType
<1>1. /\ headrega <= Len(packets') /\ QueueType'
      /\ KindIn(packets', headrega) = TheKind
      /\ Size(packets', headrega) = Size(packets, headrega)
  BY <1>0, Moves DEF TheKind
<1>2. Len(packets') \in Nat BY <1>1 DEF QueueType
<1>3. headrega' = headrega BY DEF P!rxproc
<1>4. Delivered(packets', todo', HeadBeat(2)) BY <1>0, Moves DEF HeadBeat
<1>5. HeadBeat(2)' = HeadBeat(2) BY <1>3 DEF HeadBeat
<1>6. TheKind' = TheKind BY <1>1, <1>3 DEF TheKind
<1>7. rx.i \in 2..4 /\ rx = [n |-> headrega, i |-> rx.i] BY <1>0 DEF P!Beat
<1>8. headrega > 0 /\ headrega \in 1..Len(packets) BY <1>0 DEF Delivered, HeadBeat
<1>9. P!Kind(headrega) = TheKind /\ P!Beats(P!Kind(headrega)) = Size(packets, headrega)
  BY <1>8 DEF P!Kind, TheKind, KindIn, Size
<1>10. CASE rx_state = "UNSP1"
  <2>1. /\ TheFront = rx /\ Delivered(packets, todo, rx) /\ P!fiford
        /\ In(headrega, IF rx.i = 2 THEN 2 ELSE 0)
    BY <1>10 DEF RxInv, PlaceInv, P!fiford
  <2>2. rx' = rx /\ Front(packets', todo', fifo1') = Succ(packets, rx) BY <2>1, Reads
  <2>3. CASE rx.i = Size(packets, headrega)
    <3>1. P!EOP(rx) BY <1>0, <1>8, <1>9, <1>7, <2>3 DEF P!EOP, P!NoBeat
    <3>2. rx_state' = "IDLE" BY <1>10, <3>1 DEF P!rxproc, P!NextRx, P!ToEnd
    <3>3. Succ(packets, rx) = [n |-> headrega + 1, i |-> 1] BY <1>0, <2>3 DEF Succ
    <3>4. QED BY <1>0, <1>1, <1>2, <1>3, <1>7, <2>2, <3>2, <3>3
            DEF PlaceInv, WriteStates, ReadStates, TheFront
  <2>4. CASE rx.i # Size(packets, headrega)
    <3>1. ~P!EOP(rx) BY <1>0, <1>9, <2>4 DEF P!EOP
    <3>2. rx_state' = "UNSP2" BY <1>10, <3>1 DEF P!rxproc, P!NextRx, P!ToEnd
    <3>3. Succ(packets, rx) = HeadBeat(rx.i + 1) BY <1>0, <2>4 DEF Succ, HeadBeat
    <3>4. TheFront' = HeadBeat(rx.i + 1)' BY <1>3, <2>2, <3>3 DEF TheFront, HeadBeat
    <3>5. Size(packets, headrega) \in Int BY SizesIn
    <3>6. rx'.i < Size(packets', headrega) BY <1>0, <1>1, <1>7, <2>2, <2>4, <3>5
    <3>7. Within(packets', todo', gap', headrega, IF rx'.i = 2 THEN 1 ELSE 0)
      <4>1. CASE rx.i = 2
        <5>1. Within(packets', todo', gap', headrega, 2 - 1) BY <1>0, <2>1, <4>1, Moves
        <5>2. QED BY <2>2, <4>1, <5>1
      <4>2. CASE rx.i # 2
        <5>1. Within(packets', todo', gap', headrega, 0) BY <1>0, <2>1, <4>2, Moves
        <5>2. QED BY <2>2, <4>2, <5>1
      <4>3. QED BY <4>1, <4>2
    <3>8. /\ rx'.n = headrega' /\ rx'.i >= 2 /\ rx'.i <= Size(packets', headrega')
          /\ (rx'.i = 2 => TheKind' # "even")
      BY <1>0, <1>1, <1>3, <1>6, <2>2
    <3>9. QED BY <1>0, <1>1, <1>2, <1>3, <1>4, <1>5, <3>2, <3>4, <3>6, <3>7, <3>8
            DEF PlaceInv, WriteStates, ReadStates, In
  <2>5. QED BY <2>3, <2>4
<1>11. CASE rx_state = "UNSP2"
  <2>1. /\ TheFront = HeadBeat(rx.i + 1) /\ rx.i < Size(packets, headrega) /\ ~P!fiford
        /\ In(headrega, IF rx.i = 2 THEN 1 ELSE 0)
    BY <1>11 DEF RxInv, PlaceInv, P!fiford
  <2>2. rx_state' = "UNSP1" BY <1>11 DEF P!rxproc, P!NextRx
  <2>3. Front(packets', todo', fifo1') = HeadBeat(rx.i + 1) BY <1>0, <2>1, Moves
  <2>4. headrega \in 0..Len(packets) /\ TheFront.n = headrega BY <1>0, <2>1 DEF HeadBeat
  <2>5. fifo1 # <<>>
    <3>1. CASE rx.i # 2 BY <2>1, <2>4, <3>1, Reads
    <3>2. CASE rx.i = 2
      <4>1. SUFFICES ASSUME fifo1 = <<>> PROVE FALSE OBVIOUS
      <4>2. Size(packets, headrega) = 4 BY <1>0, <2>1, <3>2, SizeOf DEF TheKind
      <4>3. TheFront = Coming(packets, todo) BY <4>1 DEF TheFront, Front
      <4>4. headrega = Len(packets) /\ todo = 2
        <5>1. CASE todo = 0
          <6>1. Len(packets) + 1 = headrega BY <2>4, <4>3, <5>1 DEF Coming
          <6>2. QED BY <1>0, <6>1
        <5>2. CASE todo # 0
          <6>1. /\ Len(packets) = headrega /\ Size(packets, Len(packets)) - todo + 1 = rx.i + 1
            BY <2>1, <4>3, <5>2 DEF Coming, HeadBeat
          <6>2. QED BY <1>0, <3>2, <4>2, <6>1 DEF QueueType
        <5>3. QED BY <5>1, <5>2
      <4>5. In(headrega, 1) BY <2>1, <3>2
      <4>6. 2 * (MaxGap + 1) - gap <= 1 BY <4>4, <4>5 DEF In, Within
      <4>7. gap \in 0..MaxGap /\ MaxGap \in 0..3 BY <1>0, PcieAssumption DEF QueueType, P!Paced
      <4>8. QED BY <4>6, <4>7
    <3>3. QED BY <3>1, <3>2
  <2>6. rx' = HeadBeat(rx.i + 1) /\ Delivered(packets, todo, HeadBeat(rx.i + 1))
    BY <2>1, <2>5, Reads
  <2>7. rx'.n = headrega /\ rx'.i = rx.i + 1 BY <2>6 DEF HeadBeat
  <2>8. rx'.i \in 3..5 /\ rx'.i # 2 BY <1>7, <2>7
  <2>9. Size(packets, headrega) \in Int BY SizesIn
  <2>10. rx'.i <= Size(packets', headrega) BY <1>1, <1>7, <2>1, <2>7, <2>9
  <2>11. Delivered(packets', todo', rx')
    <3>1. rx.i + 1 \in Nat BY <1>7
    <3>2. QED BY <1>0, <2>6, <3>1, Moves DEF HeadBeat
  <2>12. Within(packets', todo', gap', headrega, 0)
    <3>1. CASE rx.i = 2
      <4>1. Within(packets', todo', gap', headrega, 1 - 1) BY <1>0, <2>1, <3>1, Moves
      <4>2. QED BY <4>1
    <3>2. CASE rx.i # 2 BY <1>0, <2>1, <3>2, Moves
    <3>3. QED BY <3>1, <3>2
  <2>13. TheFront' = rx' BY <2>3, <2>6 DEF TheFront
  <2>14. In(headrega, IF rx.i = 2 THEN 2 ELSE 0)' BY <1>3, <2>8, <2>12 DEF In
  <2>15. rx'.i >= 2 BY <2>8
  <2>16. QED
    BY <1>0, <1>1, <1>2, <1>3, <1>4, <1>5, <2>2, <2>7, <2>8, <2>10, <2>11, <2>13, <2>14, <2>15
            DEF PlaceInv, WriteStates, ReadStates
<1>12. QED BY <1>10, <1>11

LEMMA RxStep ==
  ASSUME RxInv, Arrival, P!rxproc
  PROVE  RxInv'
<1>0. /\ headrega \in Nat /\ headrega <= Len(packets) /\ Len(packets) \in Nat
      /\ QueueType /\ FifoInv /\ rx_state \in P!RxStates
  BY DEF RxInv, PlaceInv, QueueType
<1>1. PlaceInv'
  <2>1. \/ rx_state \in {"IDLE", "RDHEAD1"}
        \/ rx_state \in {"HEADPRO1", "RDHEAD2", "HEADPRO2", "WAITST1"}
        \/ rx_state \in WriteStates \/ rx_state \in ReadStates \/ rx_state \in {"UNSP1", "UNSP2"}
    BY <1>0 DEF P!RxStates, WriteStates, ReadStates
  <2>2. QED BY <2>1, PlaceIdle, PlaceHead, PlaceWrite, PlaceRead, PlaceEnd
<1>2. QueueType' /\ FifoInv' /\ rx' \in P!Beat BY <1>0, Moves
<1>3. rx_state' \in P!RxStates
  <2>1. rx_state' = P!NextRx BY DEF P!rxproc
  <2>2. P!NextRx \in P!RxStates
    BY <1>0 DEF P!NextRx, P!RxStates, P!Decode, P!AfterRequest, P!ToEnd
  <2>3. QED BY <2>1, <2>2
<1>4. HeadInv'
  <2>1. /\ headregb \in 0..Len(packets) /\ addr \in 0..Len(packets)
        /\ memsel1 \in BOOLEAN /\ (memsel1 <=> KindIn(packets, headregb) \notin {"other", "none"})
    BY DEF RxInv, HeadInv
  <2>2. Len(packets') \in Nat /\ Len(packets') >= Len(packets) BY <1>0, Kept
  <2>3. addr' = headregb BY DEF P!rxproc
  <2>4. CASE rx_state = "RDHEAD2"
    <3>1. rx = HeadBeat(2) /\ Delivered(packets, todo, HeadBeat(2)) BY <2>4 DEF RxInv, PlaceInv
    <3>2. rx.n = headrega /\ headrega \in 1..Len(packets) BY <3>1 DEF HeadBeat, Delivered
    <3>3. headregb' = headrega /\ memsel1' \in BOOLEAN /\ (memsel1' <=> P!Kind(headrega) \notin {"other", "none"})
      BY <2>4, <3>2 DEF P!rxproc
    <3>4. P!Kind(headrega) = KindIn(packets', headrega) BY <1>0, <3>2, Kept DEF P!Kind, KindIn
    <3>5. rx_state' = "HEADPRO2" /\ headrega' = headrega BY <2>4 DEF P!rxproc, P!NextRx
    <3>6. headregb + 1 = headrega BY <2>4 DEF RxInv, HeadInv
    <3>7. QED BY <1>0, <2>1, <2>2, <2>3, <3>2, <3>3, <3>4, <3>5, <3>6 DEF HeadInv
  <2>5. CASE rx_state # "RDHEAD2"
    <3>1. headregb' = headregb /\ memsel1' = memsel1 BY <2>5 DEF P!rxproc
    <3>2. KindIn(packets', headregb) = KindIn(packets, headregb) BY <1>0, <2>1, Kept
    <3>3. CASE rx_state = "RDHEAD1"
      <4>1. rx_state' = "HEADPRO1" /\ headrega' = headrega + 1 
        BY <3>3 DEF P!rxproc, P!NextRx, RxInv, PlaceInv
      <4>2. headregb = headrega BY <3>3 DEF RxInv, HeadInv
      <4>3. QED BY <1>0, <2>1, <2>2, <2>3, <3>1, <3>2, <4>1, <4>2 DEF HeadInv
    <3>4. CASE rx_state = "HEADPRO1"
      <4>1. rx_state' = "RDHEAD2" /\ headrega' = headrega BY <3>4 DEF P!rxproc, P!NextRx
      <4>2. headregb + 1 = headrega BY <3>4 DEF RxInv, HeadInv
      <4>3. QED BY <1>0, <2>1, <2>2, <2>3, <3>1, <3>2, <4>1, <4>2 DEF HeadInv
    <3>5. CASE rx_state \notin {"RDHEAD1", "HEADPRO1"}
      <4>1. rx_state' \notin {"HEADPRO1", "RDHEAD2", "HEADPRO2"} /\ headrega' = headrega
        BY <1>0, <2>5, <3>5 DEF P!rxproc, P!NextRx, P!RxStates, P!Decode, P!AfterRequest, P!ToEnd
      <4>2. headregb = headrega BY <2>5, <3>5 DEF RxInv, HeadInv
      <4>3. QED BY <1>0, <2>1, <2>2, <2>3, <3>1, <3>2, <4>1, <4>2 DEF HeadInv
    <3>6. QED BY <3>3, <3>4, <3>5
  <2>6. QED BY <2>4, <2>5
<1>5. QED BY <1>1, <1>2, <1>3, <1>4 DEF RxInv

LEMMA RxInitial == P!Init => RxInv
<1>1. SUFFICES ASSUME P!Init PROVE RxInv OBVIOUS
<1>2. MaxGap \in 0..3 /\ MaxPackets \in Nat BY PcieAssumption DEF P!Paced
<1>3. QueueType BY <1>1, <1>2 DEF P!Init, QueueType
<1>4. FifoInv BY <1>1 DEF P!Init, FifoInv, Chained
<1>5. rx \in P!Beat /\ rx_state \in P!RxStates
  BY <1>1, <1>2 DEF P!Init, P!NoBeat, P!Beat, P!RxStates
<1>6. PlaceInv
  BY <1>1 DEF P!Init, PlaceInv, P!NoBeat, TheFront, Front, Coming, WriteStates, ReadStates
<1>7. HeadInv
  <2>1. KindIn(packets, 0) = "none" BY <1>1 DEF P!Init, KindIn
  <2>2. headrega = 0 /\ headregb = 0 /\ addr = 0 /\ memsel1 = FALSE /\ rx_state = "IDLE"
        /\ Len(packets) = 0
    BY <1>1 DEF P!Init
  <2>3. headregb \in 0..Len(packets) /\ addr \in 0..Len(packets) BY <2>2
  <2>4. memsel1 \in BOOLEAN /\ (memsel1 <=> KindIn(packets, headregb) \notin {"other", "none"})
    BY <2>1, <2>2
  <2>5. QED BY <2>2, <2>3, <2>4 DEF HeadInv
<1>8. QED BY <1>3, <1>4, <1>5, <1>6, <1>7 DEF RxInv

-----------------------------------------------------------------------------
BusType ==
  /\ extdqreg \in P!Word /\ dqoen \in BOOLEAN
  /\ sel \in {"none", "pctocard", "plain"}
  /\ dqinreg \in P!Word /\ pctocardreg \in P!Word /\ plain \in P!Word
  /\ wr_flag \in BOOLEAN /\ cnt \in 0..1 /\ wrreq \in BOOLEAN
  /\ pushed \in Seq(P!Word)

\* The word on its way to the motion FIFO.
Datum == [n |-> headrega, dw |-> "data"]
ThisPush == TheKind = "push"

PipeInv ==
  /\ rx_state \in {"MEMWRST1", "MEMWRST2", "MEMWRST3", "MEMWRST4"} =>
       /\ extdqreg.n = headrega
       /\ TheKind # "even" => extdqreg = Datum
       /\ sel = (IF ThisPush THEN "pctocard" ELSE IF TheKind = "even" THEN "plain" ELSE "none")
  /\ dqoen <=> rx_state \in {"MEMWRST2", "MEMWRST3", "MEMWRST4"}
  /\ rx_state \in {"MEMWRST3", "MEMWRST4"} => (TheKind # "even" => dqinreg = Datum)
  /\ rx_state = "MEMWRST4" /\ ThisPush => pctocardreg = Datum
  /\ wr_flag <=> rx_state \in {"MEMWRST3", "MEMWRST4"} /\ ThisPush
  /\ wrreq <=> rx_state = "MEMWRST4" /\ ThisPush
  /\ cnt = (IF wrreq THEN 1 ELSE 0)

Bus == P!rxproc /\ P!ext_inf /\ plain' = P!Written

LEMMA BusTypes ==
  ASSUME RxInv, BusType, Bus
  PROVE  BusType'
<1>1. MaxPackets \in Nat BY PcieAssumption DEF P!Paced
<1>2. rx.n \in 0..MaxPackets BY DEF RxInv, P!Beat
<1>3. P!Undriven \in P!Word BY <1>1 DEF P!Undriven, P!Word
<1>4. extdqreg' \in P!Word
  <2>1. P!Dword(rx, P!Odd(addr)) \in P!Word BY <1>2 DEF P!Dword, P!Word
  <2>2. QED BY <2>1 DEF Bus, P!rxproc, BusType
<1>5. P!extdq \in P!Word BY <1>3 DEF P!extdq, BusType
<1>6. dqinreg' \in P!Word /\ plain' \in P!Word BY <1>5 DEF Bus, P!ext_inf, P!Written, BusType
<1>7. pctocardreg' \in P!Word BY DEF Bus, P!ext_inf, BusType
<1>8. dqoen' \in BOOLEAN /\ wr_flag' \in BOOLEAN /\ wrreq' \in BOOLEAN
  BY DEF Bus, P!rxproc, P!ext_inf, P!FirstOfTwo
<1>9. sel' \in {"none", "pctocard", "plain"} BY DEF Bus, P!ext_inf
<1>10. cnt' \in 0..1
  <2>1. cnt' = IF P!FirstOfTwo THEN cnt + 1 ELSE 0 BY DEF Bus, P!ext_inf
  <2>2. CASE P!FirstOfTwo BY <2>1, <2>2 DEF P!FirstOfTwo
  <2>3. QED BY <2>1, <2>2
<1>11. pushed' \in Seq(P!Word) BY DEF Bus, P!ext_inf, BusType
<1>12. QED BY <1>4, <1>6, <1>7, <1>8, <1>9, <1>10, <1>11 DEF BusType

\* What the state of rxproc says of headrega and of the kind, one clock on.
LEMMA SamePacket ==
  ASSUME RxInv, Arrival, P!rxproc, rx_state \notin {"IDLE", "RDHEAD1"}
  PROVE  headrega' = headrega /\ TheKind' = TheKind /\ P!Kind(headrega) = TheKind
<1>1. headrega' = headrega BY DEF P!rxproc
<1>2. headrega \in 0..Len(packets) /\ QueueType /\ Len(packets) \in Nat
  BY DEF RxInv, PlaceInv, QueueType
<1>3. QED BY <1>1, <1>2, Kept DEF TheKind, KindIn, P!Kind

LEMMA PipeStep ==
  ASSUME RxInv, BusType, PipeInv, Arrival, Bus
  PROVE  PipeInv'
<1>0. P!rxproc /\ P!ext_inf /\ rx_state \in P!RxStates BY DEF Bus, RxInv
<1>1. CASE rx_state \in {"DATAST2", "MEMWRST1", "MEMWRST2", "MEMWRST3", "MEMWRST4"}
  <2>1. headrega' = headrega /\ TheKind' = TheKind /\ P!Kind(headrega) = TheKind
    BY <1>0, <1>1, SamePacket
  <2>2. TheKind \in {"push", "other", "even"} BY <1>1 DEF RxInv, PlaceInv, WriteStates
  <2>3. /\ headregb = headrega /\ addr = headrega
        /\ memsel1 <=> TheKind \notin {"other", "none"}
    BY <1>1 DEF RxInv, HeadInv, TheKind
  <2>4. sel' = (IF ThisPush THEN "pctocard" ELSE IF TheKind = "even" THEN "plain" ELSE "none")
    BY <1>0, <2>1, <2>2, <2>3 DEF P!ext_inf, P!PushSelected, P!PlainSelected, ThisPush
  <2>5. Datum' = Datum /\ (ThisPush' <=> ThisPush) BY <2>1 DEF Datum, ThisPush
  <2>6. CASE rx_state = "DATAST2"
    <3>1. rx = HeadBeat(2) BY <2>6 DEF RxInv, PlaceInv
    <3>2. extdqreg' = P!Dword(rx, P!Odd(addr)) BY <1>0, <2>6 DEF P!rxproc
    <3>3. P!Odd(addr) <=> TheKind # "even" BY <2>1, <2>3 DEF P!Odd
    <3>4. extdqreg'.n = headrega /\ (TheKind # "even" => extdqreg' = Datum)
      BY <3>1, <3>2, <3>3 DEF P!Dword, HeadBeat, Datum
    <3>5. rx_state' = "MEMWRST1" /\ ~dqoen' BY <1>0, <2>6 DEF P!rxproc, P!NextRx
    <3>6. ~wr_flag /\ ~wrreq /\ cnt = 0 BY <2>6 DEF PipeInv
    <3>7. ~wr_flag' /\ ~wrreq' /\ cnt' = 0
      BY <1>0, <2>6, <3>6 DEF P!ext_inf, P!data_wr, P!FirstOfTwo
    <3>8. QED BY <2>1, <2>4, <2>5, <3>4, <3>5, <3>7 DEF PipeInv
  <2>7. CASE rx_state = "MEMWRST1"
    <3>1. extdqreg' = extdqreg /\ rx_state' = "MEMWRST2" /\ dqoen'
      BY <1>0, <2>7 DEF P!rxproc, P!NextRx
    <3>2. /\ extdqreg.n = headrega /\ (TheKind # "even" => extdqreg = Datum)
          /\ ~wr_flag /\ ~wrreq /\ cnt = 0 
      BY <2>7 DEF PipeInv
    <3>3. ~wr_flag' /\ ~wrreq' /\ cnt' = 0
      BY <1>0, <2>7, <3>2 DEF P!ext_inf, P!data_wr, P!FirstOfTwo
    <3>4. QED BY <2>1, <2>4, <2>5, <3>1, <3>2, <3>3 DEF PipeInv
  <2>8. CASE rx_state = "MEMWRST2"
    <3>1. extdqreg' = extdqreg /\ rx_state' = "MEMWRST3" /\ dqoen'
      BY <1>0, <2>8 DEF P!rxproc, P!NextRx
    <3>2. /\ extdqreg.n = headrega /\ (TheKind # "even" => extdqreg = Datum)
          /\ ~wr_flag /\ ~wrreq /\ cnt = 0 /\ dqoen
          /\ sel = (IF ThisPush THEN "pctocard" ELSE IF TheKind = "even" THEN "plain" ELSE "none")
      BY <2>8 DEF PipeInv
    <3>3. ~wrreq' /\ cnt' = 0 BY <1>0, <3>2 DEF P!ext_inf, P!FirstOfTwo
    <3>4. wr_flag' <=> ThisPush BY <1>0, <2>8, <3>2 DEF P!ext_inf, P!data_wr
    <3>5. dqinreg' = extdqreg BY <1>0, <3>2 DEF P!ext_inf, P!extdq
    <3>6. QED BY <2>1, <2>4, <2>5, <3>1, <3>2, <3>3, <3>4, <3>5 DEF PipeInv
  <2>9. CASE rx_state = "MEMWRST3"
    <3>1. extdqreg' = extdqreg /\ rx_state' = "MEMWRST4" /\ dqoen'
      BY <1>0, <2>9 DEF P!rxproc, P!NextRx
    <3>2. /\ extdqreg.n = headrega /\ (TheKind # "even" => extdqreg = Datum)
          /\ (wr_flag <=> ThisPush) /\ ~wrreq /\ cnt = 0 /\ dqoen
          /\ (TheKind # "even" => dqinreg = Datum)
          /\ sel = (IF ThisPush THEN "pctocard" ELSE IF TheKind = "even" THEN "plain" ELSE "none")
      BY <2>9 DEF PipeInv
    <3>3. (wrreq' <=> ThisPush) /\ cnt' = (IF ThisPush THEN 1 ELSE 0)
      <4>1. P!FirstOfTwo <=> ThisPush BY <3>2 DEF P!FirstOfTwo
      <4>2. wrreq' = P!FirstOfTwo /\ cnt' = IF P!FirstOfTwo THEN cnt + 1 ELSE 0
        BY <1>0 DEF P!ext_inf
      <4>3. CASE ThisPush BY <3>2, <4>1, <4>2, <4>3
      <4>4. CASE ~ThisPush BY <4>1, <4>2, <4>4
      <4>5. QED BY <4>3, <4>4
    <3>4. wr_flag' <=> ThisPush BY <1>0, <2>9, <3>2 DEF P!ext_inf, P!data_wr
    <3>5. dqinreg' = extdqreg BY <1>0, <3>2 DEF P!ext_inf, P!extdq
    <3>6. ThisPush => pctocardreg' = Datum
      BY <1>0, <2>9, <3>2 DEF P!ext_inf, P!data_wr, ThisPush
    <3>7. cnt' = (IF wrreq' THEN 1 ELSE 0) BY <3>3
    <3>8. QED BY <2>1, <2>4, <2>5, <3>1, <3>2, <3>3, <3>4, <3>5, <3>6, <3>7 DEF PipeInv
  <2>10. CASE rx_state = "MEMWRST4"
    <3>1. rx_state' = "UNSP1" /\ ~dqoen' BY <1>0, <2>10 DEF P!rxproc, P!NextRx
    <3>2. (wr_flag <=> ThisPush) /\ (wrreq <=> ThisPush) /\ cnt = (IF wrreq THEN 1 ELSE 0)
      BY <2>10 DEF PipeInv
    <3>3. ~P!FirstOfTwo BY <3>2 DEF P!FirstOfTwo
    <3>4. ~wrreq' /\ cnt' = 0 /\ ~wr_flag' BY <1>0, <2>10, <3>3 DEF P!ext_inf, P!data_wr
    <3>5. QED BY <3>1, <3>4 DEF PipeInv
  <2>11. QED BY <1>1, <2>6, <2>7, <2>8, <2>9, <2>10
<1>2. CASE rx_state \notin {"DATAST2", "MEMWRST1", "MEMWRST2", "MEMWRST3", "MEMWRST4"}
  <2>1. rx_state' \notin {"MEMWRST1", "MEMWRST2", "MEMWRST3", "MEMWRST4"} /\ ~dqoen'
    BY <1>0, <1>2 DEF P!rxproc, P!NextRx, P!RxStates, P!Decode, P!AfterRequest, P!ToEnd
  <2>2. ~wr_flag /\ ~wrreq /\ cnt = 0 BY <1>2 DEF PipeInv
  <2>3. ~wr_flag' /\ ~wrreq' /\ cnt' = 0
    BY <1>0, <1>2, <2>2 DEF P!ext_inf, P!data_wr, P!FirstOfTwo
  <2>4. QED BY <2>1, <2>3 DEF PipeInv
<1>3. QED BY <1>1, <1>2

\* A register that holds what is written changes only by a write of its own.
LEMMA OwnWrite ==
  ASSUME RxInv, PipeInv, plain' = P!Written, plain' # plain, P!rxproc, Arrival
  PROVE  P!Kind(plain'.n) = "even" /\ plain'.n = headrega
<1>1. P!data_wr /\ sel = "plain" /\ plain' = P!extdq BY DEF P!Written
<1>2. rx_state \in {"MEMWRST2", "MEMWRST3"} BY <1>1 DEF P!data_wr
<1>3. dqoen /\ extdqreg.n = headrega /\ TheKind = "even" BY <1>1, <1>2 DEF PipeInv
<1>4. P!Kind(headrega) = TheKind BY <1>2, SamePacket
<1>5. QED BY <1>1, <1>3, <1>4 DEF P!extdq

-----------------------------------------------------------------------------
\* A sequence of numbers is that of the packets of a kind up to one, oldest first.
UpTo(ps, numbers, kind, upto) ==
  /\ \A ix \in DOMAIN numbers : numbers[ix] \in 1..upto /\ KindIn(ps, numbers[ix]) = kind
  /\ \A j, ix \in DOMAIN numbers : j < ix => numbers[j] < numbers[ix]
  /\ \A n \in 1..upto : KindIn(ps, n) = kind => \E j \in DOMAIN numbers : numbers[j] = n

LEMMA UpToKept ==
  ASSUME QueueType, Arrival, NEW numbers, NEW kind, NEW upto \in Int, upto <= Len(packets),
         UpTo(packets, numbers, kind, upto)
  PROVE  UpTo(packets', numbers, kind, upto)
<1>1. \A n \in 1..upto : KindIn(packets', n) = KindIn(packets, n)
  <2>1. Len(packets) \in Nat BY DEF QueueType
  <2>2. QED BY <2>1, Kept
<1>2. QED BY <1>1 DEF UpTo

LEMMA UpToSkips ==
  ASSUME NEW ps, NEW numbers, NEW kind, NEW upto \in Int, UpTo(ps, numbers, kind, upto),
         KindIn(ps, upto + 1) # kind
  PROVE  UpTo(ps, numbers, kind, upto + 1)
<1>1. \A n \in 1..(upto + 1) : n \in 1..upto \/ n = upto + 1 OBVIOUS
<1>2. \A n \in 1..upto : n \in 1..(upto + 1) OBVIOUS
<1>3. QED BY <1>1, <1>2 DEF UpTo

LEMMA UpToGrows ==
  ASSUME NEW ps, NEW numbers, NEW longer, NEW kind, NEW upto \in Nat, NEW len \in Nat,
         DOMAIN numbers = 1..len, DOMAIN longer = 1..(len + 1),
         \A ix \in 1..len : longer[ix] = numbers[ix], longer[len + 1] = upto + 1,
         UpTo(ps, numbers, kind, upto), KindIn(ps, upto + 1) = kind
  PROVE  UpTo(ps, longer, kind, upto + 1)
<1>0. \A ix \in 1..(len + 1) : ix \in 1..len \/ ix = len + 1 OBVIOUS
<1>1. ASSUME NEW ix \in DOMAIN longer
      PROVE  longer[ix] \in 1..(upto + 1) /\ KindIn(ps, longer[ix]) = kind
  <2>1. CASE ix \in 1..len
    <3>1. longer[ix] \in 1..upto /\ KindIn(ps, longer[ix]) = kind BY <2>1 DEF UpTo
    <3>2. QED BY <3>1
  <2>2. CASE ix = len + 1 BY <2>2
  <2>3. QED BY <1>0, <2>1, <2>2
<1>2. ASSUME NEW j \in DOMAIN longer, NEW ix \in DOMAIN longer, j < ix
      PROVE  longer[j] < longer[ix]
  <2>1. j \in 1..len BY <1>2
  <2>2. longer[j] \in 1..upto /\ longer[j] = numbers[j] BY <2>1 DEF UpTo
  <2>3. CASE ix \in 1..len BY <1>2, <2>1, <2>2, <2>3 DEF UpTo
  <2>4. CASE ix = len + 1 BY <2>2, <2>4
  <2>5. QED BY <1>0, <2>3, <2>4
<1>3. ASSUME NEW n \in 1..(upto + 1), KindIn(ps, n) = kind
      PROVE  \E j \in DOMAIN longer : longer[j] = n
  <2>1. CASE n = upto + 1
    <3>1. len + 1 \in DOMAIN longer OBVIOUS
    <3>2. QED BY <2>1, <3>1
  <2>2. CASE n \in 1..upto
    <3>1. PICK j \in 1..len : numbers[j] = n BY <1>3, <2>2 DEF UpTo
    <3>2. j \in DOMAIN longer /\ longer[j] = n BY <3>1
    <3>3. QED BY <3>2
  <2>3. QED BY <2>1, <2>2
<1>4. QED BY <1>1, <1>2, <1>3 DEF UpTo

\* The numbers of the packets of a kind up to one are the first of that kind.
LEMMA FirstOfKind ==
  ASSUME NEW numbers, NEW kind, NEW upto \in Int, upto <= Len(packets), QueueType,
         UpTo(packets, numbers, kind, upto)
  PROVE  P!FirstOnes(numbers, kind)
<1>0. Len(packets) \in Nat BY DEF QueueType
<1>1. \A n : P!Kind(n) = KindIn(packets, n) BY DEF P!Kind, KindIn
<1>2. \A ix \in DOMAIN numbers : numbers[ix] \in 1..upto /\ P!Kind(numbers[ix]) = kind
  BY <1>1 DEF UpTo
<1>3. ASSUME NEW ix \in DOMAIN numbers, NEW n \in 1..Len(packets),
             P!Kind(n) = kind, n < numbers[ix]
      PROVE  \E j \in DOMAIN numbers : numbers[j] = n
  <2>1. n \in 1..upto BY <1>0, <1>2, <1>3
  <2>2. QED BY <1>1, <1>3, <2>1 DEF UpTo
<1>4. \A j, ix \in DOMAIN numbers : j < ix => numbers[j] < numbers[ix] BY DEF UpTo
<1>5. QED BY <1>2, <1>3, <1>4 DEF P!FirstOnes

\* The packets whose writes are done.
WrittenTo ==
  IF rx_state \in {"IDLE", "RDHEAD1", "UNSP1", "UNSP2"} THEN headrega ELSE headrega - 1

PushedNumbers == [ix \in DOMAIN pushed |-> pushed[ix].n]
PushInv ==
  /\ \A ix \in DOMAIN pushed : pushed[ix].dw = "data"
  /\ UpTo(packets, PushedNumbers, "push", WrittenTo)

LEMMA WrittenToIs ==
  ASSUME RxInv
  PROVE  WrittenTo \in Int /\ WrittenTo <= Len(packets) /\ WrittenTo \in Nat
<1>1. headrega \in 0..Len(packets) /\ Len(packets) \in Nat BY DEF RxInv, PlaceInv, QueueType
<1>2. rx_state \notin {"IDLE", "RDHEAD1"} => headrega >= 1
  <2>1. HAVE rx_state \notin {"IDLE", "RDHEAD1"}
  <2>2. Delivered(packets, todo, HeadBeat(2)) BY <2>1 DEF RxInv, PlaceInv
  <2>3. QED BY <1>1, <2>2 DEF Delivered, HeadBeat
<1>3. QED BY <1>1, <1>2 DEF WrittenTo

LEMMA PushStep ==
  ASSUME RxInv, RxInv', BusType, PipeInv, PushInv, Arrival, Bus
  PROVE  PushInv'
<1>0. P!rxproc /\ P!ext_inf /\ rx_state \in P!RxStates BY DEF Bus, RxInv
<1>1. WrittenTo \in Int /\ WrittenTo <= Len(packets) /\ WrittenTo \in Nat BY WrittenToIs
<1>2. UpTo(packets', PushedNumbers, "push", WrittenTo)
  <2>1. QueueType BY DEF RxInv
  <2>2. QED BY <1>1, <2>1, UpToKept DEF PushInv
<1>3. headrega \in 0..Len(packets) /\ Len(packets) \in Nat /\ QueueType
  BY DEF RxInv, PlaceInv, QueueType
<1>4. CASE rx_state = "MEMWRST4" /\ ThisPush
  <2>1. pushed' = Append(pushed, pctocardreg) /\ pctocardreg = Datum
    BY <1>0, <1>4 DEF PipeInv, P!ext_inf
  <2>2. pushed \in Seq(P!Word) /\ Datum \in P!Word BY <2>1 DEF BusType
  <2> DEFINE long == PushedNumbers'
  <2>3. /\ Len(pushed) \in Nat /\ DOMAIN pushed = 1..Len(pushed)
        /\ DOMAIN pushed' = 1..(Len(pushed) + 1)
        /\ \A ix \in 1..Len(pushed) : pushed'[ix] = pushed[ix]
        /\ pushed'[Len(pushed) + 1] = Datum
    <3>1. pushed' \in Seq(P!Word) /\ Len(pushed') = Len(pushed) + 1
      BY <2>1, <2>2, AppendProperties
    <3>2. QED BY <2>1, <2>2, <3>1, AppendProperties
  <2>4. \A ix \in DOMAIN pushed' : pushed'[ix].dw = "data"
    <3>1. Datum.dw = "data" BY DEF Datum
    <3>2. QED BY <2>3, <3>1 DEF PushInv
  <2>5. WrittenTo = headrega - 1 /\ WrittenTo + 1 = headrega
    BY <1>3, <1>4 DEF WrittenTo
  <2>6. headrega' = headrega /\ TheKind' = TheKind BY <1>0, <1>4, SamePacket
  <2>7. WrittenTo' = headrega BY <1>0, <1>4, <2>6 DEF WrittenTo, P!rxproc, P!NextRx
  <2>8. KindIn(packets', headrega) = "push" BY <1>4, <2>6 DEF ThisPush, TheKind
  <2>9. DOMAIN PushedNumbers = 1..Len(pushed) /\ DOMAIN long = 1..(Len(pushed) + 1)
    BY <2>3 DEF PushedNumbers
  <2>10. \A ix \in 1..Len(pushed) : long[ix] = PushedNumbers[ix] BY <2>3 DEF PushedNumbers
  <2>11. long[Len(pushed) + 1] = WrittenTo + 1 BY <2>3, <2>5 DEF PushedNumbers, Datum
  <2> HIDE DEF long
  <2>12. UpTo(packets', long, "push", WrittenTo + 1)
    BY <1>1, <1>2, <2>3, <2>5, <2>8, <2>9, <2>10, <2>11, UpToGrows
  <2>13. QED BY <2>4, <2>5, <2>7, <2>12 DEF PushInv, long
<1>5. CASE ~(rx_state = "MEMWRST4" /\ ThisPush)
  <2>1. pushed' = pushed BY <1>0, <1>5 DEF PipeInv, P!ext_inf
  <2>2. PushedNumbers' = PushedNumbers BY <2>1 DEF PushedNumbers
  <2>3. WrittenTo' = WrittenTo \/ (WrittenTo' = WrittenTo + 1 /\ KindIn(packets', WrittenTo + 1) # "push")
    <3>1. CASE rx_state \in {"MEMWRST4", "MEMRDST4", "WAITST1"}
      <4>1. headrega' = headrega /\ TheKind' = TheKind /\ P!Kind(headrega) = TheKind
        BY <1>0, <3>1, SamePacket
      <4>2. WrittenTo = headrega - 1 /\ WrittenTo + 1 = headrega BY <1>3, <3>1 DEF WrittenTo
      <4>3. WrittenTo' = headrega - 1 \/ (WrittenTo' = headrega /\ TheKind # "push")
        <5>1. CASE rx_state = "MEMWRST4"
          BY <1>0, <1>5, <4>1, <5>1 DEF P!rxproc, P!NextRx, WrittenTo, ThisPush
        <5>2. CASE rx_state = "MEMRDST4"
          <6>1. TheKind = "read" BY <5>2 DEF RxInv, PlaceInv, ReadStates
          <6>2. QED BY <1>0, <4>1, <5>2, <6>1 DEF P!rxproc, P!NextRx, WrittenTo
        <5>3. CASE rx_state = "WAITST1"
          <6>1. addr = headrega BY <5>3 DEF RxInv, HeadInv
          <6>2. rx_state' = P!Decode BY <1>0, <5>3 DEF P!rxproc, P!NextRx
          <6>5. P!Kind(addr) = TheKind BY <4>1, <6>1
          <6>3. TheKind = "push" => P!Decode = "DATAST2"
            BY <4>1, <6>5 DEF P!Decode, P!memwrsel, P!memrdsel, P!Odd
          <6>4. QED BY <4>1, <6>2, <6>3 DEF WrittenTo
        <5>4. QED BY <3>1, <5>1, <5>2, <5>3
      <4>4. KindIn(packets', WrittenTo + 1) = TheKind BY <4>1, <4>2 DEF TheKind
      <4>5. QED BY <4>2, <4>3, <4>4
    <3>2. CASE rx_state = "RDHEAD1"
      <4>1. headrega' = headrega + 1 /\ rx_state' = "HEADPRO1"
        BY <1>0, <3>2 DEF RxInv, PlaceInv, P!rxproc, P!NextRx
      <4>2. QED BY <1>3, <3>2, <4>1 DEF WrittenTo
    <3>3. CASE rx_state \notin {"MEMWRST4", "MEMRDST4", "WAITST1", "RDHEAD1"}
      <4>1. headrega' = headrega BY <1>0, <3>3 DEF P!rxproc
      <4>2. rx_state \in {"IDLE", "UNSP1", "UNSP2"} <=> rx_state' \in {"IDLE", "RDHEAD1", "UNSP1", "UNSP2"}
        BY <1>0, <3>3 DEF P!rxproc, P!NextRx, P!RxStates, P!AfterRequest, P!ToEnd
      <4>3. QED BY <3>3, <4>1, <4>2 DEF WrittenTo
    <3>4. QED BY <3>1, <3>2, <3>3
  <2>4. UpTo(packets', PushedNumbers, "push", WrittenTo')
    BY <1>1, <1>2, <2>3, UpToSkips
  <2>5. QED BY <2>1, <2>2, <2>4 DEF PushInv
<1>6. QED BY <1>4, <1>5

-----------------------------------------------------------------------------
Tags == [tag : 0..MaxPackets, add : 0..MaxPackets]
TxType ==
  /\ tx_state \in P!TxStates /\ memrdcpheadregb \in Tags
  /\ memrdack \in BOOLEAN /\ stall \in 0..MaxStall
  /\ answers \in Seq(Tags)

\* The clocks since txproc took the request.
Clocks ==
  stall + (CASE tx_state = "HEAD1" -> 1 [] tx_state = "HEAD2" -> 2 [] tx_state = "WAITST1" -> 3
             [] tx_state = "WAITST2" -> 4 [] tx_state = "DATAST1" -> 5 [] tx_state = "DONE" -> 6
             [] OTHER -> 0)

\* The place of rxproc tells how many have passed, at least.
Late ==
  \/ rx_state = "IDLE" /\ Clocks >= 5
  \/ rx_state = "RDHEAD1" /\ Clocks >= 7
  \/ rx_state = "HEADPRO1" /\ Clocks >= 8
  \/ rx_state = "RDHEAD2" /\ Clocks >= 9
  \/ rx_state = "HEADPRO2" /\ Clocks >= 10
  \/ rx_state = "WAITST1" /\ Clocks >= 11
  \/ rx_state \in {"DATAST1", "DATAST2", "MEMRDST1", "UNSP1"} /\ Clocks >= 12

TimeInv ==
  /\ memrdack => tx_state \in {"HEAD1", "HEAD2", "WAITST1", "DATAST1", "DONE"}
  /\ tx_state # "IDLE" =>
       \/ rx_state = "MEMRDST3" /\ Clocks = 1 /\ ~memrdack
       \/ rx_state = "MEMRDST3" /\ Clocks = 2 /\ memrdack
       \/ rx_state = "MEMRDST4" /\ Clocks = 3
       \/ rx_state = "UNSP1" /\ Clocks = 4 /\ P!EOP(rx)
       \/ Late
  /\ tx_state # "IDLE" /\ rx_state = "IDLE" /\ Clocks = 5 => rx.i # 1
  /\ tx_state = "IDLE" => rx_state # "MEMRDST4"

\* The read that is being answered, and the packets whose reads are.
Awaited == IF rx_state \in {"HEADPRO1", "RDHEAD2", "HEADPRO2"} THEN headrega - 1 ELSE headrega
AnsweredTo ==
  IF tx_state \in {"HEAD1", "HEAD2"} THEN Awaited - 1
  ELSE IF rx_state \in {"IDLE", "RDHEAD1", "UNSP1", "UNSP2", "MEMRDST4"} THEN headrega
  ELSE headrega - 1

AnsweredNumbers == [ix \in DOMAIN answers |-> answers[ix].tag]
ReadInv ==
  /\ tx_state \in {"HEAD1", "HEAD2"} =>
       /\ Awaited >= 1 /\ KindIn(packets, Awaited) = "read"
       /\ memrdcpheadregb = [tag |-> Awaited, add |-> Awaited]
  /\ \A ix \in DOMAIN answers : answers[ix].add = answers[ix].tag
  /\ UpTo(packets, AnsweredNumbers, "read", AnsweredTo)

LEMMA TxTypes ==
  ASSUME RxInv, TxType, P!txproc
  PROVE  TxType'
<1>1. PICK ready \in BOOLEAN :
    /\ P!Sending /\ ~ready => stall < MaxStall
    /\ stall' = IF tx_state = "IDLE" THEN 0
                ELSE IF P!Sending /\ ~ready THEN stall + 1 ELSE stall
    /\ tx_state' = P!NextTx(ready)
    /\ answers' = IF tx_state = "HEAD2" /\ ready THEN Append(answers, memrdcpheadregb)
                  ELSE answers
  BY DEF P!txproc
<1>2. MaxStall \in 0..6 /\ MaxPackets \in Nat BY PcieAssumption DEF P!Paced
<1>3. stall' \in 0..MaxStall
  <2>1. stall \in 0..MaxStall BY DEF TxType
  <2>2. CASE tx_state # "IDLE" /\ P!Sending /\ ~ready BY <1>1, <1>2, <2>1, <2>2
  <2>3. CASE ~(tx_state # "IDLE" /\ P!Sending /\ ~ready) BY <1>1, <1>2, <2>1, <2>3
  <2>4. QED BY <2>2, <2>3
<1>4. tx_state' \in P!TxStates BY <1>1 DEF P!NextTx, P!TxStates, TxType
<1>5. memrdcpheadregb' \in Tags
  <2>1. memrdcpheadregb' = [tag |-> headrega, add |-> addr] BY DEF P!txproc
  <2>2. headrega \in 0..Len(packets) /\ addr \in 0..Len(packets)
    BY DEF RxInv, PlaceInv, HeadInv
  <2>3. Len(packets) \in Nat /\ Len(packets) <= MaxPackets BY DEF RxInv, QueueType
  <2>4. QED BY <1>2, <2>1, <2>2, <2>3 DEF Tags
<1>6. answers' \in Seq(Tags) BY <1>1 DEF TxType
<1>7. memrdack' \in BOOLEAN BY DEF P!txproc, P!Acknowledges
<1>8. QED BY <1>3, <1>4, <1>5, <1>6, <1>7 DEF TxType

\* The clocks count, up to the end of the completion.
LEMMA ClocksCount ==
  ASSUME TxType, P!txproc
  PROVE  /\ Clocks \in Nat /\ Clocks <= 12
         /\ tx_state \in {"HEAD1", "HEAD2"} => Clocks <= 8
         /\ tx_state = "IDLE" => tx_state' = IF P!memrdreq THEN "HEAD1" ELSE "IDLE"
         /\ tx_state = "IDLE" /\ P!memrdreq => Clocks' = 1
         /\ tx_state # "IDLE" /\ tx_state' # "IDLE" => Clocks' = Clocks + 1
         /\ tx_state' = "IDLE" /\ tx_state # "IDLE" => tx_state = "DONE" /\ Clocks >= 6
         /\ Clocks >= 12 => tx_state' = "IDLE" \/ tx_state = "IDLE"
         /\ tx_state' \in {"HEAD1", "HEAD2"} => tx_state \in {"IDLE", "HEAD1", "HEAD2"}
<1>1. PICK ready \in BOOLEAN :
    /\ P!Sending /\ ~ready => stall < MaxStall
    /\ stall' = IF tx_state = "IDLE" THEN 0
                ELSE IF P!Sending /\ ~ready THEN stall + 1 ELSE stall
    /\ ~P!Sending => ready
    /\ tx_state' = P!NextTx(ready)
  BY DEF P!txproc
<1>2. MaxStall \in 0..6 BY PcieAssumption DEF P!Paced
<1>3. stall \in 0..MaxStall /\ tx_state \in P!TxStates BY DEF TxType
<1>4. stall \in 0..6 BY <1>2, <1>3
<1>5. CASE tx_state = "IDLE" BY <1>1, <1>4, <1>5 DEF Clocks, P!NextTx
<1>6. CASE tx_state \in {"HEAD1", "HEAD2", "DATAST1"}
  <2>1. P!Sending BY <1>6 DEF P!Sending
  <2>2. CASE ready
    <3>1. stall' = stall BY <1>1, <1>6, <2>2
    <3>2. tx_state' = (IF tx_state = "HEAD1" THEN "HEAD2" ELSE IF tx_state = "HEAD2" THEN "WAITST1" ELSE "DONE")
      BY <1>1, <1>6, <2>2 DEF P!NextTx
    <3>3. QED BY <1>4, <1>6, <3>1, <3>2 DEF Clocks
  <2>3. CASE ~ready
    <3>1. stall' = stall + 1 /\ stall < 6 /\ tx_state' = tx_state
      BY <1>1, <1>2, <1>3, <1>6, <2>1, <2>3 DEF P!NextTx
    <3>2. QED BY <1>4, <1>6, <3>1 DEF Clocks
  <2>4. QED BY <2>2, <2>3
<1>7. CASE tx_state \in {"WAITST1", "WAITST2", "DONE"}
  <2>1. ready /\ stall' = stall BY <1>1, <1>7 DEF P!Sending
  <2>2. tx_state' = (IF tx_state = "WAITST1" THEN "WAITST2" ELSE IF tx_state = "WAITST2" THEN "DATAST1" ELSE "IDLE")
    BY <1>1, <1>7, <2>1 DEF P!NextTx
  <2>3. QED BY <1>4, <1>7, <2>1, <2>2 DEF Clocks
<1>8. QED BY <1>3, <1>5, <1>6, <1>7 DEF P!TxStates

LEMMA TimeStep ==
  ASSUME RxInv, RxInv', TxType, TimeInv, Arrival, P!rxproc, P!txproc
  PROVE  TimeInv'
<1>0. rx_state \in P!RxStates /\ tx_state \in P!TxStates /\ tx_state' \in P!TxStates
  BY TxTypes DEF RxInv, TxType
<1>1. memrdack' => tx_state' \in {"HEAD1", "HEAD2", "WAITST1", "DATAST1", "DONE"}
  <2>1. memrdack' = (tx_state \in {"HEAD1", "HEAD2", "DATAST1"}) BY DEF P!txproc, P!Acknowledges
  <2>2. PICK ready \in BOOLEAN : tx_state' = P!NextTx(ready) BY DEF P!txproc
  <2>3. tx_state \in {"HEAD1", "HEAD2", "DATAST1"} =>
          tx_state' \in {"HEAD1", "HEAD2", "WAITST1", "DATAST1", "DONE"}
    BY <2>2 DEF P!NextTx
  <2>4. QED BY <2>1, <2>3
<1>2. Clocks \in Nat /\ Clocks <= 12 BY ClocksCount
<1>3. memrdack' <=> tx_state \in {"HEAD1", "HEAD2", "DATAST1"} BY DEF P!txproc, P!Acknowledges
<1>4. rx_state' = P!NextRx BY DEF P!rxproc
<1>5. CASE tx_state = "IDLE"
  <2>1. tx_state' = (IF P!memrdreq THEN "HEAD1" ELSE "IDLE") BY <1>5, ClocksCount
  <2>2. ~memrdack /\ rx_state # "MEMRDST4" BY <1>5 DEF TimeInv
  <2>3. rx_state' # "MEMRDST4"
    BY <1>0, <1>4, <2>2 DEF P!NextRx, P!AfterRequest, P!RxStates, P!Decode, P!ToEnd
  <2>4. CASE P!memrdreq
    <3>1. rx_state = "MEMRDST3" /\ Clocks' = 1 /\ ~memrdack' /\ tx_state' = "HEAD1"
      BY <1>3, <1>5, <2>1, <2>4, ClocksCount DEF P!memrdreq
    <3>2. rx_state' = "MEMRDST3" BY <1>4, <2>2, <3>1 DEF P!NextRx, P!AfterRequest
    <3>3. QED BY <3>1, <3>2 DEF TimeInv
  <2>5. CASE ~P!memrdreq BY <1>1, <2>1, <2>3, <2>5 DEF TimeInv
  <2>6. QED BY <2>4, <2>5
<1>6. CASE tx_state # "IDLE" /\ tx_state' = "IDLE"
  <2>1. Clocks >= 6 BY <1>6, ClocksCount
  <2>2. Late BY <1>2, <1>6, <2>1 DEF TimeInv
  <2>3. rx_state' # "MEMRDST4" BY <1>4, <2>2 DEF P!NextRx, Late, P!Decode, P!ToEnd
  <2>4. QED BY <1>1, <1>6, <2>3 DEF TimeInv
<1>7. CASE tx_state # "IDLE" /\ tx_state' # "IDLE"
  <2>1. Clocks' = Clocks + 1 /\ Clocks < 12 BY <1>2, <1>7, ClocksCount
  <2>2. CASE rx_state = "MEMRDST3" /\ Clocks = 1 /\ ~memrdack
    <3>1. rx_state' = "MEMRDST3" BY <1>4, <2>2 DEF P!NextRx, P!AfterRequest
    <3>2. tx_state \in {"HEAD1", "HEAD2", "DATAST1"}
      BY <1>0, <1>7, <2>2 DEF Clocks, TxType, P!TxStates
    <3>3. QED BY <1>1, <1>3, <1>7, <2>1, <2>2, <3>1, <3>2 DEF TimeInv
  <2>3. CASE rx_state = "MEMRDST3" /\ Clocks = 2 /\ memrdack
    <3>1. rx_state' = "MEMRDST4" BY <1>4, <2>3 DEF P!NextRx, P!AfterRequest
    <3>2. QED BY <1>1, <1>7, <2>1, <2>3, <3>1 DEF TimeInv
  <2>4. CASE rx_state = "MEMRDST4" /\ Clocks = 3
    <3>1. rx_state' = "UNSP1" BY <1>4, <2>4 DEF P!NextRx
    <3>2. P!EOP(rx)'
      <4>1. TheFront = HeadBeat(2) /\ Delivered(packets, todo, HeadBeat(2)) /\ TheKind = "read"
        BY <2>4 DEF RxInv, PlaceInv, ReadStates
      <4>2. rx' = HeadBeat(2) BY <4>1, Reads
      <4>3. headrega \in 1..Len(packets) BY <4>1 DEF Delivered, HeadBeat
      <4>4. TheKind' = TheKind /\ headrega' = headrega BY <2>4, SamePacket
      <4>5. headrega' \in 0..Len(packets') BY DEF RxInv, PlaceInv
      <4>6. P!Kind(headrega)' = "read" BY <4>1, <4>3, <4>4, <4>5 DEF TheKind, KindIn, P!Kind
      <4>7. rx'.n = headrega' /\ rx'.i = 2 /\ headrega' # 0 BY <4>2, <4>3, <4>4 DEF HeadBeat
      <4>8. P!Beats("read") = 2 BY DEF P!Beats
      <4>9. P!Kind(rx.n)' = "read" BY <4>6, <4>7 DEF P!Kind
      <4>10. QED BY <4>7, <4>8, <4>9 DEF P!EOP
    <3>3. QED BY <1>1, <1>7, <2>1, <2>4, <3>1, <3>2 DEF TimeInv
  <2>5. CASE rx_state = "UNSP1" /\ Clocks = 4 /\ P!EOP(rx)
    <3>1. rx_state' = "IDLE" BY <1>4, <2>5 DEF P!NextRx, P!ToEnd
    <3>2. rx'.i # 1
      <4>1. TheFront = rx /\ Delivered(packets, todo, rx) /\ rx.i >= 2 /\ rx \in P!Beat
        BY <2>5 DEF RxInv, PlaceInv
      <4>2. rx' = rx BY <4>1, Reads
      <4>3. QED BY <4>1, <4>2 DEF P!Beat
    <3>3. QED BY <1>1, <1>7, <2>1, <2>5, <3>1, <3>2 DEF TimeInv, Late
  <2>6. CASE Late
    <3>1. Late' /\ (rx_state' = "IDLE" => Clocks' # 5)
      <4>1. CASE rx_state = "IDLE" /\ Clocks >= 5
        <5>1. CASE P!rxen /\ P!SOP(rx)
          <6>1. Clocks # 5 BY <1>7, <4>1, <5>1 DEF TimeInv, P!SOP
          <6>2. rx_state' = "RDHEAD1" BY <1>4, <4>1, <5>1 DEF P!NextRx
          <6>3. QED BY <1>2, <2>1, <4>1, <6>1, <6>2 DEF Late
        <5>2. CASE ~(P!rxen /\ P!SOP(rx))
          <6>1. rx_state' = "IDLE" BY <1>4, <4>1, <5>2 DEF P!NextRx
          <6>2. QED BY <1>2, <2>1, <4>1, <6>1 DEF Late
        <5>3. QED BY <5>1, <5>2
      <4>2. CASE rx_state \in {"RDHEAD1", "HEADPRO1", "RDHEAD2", "HEADPRO2"}
        BY <1>2, <1>4, <2>1, <2>6, <4>2 DEF Late, P!NextRx
      <4>3. CASE rx_state = "WAITST1"
        <5>1. Clocks >= 11 BY <2>6, <4>3 DEF Late
        <5>2. rx_state' \in {"DATAST1", "DATAST2", "MEMRDST1", "UNSP1"}
          BY <1>4, <4>3 DEF P!NextRx, P!Decode
        <5>3. QED BY <1>2, <2>1, <5>1, <5>2 DEF Late
      <4>4. QED BY <1>2, <2>1, <2>6, <4>1, <4>2, <4>3 DEF Late
    <3>2. QED BY <1>1, <1>7, <3>1 DEF TimeInv
  <2>7. QED BY <1>7, <2>2, <2>3, <2>4, <2>5, <2>6 DEF TimeInv
<1>8. QED BY <1>5, <1>6, <1>7

\* While txproc waits to send the header, rxproc has not got to another read.
LEMMA AwaitedStays ==
  ASSUME RxInv, TxType, TimeInv, Arrival, P!rxproc, P!txproc,
         tx_state \in {"HEAD1", "HEAD2"}
  PROVE  /\ tx_state' \in {"HEAD1", "HEAD2"} =>
              Awaited' = Awaited /\ headrega = Awaited /\ addr = Awaited
         /\ tx_state' \notin {"HEAD1", "HEAD2"} => Awaited' = Awaited 
         /\ rx_state' \in {"IDLE", "RDHEAD1", "UNSP1", "UNSP2", "MEMRDST4", "HEADPRO1", "RDHEAD2"}
              \/ tx_state' \in {"HEAD1", "HEAD2"}
         /\ Awaited \in Int /\ Awaited <= Len(packets)
<1>0. headrega \in 0..Len(packets) /\ Len(packets) \in Nat /\ rx_state \in P!RxStates
  BY DEF RxInv, PlaceInv, QueueType
<1>1. Clocks \in Nat /\ Clocks <= 8 BY ClocksCount
<1>2. rx_state' = P!NextRx BY DEF P!rxproc
<1>3. Awaited \in Int /\ Awaited <= Len(packets) BY <1>0 DEF Awaited
<1>4. tx_state' \in {"HEAD1", "HEAD2"} => Clocks < 8
  <2>1. HAVE tx_state' \in {"HEAD1", "HEAD2"}
  <2>2. Clocks' = Clocks + 1 BY <2>1, ClocksCount
  <2>3. PICK ready \in BOOLEAN : 
            /\ P!Sending /\ ~ready => stall < MaxStall
            /\ tx_state' = P!NextTx(ready)
    BY DEF P!txproc
  <2>4. MaxStall \in 0..6 /\ stall \in 0..MaxStall BY PcieAssumption DEF P!Paced, TxType
  <2>5. CASE ready
    <3>1. tx_state = "HEAD1" BY <2>1, <2>3, <2>5 DEF P!NextTx
    <3>2. Clocks = stall + 1 BY <3>1 DEF Clocks
    <3>3. QED BY <2>4, <3>2
  <2>6. CASE ~ready
    <3>1. stall < 6 BY <2>3, <2>4, <2>6 DEF P!Sending
    <3>2. Clocks = stall + 1 \/ Clocks = stall + 2 BY DEF Clocks
    <3>3. QED BY <2>4, <3>1, <3>2
  <2>7. QED BY <2>5, <2>6
<1>5. \/ rx_state = "MEMRDST3" /\ (memrdack \/ Clocks = 1)
      \/ rx_state = "MEMRDST4" \/ (rx_state = "UNSP1" /\ P!EOP(rx))
      \/ rx_state = "IDLE" \/ rx_state = "RDHEAD1" 
      \/ rx_state = "HEADPRO1" /\ Clocks = 8
  <2>1. Late => rx_state \in {"IDLE", "RDHEAD1"} \/ (rx_state = "HEADPRO1" /\ Clocks = 8)
    BY <1>1 DEF Late
  <2>2. tx_state # "IDLE" OBVIOUS
  <2>3. \/ rx_state = "MEMRDST3" /\ Clocks = 1 /\ ~memrdack
        \/ rx_state = "MEMRDST3" /\ Clocks = 2 /\ memrdack
        \/ rx_state = "MEMRDST4" /\ Clocks = 3
        \/ rx_state = "UNSP1" /\ Clocks = 4 /\ P!EOP(rx)
        \/ Late
    BY <2>2, Zenon DEF TimeInv
  <2>4. ~Late => \/ rx_state = "MEMRDST3" /\ (memrdack \/ Clocks = 1)
                 \/ rx_state = "MEMRDST4"
                 \/ rx_state = "UNSP1" /\ P!EOP(rx)
    BY <2>3
  <2>5. QED BY <2>1, <2>4
<1>6. CASE rx_state \in {"MEMRDST4", "UNSP1", "IDLE"}
  <2>1. headrega' = headrega /\ addr = headrega BY <1>6 DEF P!rxproc, RxInv, HeadInv
  <2>2. rx_state' \in {"UNSP1", "IDLE", "RDHEAD1"} BY <1>2, <1>5, <1>6 DEF P!NextRx, P!ToEnd
  <2>3. QED BY <1>3, <1>6, <2>1, <2>2 DEF Awaited
<1>7. CASE rx_state = "MEMRDST3"
  <2>1. headrega' = headrega /\ addr = headrega BY <1>7 DEF P!rxproc, RxInv, HeadInv
  <2>2. rx_state' \in {"MEMRDST3", "MEMRDST4"} BY <1>2, <1>7 DEF P!NextRx, P!AfterRequest
  <2>3. rx_state' = "MEMRDST4" \/ tx_state' \in {"HEAD1", "HEAD2"}
    <3>1. CASE memrdack BY <1>2, <1>7, <3>1 DEF P!NextRx, P!AfterRequest
    <3>2. CASE ~memrdack
      <4>1. Clocks = 1 BY <1>5, <1>7, <3>2
      <4>2. tx_state = "HEAD1" BY <4>1 DEF Clocks, TxType
      <4>3. PICK ready \in BOOLEAN : tx_state' = P!NextTx(ready) BY DEF P!txproc
      <4>4. QED BY <4>2, <4>3 DEF P!NextTx
    <3>3. QED BY <3>1, <3>2 DEF TxType
  <2>4. QED BY <1>3, <1>7, <2>1, <2>2, <2>3 DEF Awaited
<1>8. CASE rx_state = "RDHEAD1"
  <2>1. headrega' = headrega + 1 /\ addr = headrega /\ rx_state' = "HEADPRO1"
    BY <1>2, <1>8 DEF P!rxproc, RxInv, HeadInv, PlaceInv, P!NextRx
  <2>2. Awaited = headrega BY <1>8 DEF Awaited
  <2>3. Awaited' = headrega BY <1>0, <2>1 DEF Awaited
  <2>4. QED BY <1>3, <2>1, <2>2, <2>3
<1>9. CASE rx_state = "HEADPRO1" /\ Clocks = 8
  <2>1. tx_state' \notin {"HEAD1", "HEAD2"} BY <1>4, <1>9
  <2>2. headrega' = headrega /\ rx_state' = "RDHEAD2" BY <1>2, <1>9 DEF P!rxproc, P!NextRx
  <2>3. Awaited' = Awaited BY <1>9, <2>2 DEF Awaited
  <2>4. QED BY <1>3, <2>1, <2>2, <2>3
<1>10. QED BY <1>5, <1>6, <1>7, <1>8, <1>9

LEMMA ReadStep ==
  ASSUME RxInv, RxInv', TxType, TimeInv, ReadInv, Arrival, P!rxproc, P!txproc
  PROVE  ReadInv'
<1>0. /\ headrega \in 0..Len(packets) /\ Len(packets) \in Nat /\ rx_state \in P!RxStates
      /\ QueueType /\ tx_state \in P!TxStates
  BY DEF RxInv, PlaceInv, QueueType, TxType
<1>1. rx_state' = P!NextRx BY DEF P!rxproc
<1>2. memrdcpheadregb' = [tag |-> headrega, add |-> addr] BY DEF P!txproc
<1>3. CASE tx_state \in {"HEAD1", "HEAD2"}
  <2>1. /\ tx_state' \in {"HEAD1", "HEAD2"} =>
              Awaited' = Awaited /\ headrega = Awaited /\ addr = Awaited
        /\ tx_state' \notin {"HEAD1", "HEAD2"} => Awaited' = Awaited 
        /\ rx_state' \in {"IDLE", "RDHEAD1", "UNSP1", "UNSP2", "MEMRDST4", "HEADPRO1", "RDHEAD2"}
              \/ tx_state' \in {"HEAD1", "HEAD2"}
        /\ Awaited \in Int /\ Awaited <= Len(packets)
    BY <1>3, AwaitedStays
  <2>2. /\ Awaited >= 1 /\ KindIn(packets, Awaited) = "read" /\ AnsweredTo = Awaited - 1
        /\ memrdcpheadregb = [tag |-> Awaited, add |-> Awaited]
        /\ UpTo(packets, AnsweredNumbers, "read", AnsweredTo)
        /\ \A ix \in DOMAIN answers : answers[ix].add = answers[ix].tag
    BY <1>3 DEF ReadInv, AnsweredTo
  <2>3. KindIn(packets', Awaited) = "read" BY <1>0, <2>1, <2>2, Kept
  <2>4. UpTo(packets', AnsweredNumbers, "read", AnsweredTo)
    <3>1. AnsweredTo \in Int /\ AnsweredTo <= Len(packets) BY <1>0, <2>1, <2>2
    <3>2. QED BY <1>0, <2>2, <3>1, UpToKept
  <2>5. CASE tx_state' \in {"HEAD1", "HEAD2"}
    <3>1. answers' = answers
      <4>1. PICK ready \in BOOLEAN :
              /\ tx_state' = P!NextTx(ready)
              /\ answers' = IF tx_state = "HEAD2" /\ ready THEN Append(answers, memrdcpheadregb)
                            ELSE answers
        BY DEF P!txproc
      <4>2. ~(tx_state = "HEAD2" /\ ready) BY <2>5, <4>1 DEF P!NextTx
      <4>3. QED BY <4>1, <4>2
    <3>2. AnsweredNumbers' = AnsweredNumbers BY <3>1 DEF AnsweredNumbers
    <3>3. AnsweredTo' = AnsweredTo BY <2>1, <2>2, <2>5 DEF AnsweredTo
    <3>4. QED BY <1>2, <2>1, <2>2, <2>3, <2>4, <2>5, <3>1, <3>2, <3>3 DEF ReadInv
  <2>6. CASE tx_state' \notin {"HEAD1", "HEAD2"}
    <3>1. answers' = Append(answers, memrdcpheadregb)
      <4>1. PICK ready \in BOOLEAN :
              /\ tx_state' = P!NextTx(ready)
              /\ answers' = IF tx_state = "HEAD2" /\ ready THEN Append(answers, memrdcpheadregb)
                            ELSE answers
        BY DEF P!txproc
      <4>2. tx_state = "HEAD2" /\ ready BY <1>3, <2>6, <4>1 DEF P!NextTx
      <4>3. QED BY <4>1, <4>2
    <3>2. answers \in Seq(Tags) /\ memrdcpheadregb \in Tags BY DEF TxType
    <3>3. /\ Len(answers) \in Nat /\ DOMAIN answers = 1..Len(answers)
          /\ DOMAIN answers' = 1..(Len(answers) + 1)
          /\ \A ix \in 1..Len(answers) : answers'[ix] = answers[ix]
          /\ answers'[Len(answers) + 1] = memrdcpheadregb
      <4>1. answers' \in Seq(Tags) /\ Len(answers') = Len(answers) + 1
        BY <3>1, <3>2, AppendProperties
      <4>2. QED BY <3>1, <3>2, <4>1, AppendProperties
    <3>4. \A ix \in DOMAIN answers' : answers'[ix].add = answers'[ix].tag
      BY <2>2, <3>3
    <3> DEFINE long == AnsweredNumbers'
    <3>5. DOMAIN AnsweredNumbers = 1..Len(answers) /\ DOMAIN long = 1..(Len(answers) + 1)
      BY <3>3 DEF AnsweredNumbers
    <3>6. \A ix \in 1..Len(answers) : long[ix] = AnsweredNumbers[ix] BY <3>3 DEF AnsweredNumbers
    <3>7. long[Len(answers) + 1] = Awaited BY <2>2, <3>3 DEF AnsweredNumbers
    <3> HIDE DEF long
    <3>8. AnsweredTo \in Nat /\ AnsweredTo + 1 = Awaited BY <2>1, <2>2
    <3>9. UpTo(packets', long, "read", AnsweredTo + 1)
      BY <2>3, <2>4, <3>3, <3>5, <3>6, <3>7, <3>8, UpToGrows
    <3>10. AnsweredTo' = Awaited
      <4>1. Awaited' = Awaited BY <2>1, <2>6
      <4>2. rx_state' \in {"IDLE", "RDHEAD1", "UNSP1", "UNSP2", "MEMRDST4", "HEADPRO1", "RDHEAD2"}
        BY <2>1, <2>6
      <4>3. QED BY <2>6, <4>1, <4>2 DEF AnsweredTo, Awaited
    <3>11. UpTo(packets', AnsweredNumbers', "read", AnsweredTo') BY <3>8, <3>9, <3>10 DEF long
    <3>12. QED BY <2>6, <3>4, <3>11 DEF ReadInv
  <2>7. QED BY <2>5, <2>6
<1>4. CASE tx_state \notin {"HEAD1", "HEAD2"}
  <2>1. answers' = answers BY <1>4 DEF P!txproc
  <2>2. AnsweredNumbers' = AnsweredNumbers BY <2>1 DEF AnsweredNumbers
  <2> DEFINE Done == {"IDLE", "RDHEAD1", "UNSP1", "UNSP2", "MEMRDST4"}
  <2>3. /\ AnsweredTo = (IF rx_state \in Done THEN headrega ELSE headrega - 1)
        /\ UpTo(packets, AnsweredNumbers, "read", AnsweredTo)
        /\ \A ix \in DOMAIN answers : answers[ix].add = answers[ix].tag
    BY <1>4 DEF ReadInv, AnsweredTo
  <2>4. AnsweredTo \in Int /\ AnsweredTo <= Len(packets) BY <1>0, <2>3
  <2>5. UpTo(packets', AnsweredNumbers, "read", AnsweredTo) BY <1>0, <2>3, <2>4, UpToKept
  <2>6. CASE tx_state' \in {"HEAD1", "HEAD2"}
    <3>1. tx_state = "IDLE" BY <1>4, <2>6, ClocksCount
    <3>2. rx_state = "MEMRDST3" /\ ~memrdack
      <4>1. P!memrdreq BY <2>6, <3>1, ClocksCount
      <4>2. QED BY <3>1, <4>1 DEF P!memrdreq, TimeInv
    <3>3. rx_state' = "MEMRDST3" BY <1>1, <3>2 DEF P!NextRx, P!AfterRequest
    <3>4. headrega' = headrega /\ TheKind' = TheKind BY <3>2, SamePacket
    <3>5. addr = headrega /\ TheKind = "read" /\ Delivered(packets, todo, HeadBeat(2))
      BY <3>2 DEF RxInv, HeadInv, PlaceInv, ReadStates
    <3>6. headrega >= 1 BY <1>0, <3>5 DEF Delivered, HeadBeat
    <3>7. Awaited' = headrega /\ AnsweredTo' = headrega - 1 /\ AnsweredTo = headrega - 1
      BY <2>3, <2>6, <3>2, <3>3, <3>4 DEF Awaited, AnsweredTo
    <3>8. KindIn(packets', headrega) = "read" BY <3>4, <3>5 DEF TheKind
    <3>9. QED BY <1>2, <2>1, <2>2, <2>3, <2>5, <3>5, <3>6, <3>7, <3>8 DEF ReadInv
  <2>7. CASE tx_state' \notin {"HEAD1", "HEAD2"}
    <3>1. AnsweredTo' = (IF rx_state' \in Done THEN headrega' ELSE headrega' - 1)
      BY <2>7 DEF AnsweredTo
    <3>2. AnsweredTo' = AnsweredTo
          \/ (AnsweredTo' = AnsweredTo + 1 /\ KindIn(packets', AnsweredTo + 1) # "read")
      <4>1. CASE rx_state \in {"MEMWRST4", "WAITST1"}
        <5>1. headrega' = headrega /\ TheKind' = TheKind /\ P!Kind(headrega) = TheKind
          BY <4>1, SamePacket
        <5>2. AnsweredTo = headrega - 1 /\ AnsweredTo + 1 = headrega BY <1>0, <2>3, <4>1
        <5>3. AnsweredTo' = headrega - 1 \/ (AnsweredTo' = headrega /\ TheKind # "read")
          <6>1. CASE rx_state = "MEMWRST4"
            <7>1. TheKind # "read" BY <6>1 DEF RxInv, PlaceInv, WriteStates
            <7>2. QED BY <3>1, <5>1, <7>1
          <6>2. CASE rx_state = "WAITST1"
            <7>1. addr = headrega BY <6>2 DEF RxInv, HeadInv
            <7>2. rx_state' = P!Decode BY <1>1, <6>2 DEF P!NextRx
            <7>3. TheKind = "read" => P!Decode = "MEMRDST1"
              BY <5>1 DEF P!Decode, P!memwrsel, P!memrdsel
            <7>4. QED BY <3>1, <5>1, <7>2, <7>3
          <6>3. QED BY <4>1, <6>1, <6>2
        <5>4. KindIn(packets', AnsweredTo + 1) = TheKind BY <5>1, <5>2 DEF TheKind
        <5>5. QED BY <5>2, <5>3, <5>4
      <4>2. CASE rx_state = "RDHEAD1"
        <5>1. headrega' = headrega + 1 /\ rx_state' = "HEADPRO1"
          BY <1>1, <4>2 DEF RxInv, PlaceInv, P!rxproc, P!NextRx
        <5>2. QED BY <1>0, <2>3, <3>1, <4>2, <5>1
      <4>3. CASE rx_state \notin {"MEMWRST4", "WAITST1", "RDHEAD1"}
        <5>1. headrega' = headrega BY <4>3 DEF P!rxproc
        <5>2. ~(rx_state = "MEMRDST3" /\ rx_state' = "MEMRDST4")
          <6>1. SUFFICES ASSUME rx_state = "MEMRDST3", rx_state' = "MEMRDST4" PROVE FALSE
            OBVIOUS
          <6>2. memrdack BY <1>1, <6>1 DEF P!NextRx, P!AfterRequest
          <6>3. tx_state # "IDLE" BY <6>2 DEF TimeInv
          <6>4. Clocks = 2 \/ Clocks = 1 BY <6>1, <6>3 DEF TimeInv, Late
          <6>5. tx_state \in {"HEAD1", "HEAD2"}
            <7>1. MaxStall \in 0..6 /\ stall \in 0..MaxStall BY PcieAssumption DEF P!Paced, TxType
            <7>2. QED BY <1>0, <6>3, <6>4, <7>1 DEF Clocks, P!TxStates
          <6>6. QED BY <1>4, <6>5
        <5>3. rx_state \in Done <=> rx_state' \in Done
          BY <1>0, <1>1, <4>3, <5>2 DEF P!NextRx, P!RxStates, P!AfterRequest, P!ToEnd
        <5>4. QED BY <2>3, <3>1, <5>1, <5>3
      <4>4. QED BY <4>1, <4>2, <4>3
    <3>3. UpTo(packets', AnsweredNumbers, "read", AnsweredTo') BY <2>4, <2>5, <3>2, UpToSkips
    <3>4. QED BY <2>1, <2>2, <2>3, <2>7, <3>3 DEF ReadInv
  <2>8. QED BY <2>6, <2>7
<1>5. QED BY <1>3, <1>4

-----------------------------------------------------------------------------
PcieInv == RxInv /\ BusType /\ PipeInv /\ PushInv /\ TxType /\ TimeInv /\ ReadInv

LEMMA PcieInitial == P!Init => PcieInv
<1>1. SUFFICES ASSUME P!Init PROVE PcieInv OBVIOUS
<1>2. MaxGap \in 0..3 /\ MaxPackets \in Nat /\ MaxStall \in 0..6 BY PcieAssumption DEF P!Paced
<1>3. RxInv BY <1>1, RxInitial
<1>4. BusType
  <2>1. P!Undriven \in P!Word BY <1>2 DEF P!Undriven, P!Word
  <2>2. /\ extdqreg \in P!Word /\ dqinreg \in P!Word /\ pctocardreg \in P!Word /\ plain \in P!Word
    BY <1>1, <2>1 DEF P!Init
  <2>3. pushed \in Seq(P!Word) BY <1>1, EmptySeq DEF P!Init
  <2>4. dqoen \in BOOLEAN /\ wr_flag \in BOOLEAN /\ wrreq \in BOOLEAN
    BY <1>1 DEF P!Init
  <2>7. cnt \in 0..1 BY <1>1 DEF P!Init
  <2>5. sel \in {"none", "pctocard", "plain"} BY <1>1 DEF P!Init
  <2>6. QED BY <2>2, <2>3, <2>4, <2>5, <2>7 DEF BusType
<1>5. PipeInv BY <1>1 DEF P!Init, PipeInv
<1>6. PushInv
  <2>1. pushed = <<>> /\ WrittenTo = 0 BY <1>1 DEF P!Init, WrittenTo
  <2>2. DOMAIN pushed = {} BY <2>1
  <2>3. DOMAIN PushedNumbers = {} /\ 1..WrittenTo = {} BY <2>1, <2>2 DEF PushedNumbers
  <2>4. UpTo(packets, PushedNumbers, "push", WrittenTo) BY <2>3 DEF UpTo
  <2>5. \A ix \in DOMAIN pushed : pushed[ix].dw = "data" BY <2>2
  <2>6. QED BY <2>4, <2>5 DEF PushInv
<1>7. TxType
  <2>1. answers \in Seq(Tags) BY <1>1, EmptySeq DEF P!Init
  <2>2. tx_state \in P!TxStates /\ stall \in 0..MaxStall BY <1>1, <1>2 DEF P!Init, P!TxStates
  <2>3. memrdcpheadregb \in Tags BY <1>1, <1>2 DEF P!Init, Tags
  <2>4. memrdack \in BOOLEAN BY <1>1 DEF P!Init
  <2>5. QED BY <2>1, <2>2, <2>3, <2>4 DEF TxType
<1>8. TimeInv BY <1>1 DEF P!Init, TimeInv
<1>9. ReadInv
  <2>1. answers = <<>> /\ AnsweredTo = 0 /\ tx_state = "IDLE" BY <1>1 DEF P!Init, AnsweredTo
  <2>2. DOMAIN answers = {} BY <2>1
  <2>3. QED BY <2>1, <2>2 DEF ReadInv, AnsweredNumbers, UpTo
<1>10. QED BY <1>3, <1>4, <1>5, <1>6, <1>7, <1>8, <1>9 DEF PcieInv

LEMMA PcieStep ==
  ASSUME PcieInv, P!Next
  PROVE  PcieInv' /\ (plain' # plain => P!Kind(plain'.n) = "even" /\ plain'.n = headrega)
<1>1. Arrival /\ Bus /\ P!rxproc /\ P!txproc /\ plain' = P!Written
  BY DEF P!Next, P!ClockDeliver, P!ClockPause, P!Card, Arrival, Bus
<1>2. RxInv' BY <1>1, RxStep DEF PcieInv
<1>3. BusType' /\ PipeInv' BY <1>1, BusTypes, PipeStep DEF PcieInv
<1>4. PushInv' BY <1>1, <1>2, PushStep DEF PcieInv
<1>5. TxType' BY <1>1, TxTypes DEF PcieInv
<1>6. TimeInv' BY <1>1, <1>2, TimeStep DEF PcieInv
<1>7. ReadInv' BY <1>1, <1>2, ReadStep DEF PcieInv
<1>8. plain' # plain => P!Kind(plain'.n) = "even" /\ plain'.n = headrega
  BY <1>1, OwnWrite DEF PcieInv
<1>9. QED BY <1>2, <1>3, <1>4, <1>5, <1>6, <1>7, <1>8 DEF PcieInv

LEMMA PcieStill ==
  ASSUME PcieInv, UNCHANGED P!vars
  PROVE  PcieInv'
<1>1. /\ packets' = packets /\ todo' = todo /\ gap' = gap /\ fifo1' = fifo1
      /\ rx' = rx /\ rx_state' = rx_state /\ headrega' = headrega /\ headregb' = headregb
      /\ addr' = addr /\ memsel1' = memsel1 /\ extdqreg' = extdqreg /\ dqoen' = dqoen
      /\ sel' = sel /\ dqinreg' = dqinreg /\ pctocardreg' = pctocardreg /\ wr_flag' = wr_flag
      /\ cnt' = cnt /\ wrreq' = wrreq /\ plain' = plain /\ pushed' = pushed
      /\ tx_state' = tx_state /\ memrdcpheadregb' = memrdcpheadregb /\ memrdack' = memrdack
      /\ stall' = stall /\ answers' = answers
  BY DEF P!vars, P!rxvars, P!extvars, P!txvars
<1>2. TheFront' = TheFront /\ TheKind' = TheKind BY <1>1 DEF TheFront, TheKind
<1>3. QueueType' /\ FifoInv' BY <1>1 DEF PcieInv, RxInv, QueueType, FifoInv
<1>4. PlaceInv' BY <1>1, <1>2 DEF PcieInv, RxInv, PlaceInv, In, HeadBeat
<1>5. HeadInv' BY <1>1 DEF PcieInv, RxInv, HeadInv
<1>6. RxInv' BY <1>1, <1>3, <1>4, <1>5 DEF PcieInv, RxInv
<1>7. BusType' BY <1>1 DEF PcieInv, BusType
<1>8. PipeInv' BY <1>1, <1>2 DEF PcieInv, PipeInv, Datum, ThisPush
<1>9. PushInv' BY <1>1 DEF PcieInv, PushInv, PushedNumbers, WrittenTo
<1>10. TxType' BY <1>1 DEF PcieInv, TxType
<1>11. P!EOP(rx)' <=> P!EOP(rx) BY <1>1 DEF P!EOP, P!Kind
<1>12. Clocks' = Clocks BY <1>1 DEF Clocks
<1>13. TimeInv' BY <1>1, <1>11, <1>12 DEF PcieInv, TimeInv, Late
<1>14. Awaited' = Awaited BY <1>1 DEF Awaited
<1>15. AnsweredTo' = AnsweredTo /\ AnsweredNumbers' = AnsweredNumbers
  BY <1>1, <1>14 DEF AnsweredTo, AnsweredNumbers
<1>16. ReadInv' BY <1>1, <1>14, <1>15 DEF PcieInv, ReadInv
<1>17. QED BY <1>6, <1>7, <1>8, <1>9, <1>10, <1>13, <1>16 DEF PcieInv

LEMMA PcieMeans == PcieInv => P!TypeOK /\ P!PushedInOrder /\ P!AnsweredInOrder
<1>1. SUFFICES ASSUME PcieInv PROVE P!TypeOK /\ P!PushedInOrder /\ P!AnsweredInOrder OBVIOUS
<1>2. /\ QueueType /\ RxInv /\ headrega \in 0..Len(packets) /\ headregb \in 0..Len(packets)
      /\ addr \in 0..Len(packets) /\ Len(packets) \in Nat /\ Len(packets) <= MaxPackets
      /\ MaxPackets \in Nat
  BY <1>1, PcieAssumption DEF PcieInv, RxInv, PlaceInv, HeadInv, QueueType, P!Paced
<1>3. P!TypeOK
  <2>1. packets \in Seq(P!Kinds) /\ Len(packets) <= MaxPackets /\ todo \in 0..3 /\ gap \in 0..MaxGap
        /\ fifo1 \in Seq(P!Beat)
    BY <1>2 DEF QueueType
  <2>2. rx \in P!Beat /\ rx_state \in P!RxStates BY <1>2 DEF RxInv
  <2>3. headrega \in 0..MaxPackets /\ headregb \in 0..MaxPackets /\ addr \in 0..MaxPackets
    BY <1>2
  <2>4. memsel1 \in BOOLEAN BY <1>2 DEF RxInv, HeadInv
  <2>5. QED BY <1>1, <2>1, <2>2, <2>3, <2>4 DEF P!TypeOK, PcieInv, BusType, TxType, Tags
<1>4. P!PushedInOrder
  <2>1. WrittenTo \in Int /\ WrittenTo <= Len(packets) BY <1>2, WrittenToIs
  <2>2. P!FirstOnes(PushedNumbers, "push") BY <1>1, <1>2, <2>1, FirstOfKind DEF PcieInv, PushInv
  <2>3. QED BY <1>1, <2>2 DEF P!PushedInOrder, PushedNumbers, PcieInv, PushInv
<1>5. P!AnsweredInOrder
  <2>1. AnsweredTo \in Int /\ AnsweredTo <= Len(packets) BY <1>2 DEF AnsweredTo, Awaited
  <2>2. P!FirstOnes(AnsweredNumbers, "read") BY <1>1, <1>2, <2>1, FirstOfKind DEF PcieInv, ReadInv
  <2>3. QED BY <1>1, <2>2 DEF P!AnsweredInOrder, AnsweredNumbers, PcieInv, ReadInv
<1>6. QED BY <1>3, <1>4, <1>5

LEMMA PcieHolds == P!Spec => []PcieInv
<1>1. PcieInv /\ [P!Next]_(P!vars) => PcieInv' BY PcieStep, PcieStill
<1>2. QED BY <1>1, PcieInitial, PTL DEF P!Spec

\* rxproc, txproc and the receive FIFO for any number of packets and any gaps and stalls
\* that are Paced.
THEOREM PcieTyped == P!Spec => []P!TypeOK
BY PcieHolds, PcieMeans, PTL

\* Every word the PC writes to the data register goes to fifo33 once, in the order of packets,
\* with its own data: none is pushed for another register's packet or with the header of
\* the packet after it.
THEOREM PushesInOrder == P!Spec => []PushedInOrder
<1>1. PcieInv => PushedInOrder BY PcieMeans DEF PushedInOrder
<1>2. QED BY <1>1, PcieHolds, PTL

\* Every read is answered once, in order, with its own tag and the register of its own
\* address, although txproc looks at both long after rxproc has taken the packet.
THEOREM AnswersInOrder == P!Spec => []AnsweredInOrder
<1>1. PcieInv => AnsweredInOrder BY PcieMeans DEF AnsweredInOrder
<1>2. QED BY <1>1, PcieHolds, PTL

\* A plain register changes only with the packet that is addressed to it, whatever
\* the packets before left on the write bus.
THEOREM PlainByOwn == P!Spec => WrittenByOwn
<1>1. PcieInv /\ [P!Next]_(P!vars) =>
        [plain' # plain => P!Kind(plain'.n) = "even" /\ plain'.n = headrega]_(P!vars)
  BY PcieStep
<1>2. QED BY <1>1, PcieHolds, PTL DEF P!Spec, WrittenByOwn, P!WrittenByOwn

-----------------------------------------------------------------------------
(* MotionPath                                                              *)

FirstWords(w) == [n \in 1..(w + 1) |-> n - 1]

\* Registers that no other part of the invariant speaks about.
RegisterInv ==
  /\ {start, halt, flag_start, flag_stop, valid, clkout, app_int_sts, line} \subseteq BOOLEAN
  /\ cnt_start \in 0..Hold /\ cnt_stop \in 0..Hold /\ counter \in 0..Period
  /\ pre_state1 \in M!IntStates

\* How much of the buffer is on the card.
BufferInv ==
  /\ batches \in 0..MaxBatches /\ written \in Nat /\ sent \in 0..(Batch - 1)
  /\ m_pc \in {"idle", "clear", "send", "enable"}
  /\ m_pc # "send" => sent = 0
  /\ m_pc = "send" => written + Batch = batches * Batch + sent
  /\ m_pc # "send" => written = batches * Batch \/ written + Batch = batches * Batch

\* The words and their order.
StreamInv ==
  /\ fifo33 \in Seq(0..written) /\ executed \in Seq(0..written) /\ q \in -1..written
  /\ executed \o fifo33 = FirstWords(written)

\* A request that the handler may find standing was made of an almost empty FIFO.
RoomInv ==
  /\ intreg \subseteq {0, 1}
  /\ Len(fifo33) <= Depth
  /\ m_pc = "idle" /\ 0 \in intreg => Len(fifo33) < AlmostEmpty
  /\ m_pc = "clear" => Len(fifo33) < AlmostEmpty
  /\ m_pc = "send" => Len(fifo33) < AlmostEmpty + sent

MotionInv == M!Fits /\ RegisterInv /\ BufferInv /\ StreamInv /\ RoomInv

-----------------------------------------------------------------------------
(* Sequences                                                               *)

LEMMA MoveHead ==
  ASSUME NEW Elem, NEW s \in Seq(Elem), NEW t \in Seq(Elem), t # <<>>
  PROVE  Append(s, Head(t)) \o Tail(t) = s \o t
<1>1. /\ Head(t) \in Elem /\ Tail(t) \in Seq(Elem) /\ Len(Tail(t)) = Len(t) - 1
      /\ \A i \in 1..Len(Tail(t)) : Tail(t)[i] = t[i + 1]
  BY HeadTailProperties
<1>2. Head(t) = t[1] /\ Len(t) \in Nat \ {0} /\ Len(s) \in Nat
  BY EmptySeq, LenProperties
<1>3. Append(s, Head(t)) \in Seq(Elem)
  BY <1>1, AppendProperties
<1>. DEFINE u == Append(s, Head(t)) \o Tail(t)
            v == s \o t
<1>4. /\ Len(Append(s, Head(t))) = Len(s) + 1
      /\ \A i \in 1..Len(s) : Append(s, Head(t))[i] = s[i]
      /\ Append(s, Head(t))[Len(s) + 1] = t[1]
  BY <1>1, <1>2, AppendProperties
<1>5. u \in Seq(Elem) /\ v \in Seq(Elem) /\ Len(u) = Len(s) + Len(t) /\ Len(v) = Len(s) + Len(t)
  BY <1>1, <1>2, <1>3, <1>4, ConcatProperties
<1>6. ASSUME NEW i \in 1..Len(u) PROVE u[i] = v[i]
  <2>1. u[i] = IF i <= Len(s) + 1 THEN Append(s, Head(t))[i] ELSE Tail(t)[i - (Len(s) + 1)]
    BY <1>1, <1>2, <1>3, <1>4, <1>5, ConcatProperties
  <2>2. v[i] = IF i <= Len(s) THEN s[i] ELSE t[i - Len(s)]
    BY <1>5, <1>2, ConcatProperties
  <2>. QED
    BY <1>1, <1>2, <1>4, <1>5, <2>1, <2>2
<1>. QED
  BY <1>5, <1>6, SeqEqual

LEMMA AddNext ==
  ASSUME NEW w \in Nat, NEW s \in Seq(0..w), NEW t \in Seq(0..w), s \o t = FirstWords(w)
  PROVE  s \o Append(t, w + 1) = FirstWords(w + 1)
<1>. DEFINE W == 0..(w + 1)
            u == s \o Append(t, w + 1)
<1>1. s \in Seq(W) /\ t \in Seq(W) /\ w + 1 \in W
  BY 0..w \subseteq W, SeqMonotonic
<1>2. Len(s) \in Nat /\ Len(t) \in Nat
  BY LenProperties
<1>3. /\ Append(t, w + 1) \in Seq(W) /\ Len(Append(t, w + 1)) = Len(t) + 1
      /\ \A i \in 1..Len(t) : Append(t, w + 1)[i] = t[i]
      /\ Append(t, w + 1)[Len(t) + 1] = w + 1
  BY <1>1, AppendProperties
<1>4. /\ s \o t \in Seq(W) /\ Len(s \o t) = Len(s) + Len(t)
      /\ \A i \in 1..(Len(s) + Len(t)) :
           (s \o t)[i] = IF i <= Len(s) THEN s[i] ELSE t[i - Len(s)]
  BY <1>1, ConcatProperties
<1>5. /\ u \in Seq(W) /\ Len(u) = Len(s) + Len(t) + 1
      /\ \A i \in 1..(Len(s) + Len(t) + 1) :
           u[i] = IF i <= Len(s) THEN s[i] ELSE Append(t, w + 1)[i - Len(s)]
  <2>1. /\ u \in Seq(W) /\ Len(u) = Len(s) + Len(Append(t, w + 1))
        /\ \A i \in 1..(Len(s) + Len(Append(t, w + 1))) :
             u[i] = IF i <= Len(s) THEN s[i] ELSE Append(t, w + 1)[i - Len(s)]
    <3>. HIDE DEF W
    <3>. QED
      BY <1>1, <1>3, ConcatProperties
  <2>2. Len(s) + Len(Append(t, w + 1)) = Len(s) + Len(t) + 1
    BY <1>2, <1>3
  <2>. QED
    BY <2>1, <2>2
<1>6. DOMAIN (s \o t) = 1..(w + 1) /\ \A i \in 1..(w + 1) : (s \o t)[i] = i - 1
  BY DEF FirstWords
<1>7. Len(s) + Len(t) = w + 1
  <2>1. DOMAIN (s \o t) = 1..(Len(s) + Len(t))
    BY <1>4, LenProperties
  <2>. HIDE DEF u
  <2>. DEFINE n == Len(s) + Len(t)
  <2>2. n \in Nat /\ 1..n = 1..(w + 1)
    BY <1>2, <1>6, <2>1
  <2>. HIDE DEF n
  <2>3. n = w + 1
    BY <2>2
  <2>. QED
    BY <2>3 DEF n
<1>8. ASSUME NEW i \in 1..(w + 2) PROVE u[i] = i - 1
  <2>1. CASE i = w + 2
    BY <1>2, <1>3, <1>5, <1>7, <2>1
  <2>2. CASE i # w + 2
    <3>1. i \in 1..(w + 1) /\ (i > Len(s) => i - Len(s) \in 1..Len(t))
      BY <1>2, <1>7, <2>2
    <3>. QED
      BY <1>3, <1>4, <1>5, <1>6, <1>7, <3>1
  <2>. QED
    BY <2>1, <2>2
<1>. HIDE DEF u, W
<1>9. u \in [1..(w + 2) -> W]
  <2>1. Len(u) = w + 2
    BY <1>2, <1>5, <1>7
  <2>. QED
    BY <1>5, <2>1, LenProperties
<1>. QED
  <2>1. u = [n \in 1..(w + 2) |-> n - 1]
    BY <1>8, <1>9
  <2>2. w + 1 + 1 = w + 2
    OBVIOUS
  <2>. QED
    BY <2>1, <2>2 DEF FirstWords, u

-----------------------------------------------------------------------------
(* The invariant                                                           *)

LEMMA MotionInitial == M!Fits /\ M!Init => MotionInv
<1>. SUFFICES ASSUME M!Fits, M!Init PROVE MotionInv
  OBVIOUS
<1>1. RegisterInv
  <2>1. {start, halt, flag_start, flag_stop, valid, clkout, app_int_sts, line} \subseteq BOOLEAN
    BY DEF M!Init
  <2>2. cnt_start \in 0..Hold /\ cnt_stop \in 0..Hold /\ counter \in 0..Period
    BY DEF M!Init, M!Fits
  <2>. QED
    BY <2>1, <2>2 DEF M!Init, RegisterInv, M!IntStates
<1>2. BufferInv
  BY DEF M!Init, M!Fits, BufferInv
<1>3. StreamInv
  <2>1. <<0>> \in Seq(0..0) /\ <<>> \in Seq(0..0) /\ <<>> \o <<0>> = <<0>>
    OBVIOUS
  <2>2. <<0>> = FirstWords(0)
    BY DEF FirstWords
  <2>. QED
    BY <2>1, <2>2 DEF M!Init, StreamInv
<1>4. RoomInv
  <2>1. Len(<<0>>) = 1 /\ 1 <= Depth
    BY DEF M!Fits
  <2>. QED
    BY <2>1 DEF M!Init, RoomInv
<1>. QED
  BY <1>1, <1>2, <1>3, <1>4 DEF MotionInv

LEMMA RegistersKept ==
  ASSUME M!Fits, RegisterInv, NEW access, M!Card(access)
  PROVE  RegisterInv'
<1>1. {start, halt, flag_start, flag_stop, valid}' \subseteq BOOLEAN /\ cnt_start' \in 0..Hold
      /\ cnt_stop' \in 0..Hold
  BY DEF M!Fits, RegisterInv, M!Card, M!check, M!Count, M!Flag
<1>2. clkout' \in BOOLEAN /\ counter' \in 0..Period
  BY DEF M!Fits, RegisterInv, M!Card, M!clk_2ms, M!Running
<1>3. {app_int_sts, line}' \subseteq BOOLEAN /\ pre_state1' \in M!IntStates
  BY DEF RegisterInv, M!Card, M!interrupt, M!NextInt, M!IntStates
<1>. QED
  BY <1>1, <1>2, <1>3 DEF RegisterInv

\* Taking a word out moves it from the FIFO to the words executed.
LEMMA WordTaken ==
  ASSUME StreamInv, written \in Nat, NEW access, M!fifo(access)
  PROVE  /\ M!Left \in Seq(0..written) /\ executed' \in Seq(0..written) /\ q' \in -1..written
         /\ executed' \o M!Left = FirstWords(written)
         /\ Len(M!Left) <= Len(fifo33) /\ Len(M!Left) \in Nat /\ Len(fifo33) \in Nat
<1>1. Len(fifo33) \in Nat
  BY LenProperties DEF StreamInv
<1>2. CASE clkout /\ fifo33 # <<>>
  <2>1. /\ Head(fifo33) \in 0..written /\ Tail(fifo33) \in Seq(0..written)
        /\ Len(Tail(fifo33)) = Len(fifo33) - 1 /\ Len(fifo33) \in Nat \ {0}
    BY <1>2, HeadTailProperties, EmptySeq DEF StreamInv
  <2>2. M!Left = Tail(fifo33) /\ q' = Head(fifo33) /\ executed' = Append(executed, Head(fifo33))
    BY <1>2 DEF M!fifo, M!Left
  <2>3. executed' \o M!Left = executed \o fifo33
    BY <1>2, <2>2, MoveHead DEF StreamInv
  <2>4. Append(executed, Head(fifo33)) \in Seq(0..written)
    BY <2>1, AppendProperties DEF StreamInv
  <2>. QED
    BY <1>1, <2>1, <2>2, <2>3, <2>4 DEF StreamInv
<1>3. CASE ~(clkout /\ fifo33 # <<>>)
  BY <1>1, <1>3 DEF M!fifo, M!Left, StreamInv
<1>. QED
  BY <1>2, <1>3

\* The card for itself, or with an access to INTCSR.
LEMMA QuietCard ==
  ASSUME M!Fits, MotionInv, NEW access, M!Card(access), access.reg # "data", UNCHANGED written
  PROVE  /\ StreamInv'
         /\ Len(fifo33') <= Len(fifo33) /\ Len(fifo33) \in Nat /\ Len(fifo33') \in Nat
<1>1. M!fifo(access) /\ StreamInv /\ written \in Nat
  BY DEF M!Card, MotionInv, BufferInv
<1>2. fifo33' = M!Left
  BY <1>1 DEF M!fifo
<1>. QED
  BY <1>1, <1>2, WordTaken DEF StreamInv

LEMMA DataCard ==
  ASSUME MotionInv, written' = written + 1, Len(fifo33) < Depth,
         M!Card([reg |-> "data", val |-> written'])
  PROVE  /\ StreamInv'
         /\ Len(fifo33') <= Len(fifo33) + 1 /\ Len(fifo33) \in Nat /\ Len(fifo33') \in Nat
<1>. DEFINE access == [reg |-> "data", val |-> written']
<1>1. M!fifo(access) /\ StreamInv /\ written \in Nat
  BY DEF M!Card, MotionInv, BufferInv
<1>2. fifo33' = Append(M!Left, written + 1)
  BY <1>1 DEF M!fifo
<1>3. /\ M!Left \in Seq(0..written) /\ executed' \in Seq(0..written) /\ q' \in -1..written
      /\ executed' \o M!Left = FirstWords(written)
      /\ Len(M!Left) <= Len(fifo33) /\ Len(M!Left) \in Nat /\ Len(fifo33) \in Nat
  BY <1>1, WordTaken
<1>4. executed' \o fifo33' = FirstWords(written')
  BY <1>1, <1>2, <1>3, AddNext
<1>5. 0..written \subseteq 0..(written + 1) /\ written + 1 \in 0..(written + 1)
  BY <1>1
<1>6. /\ M!Left \in Seq(0..(written + 1)) /\ executed' \in Seq(0..(written + 1))
  BY <1>3, <1>5, SeqMonotonic
<1>7. fifo33' \in Seq(0..(written + 1)) /\ Len(fifo33') = Len(M!Left) + 1
  BY <1>2, <1>5, <1>6, AppendProperties
<1>. QED
  BY <1>1, <1>3, <1>4, <1>6, <1>7 DEF StreamInv

-----------------------------------------------------------------------------
(* Every action                                                            *)

\* Only a request stands for an almost empty FIFO; INTCSR never has another bit.
LEMMA Requests ==
  ASSUME RoomInv, NEW access, M!Card(access),
         access.reg = "INTCSR" => access.val \in {{}, {1}}
  PROVE  /\ intreg' \subseteq {0, 1}
         /\ access.reg = "INTCSR" => 0 \notin intreg'
         /\ access.reg # "INTCSR" /\ 0 \in intreg' => Len(fifo33) < AlmostEmpty
<1>1. intreg' = M!Intreg(access)
  BY DEF M!Card, M!interrupt
<1>2. CASE access.reg = "INTCSR"
  BY <1>1, <1>2 DEF M!Intreg
<1>3. CASE access.reg # "INTCSR" /\ M!ext_int_req
  BY <1>1, <1>3 DEF M!Intreg, RoomInv, M!ext_int_req, M!almost_empty
<1>4. CASE access.reg # "INTCSR" /\ ~M!ext_int_req
  BY <1>1, <1>4 DEF M!Intreg, RoomInv
<1>. QED
  BY <1>2, <1>3, <1>4

\* The handler does not write, and goes on to pc'.
LEMMA QuietStep ==
  ASSUME MotionInv, NEW access, M!Card(access), access.reg \in {"none", "INTCSR"},
         access.reg = "INTCSR" => access.val \in {{}, {1}},
         UNCHANGED <<sent, written>>, BufferInv',
         m_pc' = "idle" => m_pc = "idle" \/ access.reg = "INTCSR",
         m_pc' = "clear" => m_pc = "clear" \/ (m_pc = "idle" /\ 0 \in intreg),
         m_pc' = "send" => m_pc \in {"clear", "send"}
  PROVE  MotionInv'
<1>1. M!Fits /\ RegisterInv /\ BufferInv /\ StreamInv /\ RoomInv
  BY DEF MotionInv
<1>2. RegisterInv'
  BY <1>1, RegistersKept
<1>3. /\ StreamInv'
      /\ Len(fifo33') <= Len(fifo33) /\ Len(fifo33) \in Nat /\ Len(fifo33') \in Nat
  BY <1>1, QuietCard
<1>4. /\ intreg' \subseteq {0, 1}
      /\ access.reg = "INTCSR" => 0 \notin intreg'
      /\ access.reg # "INTCSR" /\ 0 \in intreg' => Len(fifo33) < AlmostEmpty
  BY <1>1, Requests
<1>5. AlmostEmpty \in Nat /\ Depth \in Nat /\ sent \in Nat /\ (m_pc # "send" => sent = 0)
  BY <1>1 DEF M!Fits, BufferInv
<1>6. RoomInv'
  BY <1>1, <1>3, <1>4, <1>5 DEF RoomInv
<1>7. M!Fits'
  BY <1>1 DEF M!Fits
<1>. QED
  BY <1>2, <1>3, <1>6, <1>7 DEF MotionInv

LEMMA MotionStep == MotionInv /\ [M!Next]_(M!vars) => MotionInv'
<1>. SUFFICES ASSUME MotionInv, [M!Next]_(M!vars) PROVE MotionInv'
  OBVIOUS
<1>. USE DEF M!NoAccess
<1>0. M!Fits /\ RegisterInv /\ BufferInv /\ StreamInv /\ RoomInv
  BY DEF MotionInv
<1>1. CASE M!ClockOnly
  <2>1. BufferInv'
    BY <1>0, <1>1 DEF M!ClockOnly, M!Nothing, BufferInv
  <2>. QED
    BY <1>1, <2>1, QuietStep DEF M!ClockOnly, M!Nothing
<1>2. CASE M!ClockFill
  <2>1. batches \in Nat /\ MaxBatches \in Nat /\ Batch \in Nat \ {0}
    BY <1>0 DEF M!Fits, BufferInv
  <2>2. (batches + 1) * Batch = batches * Batch + Batch /\ batches * Batch \in Nat
    BY <2>1
  <2>3. written = batches * Batch
    BY <1>0, <1>2, <2>1, <2>2 DEF M!ClockFill, M!full, BufferInv
  <2>4. BufferInv'
    BY <1>0, <1>2, <2>1, <2>2, <2>3 DEF M!ClockFill, BufferInv
  <2>. QED
    BY <1>2, <2>4, QuietStep DEF M!ClockFill
<1>3. CASE M!ClockRead
  <2>1. BufferInv'
    BY <1>0, <1>3 DEF M!ClockRead, BufferInv
  <2>. QED
    BY <1>3, <2>1, QuietStep DEF M!ClockRead, M!Requested
<1>4. CASE M!ClockClear
  <2>1. BufferInv'
    BY <1>0, <1>4 DEF M!ClockClear, M!full, BufferInv, M!Fits
  <2>. QED
    BY <1>4, <2>1, QuietStep DEF M!ClockClear
<1>5. CASE M!ClockSend
  <2>. DEFINE access == [reg |-> "data", val |-> written']
  <2>1. /\ sent \in 0..(Batch - 1) /\ written' = written + 1 /\ written \in Nat
        /\ Batch \in Nat \ {0} /\ AlmostEmpty \in Nat /\ Depth \in Nat
        /\ AlmostEmpty + Batch <= Depth + 1 /\ m_pc = "send"
    BY <1>0, <1>5 DEF M!ClockSend, BufferInv, M!Fits
  <2>2. Len(fifo33) \in Nat
    BY <1>0, LenProperties DEF StreamInv
  <2>3. Len(fifo33) < Depth /\ Len(fifo33) < AlmostEmpty + sent
    BY <1>0, <2>1, <2>2 DEF RoomInv
  <2>4. M!Card(access)
    BY <1>5 DEF M!ClockSend
  <2>5. StreamInv' /\ Len(fifo33') <= Len(fifo33) + 1 /\ Len(fifo33') \in Nat
    BY <2>1, <2>3, <2>4, DataCard
  <2>6. RegisterInv'
    BY <1>0, <2>4, RegistersKept
  <2>7. BufferInv'
    BY <1>0, <1>5, <2>1 DEF M!ClockSend, BufferInv
  <2>8. intreg' \subseteq {0, 1}
    BY <1>0, <2>4, Requests
  <2>9. RoomInv'
    BY <1>5, <2>1, <2>2, <2>3, <2>5, <2>8 DEF M!ClockSend, RoomInv
  <2>. QED
    BY <1>0, <2>5, <2>6, <2>7, <2>9 DEF MotionInv, M!Fits
<1>6. CASE M!ClockEnable
  <2>1. BufferInv'
    BY <1>0, <1>6 DEF M!ClockEnable, BufferInv
  <2>. QED
    BY <1>6, <2>1, QuietStep DEF M!ClockEnable, M!EnableBits
<1>7. CASE UNCHANGED M!vars
  BY <1>0, <1>7 DEF M!vars, M!keyvars, M!fifovars, M!intvars, M!drvvars, MotionInv, M!Fits,
       RegisterInv,
                    BufferInv, StreamInv, RoomInv
<1>. QED
  BY <1>1, <1>2, <1>3, <1>4, <1>5, <1>6, <1>7 DEF M!Next, M!Handler

LEMMA MotionMeans ==
  ASSUME MotionInv
  PROVE  M!TypeOK /\ WordsInOrder
<1>1. M!Fits /\ RegisterInv /\ BufferInv /\ StreamInv /\ RoomInv
  BY DEF MotionInv
<1>2. written <= MaxBatches * Batch
  <2>1. batches \in 0..MaxBatches /\ MaxBatches \in Nat /\ Batch \in Nat \ {0}
    BY <1>1 DEF M!Fits, BufferInv
  <2>2. batches * Batch <= MaxBatches * Batch /\ batches * Batch \in Nat
    BY <2>1
  <2>3. MaxBatches * Batch \in Nat
    BY <2>1
  <2>. QED
    BY <1>1, <2>1, <2>2, <2>3 DEF BufferInv
<1>3. MaxBatches * Batch \in Nat /\ written \in 0..(MaxBatches * Batch)
  BY <1>1, <1>2 DEF M!Fits, BufferInv
<1>4. M!TypeOK
  BY <1>1, <1>3 DEF RegisterInv, BufferInv, StreamInv, RoomInv, M!TypeOK
<1>5. WordsInOrder
  BY <1>1 DEF StreamInv, FirstWords, WordsInOrder, M!WordsInOrder
<1>. QED
  BY <1>4, <1>5

LEMMA MotionHolds == M!Spec => []MotionInv
<1>1. M!Init => MotionInv
  BY MotionAssumption, MotionInitial
<1>. QED
  BY <1>1, MotionStep, PTL DEF M!Spec

\* fifo33 never holds more than it can, and the driver never writes a word the program has
\* not filled a buffer with, for any sizes that fit.
THEOREM MotionTyped == M!Spec => []M!TypeOK
BY MotionHolds, MotionMeans, PTL

\* Every word that was written is executed or waits, once and in order: the handshake of
\* the interrupt is enough to keep fifo33 from dropping any, for any sizes that fit.
THEOREM WordsKept == M!Spec => []WordsInOrder
BY MotionHolds, MotionMeans, PTL

-----------------------------------------------------------------------------
(* MotionPath implements the stream of batches                             *)

\* The words of the stream that are on the card.
StreamWords(n) == [k1 \in 1..n |-> k1]

LEMMA WithoutFirst ==
  ASSUME NEW n \in Nat
  PROVE  /\ Tail(FirstWords(n)) = StreamWords(n) /\ Len(StreamWords(n)) = n
         /\ Append(StreamWords(n), n + 1) = StreamWords(n + 1)
<1>. DEFINE s == FirstWords(n)
            t == StreamWords(n)
            u == StreamWords(n + 1)
<1>1. s \in Seq(Int) /\ Len(s) = n + 1 /\ \A j \in 1..(n + 1) : s[j] = j - 1
  <2>1. s \in [1..(n + 1) -> Int]
    BY DEF FirstWords
  <2>. QED
    BY <2>1, SeqDef, LenProperties DEF FirstWords
<1>2. t \in Seq(Int) /\ Len(t) = n /\ \A j \in 1..n : t[j] = j
  BY DEF StreamWords
<1>3. u \in Seq(Int) /\ Len(u) = n + 1 /\ \A j \in 1..(n + 1) : u[j] = j
  BY DEF StreamWords
<1>. HIDE DEF s, t, u
<1>4. Tail(s) = t
  <2>1. s # <<>>
    BY <1>1, EmptySeq
  <2>2. Tail(s) \in Seq(Int) /\ Len(Tail(s)) = n /\ \A j \in 1..n : Tail(s)[j] = s[j + 1]
    BY <1>1, <2>1, HeadTailProperties
  <2>3. \A j \in 1..n : Tail(s)[j] = t[j]
    BY <1>1, <1>2, <2>2
  <2>. QED
    BY <1>2, <2>2, <2>3, SeqEqual
<1>5. Append(t, n + 1) = u
  <2>1. /\ Append(t, n + 1) \in Seq(Int) /\ Len(Append(t, n + 1)) = n + 1
        /\ \A j \in 1..n : Append(t, n + 1)[j] = t[j]
        /\ Append(t, n + 1)[n + 1] = n + 1
    BY <1>2, AppendProperties
  <2>2. \A j \in 1..(n + 1) : Append(t, n + 1)[j] = u[j]
    BY <1>2, <1>3, <2>1
  <2>. QED
    BY <1>3, <2>1, <2>2, SeqEqual
<1>. QED
  BY <1>2, <1>4, <1>5 DEF s, t, u

LEMMA HandedOver ==
  ASSUME MotionInv, MotionInv', [M!Next]_(M!vars)
  PROVE  [M!Stream!Next]_<<batches * Batch, Tail(executed \o fifo33), written - sent>>
<1>. DEFINE there == Tail(executed \o fifo33)
            base0 == written - sent
            words == batches * Batch
<1>0. M!Fits /\ BufferInv /\ StreamInv
  BY DEF MotionInv
<1>1. /\ written \in Nat /\ sent \in 0..(Batch - 1) /\ Batch \in Nat \ {0} /\ batches \in Nat
      /\ words \in Nat /\ base0 \in Int
  BY <1>0 DEF M!Fits, BufferInv
<1>2. there = StreamWords(written)
  BY <1>0, <1>1, WithoutFirst DEF StreamInv
<1>3. executed' \o fifo33' = FirstWords(written') /\ written' \in Nat
  BY DEF MotionInv, StreamInv, BufferInv
<1>4. there' = StreamWords(written')
  BY <1>3, WithoutFirst
<1>5. ASSUME UNCHANGED <<batches, sent, written>>
      PROVE  words' = words /\ there' = there /\ base0' = base0
  BY <1>2, <1>4, <1>5
<1>6. CASE M!ClockFill
  <2>1. m_pc # "send" /\ ~M!full /\ batches' = batches + 1 /\ UNCHANGED <<sent, written>>
    BY <1>6 DEF M!ClockFill
  <2>2. sent = 0 /\ written = words
    BY <1>0, <1>1, <2>1 DEF BufferInv, M!full
  <2>3. words' = words + Batch
    BY <1>1, <2>1
  <2>4. there' = there /\ base0' = base0
    BY <1>2, <1>4, <2>1
  <2>5. Batch \in 1..(base0 + Batch - words)
    BY <1>1, <2>2
  <2>. HIDE DEF there, base0, words
  <2>6. \E n \in 1..(base0 + Batch - words) : words' = words + n
    BY <2>3, <2>5
  <2>7. M!Stream!Accept
    BY <2>4, <2>6 DEF M!Stream!Accept, there, base0, words
  <2>. QED
    BY <2>7 DEF M!Stream!Next
<1>7. CASE M!ClockSend
  <2>1. /\ m_pc = "send" /\ written' = written + 1 /\ batches' = batches
        /\ sent' = IF sent + 1 < Batch THEN sent + 1 ELSE 0
    BY <1>7 DEF M!ClockSend
  <2>2. words = base0 + Batch
    BY <1>0, <1>1, <2>1 DEF BufferInv
  <2>3. Len(there) = written /\ there' = Append(there, written + 1)
    BY <1>1, <1>2, <1>4, <2>1, WithoutFirst
  <2>4. base0' = IF written + 1 = base0 + Batch THEN base0 + Batch ELSE base0
    <3>. DEFINE sent1 == sent'
                written1 == written'
    <3>1. sent1 = IF sent + 1 < Batch THEN sent + 1 ELSE 0
      BY <2>1
    <3>2. written1 = written + 1
      BY <2>1
    <3>. HIDE DEF sent1, written1
    <3>3. written1 - sent1 = IF written + 1 = base0 + Batch THEN base0 + Batch ELSE base0
      BY <1>1, <3>1, <3>2
    <3>. QED
      BY <3>3 DEF sent1, written1
  <2>5. words' = words
    BY <2>1
  <2>. HIDE DEF there, base0, words
  <2>6. there' = Append(there, Len(there) + 1)
    BY <2>3
  <2>7. base0' = IF Len(there) + 1 = base0 + Batch THEN base0 + Batch ELSE base0
    BY <2>3, <2>4
  <2>8. M!Stream!Deliver
    BY <2>2, <2>5, <2>6, <2>7 DEF M!Stream!Deliver, there, base0, words
  <2>. QED
    BY <2>8 DEF M!Stream!Next
<1>8. CASE M!ClockOnly \/ M!ClockRead \/ M!ClockClear \/ M!ClockEnable
  <2>1. UNCHANGED <<batches, sent, written>>
    BY <1>8 DEF M!ClockOnly, M!Nothing, M!ClockRead, M!ClockClear, M!ClockEnable
  <2>. QED
    BY <1>5, <2>1
<1>9. CASE UNCHANGED M!vars
  <2>1. UNCHANGED <<batches, sent, written>>
    BY <1>9 DEF M!vars, M!drvvars
  <2>. QED
    BY <1>5, <2>1
<1>. QED
  BY <1>6, <1>7, <1>8, <1>9 DEF M!Next, M!Handler

\* The card's side of the refinement whose other side is CncWriteProofs!StreamRefinement:
\* the handler and the FIFO hand over the filled buffers as the abstract stream does, each
\* when it is full, once, and none of its words lost on the way to the interpolator.
THEOREM MotionRefinesStream == M!Spec => HandsOver
<1>1. M!Init => M!Stream!Init
  <2>. SUFFICES ASSUME M!Init PROVE M!Stream!Init
    OBVIOUS
  <2>1. /\ batches = 0 /\ written = 0 /\ sent = 0 /\ Batch \in Nat
        /\ executed \o fifo33 = FirstWords(0)
    BY MotionAssumption, MotionInitial DEF M!Init, MotionInv, StreamInv, M!Fits
  <2>2. Tail(FirstWords(0)) = StreamWords(0) /\ Len(StreamWords(0)) = 0
    BY WithoutFirst
  <2>3. StreamWords(0) = <<>>
    BY DEF StreamWords
  <2>. QED
    BY <2>1, <2>2, <2>3 DEF M!Stream!Init
<1>2. MotionInv /\ MotionInv' /\ [M!Next]_(M!vars) =>
        [M!Stream!Next]_<<batches * Batch, Tail(executed \o fifo33), written - sent>>
  BY HandedOver
<1>. QED
  BY <1>1, <1>2, MotionHolds, PTL DEF M!Spec, HandsOver, M!HandsOver, M!Stream!Spec
=============================================================================
