----------------------------- MODULE WordStream -----------------------------
(***************************************************************************)
(* What the transmit path promises, with no threads, locks or interrupts:  *)
(* a stream of words numbered 1, 2, 3, ... in the order they are accepted, *)
(* handed to the card in that order, once each, in batches of BufSize.  A  *)
(* batch is handed over only when all of it has been accepted, and nothing *)
(* of the next batch is accepted before that.                              *)
(***************************************************************************)
EXTENDS Integers, Sequences

CONSTANT BufSize   \* words in a batch, at least one

VARIABLES
  accepted,  \* how many words have been accepted
  card,      \* the words handed over
  base       \* how many words are in batches handed over completely

Accept ==
  /\ \E n \in 1 .. base + BufSize - accepted : accepted' = accepted + n
  /\ UNCHANGED <<card, base>>

Deliver ==
  /\ accepted = base + BufSize
  /\ card' = Append(card, Len(card) + 1)
  /\ base' = IF Len(card) + 1 = base + BufSize THEN base + BufSize ELSE base
  /\ accepted' = accepted

Init == accepted = 0 /\ card = <<>> /\ base = 0

Next == Accept \/ Deliver

Spec == Init /\ [][Next]_<<accepted, card, base>>
=============================================================================
