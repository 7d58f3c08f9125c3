----------------------------- MODULE MCCncWrite -----------------------------
(***************************************************************************)
(* Instance of CncWrite for TLC: one or two threads, and requests that are *)
(* empty, smaller than the room in the buffer, equal to it or larger.      *)
(***************************************************************************)
EXTENDS CncWrite

CONSTANTS w1, w2
=============================================================================
