---------------------------- MODULE MCEcatSlave -----------------------------
(***************************************************************************)
(* Instance of EcatSlave for TLC.  The words for AL Control are the four   *)
(* states with and without the acknowledge bit and one state that does not *)
(* exist here (BOOT).                                                      *)
(***************************************************************************)
EXTENDS EcatSlave

BOOT == 3
AllRequests == States \union {s + ErrorBit : s \in States} \union {BOOT}
=============================================================================
