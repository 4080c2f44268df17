--------------------------- MODULE MCMessageQueue ---------------------------
(***************************************************************************)
(* Instances of MessageQueue for TLC.  The counter starts at StartTime and *)
(* stops at MaxTime; MaxTime - StartTime plus the longest delay is less    *)
(* than HALF, as it is in the code unless a thread stalls for 24 days.     *)
(***************************************************************************)
EXTENDS MessageQueue, TLC

ForeverAnd2 == {Forever, 2}

ClientSymmetry == Permutations(Clients)
=============================================================================
