----------------------------- MODULE Selection -----------------------------
(***************************************************************************)
(* What is left of a list when some of its elements are erased, as the     *)
(* loops over msgq_, sendlist_ and message_queues_ do that step through a  *)
(* list and erase while they go (messagequeue.cpp, thread.cpp).  A         *)
(* recursive function and not SelectSeq, so that proofs can expand it.     *)
(***************************************************************************)
EXTENDS Integers, Sequences

(* Elements of s that are in keep, in the order of s.                      *)
Selected(s, keep) ==
    LET upTo[i \in 0 .. Len(s)] ==
            IF i = 0 THEN <<>>
            ELSE IF s[i] \in keep THEN Append(upTo[i - 1], s[i]) ELSE upTo[i - 1]
    IN  upTo[Len(s)]
=============================================================================
