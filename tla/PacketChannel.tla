--------------------------- MODULE PacketChannel ---------------------------
(***************************************************************************)
(* What a Session promises for either direction of its connection: whole   *)
(* packets, in the order in which they were sent, each at most once.       *)
(***************************************************************************)
EXTENDS Integers, Sequences

CONSTANT Packets

VARIABLES sent, handled

vars == <<sent, handled>>

Init == sent = <<>> /\ handled = <<>>

Send(p) == sent' = Append(sent, p) /\ UNCHANGED handled

Handle == /\ Len(handled) < Len(sent)
          /\ handled' = Append(handled, sent[Len(handled) + 1])
          /\ UNCHANGED sent

Next == Handle \/ \E p \in Packets : Send(p)

Spec == Init /\ [][Next]_vars
=============================================================================
