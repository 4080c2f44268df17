--------------------------- MODULE MCPacketStream ---------------------------
(***************************************************************************)
(* An instance of PacketStream for TLC.  A payload of the device holds a   *)
(* whole packet, so that a parser that lost its place would find one       *)
(* there; a behaviour is about what the device sends or about what is      *)
(* written, which meet in nothing but the state of the socket.             *)
(***************************************************************************)
EXTENDS PacketStream, TLC

Framing == {<<>>, <<HEADER_V, HEADER_Z, 0, 0, 0>>}

InOrOut == {[packets |-> 3, writes |-> 0, beats |-> FALSE],
            [packets |-> 0, writes |-> 2, beats |-> TRUE]}
=============================================================================
