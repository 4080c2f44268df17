---------------------------- MODULE MCHeartbeat ----------------------------
(***************************************************************************)
(* An instance of Heartbeat for TLC: a clock of 64 milliseconds, which     *)
(* starts anywhere and wraps as often as it likes.                         *)
(***************************************************************************)
EXTENDS Heartbeat
=============================================================================
