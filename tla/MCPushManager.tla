---------------------------- MODULE MCPushManager ----------------------------
(***************************************************************************)
(* Loads of PushManager for TLC.  A close disconnects three times, and the *)
(* reconnect timer may bring the session back after each: the loads with a *)
(* close have either one stimulus or no plate results.                     *)
(***************************************************************************)
EXTENDS PushManager

NotClose == Ops \ {"close"}
InCallbacks == Ops \ {"resume"}

Staying == [user |-> NotClose, callback |-> NotClose \cap InCallbacks,
            stimuli |-> 2, plates |-> 2]
Leaving == [user |-> Ops, callback |-> InCallbacks, stimuli |-> 1, plates |-> 2]
Meeting == [user |-> Ops, callback |-> InCallbacks, stimuli |-> 2, plates |-> 0]

AllLoads == {Staying, Leaving, Meeting}
==============================================================================
