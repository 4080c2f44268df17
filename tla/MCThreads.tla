----------------------------- MODULE MCThreads -----------------------------
(***************************************************************************)
(* An instance of Threads for TLC: sends while a thread and a handler are  *)
(* destroyed, a Send inside a Send that is being answered, and a second    *)
(* handler in use while the first is destroyed.                            *)
(***************************************************************************)
EXTENDS Threads

CONSTANTS t1, t2, h1, h2

Destroying == [sends |-> 1, posts |-> 1, handlers |-> {h1}, clears |-> {h1}, doomed |-> {t2}]
Nesting == [sends |-> 3, posts |-> 1, handlers |-> {h1}, clears |-> {}, doomed |-> {}]
Clearing == [sends |-> 1, posts |-> 1, handlers |-> {h1, h2}, clears |-> {h1}, doomed |-> {}]

AllLoads == {Destroying, Nesting, Clearing}
=============================================================================
