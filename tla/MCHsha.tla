------------------------------- MODULE MCHsha -------------------------------
(***************************************************************************)
(* Instances of Hsha for TLC: everything at once on a few tasks, or many   *)
(* requests on connections that are lost once.                             *)
(***************************************************************************)
EXTENDS Hsha, TLC

Symmetry == Permutations(Users)

Everything == [ops |-> {"connect", "request", "push", "close"},
               connects |-> {"EINPROGRESS", "0", "error"},
               timeouts |-> TRUE, expiry |-> TRUE, tasks |-> 3, drops |-> 2]
Requests == [ops |-> {"connect", "request"}, connects |-> {"EINPROGRESS"},
             timeouts |-> FALSE, expiry |-> TRUE, tasks |-> 6, drops |-> 1]
TaskScenarios == {Everything, Requests}

(* Lost connections and answers, for the liveness properties.              *)
LiveScenarios == {[Requests EXCEPT !.timeouts = TRUE, !.tasks = 2, !.drops = 2]}

(* A late answer, a close, and a connect() that fails.                     *)
LateScenarios == {[Requests EXCEPT !.timeouts = TRUE, !.expiry = FALSE, !.tasks = 3,
                                   !.drops = 0]}
CloseScenarios == {[Requests EXCEPT !.ops = {"connect", "close"}, !.expiry = FALSE,
                                    !.tasks = 2, !.drops = 0]}
StuckScenarios == {[Requests EXCEPT !.ops = {"connect"}, !.timeouts = TRUE,
                                    !.connects = {"EINPROGRESS", "error"},
                                    !.expiry = FALSE, !.tasks = 1, !.drops = 2]}
=============================================================================
