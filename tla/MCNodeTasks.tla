---------------------------- MODULE MCNodeTasks ----------------------------
(* A small instance of NodeTasks for TLC. *)
EXTENDS NodeTasks

MCMaxAttempts == [t \in Tasks |-> 2]
=============================================================================
