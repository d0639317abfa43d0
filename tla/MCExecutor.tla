----------------------------- MODULE MCExecutor -----------------------------
(* A small instance of Executor: the ids a client uses. *)
EXTENDS Executor

CONSTANTS id1, id2
=============================================================================
