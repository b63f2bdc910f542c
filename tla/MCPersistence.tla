--------------------------- MODULE MCPersistence ---------------------------
(***************************************************************************)
(* An instance of Persistence for model checking.                          *)
(***************************************************************************)
EXTENDS Persistence

CONSTANTS k1, m1

\* A command that is not idempotent, a container and a deadline.
WriteCommands ==
  {[op |-> "INCRBY", key |-> k1, by |-> 1],
   [op |-> "ADD", key |-> k1, type |-> "zset", members |-> {m1}],
   [op |-> "EXPIREAT", key |-> k1, at |-> 1]}
============================================================================
