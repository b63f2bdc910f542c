--------------------------- MODULE MCReplication ---------------------------
(***************************************************************************)
(* An instance of Replication for model checking.  The bytes of a write    *)
(* are its number, so a backlog of three bytes and writes of two make the  *)
(* ring wrap inside a write.                                               *)
(***************************************************************************)
EXTENDS Replication, TLC

WriteBytes == 1 .. MaxWrites
============================================================================
