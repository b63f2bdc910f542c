--------------------------- MODULE MCConnections ---------------------------
(***************************************************************************)
(* An instance of Connections for model checking.  The link to the master  *)
(* counts as a client, so a limit of two refuses a peer now and then.      *)
(***************************************************************************)
EXTENDS Connections
============================================================================
