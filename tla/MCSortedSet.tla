---------------------------- MODULE MCSortedSet ----------------------------
(***************************************************************************)
(* An instance of SortedSet for model checking: four buckets, so that two  *)
(* members make the table double and one deletion makes it rehash, and     *)
(* hashes that collide in a table of four and partly in one of eight.      *)
(***************************************************************************)
EXTENDS SortedSet

Colliding == [m \in Members |-> IF m = 1 THEN 7 ELSE 3]
============================================================================
