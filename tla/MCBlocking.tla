----------------------------- MODULE MCBlocking -----------------------------
(***************************************************************************)
(* Instances of Blocking for model checking.                               *)
(***************************************************************************)
EXTENDS Blocking, TLC

CONSTANTS k1, k2

ClientSymmetry == Permutations(Clients)

OneOrTwoKeys == {<<k1>>, <<k2, k1>>}
TwoKeys == {<<k1>>, <<k2, k1>>, <<k1, k1>>}
=============================================================================
