------------------------------ MODULE KeyMap ------------------------------
(***************************************************************************)
(* What a hash table promises: a partial map from keys to values.          *)
(***************************************************************************)
CONSTANTS Keys, Values, NoValue

VARIABLE map

Init == map = [k \in Keys |-> NoValue]

Put(k, v) == map' = [map EXCEPT ![k] = v]

Remove(k) == map' = [map EXCEPT ![k] = NoValue]

Next ==
  \/ \E k \in Keys, v \in Values : Put(k, v)
  \/ \E k \in Keys : Remove(k)

Spec == Init /\ [][Next]_map
===========================================================================
