----------------------------- MODULE SortedSet -----------------------------
(***************************************************************************)
(* A sorted set (storage/data_structures/sorted_set.cpp) under ZADD and    *)
(* ZREM (commands/zset_commands.cpp): a hash table from members to scores  *)
(* and a skip list that holds the same pairs in order.                     *)
(*                                                                         *)
(* Scores are integers here; a NaN, which std::stod accepts, compares with *)
(* nothing and is left out.                                                *)
(***************************************************************************)
EXTENDS HashTable, SkipList

ASSUME KeysAreMembers == Keys = Members
ASSUME ScoresAssumption == Values \subseteq Int

VARIABLES
  zsl,      \* zsl_
  adding    \* the call of dict_.set under way is the one for a new member

vars == <<tableVars, zsl, adding>>

-----------------------------------------------------------------------------
(* Operations.                                                             *)

\* Faulty: the node of the old score stays, as a node that is inserted again.
AddKeepsNode(m, score) ==
  /\ LET old == Lookup(buckets, m)
     IN  \/ old = NoValue /\ adding' = TRUE /\ UNCHANGED zsl
         \/ /\ old \notin {NoValue, score}
            /\ zsl' = [zsl EXCEPT !.score[m] = score]
            /\ UNCHANGED adding
  /\ Set(m, score)

\* add, up to the call of dict_.set: a member that changes its score moves in the list first.
Add(m, score) ==
  /\ LET old == Lookup(buckets, m)
     IN  \/ old = NoValue /\ adding' = TRUE /\ UNCHANGED zsl
         \/ /\ old \notin {NoValue, score}
            /\ \E level \in Levels :
                 zsl' = insert(deleteNode(zsl, old, m), score, m, level)
            /\ UNCHANGED adding
  /\ Set(m, score)

\* The end of dict_.set, and of add: a new member enters the list afterwards.
AddEnd ==
  /\ Insert
  /\ IF adding
     THEN \E level \in Levels : zsl' = insert(zsl, call.value, call.key, level)
     ELSE UNCHANGED zsl
  /\ adding' = FALSE

\* ZREM of one of several members.
Rem(m) ==
  /\ size > 1 /\ Lookup(buckets, m) # NoValue
  /\ zsl' = deleteNode(zsl, Lookup(buckets, m), m)
  /\ Del(m)
  /\ UNCHANGED adding

\* ZREM of the last member deletes the key; the next ZADD makes a new sorted set.
RemoveLast(m) ==
  /\ call = Idle /\ size = 1 /\ Lookup(buckets, m) # NoValue
  /\ buckets' = EmptyBuckets(InitCapacity) /\ size' = 0 /\ tombstoneCount' = 0
  /\ zsl' = EmptyList
  /\ UNCHANGED <<call, rehashing, adding>>

Rehash == (RehashStep \/ RehashDone) /\ UNCHANGED <<zsl, adding>>

Init == TableInit /\ zsl = EmptyList /\ adding = FALSE

Next ==
  \/ \E m \in Members, score \in Values : Add(m, score)
  \/ Rehash \/ AddEnd
  \/ \E m \in Members : Rem(m) \/ RemoveLast(m)

Spec == Init /\ [][Next]_vars

-----------------------------------------------------------------------------
(* Queries.                                                                *)

\* getRank, and ZRANK: 0 for the first.
rankOf(m) == LET rank == getRank(zsl, Lookup(buckets, m), m) IN IF rank > 0 THEN rank - 1 ELSE 0

\* Faulty: a negative index is not clamped to the first element.
rangeByRankUnclamped(start, stop) ==
  LET from == IF start < 0 THEN size + start ELSE start
      last == IF stop < 0 THEN size + stop ELSE stop
      to   == IF last >= size THEN size - 1 ELSE last
      chain[k \in 0 .. to - from] == IF k = 0 THEN getElementByRank(zsl, from + 1)
                          ELSE zsl.forward[chain[k - 1]][1]
  IN  IF from < 0 \/ from > last \/ from >= size THEN <<>>
      ELSE [k \in 1 .. to - from + 1 |-> chain[k - 1]]

\* rangeByRank, and ZRANGE: indices from 0, negative ones count from the end.
rangeByRank(start, stop) ==
  LET from0 == IF start < 0 THEN size + start ELSE start
      from  == IF from0 < 0 THEN 0 ELSE from0
      last  == IF stop < 0 THEN size + stop ELSE stop
      to    == IF last >= size THEN size - 1 ELSE last
      chain[k \in 0 .. to - from] == IF k = 0 THEN getElementByRank(zsl, from + 1)
                          ELSE zsl.forward[chain[k - 1]][1]
  IN  IF from > last \/ from >= size THEN <<>>
      ELSE [k \in 1 .. to - from + 1 |-> chain[k - 1]]

-----------------------------------------------------------------------------
(* Properties.                                                             *)

\* The members of the table.
Present == {m \in Members : Contents[m] # NoValue}

\* The order a sorted set promises: by score, then by member.
Precedes(a, b) == Contents[a] < Contents[b] \/ (Contents[a] = Contents[b] /\ a < b)

\* The members of the table in that order.
InOrder ==
  CHOOSE s \in [1 .. Cardinality(Present) -> Present] :
    /\ \A m \in Present : \E p \in DOMAIN s : s[p] = m
    /\ \A p, q \in DOMAIN s : p < q => Precedes(s[p], s[q])

\* The variables have the types of the members they model.
TypeOK ==
  /\ DOMAIN buckets \subseteq Nat /\ \A i \in DOMAIN buckets : buckets[i] \in Buckets
  /\ size \in Nat /\ tombstoneCount \in Nat
  /\ call = Idle \/ call \in [key : Keys, value : Values]
  /\ cursor \in 0 .. Capacity(buckets) /\ newSize \in Nat
  /\ adding \in BOOLEAN /\ (adding => call # Idle)
  /\ zsl.level \in Levels /\ zsl.length \in Nat /\ zsl.tail \in Members \cup {Nil}
  /\ \A x \in Nodes, i \in Levels : zsl.forward[x][i] \in Members \cup {Nil}
                                    /\ zsl.span[x][i] \in Nat

\* Between calls the list holds exactly the pairs of the table, in order, on the bottom level
\* and, read backwards, through backward and tail; a level above holds the members that reach it.
ListMatchesTable ==
  LET order == InOrder
      n == Len(order)
      at(p) == IF p = 0 THEN Head_ ELSE order[p]
  IN  call = Idle =>
        /\ zsl.length = n /\ size = n
        /\ zsl.tail = IF n = 0 THEN Nil ELSE order[n]
        /\ \A p \in 1 .. n : zsl.score[order[p]] = Contents[order[p]]
                             /\ zsl.backward[order[p]] = IF p = 1 THEN Nil ELSE order[p - 1]
        /\ \A p \in 0 .. n, i \in 1 .. zsl.level : zsl.height[at(p)] >= i =>
             LET later == {q \in p + 1 .. n : zsl.height[order[q]] >= i}
             IN  zsl.forward[at(p)][i] = IF later = {} THEN Nil ELSE order[Min(later)]

\* The spans give the ranks: ZRANK, ZRANGE with any indices, and the searches by score answer
\* what the sorted sequence of the pairs says, through whatever levels the search takes.
QueriesMatchOrder ==
  LET order == InOrder
      n == Len(order)
      bound(i) == IF i < 0 THEN n + i ELSE i
      within(min, max) == {p \in 1 .. n : Contents[order[p]] >= min /\ Contents[order[p]] <= max}
  IN  call = Idle =>
        /\ \A p \in 1 .. n : rankOf(order[p]) = p - 1
        /\ \A start, stop \in -(n + 1) .. n + 1 :
             rangeByRank(start, stop)
               = [k \in 1 .. Cardinality({p \in 0 .. n - 1 : bound(start) <= p /\ p <= bound(stop)})
                   |-> order[Max({0, bound(start)}) + k]]
        /\ \A min, max \in Values :
             LET found == within(min, max)
             IN  /\ getFirstInRange(zsl, min, max) = IF found = {} THEN Nil ELSE order[Min(found)]
                 /\ getLastInRange(zsl, min, max) = IF found = {} THEN Nil ELSE order[Max(found)]
============================================================================
