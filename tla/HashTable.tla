----------------------------- MODULE HashTable -----------------------------
(***************************************************************************)
(* The open-addressing hash table under hashes, sets and sorted sets       *)
(* (storage/data_structures/hash_table.h, hash_set.h): linear probing,     *)
(* tombstones, and a rehash when half of the buckets are taken.            *)
(*                                                                         *)
(* A call of set runs in steps: the test of checkRehash, the move of one   *)
(* bucket at a time into the new buckets, and the insertion.  Nothing else *)
(* happens between them: the table is used by one thread.  The values a    *)
(* rehash has moved out of the old buckets stay in the model's buckets;    *)
(* nothing reads them there.                                               *)
(***************************************************************************)
EXTENDS Integers, FiniteSets

CONSTANTS
  Keys, Values, NoValue,
  Hash,          \* hasher_
  InitCapacity   \* 16 in the code

ASSUME HashAssumption == Hash \in [Keys -> Nat]
ASSUME NoValueAssumption == NoValue \notin Values
ASSUME CapacityAssumption == InitCapacity \in Nat /\ InitCapacity >= 2

VARIABLES
  buckets, size, tombstoneCount,
  call,          \* the set under way: key and value, or Idle
  newBuckets,    \* of the rehash under way, none when there is none
  newSize, cursor

table    == <<buckets, size, tombstoneCount>>
rehashing == <<newBuckets, newSize, cursor>>
tableVars == <<table, call, rehashing>>

Free      == [state |-> "free"]
Tombstone == [state |-> "tombstone"]
Active(k, v) == [state |-> "active", key |-> k, value |-> v]
Buckets   == {Free, Tombstone} \cup [state : {"active"}, key : Keys, value : Values]

Idle == [key |-> NoValue]

Capacity(b) == Cardinality(DOMAIN b)
EmptyBuckets(n) == [i \in 0 .. n - 1 |-> Free]

-----------------------------------------------------------------------------
(* Probing.                                                                *)

\* The d-th bucket looked at for key k.
Probe(b, k, d) == (Hash[k] + d) % Capacity(b)

\* A probe stops at a free bucket and at the key.
Stops(b, k) ==
  {d \in 0 .. Capacity(b) - 1 : LET x == b[Probe(b, k, d)]
                                IN  x = Free \/ (x.state = "active" /\ x.key = k)}

\* The first stop.
First(S) == CHOOSE d \in S : \A e \in S : d <= e

\* findIndex and get: the value of a key, NoValue for NPOS.
Lookup(b, k) ==
  IF Stops(b, k) = {} THEN NoValue
  ELSE LET x == b[Probe(b, k, First(Stops(b, k)))]
       IN  IF x = Free THEN NoValue ELSE x.value

\* insertInternal: the buckets afterwards, and whether a key was added.  With no free bucket and
\* no such key the call returns without storing anything.
Inserted(b, k, v) ==
  IF Stops(b, k) = {} THEN b
  ELSE [b EXCEPT ![Probe(b, k, First(Stops(b, k)))] = Active(k, v)]

IsNew(b, k) == Stops(b, k) # {} /\ b[Probe(b, k, First(Stops(b, k)))] = Free

-----------------------------------------------------------------------------
(* Operations.                                                             *)

\* Faulty: tombstones do not count.
NewCapacityIgnoresTombstones ==
  IF size >= Capacity(buckets) \div 2 THEN Capacity(buckets) * 2 ELSE 0

\* checkRehash: the capacity to rehash to, 0 for no rehash.
NewCapacity ==
  IF size >= Capacity(buckets) \div 2 THEN Capacity(buckets) * 2
  ELSE IF size + tombstoneCount >= Capacity(buckets) \div 2 THEN Capacity(buckets)
  ELSE 0

\* The beginning of set, up to the loop of rehash.
Set(k, v) ==
  /\ call = Idle
  /\ call' = [key |-> k, value |-> v]
  /\ newBuckets' = EmptyBuckets(NewCapacity)
  /\ newSize' = 0 /\ cursor' = 0
  /\ UNCHANGED table

\* One turn of the loop of rehash.
RehashStep ==
  /\ call # Idle /\ Capacity(newBuckets) > 0 /\ cursor < Capacity(buckets)
  /\ LET x == buckets[cursor]
     IN  IF x.state = "active"
         THEN /\ newBuckets' = Inserted(newBuckets, x.key, x.value)
              /\ newSize' = IF IsNew(newBuckets, x.key) THEN newSize + 1 ELSE newSize
         ELSE UNCHANGED <<newBuckets, newSize>>
  /\ cursor' = cursor + 1
  /\ UNCHANGED <<table, call>>

\* Faulty: the tombstones that were left behind still count.
RehashDoneKeepsCount ==
  /\ call # Idle /\ Capacity(newBuckets) > 0 /\ cursor = Capacity(buckets)
  /\ buckets' = newBuckets /\ size' = newSize
  /\ newBuckets' = EmptyBuckets(0) /\ newSize' = 0 /\ cursor' = 0
  /\ UNCHANGED <<tombstoneCount, call>>

\* The end of rehash.
RehashDone ==
  /\ call # Idle /\ Capacity(newBuckets) > 0 /\ cursor = Capacity(buckets)
  /\ buckets' = newBuckets /\ size' = newSize /\ tombstoneCount' = 0
  /\ newBuckets' = EmptyBuckets(0) /\ newSize' = 0 /\ cursor' = 0
  /\ UNCHANGED call

\* The end of set.
Insert ==
  /\ call # Idle /\ Capacity(newBuckets) = 0
  /\ buckets' = Inserted(buckets, call.key, call.value)
  /\ size' = IF IsNew(buckets, call.key) THEN size + 1 ELSE size
  /\ call' = Idle
  /\ UNCHANGED <<tombstoneCount, rehashing>>

\* Faulty: the bucket becomes free, which cuts the probes that pass it.
DelFrees(k) ==
  /\ call = Idle
  /\ IF Lookup(buckets, k) = NoValue THEN UNCHANGED table
     ELSE /\ buckets' = [buckets EXCEPT ![Probe(buckets, k, First(Stops(buckets, k)))] = Free]
          /\ size' = size - 1
          /\ UNCHANGED tombstoneCount
  /\ UNCHANGED <<call, rehashing>>

\* A deleted key leaves a tombstone.
Del(k) ==
  /\ call = Idle
  /\ IF Lookup(buckets, k) = NoValue THEN UNCHANGED table
     ELSE /\ buckets' = [buckets EXCEPT ![Probe(buckets, k, First(Stops(buckets, k)))] = Tombstone]
          /\ size' = size - 1
          /\ tombstoneCount' = tombstoneCount + 1
  /\ UNCHANGED <<call, rehashing>>

TableInit ==
  /\ buckets = EmptyBuckets(InitCapacity) /\ size = 0 /\ tombstoneCount = 0
  /\ call = Idle
  /\ newBuckets = EmptyBuckets(0) /\ newSize = 0 /\ cursor = 0

TableNext ==
  \/ \E k \in Keys, v \in Values : Set(k, v)
  \/ RehashStep \/ RehashDone \/ Insert
  \/ \E k \in Keys : Del(k)

TableSpec == TableInit /\ [][TableNext]_tableVars

-----------------------------------------------------------------------------
(* Properties.                                                             *)

InState(b, s) == {i \in DOMAIN b : b[i].state = s}

\* Every key whose bucket is active is found by its probe: no free bucket lies in between.
Reachable(b) ==
  \A i \in InState(b, "active") : \E d \in Stops(b, b[i].key) :
    Probe(b, b[i].key, d) = i /\ \A e \in Stops(b, b[i].key) : d <= e

\* A probe always ends at a free bucket: half of the buckets at most are taken, tombstones
\* included, so set never drops its key and no lookup goes round the whole table.
HalfFree ==
  2 * (Cardinality(InState(buckets, "active")) + Cardinality(InState(buckets, "tombstone")))
    <= Capacity(buckets)

\* The counters checkRehash trusts are exact, across deletions and rehashes.
CountersHold ==
  /\ size = Cardinality(InState(buckets, "active"))
  /\ tombstoneCount = Cardinality(InState(buckets, "tombstone"))

\* The table is a map from keys to values, whatever is deleted, set again and rehashed.
Contents == [k \in Keys |-> Lookup(buckets, k)]
Map == INSTANCE KeyMap WITH map <- Contents
IsAMap == Map!Spec
=============================================================================
