-------------------------- MODULE SortedSetProofs --------------------------
(***************************************************************************)
(* Theorems about the hash table (hash_table.h), the skip list             *)
(* (skip_list.cpp) and the sorted set that keeps both (sorted_set.cpp).    *)
(*                                                                         *)
(* The table: probes end, the counters are exact, and the table is a map,  *)
(* for every hash function, any capacity of two buckets at least and any   *)
(* sets of keys and values.                                                *)
(*                                                                         *)
(* The list: between calls it holds the pairs of the table in order, with  *)
(* the right pointers on every level, and the queries that use its spans   *)
(* answer what the order says, for any members, scores and number of       *)
(* levels and whatever levels the nodes draw.                              *)
(***************************************************************************)
EXTENDS SortedSet, FiniteSetTheorems, WellFoundedInduction, TLAPS

-----------------------------------------------------------------------------
(* The inductive invariant.                                                *)

\* Buckets of a table.
Table(b) == Capacity(b) \in Nat /\ b \in [0 .. Capacity(b) - 1 -> Buckets]

\* The pairs in the first n buckets.
Holds(b, n, k, v) == \E i \in DOMAIN b : i < n /\ b[i] = Active(k, v)

\* The types of the table and of the rehash under way.
TableTypes ==
  /\ Table(buckets) /\ Capacity(buckets) >= 2 /\ size \in Nat /\ tombstoneCount \in Nat
  /\ call = Idle \/ call \in [key : Keys, value : Values]
  /\ Table(newBuckets) /\ newSize \in Nat /\ cursor \in 0 .. Capacity(buckets)
  /\ (call = Idle => Capacity(newBuckets) = 0) /\ (Capacity(newBuckets) = 0 => cursor = 0)

\* After checkRehash, and after the rehash it asked for, there is room for one more key.
Room ==
  call # Idle /\ Capacity(newBuckets) = 0 => 2 * (size + tombstoneCount + 1) <= Capacity(buckets)

\* The rehash under way: the new buckets hold what the old ones hold before the cursor, and have
\* room for the rest and for one more key.
Moved ==
  Capacity(newBuckets) > 0 =>
    /\ Reachable(newBuckets) /\ InState(newBuckets, "tombstone") = {}
    /\ newSize = Cardinality(InState(newBuckets, "active"))
    /\ newSize = Cardinality(InState(buckets, "active") \cap 0 .. cursor - 1)
    /\ \A k \in Keys, v \in Values :
         Holds(newBuckets, Capacity(newBuckets), k, v) <=> Holds(buckets, cursor, k, v)
    /\ 2 * (size + 1) <= Capacity(newBuckets)

\* The invariant: types, and what a probe, a rehash and the counters rely on.
TableInv ==
  /\ TableTypes /\ Reachable(buckets) /\ HalfFree /\ CountersHold /\ Room /\ Moved

-----------------------------------------------------------------------------
(* Probing.                                                                *)

\* A set of natural numbers that is not empty has a least element.
LEMMA LeastElement ==
  ASSUME NEW T \in SUBSET Nat, T # {}
  PROVE  \E x \in T : \A y \in T : x <= y
<1>1. PICK x \in T : \A y \in T : ~ (<<y, x>> \in OpToRel(<, Nat))
  BY NatLessThanWellFounded, WFMin
<1>2. \A y \in T : ~ (y < x)
  BY <1>1 DEF OpToRel
<1> QED
  BY <1>2

\* First(S) is the least element of S.
LEMMA FirstIs ==
  ASSUME NEW S \in SUBSET Nat, S # {}
  PROVE  First(S) \in S /\ \A e \in S : First(S) <= e
<1>1. \E d \in S : \A e \in S : d <= e
  BY LeastElement
<1> QED
  BY <1>1 DEF First

\* The least element is unique.
LEMMA FirstIsThe ==
  ASSUME NEW S \in SUBSET Nat, NEW d \in S, \A e \in S : d <= e
  PROVE  First(S) = d
<1>1. First(S) \in S /\ First(S) <= d /\ d <= First(S) /\ First(S) \in Nat
  BY FirstIs
<1> QED
  BY <1>1

-----------------------------------------------------------------------------
(* Remainders.                                                             *)

\* Linear probing comes to every bucket.
LEMMA ProbesCover ==
  ASSUME NEW n \in Nat \ {0}, NEW h \in Nat, NEW i \in 0 .. n - 1
  PROVE  \E d \in 0 .. n - 1 : (h + d) % n = i
<1> DEFINE c == i - h
           d == c % n
           q == c \div n
<1>1. c \in Int
  OBVIOUS
<1>2. d \in 0 .. n - 1 /\ q \in Int /\ c = n * q + d
  <2> HIDE DEF c
  <2> QED
    BY <1>1
<1>3. h + d = n * (0 - q) + i
  <2>1. n * q \in Int /\ n * (0 - q) = 0 - n * q
    <3> HIDE DEF q
    <3> QED
      BY <1>2
  <2> DEFINE m == n * q
             w == n * (0 - q)
  <2>2. m \in Int /\ w = 0 - m /\ i - h = m + d
    BY <1>2, <2>1
  <2> HIDE DEF m, w, d
  <2> QED
    BY <1>2, <2>2 DEF w
<1>4. (h + d) % n = i
  <2> DEFINE a == h + d
             p == 0 - q
  <2>1. a \in Int /\ p \in Int /\ a = n * p + i
    BY <1>2, <1>3
  <2> HIDE DEF a, p
  <2>2. a % n = i
    BY <2>1
  <2> QED
    BY <2>2 DEF a
<1> QED
  BY <1>2, <1>4

-----------------------------------------------------------------------------
(* One array of buckets.                                                   *)

\* A bucket is free, a tombstone or active, and an active one is a pair.
LEMMA BucketKinds ==
  ASSUME NEW x \in Buckets
  PROVE  /\ x.state \in {"free", "tombstone", "active"}
         /\ x.state = "free" <=> x = Free
         /\ x.state = "tombstone" <=> x = Tombstone
         /\ x.state = "active" => x.key \in Keys /\ x.value \in Values /\ x = Active(x.key, x.value)
<1>1. CASE x \in {Free, Tombstone}
  BY <1>1 DEF Free, Tombstone
<1>2. CASE x \in [state : {"active"}, key : Keys, value : Values]
  <2>1. x.state = "active" /\ x.key \in Keys /\ x.value \in Values
    BY <1>2
  <2>2. x = [state |-> "active", key |-> x.key, value |-> x.value]
    BY <1>2
  <2>3. Free.state = "free" /\ Tombstone.state = "tombstone"
    BY DEF Free, Tombstone
  <2> QED
    BY <2>1, <2>2, <2>3 DEF Active
<1> QED
  BY <1>1, <1>2 DEF Buckets

\* The fields of an active bucket.
LEMMA ActiveIs ==
  ASSUME NEW k \in Keys, NEW v \in Values
  PROVE  /\ Active(k, v) \in Buckets /\ Active(k, v).state = "active"
         /\ Active(k, v).key = k /\ Active(k, v).value = v
         /\ Active(k, v) # Free /\ Active(k, v) # Tombstone
<1>1. /\ Active(k, v) \in Buckets /\ Active(k, v).state = "active"
      /\ Active(k, v).key = k /\ Active(k, v).value = v
  BY DEF Active, Buckets
<1> QED
  BY <1>1, BucketKinds

\* The buckets without a pair.
LEMMA SimpleBuckets ==
  /\ Free \in Buckets /\ Free.state = "free" /\ Tombstone \in Buckets /\ Tombstone.state = "tombstone"
  /\ Free # Tombstone
BY DEF Free, Tombstone, Buckets

\* A probe stays in the table.
LEMMA ProbeType ==
  ASSUME NEW b, Table(b), Capacity(b) # 0, NEW k \in Keys, NEW d \in Nat
  PROVE  Probe(b, k, d) \in 0 .. Capacity(b) - 1 /\ Probe(b, k, d) \in DOMAIN b
<1> DEFINE n == Capacity(b)
           h == Hash[k]
<1>1. n \in Nat \ {0} /\ h \in Nat
  BY HashAssumption DEF Table
<1> HIDE DEF n, h
<1>2. (h + d) % n \in 0 .. n - 1
  BY <1>1
<1> QED
  BY <1>2 DEF Probe, n, h, Table

\* A bucket at which a probe for a key ends.
Ends(x, k) == x = Free \/ (x.state = "active" /\ x.key = k)

\* The places where a probe may stop are numbers of steps.
LEMMA StopsType ==
  ASSUME NEW b, Table(b), NEW k \in Keys
  PROVE  Stops(b, k) \in SUBSET Nat
BY DEF Stops, Table

\* The bucket at the first stop ends the probe, none before it does.
LEMMA StopIs ==
  ASSUME NEW b, Table(b), NEW k \in Keys, NEW d \in Stops(b, k)
  PROVE  /\ d \in Nat /\ d < Capacity(b) /\ Ends(b[Probe(b, k, d)], k)
         /\ Probe(b, k, d) \in DOMAIN b
<1>1. d \in 0 .. Capacity(b) - 1 /\ Capacity(b) \in Nat /\ Capacity(b) # 0
  BY DEF Stops, Table
<1>2. Probe(b, k, d) \in DOMAIN b
  BY <1>1, ProbeType
<1>3. Ends(b[Probe(b, k, d)], k)
  BY DEF Stops, Ends
<1> QED
  BY <1>1, <1>2, <1>3

\* A bucket that ends a probe and has none before it is the first stop.
LEMMA IsStop ==
  ASSUME NEW b, Table(b), NEW k \in Keys, NEW d \in Nat, d < Capacity(b), Ends(b[Probe(b, k, d)], k)
  PROVE  d \in Stops(b, k)
<1>1. d \in 0 .. Capacity(b) - 1
  BY DEF Table
<1> QED
  BY <1>1 DEF Stops, Ends

\* A key that is in an active bucket is found there.
LEMMA LookupHit ==
  ASSUME NEW b, Table(b), Reachable(b), NEW i \in InState(b, "active")
  PROVE  /\ Stops(b, b[i].key) # {}
         /\ Probe(b, b[i].key, First(Stops(b, b[i].key))) = i
         /\ Lookup(b, b[i].key) = b[i].value
         /\ b[i].key \in Keys /\ b[i].value \in Values
<1> DEFINE k == b[i].key
           S == Stops(b, k)
<1>1. PICK d \in S : Probe(b, k, d) = i /\ \A e \in S : d <= e
  BY DEF Reachable
<1>2. i \in DOMAIN b /\ b[i] \in Buckets /\ b[i].state = "active" /\ Capacity(b) # 0
  BY DEF InState, Table
<1>3. k \in Keys /\ b[i].value \in Values /\ b[i] # Free
  BY <1>2, BucketKinds, SimpleBuckets
<1>4. S \in SUBSET Nat
  BY <1>2, <1>3, StopsType
<1> HIDE DEF S, k
<1>5. First(S) = d
  BY <1>1, <1>4, FirstIsThe
<1>6. Probe(b, k, First(Stops(b, k))) = i /\ Stops(b, k) # {}
  BY <1>1, <1>5 DEF S
<1>7. Lookup(b, k) = b[i].value
  BY <1>3, <1>6 DEF Lookup
<1> QED
  BY <1>3, <1>6, <1>7 DEF k

\* A key that is in no active bucket is not found.
LEMMA LookupMiss ==
  ASSUME NEW b, Table(b), Capacity(b) # 0, NEW k \in Keys,
         \A i \in InState(b, "active") : b[i].key # k
  PROVE  Lookup(b, k) = NoValue
<1> DEFINE S == Stops(b, k)
           p == Probe(b, k, First(S))
<1>1. CASE S = {}
  BY <1>1 DEF Lookup
<1>2. CASE S # {}
  <2>1. S \in SUBSET Nat
    BY StopsType
  <2>2. First(S) \in S
    <3> HIDE DEF S
    <3> QED
      BY <1>2, <2>1, FirstIs
  <2>3. p \in DOMAIN b /\ Ends(b[p], k)
    <3> DEFINE d == First(S)
    <3>1. d \in Stops(b, k) /\ p = Probe(b, k, d)
      BY <2>2
    <3> HIDE DEF d, p, S
    <3> QED
      BY <3>1, StopIs
  <2>4. b[p] = Free
    BY <2>3 DEF InState, Ends
  <2> QED
    BY <1>2, <2>4 DEF Lookup
<1> QED
  BY <1>1, <1>2

\* What a lookup answers, in terms of the pairs.
LEMMA LookupIs ==
  ASSUME NEW b, Table(b), Capacity(b) # 0, Reachable(b), NEW k \in Keys
  PROVE  /\ \A v \in Values : Lookup(b, k) = v <=> Holds(b, Capacity(b), k, v)
         /\ Lookup(b, k) \in Values \cup {NoValue}
         /\ Lookup(b, k) = NoValue <=> \A v \in Values : ~Holds(b, Capacity(b), k, v)
         /\ Lookup(b, k) = NoValue <=> \A i \in InState(b, "active") : b[i].key # k
<1>1. DOMAIN b = 0 .. Capacity(b) - 1 /\ Capacity(b) \in Nat /\ \A i \in DOMAIN b : b[i] \in Buckets
  BY DEF Table
<1>2. ASSUME NEW v \in Values
      PROVE  Holds(b, Capacity(b), k, v)
               <=> \E i \in InState(b, "active") : b[i].key = k /\ b[i].value = v
  <2>1. ASSUME NEW i \in DOMAIN b
        PROVE  b[i] = Active(k, v) <=> b[i].state = "active" /\ b[i].key = k /\ b[i].value = v
    BY <1>1, BucketKinds, ActiveIs
  <2> QED
    BY <1>1, <2>1 DEF Holds, InState
<1>3. CASE \E i \in InState(b, "active") : b[i].key = k
  <2>1. PICK i \in InState(b, "active") : b[i].key = k
    BY <1>3
  <2>2. Lookup(b, k) = b[i].value /\ b[i].value \in Values
    BY <2>1, LookupHit
  <2>3. \A j \in InState(b, "active") : b[j].key = k => b[j].value = b[i].value
    BY <2>2, LookupHit
  <2> QED
    BY <1>2, <2>1, <2>2, <2>3, NoValueAssumption
<1>4. CASE \A i \in InState(b, "active") : b[i].key # k
  <2>1. Lookup(b, k) = NoValue
    BY <1>4, LookupMiss
  <2> QED
    BY <1>2, <1>4, <2>1, NoValueAssumption
<1> QED
  BY <1>3, <1>4

-----------------------------------------------------------------------------
(* Writing a bucket.                                                       *)

\* The bucket a set of key k writes to.
Target(b, k) == Probe(b, k, First(Stops(b, k)))

\* Where insertInternal writes.
LEMMA TargetIs ==
  ASSUME NEW b, Table(b), Capacity(b) # 0, NEW k \in Keys, Stops(b, k) # {}
  PROVE  /\ Target(b, k) \in DOMAIN b
         /\ Ends(b[Target(b, k)], k)
         /\ First(Stops(b, k)) \in Stops(b, k) /\ First(Stops(b, k)) \in Nat
         /\ \A e \in Stops(b, k) : First(Stops(b, k)) <= e
<1> DEFINE S == Stops(b, k)
           d == First(S)
<1>1. S \in SUBSET Nat
  BY StopsType
<1>2. d \in S /\ d \in Nat /\ \A e \in S : d <= e
  <2>1. S # {}
    OBVIOUS
  <2> HIDE DEF S
  <2> QED
    BY <1>1, <2>1, FirstIs
<1>3. d \in Stops(b, k) /\ Target(b, k) = Probe(b, k, d)
  BY <1>2 DEF Target
<1> HIDE DEF d, S
<1>4. Probe(b, k, d) \in DOMAIN b /\ Ends(b[Probe(b, k, d)], k)
  BY <1>3, StopIs
<1> QED
  BY <1>2, <1>3, <1>4 DEF d, S

\* Writing a bucket keeps the capacity and the probes.
Assign(b, p, x) == [b EXCEPT ![p] = x]

\* A table with one bucket written.
LEMMA Written ==
  ASSUME NEW b, Table(b), Capacity(b) # 0, NEW p \in DOMAIN b, NEW x \in Buckets,
         NEW c, c = Assign(b, p, x)
  PROVE  /\ Table(c) /\ Capacity(c) = Capacity(b) /\ DOMAIN c = DOMAIN b
         /\ c[p] = x /\ \A i \in DOMAIN b : i # p => c[i] = b[i]
<1>1. DOMAIN c = DOMAIN b /\ c[p] = x /\ \A i \in DOMAIN b : i # p => c[i] = b[i]
  BY DEF Table, Assign
<1>2. c \in [0 .. Capacity(b) - 1 -> Buckets]
  BY DEF Table, Assign
<1>3. Capacity(c) = Capacity(b)
  BY <1>1 DEF Capacity
<1> QED
  BY <1>1, <1>2, <1>3 DEF Table, Probe

\* insertInternal: the key is found afterwards, and every other key where it was.
LEMMA InsertedIs ==
  ASSUME NEW b, Table(b), Capacity(b) # 0, Reachable(b), NEW k \in Keys, NEW v \in Values,
         Stops(b, k) # {}, NEW p, p = Target(b, k), NEW c, c = Inserted(b, k, v)
  PROVE  /\ Table(c) /\ Capacity(c) = Capacity(b) /\ Reachable(c) /\ DOMAIN c = DOMAIN b
         /\ p \in DOMAIN b /\ c[p] = Active(k, v) /\ \A i \in DOMAIN b : i # p => c[i] = b[i]
         /\ InState(c, "active") = InState(b, "active") \cup {p}
         /\ InState(c, "tombstone") = InState(b, "tombstone")
         /\ IsNew(b, k) <=> p \notin InState(b, "active")
         /\ Ends(b[p], k) /\ \A i \in InState(b, "active") : b[i].key = k => i = p
<1> DEFINE x == Active(k, v)
           d == First(Stops(b, k))
<1>1. /\ p \in DOMAIN b /\ (b[p] = Free \/ (b[p].state = "active" /\ b[p].key = k))
      /\ d \in Stops(b, k) /\ d \in Nat /\ \A e \in Stops(b, k) : d <= e
      /\ p = Probe(b, k, d)
  <2>1. /\ p \in DOMAIN b /\ Ends(b[p], k)
        /\ d \in Stops(b, k) /\ d \in Nat /\ \A e \in Stops(b, k) : d <= e
    BY TargetIs
  <2>2. p = Probe(b, k, d)
    BY DEF Target
  <2> HIDE DEF d
  <2> QED
    BY <2>1, <2>2 DEF Ends
<1>2. x \in Buckets /\ x.state = "active" /\ x.key = k /\ x # Free
  BY ActiveIs
<1>3. c = Assign(b, p, x)
  BY DEF Inserted, Target, Assign
<1>4. IsNew(b, k) <=> b[p] = Free
  BY DEF IsNew, Target
<1> HIDE DEF x, d
<1>5. /\ Table(c) /\ Capacity(c) = Capacity(b) /\ DOMAIN c = DOMAIN b
      /\ c[p] = x /\ \A i \in DOMAIN b : i # p => c[i] = b[i]
      /\ \A j, e : Probe(c, j, e) = Probe(b, j, e)
  <2>1. /\ Table(c) /\ Capacity(c) = Capacity(b) /\ DOMAIN c = DOMAIN b
        /\ c[p] = x /\ \A i \in DOMAIN b : i # p => c[i] = b[i]
    BY <1>1, <1>2, <1>3, Written
  <2> QED
    BY <2>1 DEF Probe
<1>6. /\ InState(c, "active") = InState(b, "active") \cup {p}
      /\ InState(c, "tombstone") = InState(b, "tombstone")
      /\ IsNew(b, k) <=> p \notin InState(b, "active")
  <2>1. b[p].state # "tombstone" /\ (b[p] = Free <=> b[p].state # "active")
    BY <1>1, SimpleBuckets
  <2> QED
    BY <1>1, <1>2, <1>4, <1>5, <2>1 DEF InState
<1>7. \A i \in InState(b, "active") : b[i].key = k => i = p
  BY LookupHit DEF Target
<1>8. Reachable(c)
  <2> SUFFICES ASSUME NEW i \in InState(c, "active")
               PROVE  \E e \in Stops(c, c[i].key) :
                        Probe(c, c[i].key, e) = i /\ \A f \in Stops(c, c[i].key) : e <= f
    BY DEF Reachable
  <2>1. CASE i = p
    <3>1. c[i].key = k
      BY <1>2, <1>5, <2>1
    <3>2. d \in Stops(c, k) /\ Probe(c, k, d) = i
      <4>1. d < Capacity(c)
        BY <1>1, <1>5, StopIs
      <4>2. Probe(c, k, d) = p /\ Ends(c[p], k)
        BY <1>1, <1>2, <1>5 DEF Ends
      <4> QED
        BY <1>1, <1>5, <2>1, <4>1, <4>2, IsStop
    <3>3. ASSUME NEW f \in Stops(c, k) PROVE d <= f
      <4> DEFINE q == Probe(b, k, f)
      <4>1. q = Probe(c, k, f)
        BY <1>5
      <4>2. f \in Nat /\ f < Capacity(b) /\ q \in DOMAIN b /\ Ends(c[q], k)
        BY <1>5, <4>1, StopIs
      <4> HIDE DEF q
      <4>3. Ends(b[q], k)
        BY <1>1, <1>5, <4>2 DEF Ends
      <4>4. f \in Stops(b, k)
        BY <4>2, <4>3, IsStop DEF q
      <4> QED
        BY <1>1, <4>4
    <3> QED
      BY <3>1, <3>2, <3>3
  <2>2. CASE i # p
    <3> DEFINE j == b[i].key
    <3>1. i \in InState(b, "active") /\ c[i] = b[i] /\ j # k
      <4>1. i \in InState(b, "active")
        BY <1>6, <2>2
      <4>2. i \in DOMAIN b
        BY <4>1 DEF InState
      <4> QED
        BY <1>5, <1>7, <2>2, <4>1, <4>2
    <3>2. j \in Keys
      BY <3>1, LookupHit
    <3>3. PICK e \in Stops(b, j) : Probe(b, j, e) = i /\ \A f \in Stops(b, j) : e <= f
      BY <3>1 DEF Reachable
    <3>4. b[i].state = "active" /\ c[i].key = j
      BY <3>1 DEF InState
    <3>9. j # k
      BY <3>1
    <3> HIDE DEF j
    <3>5. e \in Nat /\ e < Capacity(c)
      BY <1>5, <3>2, <3>3, StopIs
    <3>8. Probe(c, j, e) = i /\ Ends(c[i], j)
      BY <1>5, <3>1, <3>3, <3>4 DEF Ends
    <3>6. e \in Stops(c, j) /\ Probe(c, j, e) = i
      BY <1>5, <3>2, <3>5, <3>8, IsStop
    <3>7. ASSUME NEW f \in Stops(c, j) PROVE e <= f
      <4> DEFINE q == Probe(b, j, f)
      <4>1. q = Probe(c, j, f)
        BY <1>5
      <4>2. f \in Nat /\ f < Capacity(b) /\ q \in DOMAIN b /\ Ends(c[q], j)
        BY <1>5, <3>2, <4>1, StopIs
      <4> HIDE DEF q
      <4>3. Ends(b[q], j)
        BY <1>2, <1>5, <3>9, <4>2 DEF Ends
      <4>4. f \in Stops(b, j)
        BY <3>2, <4>2, <4>3, IsStop DEF q
      <4> QED
        BY <3>3, <4>4
    <3> QED
      BY <3>4, <3>6, <3>7
  <2> QED
    BY <2>1, <2>2
<1> QED
  BY <1>1, <1>5, <1>6, <1>7, <1>8 DEF x, Ends

\* A tombstone in the bucket of a key leaves every other key where it was.
LEMMA TombstoneIs ==
  ASSUME NEW b, Table(b), Reachable(b), NEW p \in InState(b, "active"),
         NEW c, c = Assign(b, p, Tombstone)
  PROVE  /\ Table(c) /\ Capacity(c) = Capacity(b) /\ Reachable(c) /\ DOMAIN c = DOMAIN b
         /\ c[p] = Tombstone /\ \A i \in DOMAIN b : i # p => c[i] = b[i]
         /\ InState(c, "active") = InState(b, "active") \ {p}
         /\ InState(c, "tombstone") = InState(b, "tombstone") \cup {p}
         /\ p \notin InState(b, "tombstone")
<1> DEFINE k == b[p].key
<1>1. p \in DOMAIN b /\ b[p].state = "active" /\ Capacity(b) # 0
  BY DEF InState, Table
<1>2. /\ Table(c) /\ Capacity(c) = Capacity(b) /\ DOMAIN c = DOMAIN b
      /\ c[p] = Tombstone /\ \A i \in DOMAIN b : i # p => c[i] = b[i]
      /\ \A j, e : Probe(c, j, e) = Probe(b, j, e)
  <2>3. Tombstone \in Buckets
    BY SimpleBuckets
  <2>2. /\ Table(c) /\ Capacity(c) = Capacity(b) /\ DOMAIN c = DOMAIN b
        /\ c[p] = Tombstone /\ \A i \in DOMAIN b : i # p => c[i] = b[i]
    BY <1>1, <2>3, Written
  <2> QED
    BY <2>2 DEF Probe
<1>3. /\ InState(c, "active") = InState(b, "active") \ {p}
      /\ InState(c, "tombstone") = InState(b, "tombstone") \cup {p}
      /\ p \notin InState(b, "tombstone")
  BY <1>1, <1>2, SimpleBuckets DEF InState
<1>4. Reachable(c)
  <2> SUFFICES ASSUME NEW i \in InState(c, "active")
               PROVE  \E e \in Stops(c, c[i].key) :
                        Probe(c, c[i].key, e) = i /\ \A f \in Stops(c, c[i].key) : e <= f
    BY DEF Reachable
  <2> DEFINE j == b[i].key
  <2>1. i \in InState(b, "active") /\ i # p /\ c[i] = b[i] /\ i \in DOMAIN b
    BY <1>2, <1>3 DEF InState
  <2>2. j \in Keys
    BY <2>1, LookupHit
  <2>3. PICK e \in Stops(b, j) : Probe(b, j, e) = i /\ \A f \in Stops(b, j) : e <= f
    BY <2>1 DEF Reachable
  <2>4. b[i].state = "active" /\ c[i].key = j
    BY <2>1 DEF InState
  <2> HIDE DEF j
  <2>5. e \in Nat /\ e < Capacity(c)
    BY <1>2, <2>2, <2>3, StopIs
  <2>8. Probe(c, j, e) = i /\ Ends(c[i], j)
    BY <1>2, <2>1, <2>3, <2>4 DEF Ends
  <2>6. e \in Stops(c, j) /\ Probe(c, j, e) = i
    BY <1>2, <2>2, <2>5, <2>8, IsStop
  <2>7. ASSUME NEW f \in Stops(c, j) PROVE e <= f
    <3> DEFINE q == Probe(b, j, f)
    <3>1. q = Probe(c, j, f)
      BY <1>2
    <3>2. f \in Nat /\ f < Capacity(b) /\ q \in DOMAIN b /\ Ends(c[q], j)
      BY <1>2, <2>2, <3>1, StopIs
    <3> HIDE DEF q
    <3>3. Ends(b[q], j)
      BY <1>2, <3>2, SimpleBuckets DEF Ends
    <3>4. f \in Stops(b, j)
      BY <2>2, <3>2, <3>3, IsStop DEF q
    <3> QED
      BY <2>3, <3>4
  <2> QED
    BY <2>4, <2>6, <2>7
<1> QED
  BY <1>2, <1>3, <1>4

\* As long as a bucket is neither active nor a tombstone, every probe ends.
LEMMA ProbeEnds ==
  ASSUME NEW b, Table(b), NEW k \in Keys,
         Cardinality(InState(b, "active")) + Cardinality(InState(b, "tombstone")) < Capacity(b)
  PROVE  Stops(b, k) # {}
<1> DEFINE A == InState(b, "active")
           T == InState(b, "tombstone")
           D == 0 .. Capacity(b) - 1
           n == Capacity(b)
<1>1. n \in Nat /\ DOMAIN b = D /\ \A i \in D : b[i] \in Buckets
  BY DEF Table
<1>2. IsFiniteSet(D) /\ Cardinality(D) = n
  <2>1. n - 1 \in Int /\ 0 \in Int /\ (IF 0 > n - 1 THEN 0 ELSE n - 1 - 0 + 1) = n
    BY <1>1
  <2> HIDE DEF n
  <2> QED
    BY <2>1, FS_Interval DEF n
<1>3. A \subseteq D /\ T \subseteq D /\ A \cap T = {}
  BY <1>1 DEF InState
<1> HIDE DEF A, T, D, n
<1>4. /\ IsFiniteSet(A) /\ IsFiniteSet(T)
      /\ Cardinality(A) \in Nat /\ Cardinality(T) \in Nat
  BY <1>2, <1>3, FS_Subset, FS_CardinalityType
<1>5. Cardinality(A \cup T) = Cardinality(A) + Cardinality(T)
  <2>1. Cardinality(A \cup T) = Cardinality(A) + Cardinality(T) - Cardinality(A \cap T)
    BY <1>4, FS_Union
  <2>2. Cardinality(A \cap T) = 0
    BY <1>3, FS_EmptySet
  <2> QED
    BY <1>4, <2>1, <2>2
<1>6. A \cup T # D
  <2>1. Cardinality(A) + Cardinality(T) < n
    BY DEF A, T, n
  <2>2. n \in Nat
    BY <1>1
  <2>3. Cardinality(A \cup T) < n
    BY <1>5, <2>1
  <2>4. Cardinality(A \cup T) # Cardinality(D)
    BY <1>2, <1>4, <1>5, <2>2, <2>3
  <2> QED
    BY <2>4, Zenon
<1>7. PICK i \in D : i \notin A /\ i \notin T
  BY <1>3, <1>6
<1>8. b[i] = Free /\ i \in 0 .. n - 1 /\ n \in Nat \ {0}
  BY <1>1, <1>7, BucketKinds DEF A, T, D, InState, n
<1>9. Hash[k] \in Nat
  BY HashAssumption
<1>10. PICK d \in 0 .. n - 1 : (Hash[k] + d) % n = i
  BY <1>8, <1>9, ProbesCover
<1>11. d \in Nat /\ d < Capacity(b) /\ Probe(b, k, d) = i
  BY <1>8, <1>10 DEF Probe, n
<1>12. d \in Stops(b, k)
  <2>1. Ends(b[Probe(b, k, d)], k)
    BY <1>8, <1>11 DEF Ends
  <2> QED
    BY <1>11, <2>1, IsStop
<1> QED
  BY <1>12

\* What a set changes for lookups.
LEMMA LookupInserted ==
  ASSUME NEW b, Table(b), Capacity(b) # 0, Reachable(b), NEW k \in Keys, NEW v \in Values,
         Stops(b, k) # {}, NEW c, c = Inserted(b, k, v), NEW j \in Keys
  PROVE  Lookup(c, j) = IF j = k THEN v ELSE Lookup(b, j)
<1>0. PICK p : p = Target(b, k)
  OBVIOUS
<1>1. /\ Table(c) /\ Capacity(c) = Capacity(b) /\ Reachable(c) /\ DOMAIN c = DOMAIN b
      /\ p \in DOMAIN b /\ c[p] = Active(k, v) /\ \A i \in DOMAIN b : i # p => c[i] = b[i]
      /\ InState(c, "active") = InState(b, "active") \cup {p}
      /\ Ends(b[p], k)
  BY <1>0, InsertedIs
<1>2. Active(k, v).key = k /\ Active(k, v).value = v
  BY ActiveIs
<1>3. CASE j = k
  <2>1. p \in InState(c, "active") /\ c[p].key = k /\ c[p].value = v
    BY <1>1, <1>2
  <2> QED
    BY <1>1, <1>3, <2>1, LookupHit
<1>4. CASE j # k
  <2>1. ASSUME NEW i \in InState(b, "active"), b[i].key = j
        PROVE  i \in InState(c, "active") /\ c[i] = b[i]
    <3>1. i \in DOMAIN b /\ i # p
      BY <1>1, <1>4, <2>1, SimpleBuckets DEF InState, Ends
    <3> QED
      BY <1>1, <3>1
  <2>2. ASSUME NEW i \in InState(c, "active"), c[i].key = j
        PROVE  i \in InState(b, "active") /\ b[i].key = j
    <3>1. i # p
      BY <1>1, <1>2, <1>4, <2>2
    <3>2. i \in InState(b, "active") /\ i \in DOMAIN b
      BY <1>1, <3>1 DEF InState
    <3> QED
      BY <1>1, <2>2, <3>1, <3>2
  <2>3. CASE \E i \in InState(b, "active") : b[i].key = j
    <3>1. PICK i \in InState(b, "active") : b[i].key = j
      BY <2>3
    <3>2. Lookup(b, j) = b[i].value
      BY <3>1, LookupHit
    <3>3. Lookup(c, j) = c[i].value
      BY <1>1, <2>1, <3>1, LookupHit
    <3> QED
      BY <1>4, <2>1, <3>1, <3>2, <3>3
  <2>4. CASE \A i \in InState(b, "active") : b[i].key # j
    <3>1. Lookup(b, j) = NoValue
      BY <2>4, LookupMiss
    <3>2. \A i \in InState(c, "active") : c[i].key # j
      BY <2>2, <2>4
    <3>3. Lookup(c, j) = NoValue
      BY <1>1, <3>2, LookupMiss
    <3> QED
      BY <1>4, <3>1, <3>3
  <2> QED
    BY <2>3, <2>4
<1> QED
  BY <1>3, <1>4

\* What a deletion changes for lookups.
LEMMA LookupDeleted ==
  ASSUME NEW b, Table(b), Reachable(b), NEW p \in InState(b, "active"),
         NEW c, c = Assign(b, p, Tombstone), NEW j \in Keys
  PROVE  Lookup(c, j) = IF j = b[p].key THEN NoValue ELSE Lookup(b, j)
<1>0. Capacity(b) # 0 /\ p \in DOMAIN b
  BY DEF InState, Table
<1>1. /\ Table(c) /\ Capacity(c) = Capacity(b) /\ Reachable(c) /\ DOMAIN c = DOMAIN b
      /\ \A i \in DOMAIN b : i # p => c[i] = b[i]
      /\ InState(c, "active") = InState(b, "active") \ {p}
  BY TombstoneIs
<1>2. ASSUME NEW i \in InState(c, "active")
      PROVE  i \in InState(b, "active") /\ i # p /\ c[i] = b[i]
  <2>1. i \in InState(b, "active") /\ i # p
    BY <1>1
  <2>2. i \in DOMAIN b
    BY <2>1 DEF InState
  <2> QED
    BY <1>1, <2>1, <2>2
<1>3. CASE j = b[p].key
  <2>1. ASSUME NEW i \in InState(b, "active"), b[i].key = j PROVE i = p
    BY <1>3, <2>1, LookupHit
  <2>2. \A i \in InState(c, "active") : c[i].key # j
    BY <1>2, <2>1
  <2>3. Lookup(c, j) = NoValue
    BY <1>0, <1>1, <2>2, LookupMiss
  <2> QED
    BY <1>3, <2>3
<1>4. CASE j # b[p].key
  <2>1. CASE \E i \in InState(b, "active") : b[i].key = j
    <3>1. PICK i \in InState(b, "active") : b[i].key = j
      BY <2>1
    <3>2. Lookup(b, j) = b[i].value
      BY <3>1, LookupHit
    <3>3. i \in InState(c, "active")
      BY <1>1, <1>4, <3>1
    <3>4. Lookup(c, j) = c[i].value /\ c[i] = b[i]
      <4>1. c[i] = b[i]
        BY <1>2, <3>3
      <4>2. c[i].key = j
        BY <3>1, <4>1
      <4> QED
        BY <1>1, <3>3, <4>1, <4>2, LookupHit
    <3> QED
      BY <1>4, <3>2, <3>4
  <2>2. CASE \A i \in InState(b, "active") : b[i].key # j
    <3>1. Lookup(b, j) = NoValue
      BY <1>0, <2>2, LookupMiss
    <3>2. \A i \in InState(c, "active") : c[i].key # j
      BY <1>2, <2>2
    <3>3. Lookup(c, j) = NoValue
      BY <1>0, <1>1, <3>2, LookupMiss
    <3> QED
      BY <1>4, <3>1, <3>3
  <2> QED
    BY <2>1, <2>2
<1> QED
  BY <1>3, <1>4

\* The buckets of a new table.
LEMMA EmptyIs ==
  ASSUME NEW n \in Nat, NEW b, b = EmptyBuckets(n)
  PROVE  /\ Table(b) /\ Capacity(b) = n /\ Reachable(b)
         /\ InState(b, "active") = {} /\ InState(b, "tombstone") = {}
         /\ \A m, k, v : ~Holds(b, m, k, v)
<1>1. DOMAIN b = 0 .. n - 1 /\ \A i \in DOMAIN b : b[i] = Free
  BY DEF EmptyBuckets
<1>2. Capacity(b) = n
  <2>1. n - 1 \in Int /\ 0 \in Int /\ (IF 0 > n - 1 THEN 0 ELSE n - 1 - 0 + 1) = n
    OBVIOUS
  <2>2. Cardinality(0 .. n - 1) = n
    BY <2>1, FS_Interval
  <2> QED
    BY <1>1, <2>2 DEF Capacity
<1>3. b \in [0 .. n - 1 -> Buckets]
  BY SimpleBuckets DEF EmptyBuckets
<1>4. InState(b, "active") = {} /\ InState(b, "tombstone") = {}
  BY <1>1, SimpleBuckets DEF InState
<1>5. Free # [state |-> "active"] /\ \A k, v : Active(k, v).state = "active"
  BY DEF Free, Active
<1>6. \A m, k, v : ~Holds(b, m, k, v)
  BY <1>1, <1>5, SimpleBuckets DEF Holds
<1> QED
  BY <1>2, <1>3, <1>4, <1>6 DEF Table, Reachable

\* Buckets in a state can be counted.
LEMMA Counted ==
  ASSUME NEW b, Table(b), NEW s
  PROVE  /\ IsFiniteSet(InState(b, s)) /\ Cardinality(InState(b, s)) \in Nat
         /\ InState(b, s) \subseteq 0 .. Capacity(b) - 1
<1> DEFINE D == 0 .. Capacity(b) - 1
           A == InState(b, s)
<1>1. A \subseteq D
  BY DEF Table, InState
<1>2. IsFiniteSet(D)
  BY FS_Interval DEF Table
<1> HIDE DEF D, A
<1>3. IsFiniteSet(A) /\ Cardinality(A) \in Nat
  BY <1>1, <1>2, FS_Subset, FS_CardinalityType
<1> QED
  BY <1>1, <1>3 DEF A, D

\* A part of a finite set is no larger than the set.
LEMMA CountedPart ==
  ASSUME NEW S, IsFiniteSet(S), NEW T \in SUBSET S
  PROVE  IsFiniteSet(T) /\ Cardinality(T) \in Nat /\ Cardinality(T) <= Cardinality(S)
BY FS_Subset, FS_CardinalityType

-----------------------------------------------------------------------------
(* The operations.                                                         *)

\* The variables that TableInv reads, unchanged.
LEMMA TableInvKept ==
  ASSUME TableInv, UNCHANGED tableVars
  PROVE  TableInv' /\ Contents' = Contents
BY DEF tableVars, table, rehashing, TableInv, TableTypes, Room, Moved, HalfFree, CountersHold, Contents

\* A new table.
LEMMA TableInitInv == TableInit => TableInv /\ Contents = [k \in Keys |-> NoValue]
<1> SUFFICES ASSUME TableInit PROVE TableInv /\ Contents = [k \in Keys |-> NoValue]
  OBVIOUS
<1>1. /\ buckets = EmptyBuckets(InitCapacity) /\ size = 0 /\ tombstoneCount = 0 /\ call = Idle
      /\ newBuckets = EmptyBuckets(0) /\ newSize = 0 /\ cursor = 0
      /\ InitCapacity \in Nat /\ InitCapacity >= 2
  BY CapacityAssumption DEF TableInit
<1>2. /\ Table(buckets) /\ Capacity(buckets) = InitCapacity /\ Reachable(buckets)
      /\ InState(buckets, "active") = {} /\ InState(buckets, "tombstone") = {}
  BY <1>1, EmptyIs
<1>3. Table(newBuckets) /\ Capacity(newBuckets) = 0
  BY <1>1, EmptyIs
<1>4. Cardinality({}) = 0
  BY FS_EmptySet
<1>5. TableTypes /\ Room /\ Moved
  BY <1>1, <1>2, <1>3 DEF TableTypes, Room, Moved
<1>6. HalfFree /\ CountersHold
  BY <1>1, <1>2, <1>4 DEF HalfFree, CountersHold
<1>7. ASSUME NEW k \in Keys PROVE Lookup(buckets, k) = NoValue
  BY <1>1, <1>2, LookupMiss
<1> QED
  BY <1>2, <1>5, <1>6, <1>7 DEF TableInv, Contents

\* The beginning of set: checkRehash leaves room for a key, or asks for buckets that have it.
LEMMA SetInv ==
  ASSUME TableInv, NEW k \in Keys, NEW v \in Values, Set(k, v)
  PROVE  TableInv' /\ Contents' = Contents
<1>1. /\ buckets' = buckets /\ size' = size /\ tombstoneCount' = tombstoneCount
      /\ call' = [key |-> k, value |-> v] /\ newBuckets' = EmptyBuckets(NewCapacity)
      /\ newSize' = 0 /\ cursor' = 0
  BY DEF Set, table
<1>2. /\ Table(buckets) /\ Capacity(buckets) >= 2 /\ size \in Nat /\ tombstoneCount \in Nat
      /\ Capacity(buckets) \in Nat
  BY DEF TableInv, TableTypes, Table
<1> DEFINE n == Capacity(buckets)
           A == InState(buckets, "active")
           T == InState(buckets, "tombstone")
<1>3. 2 * (size + tombstoneCount) <= n
  BY DEF TableInv, HalfFree, CountersHold
<1> HIDE DEF n
<1>4. /\ NewCapacity \in Nat
      /\ NewCapacity = 0 => 2 * (size + tombstoneCount + 1) <= n
      /\ NewCapacity # 0 => 2 * (size + 1) <= NewCapacity
  <2> DEFINE h == n \div 2
  <2>1. h \in Nat /\ 2 * h <= n /\ n < 2 * h + 2 /\ n \in Nat /\ n >= 2
    BY <1>2 DEF n
  <2>2. NewCapacity = IF size >= h THEN n * 2 ELSE IF size + tombstoneCount >= h THEN n ELSE 0
    BY DEF NewCapacity, n
  <2> HIDE DEF h
  <2> QED
    BY <1>2, <1>3, <2>1, <2>2
<1>5. PICK m \in Nat : m = NewCapacity
  BY <1>4
<1>6. newBuckets' = EmptyBuckets(m)
  BY <1>1, <1>5
<1>7. /\ Table(newBuckets') /\ Capacity(newBuckets') = m /\ Reachable(newBuckets')
      /\ InState(newBuckets', "active") = {} /\ InState(newBuckets', "tombstone") = {}
      /\ \A c, j, w : ~Holds(newBuckets', c, j, w)
  BY <1>6, EmptyIs
<1>8. call' # Idle /\ call' \in [key : Keys, value : Values]
  BY <1>1 DEF Idle
<1>9. TableTypes'
  BY <1>1, <1>2, <1>7, <1>8 DEF TableTypes
<1>10. Room'
  BY <1>1, <1>4, <1>5, <1>7 DEF Room, n
<1>11. Moved'
  <2>1. A \cap 0 .. 0 - 1 = {} /\ Cardinality({}) = 0
    BY FS_EmptySet
  <2>2. ASSUME NEW j \in Keys, NEW w \in Values PROVE ~Holds(buckets, 0, j, w)
    BY <1>2 DEF Holds, Table
  <2>3. m # 0 => 2 * (size + 1) <= m
    BY <1>4, <1>5
  <2> QED
    BY <1>1, <1>7, <2>1, <2>2, <2>3 DEF Moved
<1>12. Reachable(buckets') /\ HalfFree' /\ CountersHold'
  BY <1>1 DEF TableInv, HalfFree, CountersHold
<1>13. Contents' = Contents
  BY <1>1 DEF Contents
<1> QED
  BY <1>9, <1>10, <1>11, <1>12, <1>13 DEF TableInv

\* One turn of rehash: no key of the new buckets is met again.
LEMMA RehashStepInv ==
  ASSUME TableInv, RehashStep
  PROVE  TableInv' /\ Contents' = Contents
<1> DEFINE x == buckets[cursor]
           n == Capacity(buckets)
           m == Capacity(newBuckets)
           A == InState(buckets, "active")
           N == InState(newBuckets, "active")
<1>1. /\ buckets' = buckets /\ size' = size /\ tombstoneCount' = tombstoneCount /\ call' = call
      /\ cursor' = cursor + 1 /\ call # Idle /\ m > 0 /\ cursor < n
  BY DEF RehashStep, table
<1>2. /\ Table(buckets) /\ n >= 2 /\ n \in Nat /\ size \in Nat /\ cursor \in 0 .. n
      /\ Table(newBuckets) /\ newSize \in Nat /\ m \in Nat
      /\ call \in [key : Keys, value : Values] /\ tombstoneCount \in Nat
  BY <1>1 DEF TableInv, TableTypes, Table
<1>3. /\ Reachable(newBuckets) /\ InState(newBuckets, "tombstone") = {}
      /\ newSize = Cardinality(N) /\ newSize = Cardinality(A \cap 0 .. cursor - 1)
      /\ \A k \in Keys, v \in Values : Holds(newBuckets, m, k, v) <=> Holds(buckets, cursor, k, v)
      /\ 2 * (size + 1) <= m
  BY <1>1 DEF TableInv, Moved
<1>4. size = Cardinality(A) /\ Reachable(buckets)
  BY DEF TableInv, CountersHold
<1>5. cursor \in DOMAIN buckets /\ x \in Buckets /\ cursor \in Nat
  BY <1>1, <1>2 DEF Table
<1>6. \A i \in DOMAIN buckets : i \in Nat
  BY <1>2 DEF Table
<1>7. ASSUME NEW k \in Keys, NEW v \in Values
      PROVE  Holds(buckets, cursor + 1, k, v) <=> Holds(buckets, cursor, k, v) \/ x = Active(k, v)
  <2>1. ASSUME NEW i \in DOMAIN buckets PROVE i < cursor + 1 <=> i < cursor \/ i = cursor
    BY <1>5, <1>6
  <2> QED
    BY <1>5, <2>1 DEF Holds
<1>8. Reachable(buckets') /\ HalfFree' /\ CountersHold'
  BY <1>1 DEF TableInv, HalfFree, CountersHold
<1>9. Contents' = Contents
  BY <1>1 DEF Contents
<1>10. CASE x.state # "active"
  <2>1. newBuckets' = newBuckets /\ newSize' = newSize
    BY <1>10 DEF RehashStep
  <2>2. A \cap 0 .. (cursor + 1) - 1 = A \cap 0 .. cursor - 1
    <3>1. \A i \in A : i \in Nat /\ i # cursor
      BY <1>6, <1>10 DEF InState
    <3> HIDE DEF A
    <3> QED
      BY <1>5, <3>1
  <2>3. ASSUME NEW k \in Keys, NEW v \in Values PROVE x # Active(k, v)
    BY <1>10, ActiveIs
  <2>4. Moved'
    BY <1>1, <1>3, <1>7, <2>1, <2>2, <2>3 DEF Moved
  <2>5. TableTypes' /\ Room'
    BY <1>1, <1>2, <2>1 DEF TableTypes, Room
  <2> QED
    BY <1>8, <1>9, <2>4, <2>5 DEF TableInv
<1>11. CASE x.state = "active"
  <2>0. PICK b : b = newBuckets
    OBVIOUS
  <2>1. PICK k, v, c : k = x.key /\ v = x.value /\ c = Inserted(b, k, v)
    OBVIOUS
  <2>2. k \in Keys /\ v \in Values /\ x = Active(k, v) /\ cursor \in A
    BY <1>5, <1>11, <2>1, BucketKinds DEF InState
  <2>3. newBuckets' = c /\ newSize' = IF IsNew(b, k) THEN newSize + 1 ELSE newSize
    BY <1>11, <2>0, <2>1 DEF RehashStep
  <2>a. /\ Table(b) /\ Capacity(b) = m /\ m # 0 /\ Reachable(b) /\ InState(b, "active") = N
        /\ InState(b, "tombstone") = {}
    BY <1>1, <1>2, <1>3, <2>0
  <2>4. Stops(b, k) # {}
    <3>1. IsFiniteSet(A)
      BY <1>2, Counted
    <3> DEFINE B == A \cap 0 .. cursor - 1
    <3>2. Cardinality(B) <= Cardinality(A) /\ Cardinality(B) \in Nat
      BY <3>1, CountedPart
    <3>3. Cardinality(InState(b, "tombstone")) = 0
      BY <2>a, FS_EmptySet
    <3>4. newSize < m
      BY <1>2, <1>3, <1>4, <3>2
    <3>5. Cardinality(InState(b, "active")) + Cardinality(InState(b, "tombstone")) < Capacity(b)
      BY <1>2, <1>3, <2>a, <3>3, <3>4
    <3> QED
      BY <2>a, <2>2, <3>5, ProbeEnds
  <2>5. PICK p : p = Target(b, k)
    OBVIOUS
  <2>6. /\ Table(c) /\ Capacity(c) = m /\ Reachable(c) /\ DOMAIN c = DOMAIN b
        /\ p \in DOMAIN b /\ c[p] = Active(k, v) /\ \A i \in DOMAIN b : i # p => c[i] = b[i]
        /\ InState(c, "active") = N \cup {p}
        /\ InState(c, "tombstone") = {}
        /\ IsNew(b, k) <=> p \notin N
        /\ Ends(b[p], k)
    <3>1. /\ Table(c) /\ Capacity(c) = Capacity(b) /\ Reachable(c) /\ DOMAIN c = DOMAIN b
          /\ p \in DOMAIN b /\ c[p] = Active(k, v) /\ \A i \in DOMAIN b : i # p => c[i] = b[i]
          /\ InState(c, "active") = InState(b, "active") \cup {p}
          /\ InState(c, "tombstone") = InState(b, "tombstone")
          /\ IsNew(b, k) <=> p \notin InState(b, "active")
          /\ Ends(b[p], k)
      <4> HIDE DEF m, N
      <4>1. c = Inserted(b, k, v) /\ Capacity(b) # 0
        BY <2>1, <2>a
      <4> QED
        BY <2>a, <2>2, <2>4, <2>5, <4>1, InsertedIs
    <3> HIDE DEF m, N
    <3> QED
      BY <2>a, <3>1
  <2>7. p \notin N
    <3> SUFFICES ASSUME p \in N PROVE FALSE
      OBVIOUS
    <3>1. b[p].state = "active" /\ b[p] \in Buckets /\ b[p] # Free
      BY <2>a, <2>6, SimpleBuckets DEF InState, Table
    <3>2. PICK w \in Values : b[p] = Active(k, w)
      BY <2>6, <3>1, BucketKinds DEF Ends
    <3>3. p < m
      BY <1>2, <2>a, <2>6 DEF Table
    <3>4. Holds(buckets, cursor, k, w)
      <4>1. Holds(b, m, k, w)
        BY <2>6, <3>2, <3>3 DEF Holds
      <4> QED
        BY <1>3, <2>0, <2>2, <4>1
    <3>5. PICK i \in DOMAIN buckets : i < cursor /\ buckets[i] = Active(k, w)
      BY <3>4 DEF Holds
    <3>6. i \in A /\ buckets[i].key = k /\ buckets[cursor].key = k
      <4>1. Active(k, w).state = "active" /\ Active(k, w).key = k
        BY <2>2, ActiveIs
      <4>2. buckets[i].state = "active" /\ buckets[i].key = k
        BY <3>5, <4>1
      <4> QED
        BY <2>1, <4>2 DEF InState
    <3>7. i = cursor
      <4>1. Probe(buckets, buckets[i].key, First(Stops(buckets, buckets[i].key))) = i
        BY <1>2, <1>4, <3>6, LookupHit
      <4>2. Probe(buckets, buckets[cursor].key, First(Stops(buckets, buckets[cursor].key))) = cursor
        BY <1>2, <1>4, <2>2, LookupHit
      <4> QED
        BY <3>6, <4>1, <4>2
    <3> QED
      BY <1>5, <1>6, <3>5, <3>7
  <2>8. newSize' = newSize + 1
    BY <2>3, <2>6, <2>7
  <2>9. newSize' = Cardinality(InState(newBuckets', "active"))
    <3>1. IsFiniteSet(N)
      BY <1>2, Counted
    <3> HIDE DEF N
    <3>2. Cardinality(N \cup {p}) = Cardinality(N) + 1
      BY <2>7, <3>1, FS_AddElement
    <3> QED
      BY <1>3, <2>3, <2>6, <2>8, <3>2
  <2>10. newSize' = Cardinality(A \cap 0 .. (cursor + 1) - 1)
    <3> DEFINE B == A \cap 0 .. cursor - 1
    <3>1. \A i \in A : i \in Nat
      BY <1>6 DEF InState
    <3>2. IsFiniteSet(A)
      BY <1>2, Counted
    <3> HIDE DEF A
    <3>3. A \cap 0 .. (cursor + 1) - 1 = B \cup {cursor} /\ cursor \notin B
      BY <1>5, <2>2, <3>1
    <3>4. IsFiniteSet(B)
      BY <3>2, CountedPart
    <3>5. newSize = Cardinality(B)
      BY <1>3
    <3> HIDE DEF B
    <3>6. Cardinality(B \cup {cursor}) = Cardinality(B) + 1
      BY <3>3, <3>4, FS_AddElement
    <3> QED
      BY <2>8, <3>3, <3>5, <3>6
  <2>11. ASSUME NEW j \in Keys, NEW w \in Values
         PROVE  Holds(c, m, j, w) <=> Holds(buckets, cursor + 1, j, w)
    <3>1. b[p] = Free
      BY <2>a, <2>6, <2>7 DEF Ends, InState
    <3>2. Free # Active(j, w)
      BY ActiveIs
    <3>3. p < m
      BY <1>2, <2>a, <2>6 DEF Table
    <3>4. Holds(c, m, j, w) <=> Holds(b, m, j, w) \/ Active(k, v) = Active(j, w)
      BY <2>6, <3>1, <3>2, <3>3 DEF Holds
    <3> QED
      BY <1>3, <1>7, <2>0, <2>2, <3>4
  <2>12. Moved'
    BY <1>1, <1>3, <2>3, <2>6, <2>9, <2>10, <2>11 DEF Moved
  <2>13. TableTypes' /\ Room'
    BY <1>1, <1>2, <2>3, <2>6, <2>8 DEF TableTypes, Room
  <2> QED
    BY <1>8, <1>9, <2>12, <2>13 DEF TableInv
<1> QED
  BY <1>10, <1>11

\* The end of rehash: every key has the value it had.
LEMMA RehashDoneInv ==
  ASSUME TableInv, RehashDone
  PROVE  TableInv' /\ Contents' = Contents
<1> DEFINE n == Capacity(buckets)
           m == Capacity(newBuckets)
           A == InState(buckets, "active")
<1>1. /\ buckets' = newBuckets /\ size' = newSize /\ tombstoneCount' = 0 /\ call' = call
      /\ newBuckets' = EmptyBuckets(0) /\ newSize' = 0 /\ cursor' = 0
      /\ call # Idle /\ m > 0 /\ cursor = n
  BY DEF RehashDone
<1>2. /\ Table(buckets) /\ n >= 2 /\ n \in Nat /\ size \in Nat
      /\ Table(newBuckets) /\ newSize \in Nat /\ m \in Nat
      /\ call \in [key : Keys, value : Values]
  BY <1>1 DEF TableInv, TableTypes, Table
<1>3. /\ Reachable(newBuckets) /\ InState(newBuckets, "tombstone") = {}
      /\ newSize = Cardinality(InState(newBuckets, "active"))
      /\ newSize = Cardinality(A \cap 0 .. n - 1)
      /\ \A k \in Keys, v \in Values : Holds(newBuckets, m, k, v) <=> Holds(buckets, n, k, v)
      /\ 2 * (size + 1) <= m
  BY <1>1 DEF TableInv, Moved
<1>4. size = Cardinality(A) /\ Reachable(buckets)
  BY DEF TableInv, CountersHold
<1>5. newSize = size
  <2>1. A \cap 0 .. n - 1 = A
    BY <1>2, Counted
  <2> QED
    BY <1>3, <1>4, <2>1
<1>6. Table(newBuckets') /\ Capacity(newBuckets') = 0
  BY <1>1, EmptyIs
<1>7. Cardinality({}) = 0
  BY FS_EmptySet
<1>8. TableTypes' /\ Room' /\ Moved'
  <2>1. m >= 2
    BY <1>2, <1>3
  <2>2. TableTypes'
    BY <1>1, <1>2, <1>6, <2>1 DEF TableTypes
  <2>3. Room' /\ Moved'
    BY <1>1, <1>2, <1>3, <1>5, <1>6 DEF Room, Moved
  <2> QED
    BY <2>2, <2>3
<1>9. HalfFree' /\ CountersHold' /\ Reachable(buckets')
  <2>1. CountersHold' /\ Reachable(buckets')
    BY <1>1, <1>3, <1>7 DEF CountersHold
  <2>2. 2 * (newSize + 0) <= m
    BY <1>2, <1>3, <1>5
  <2>3. HalfFree'
    BY <1>1, <1>3, <1>7, <2>2 DEF HalfFree
  <2> QED
    BY <2>1, <2>3
<1>10. ASSUME NEW k \in Keys PROVE Lookup(newBuckets, k) = Lookup(buckets, k)
  <2>1. /\ \A v \in Values : Lookup(newBuckets, k) = v <=> Holds(newBuckets, m, k, v)
        /\ Lookup(newBuckets, k) \in Values \cup {NoValue}
    BY <1>1, <1>2, <1>3, LookupIs
  <2>2. /\ \A v \in Values : Lookup(buckets, k) = v <=> Holds(buckets, n, k, v)
        /\ Lookup(buckets, k) \in Values \cup {NoValue}
    BY <1>2, <1>4, LookupIs
  <2> QED
    BY <1>3, <2>1, <2>2
<1>11. Contents' = Contents
  BY <1>1, <1>10 DEF Contents
<1> QED
  BY <1>8, <1>9, <1>11 DEF TableInv

\* The end of set: the key has its value and half of the buckets are still free.
LEMMA InsertInv ==
  ASSUME TableInv, Insert
  PROVE  TableInv' /\ Contents' = [Contents EXCEPT ![call.key] = call.value]
         /\ call.key \in Keys /\ call.value \in Values
<1> DEFINE n == Capacity(buckets)
           A == InState(buckets, "active")
           T == InState(buckets, "tombstone")
<1>0. PICK k, v : k = call.key /\ v = call.value
  OBVIOUS
<1>1. /\ buckets' = Inserted(buckets, k, v) /\ call # Idle /\ Capacity(newBuckets) = 0
      /\ size' = IF IsNew(buckets, k) THEN size + 1 ELSE size
      /\ call' = Idle /\ tombstoneCount' = tombstoneCount
      /\ newBuckets' = newBuckets /\ newSize' = newSize /\ cursor' = cursor
  BY <1>0 DEF Insert, rehashing
<1>2. /\ Table(buckets) /\ n >= 2 /\ n \in Nat /\ size \in Nat /\ tombstoneCount \in Nat
      /\ Table(newBuckets) /\ newSize \in Nat /\ cursor \in 0 .. n
      /\ k \in Keys /\ v \in Values /\ cursor = 0
  BY <1>0, <1>1 DEF TableInv, TableTypes, Table
<1>3. 2 * (size + tombstoneCount + 1) <= n
  BY <1>1 DEF TableInv, Room
<1>4. size = Cardinality(A) /\ tombstoneCount = Cardinality(T) /\ Reachable(buckets)
  BY DEF TableInv, CountersHold
<1>5. Stops(buckets, k) # {}
  BY <1>2, <1>3, <1>4, ProbeEnds
<1>6. PICK p : p = Target(buckets, k)
  OBVIOUS
<1>7. /\ Table(buckets') /\ Capacity(buckets') = n /\ Reachable(buckets')
      /\ InState(buckets', "active") = A \cup {p} /\ InState(buckets', "tombstone") = T
      /\ IsNew(buckets, k) <=> p \notin A
  BY <1>1, <1>2, <1>4, <1>5, <1>6, InsertedIs
<1>8. size' = Cardinality(InState(buckets', "active")) /\ size' <= size + 1 /\ size' \in Nat
  <2>1. IsFiniteSet(A)
    BY <1>2, Counted
  <2> HIDE DEF A
  <2>2. Cardinality(A \cup {p}) = IF p \in A THEN Cardinality(A) ELSE Cardinality(A) + 1
    BY <2>1, FS_AddElement
  <2>3. Cardinality(InState(buckets', "active")) = Cardinality(A \cup {p})
    BY <1>7
  <2>4. size' = IF p \in A THEN size ELSE size + 1
    BY <1>1, <1>7
  <2>5. size = Cardinality(A) /\ size \in Nat
    BY <1>2, <1>4
  <2> QED
    BY <2>2, <2>3, <2>4, <2>5
<1>9. CountersHold' /\ HalfFree'
  BY <1>1, <1>2, <1>3, <1>4, <1>7, <1>8 DEF CountersHold, HalfFree
<1>10. TableTypes' /\ Room' /\ Moved'
  BY <1>1, <1>2, <1>7, <1>8 DEF TableTypes, Room, Moved
<1>11. ASSUME NEW j \in Keys PROVE Lookup(buckets', j) = IF j = k THEN v ELSE Lookup(buckets, j)
  BY <1>1, <1>2, <1>4, <1>5, LookupInserted
<1>12. Contents' = [Contents EXCEPT ![k] = v]
  BY <1>11 DEF Contents
<1> QED
  BY <1>0, <1>2, <1>7, <1>9, <1>10, <1>12 DEF TableInv

\* A deletion, of a key that is there or not.
LEMMA DelInv ==
  ASSUME TableInv, NEW k \in Keys, Del(k)
  PROVE  TableInv' /\ Contents' = [Contents EXCEPT ![k] = NoValue]
<1> DEFINE n == Capacity(buckets)
           A == InState(buckets, "active")
           T == InState(buckets, "tombstone")
<1>1. /\ call = Idle /\ call' = call
      /\ newBuckets' = newBuckets /\ newSize' = newSize /\ cursor' = cursor
  BY DEF Del, rehashing
<1>2. /\ Table(buckets) /\ n >= 2 /\ n \in Nat /\ size \in Nat /\ tombstoneCount \in Nat
      /\ Table(newBuckets) /\ newSize \in Nat /\ cursor \in 0 .. n
      /\ Capacity(newBuckets) = 0 /\ cursor = 0
  BY <1>1 DEF TableInv, TableTypes, Table
<1>3. size = Cardinality(A) /\ tombstoneCount = Cardinality(T) /\ Reachable(buckets)
      /\ 2 * (size + tombstoneCount) <= n
  BY DEF TableInv, CountersHold, HalfFree
<1>4. CASE Lookup(buckets, k) = NoValue
  <2>1. UNCHANGED tableVars
    BY <1>1, <1>4 DEF Del, tableVars, rehashing, table
  <2>2. TableInv' /\ Contents' = Contents
    BY <2>1, TableInvKept
  <2>3. Contents = [Contents EXCEPT ![k] = NoValue]
    BY <1>4 DEF Contents
  <2> QED
    BY <2>2, <2>3
<1>5. CASE Lookup(buckets, k) # NoValue
  <2>1. PICK p \in A : buckets[p].key = k
    BY <1>2, <1>3, <1>5, LookupIs
  <2>2. Probe(buckets, k, First(Stops(buckets, k))) = p
    BY <1>2, <1>3, <2>1, LookupHit
  <2>3. /\ buckets' = Assign(buckets, p, Tombstone) /\ size' = size - 1
        /\ tombstoneCount' = tombstoneCount + 1
    BY <1>5, <2>2 DEF Del, Assign
  <2>4. /\ Table(buckets') /\ Capacity(buckets') = n /\ Reachable(buckets')
        /\ InState(buckets', "active") = A \ {p} /\ InState(buckets', "tombstone") = T \cup {p}
        /\ p \notin T
    BY <1>2, <1>3, <2>1, <2>3, TombstoneIs
  <2>5. /\ size' = Cardinality(InState(buckets', "active"))
        /\ tombstoneCount' = Cardinality(InState(buckets', "tombstone"))
        /\ size' \in Nat
    <3>1. IsFiniteSet(A) /\ IsFiniteSet(T) /\ IsFiniteSet(InState(buckets', "active"))
          /\ Cardinality(InState(buckets', "active")) \in Nat
      BY <1>2, <2>4, Counted
    <3>2. p \in A
      BY <2>1
    <3> HIDE DEF A, T
    <3>3. Cardinality(A \ {p}) = Cardinality(A) - 1 /\ Cardinality(T \cup {p}) = Cardinality(T) + 1
      BY <2>4, <3>1, <3>2, FS_AddElement, FS_RemoveElement
    <3> QED
      BY <1>3, <2>3, <2>4, <3>1, <3>3
  <2>6. CountersHold' /\ HalfFree'
    <3>1. size' + tombstoneCount' = size + tombstoneCount
      BY <1>2, <2>3
    <3>2. 2 * (size' + tombstoneCount') <= n
      BY <1>3, <3>1
    <3> QED
      BY <2>4, <2>5, <3>2 DEF CountersHold, HalfFree
  <2>7. TableTypes' /\ Room' /\ Moved'
    BY <1>1, <1>2, <2>3, <2>4, <2>5 DEF TableTypes, Room, Moved
  <2>8. ASSUME NEW j \in Keys PROVE Lookup(buckets', j) = IF j = k THEN NoValue ELSE Lookup(buckets, j)
    BY <1>2, <1>3, <2>1, <2>3, LookupDeleted
  <2>9. Contents' = [Contents EXCEPT ![k] = NoValue]
    BY <2>8 DEF Contents
  <2> QED
    BY <2>4, <2>6, <2>7, <2>9 DEF TableInv
<1> QED
  BY <1>4, <1>5

-----------------------------------------------------------------------------
(* Theorems of the hash table.                                             *)

\* Every step of the table keeps the inductive invariant and is a step of the map.
LEMMA TableStep ==
  ASSUME TableInv, [TableNext]_tableVars
  PROVE  TableInv' /\ [Map!Next]_Contents
<1>1. ASSUME NEW k \in Keys, NEW v \in Values, Set(k, v) PROVE TableInv' /\ Contents' = Contents
  BY <1>1, SetInv
<1>2. ASSUME NEW k \in Keys, Del(k) PROVE TableInv' /\ Contents' = [Contents EXCEPT ![k] = NoValue]
  BY <1>2, DelInv
<1>3. CASE \E k \in Keys, v \in Values : Set(k, v)
  BY <1>1, <1>3
<1>4. CASE RehashStep
  BY <1>4, RehashStepInv
<1>5. CASE RehashDone
  BY <1>5, RehashDoneInv
<1>6. CASE Insert
  <2>1. TableInv' /\ Contents' = [Contents EXCEPT ![call.key] = call.value]
        /\ call.key \in Keys /\ call.value \in Values
    BY <1>6, InsertInv
  <2>2. \E k \in Keys, v \in Values : Map!Put(k, v)
    BY <2>1 DEF Map!Put
  <2> QED
    BY <2>1, <2>2 DEF Map!Next
<1>7. CASE \E k \in Keys : Del(k)
  <2>1. PICK k \in Keys : Del(k)
    BY <1>7
  <2>2. TableInv' /\ Contents' = [Contents EXCEPT ![k] = NoValue]
    BY <1>2, <2>1
  <2>3. \E j \in Keys : Map!Remove(j)
    BY <2>2 DEF Map!Remove
  <2> QED
    BY <2>2, <2>3 DEF Map!Next
<1>8. CASE UNCHANGED tableVars
  BY <1>8, TableInvKept
<1> QED
  BY <1>3, <1>4, <1>5, <1>6, <1>7, <1>8 DEF TableNext

\* The inductive invariant of the table alone.
THEOREM TableInvariance == TableSpec => []TableInv
<1>1. TableInit => TableInv
  BY TableInitInv
<1>2. TableInv /\ [TableNext]_tableVars => TableInv'
  BY TableStep
<1> QED
  BY <1>1, <1>2, PTL DEF TableSpec

\* The table alone is a map.
THEOREM TableIsAMap == TableSpec => IsAMap
<1>1. TableInit => Map!Init
  BY TableInitInv DEF Map!Init
<1>2. TableInv /\ [TableNext]_tableVars => [Map!Next]_Contents
  BY TableStep
<1> QED
  BY <1>1, <1>2, TableInvariance, PTL DEF TableSpec, IsAMap, Map!Spec

-----------------------------------------------------------------------------
(* Theorems of the sorted set.                                             *)

\* The table of a sorted set whose last member is removed is replaced by a new one.
LEMMA RemoveLastInv ==
  ASSUME TableInv, NEW m \in Members, RemoveLast(m)
  PROVE  TableInv' /\ Contents' = [Contents EXCEPT ![m] = NoValue]
<1>1. /\ buckets' = EmptyBuckets(InitCapacity) /\ size' = 0 /\ tombstoneCount' = 0
      /\ call = Idle /\ call' = Idle /\ size = 1 /\ Lookup(buckets, m) # NoValue
      /\ newBuckets' = newBuckets /\ newSize' = newSize /\ cursor' = cursor
      /\ InitCapacity \in Nat /\ InitCapacity >= 2
  BY CapacityAssumption DEF RemoveLast, rehashing
<1>2. /\ Table(buckets) /\ Capacity(buckets) # 0 /\ Reachable(buckets)
      /\ Table(newBuckets) /\ Capacity(newBuckets) = 0 /\ cursor = 0 /\ newSize \in Nat
      /\ size = Cardinality(InState(buckets, "active"))
  BY <1>1 DEF TableInv, TableTypes, CountersHold
<1>3. /\ Table(buckets') /\ Capacity(buckets') = InitCapacity /\ Reachable(buckets')
      /\ InState(buckets', "active") = {} /\ InState(buckets', "tombstone") = {}
  BY <1>1, EmptyIs
<1>4. Cardinality({}) = 0
  BY FS_EmptySet
<1>5. TableTypes' /\ Room' /\ Moved'
  BY <1>1, <1>2, <1>3 DEF TableTypes, Room, Moved
<1>6. HalfFree' /\ CountersHold'
  BY <1>1, <1>3, <1>4 DEF HalfFree, CountersHold
<1>7. m \in Keys
  BY KeysAreMembers
<1>8. ASSUME NEW j \in Keys PROVE Lookup(buckets', j) = NoValue
  BY <1>1, <1>3, LookupMiss
<1>9. ASSUME NEW j \in Keys, j # m PROVE Lookup(buckets, j) = NoValue
  <2> DEFINE A == InState(buckets, "active")
  <2>1. IsFiniteSet(A)
    BY <1>2, Counted
  <2>2. PICK i \in A : buckets[i].key = m
    BY <1>1, <1>2, <1>7, LookupIs
  <2>3. A = {i}
    <3>1. Cardinality(A) = 1
      BY <1>1, <1>2
    <3> HIDE DEF A
    <3>2. \E x : A = {x}
      BY <2>1, <3>1, FS_Singleton
    <3> QED
      BY <2>2, <3>2
  <2>4. \A e \in A : buckets[e].key # j
    BY <1>9, <2>2, <2>3
  <2> QED
    BY <1>2, <2>4, LookupIs
<1>10. Contents' = [Contents EXCEPT ![m] = NoValue]
  BY <1>7, <1>8, <1>9 DEF Contents
<1> QED
  BY <1>3, <1>5, <1>6, <1>10 DEF TableInv

\* Every step of the sorted set keeps the invariant of its table and is a step of the map.
LEMMA SetStep ==
  ASSUME TableInv, [Next]_vars
  PROVE  TableInv' /\ [Map!Next]_Contents
<1>1. ASSUME [TableNext]_tableVars PROVE TableInv' /\ [Map!Next]_Contents
  BY <1>1, TableStep
<1>2. CASE \E m \in Members, score \in Values : Add(m, score)
  <2>1. \E k \in Keys, v \in Values : Set(k, v)
    BY <1>2, KeysAreMembers DEF Add
  <2> QED
    BY <1>1, <2>1 DEF TableNext
<1>3. CASE Rehash
  BY <1>1, <1>3 DEF Rehash, TableNext
<1>4. CASE AddEnd
  BY <1>1, <1>4 DEF AddEnd, TableNext
<1>5. CASE \E m \in Members : Rem(m)
  <2>1. \E k \in Keys : Del(k)
    BY <1>5, KeysAreMembers DEF Rem
  <2> QED
    BY <1>1, <2>1 DEF TableNext
<1>6. CASE \E m \in Members : RemoveLast(m)
  <2>1. PICK m \in Members : RemoveLast(m)
    BY <1>6
  <2>2. TableInv' /\ Contents' = [Contents EXCEPT ![m] = NoValue] /\ m \in Keys
    BY <2>1, RemoveLastInv, KeysAreMembers
  <2>3. \E j \in Keys : Map!Remove(j)
    BY <2>2 DEF Map!Remove
  <2> QED
    BY <2>2, <2>3 DEF Map!Next
<1>7. CASE UNCHANGED vars
  BY <1>1, <1>7 DEF vars
<1> QED
  BY <1>2, <1>3, <1>4, <1>5, <1>6, <1>7 DEF Next

\* The invariant of the table holds in every state of a sorted set.
THEOREM Invariance == Spec => []TableInv
<1>1. Init => TableInv
  BY TableInitInv DEF Init
<1>2. TableInv /\ [Next]_vars => TableInv'
  BY SetStep
<1> QED
  BY <1>1, <1>2, PTL DEF Spec

\* Half of the buckets of a sorted set's table are free (HalfFree): no probe of findIndex or
\* insertInternal goes round the table, and set never drops its key.
THEOREM ProbesEnd == Spec => []HalfFree
<1>1. TableInv => HalfFree
  BY DEF TableInv
<1> QED
  BY <1>1, Invariance, PTL

\* size_ and tombstoneCount_ are exact (CountersHold), across deletions, rehashes and the
\* replacement of an emptied sorted set.
THEOREM CountersExact == Spec => []CountersHold
<1>1. TableInv => CountersHold
  BY DEF TableInv
<1> QED
  BY <1>1, Invariance, PTL

\* ZSCORE sees a map (IsAMap): ZADD changes the score of its member alone, ZREM removes its
\* member alone, a rehash changes nothing.
THEOREM ScoresAreAMap == Spec => IsAMap
<1>1. Init => Map!Init
  BY TableInitInv DEF Init, Map!Init
<1>2. TableInv /\ [Next]_vars => [Map!Next]_Contents
  BY SetStep
<1> QED
  BY <1>1, <1>2, Invariance, PTL DEF Spec, IsAMap, Map!Spec

-----------------------------------------------------------------------------
(* The fields of a list.                                                   *)

\* The fields of a list have the types of the members they model.
Shape(l) ==
  /\ l.forward \in [Nodes -> [Levels -> Members \cup {Nil}]]
  /\ l.span \in [Nodes -> [Levels -> Nat]]
  /\ l.score \in [Nodes -> Int]
  /\ l.height \in [Nodes -> 0 .. MaxLevel] /\ l.height[Head_] = MaxLevel
  /\ l.backward \in [Nodes -> Members \cup {Nil}]
  /\ l.tail \in Members \cup {Nil}
  /\ l.length \in Nat
  /\ l.level \in Levels
  /\ \A m \in Members : l.height[m] <= l.level

-----------------------------------------------------------------------------
(* One level of a search.                                                  *)

\* The search moves on from place p.
Goes(l, Pass, i, p) == l.forward[p.node][i] # Nil /\ Ahead(l, p, i) \in Pass

\* h is a path of k moves that starts at p.
Path(l, Pass, i, p, k, h) ==
  h[0] = p /\ \A j \in 0 .. k - 1 : Goes(l, Pass, i, h[j]) /\ h[j + 1] = Ahead(l, h[j], i)

\* The places where the walk from p may end: one, or none if it never does.
WalkEnds(l, Pass, i, p) ==
  {e \in Places : ~Goes(l, Pass, i, e)
     /\ \E k \in Nat : \E h \in [0 .. k -> Places] : Path(l, Pass, i, p, k, h) /\ h[k] = e}

\* A move leads to a place.
LEMMA AheadType ==
  ASSUME NEW l, Shape(l), NEW i \in Levels, NEW p \in Places, l.forward[p.node][i] # Nil
  PROVE  Ahead(l, p, i) \in Places
<1>1. p.node \in Nodes /\ p.rank \in Int
  BY DEF Places
<1>2. l.forward[p.node][i] \in Members /\ l.span[p.node][i] \in Nat
  BY <1>1 DEF Shape
<1> QED
  BY <1>1, <1>2 DEF Ahead, Places, Nodes

\* A walk ends where it would end from its next place.
LEMMA EndsAhead ==
  ASSUME NEW l, Shape(l), NEW Pass, NEW i \in Levels, NEW p \in Places, Goes(l, Pass, i, p)
  PROVE  WalkEnds(l, Pass, i, p) = WalkEnds(l, Pass, i, Ahead(l, p, i))
<1> DEFINE a == Ahead(l, p, i)
<1>0. a \in Places
  BY AheadType DEF Goes
<1> HIDE DEF a
<1>1. ASSUME NEW e \in WalkEnds(l, Pass, i, p) PROVE e \in WalkEnds(l, Pass, i, a)
  <2>1. e \in Places /\ ~Goes(l, Pass, i, e)
    BY DEF WalkEnds
  <2>2. PICK k \in Nat : \E h \in [0 .. k -> Places] : Path(l, Pass, i, p, k, h) /\ h[k] = e
    BY DEF WalkEnds
  <2>3. PICK h \in [0 .. k -> Places] : Path(l, Pass, i, p, k, h) /\ h[k] = e
    BY <2>2
  <2>4. k # 0
    BY <2>1, <2>3 DEF Path
  <2>5. PICK j \in Nat : k = j + 1
    <3>1. k - 1 \in Nat /\ k = (k - 1) + 1
      BY <2>4
    <3> QED
      BY <3>1
  <2> DEFINE g == [x \in 0 .. j |-> h[x + 1]]
  <2>6. g \in [0 .. j -> Places] /\ g[j] = e
    BY <2>3, <2>5
  <2>7. g[0] = a
    BY <2>3, <2>5 DEF Path, a
  <2>8. ASSUME NEW x \in 0 .. j - 1 PROVE Goes(l, Pass, i, g[x]) /\ g[x + 1] = Ahead(l, g[x], i)
    <3>1. x + 1 \in 0 .. k - 1 /\ x \in 0 .. j /\ x + 1 \in 0 .. j
      BY <2>5
    <3>2. Goes(l, Pass, i, h[x + 1]) /\ h[(x + 1) + 1] = Ahead(l, h[x + 1], i)
      BY <2>3, <3>1 DEF Path
    <3> QED
      BY <3>1, <3>2
  <2> HIDE DEF g
  <2>9. Path(l, Pass, i, a, j, g)
    BY <2>7, <2>8 DEF Path
  <2> QED
    BY <2>1, <2>6, <2>9 DEF WalkEnds
<1>2. ASSUME NEW e \in WalkEnds(l, Pass, i, a) PROVE e \in WalkEnds(l, Pass, i, p)
  <2>1. e \in Places /\ ~Goes(l, Pass, i, e)
    BY DEF WalkEnds
  <2>2. PICK k \in Nat : \E h \in [0 .. k -> Places] : Path(l, Pass, i, a, k, h) /\ h[k] = e
    BY DEF WalkEnds
  <2>3. PICK h \in [0 .. k -> Places] : Path(l, Pass, i, a, k, h) /\ h[k] = e
    BY <2>2
  <2> DEFINE g == [x \in 0 .. k + 1 |-> IF x = 0 THEN p ELSE h[x - 1]]
  <2>6. g \in [0 .. k + 1 -> Places] /\ g[k + 1] = e /\ g[0] = p
    BY <2>3
  <2>8. ASSUME NEW x \in 0 .. (k + 1) - 1
        PROVE  Goes(l, Pass, i, g[x]) /\ g[x + 1] = Ahead(l, g[x], i)
    <3>1. CASE x = 0
      <4>1. h[0] = a
        BY <2>3 DEF Path
      <4>2. g[0] = p /\ g[0 + 1] = h[0]
        OBVIOUS
      <4> QED
        BY <3>1, <4>1, <4>2 DEF a
    <3>2. CASE x # 0
      <4>1. x - 1 \in 0 .. k - 1 /\ (x - 1) + 1 = x
        BY <3>2
      <4>2. Goes(l, Pass, i, h[x - 1]) /\ h[x] = Ahead(l, h[x - 1], i)
        BY <2>3, <4>1 DEF Path
      <4>3. g[x] = h[x - 1] /\ g[x + 1] = h[x]
        BY <3>2
      <4> QED
        BY <4>2, <4>3
    <3> QED
      BY <3>1, <3>2
  <2> HIDE DEF g
  <2>9. Path(l, Pass, i, p, k + 1, g)
    BY <2>6, <2>8 DEF Path
  <2>10. k + 1 \in Nat
    OBVIOUS
  <2> QED
    BY <2>1, <2>6, <2>9, <2>10 DEF WalkEnds
<1> QED
  BY <1>1, <1>2 DEF a

\* A walk that does not move ends where it stands.
LEMMA EndsHere ==
  ASSUME NEW l, NEW Pass, NEW i \in Levels, NEW p \in Places, ~Goes(l, Pass, i, p)
  PROVE  WalkEnds(l, Pass, i, p) = {p}
<1>1. ASSUME NEW e \in WalkEnds(l, Pass, i, p) PROVE e = p
  <2>2. PICK k \in Nat : \E h \in [0 .. k -> Places] : Path(l, Pass, i, p, k, h) /\ h[k] = e
    BY DEF WalkEnds
  <2>3. PICK h \in [0 .. k -> Places] : Path(l, Pass, i, p, k, h) /\ h[k] = e
    BY <2>2
  <2>4. CASE k = 0
    BY <2>3, <2>4 DEF Path
  <2>5. CASE k # 0
    <3>1. 0 \in 0 .. k - 1
      BY <2>5
    <3> QED
      BY <2>3, <3>1 DEF Path
  <2> QED
    BY <2>4, <2>5
<1>2. p \in WalkEnds(l, Pass, i, p)
  <2> DEFINE g == [x \in 0 .. 0 |-> p]
  <2>1. g \in [0 .. 0 -> Places] /\ g[0] = p
    OBVIOUS
  <2> HIDE DEF g
  <2>2. Path(l, Pass, i, p, 0, g)
    BY <2>1 DEF Path
  <2>3. 0 \in Nat
    OBVIOUS
  <2> QED
    BY <2>1, <2>2, <2>3 DEF WalkEnds
<1> QED
  BY <1>1, <1>2

\* One turn of the loop: Walk satisfies its recursion.
LEMMA WalkTurn ==
  ASSUME NEW l, Shape(l), NEW Pass, NEW i \in Levels
  PROVE  \A p \in Places : Walk(l, Pass, i)[p] =
           IF Goes(l, Pass, i, p) THEN Walk(l, Pass, i)[Ahead(l, p, i)] ELSE p
<1> DEFINE Body(f) == [p \in Places |->
              IF l.forward[p.node][i] # Nil /\ Ahead(l, p, i) \in Pass
              THEN f[Ahead(l, p, i)] ELSE p]
           w == Walk(l, Pass, i)
           f == [p \in Places |-> CHOOSE e : e \in WalkEnds(l, Pass, i, p)]
<1>1. w = CHOOSE h : h = Body(h)
  BY DEF Walk
<1>2. ASSUME NEW p \in Places PROVE f[p] = Body(f)[p]
  <2>1. CASE Goes(l, Pass, i, p)
    <3>1. Ahead(l, p, i) \in Places
      BY <2>1, AheadType DEF Goes
    <3>2. WalkEnds(l, Pass, i, p) = WalkEnds(l, Pass, i, Ahead(l, p, i))
      BY <2>1, EndsAhead
    <3>3. f[p] = f[Ahead(l, p, i)]
      BY <3>1, <3>2
    <3>4. Body(f)[p] = f[Ahead(l, p, i)]
      BY <2>1 DEF Goes
    <3> QED
      BY <3>3, <3>4
  <2>2. CASE ~Goes(l, Pass, i, p)
    <3>1. WalkEnds(l, Pass, i, p) = {p}
      BY <2>2, EndsHere
    <3>2. f[p] = p
      BY <3>1
    <3>3. Body(f)[p] = p
      BY <2>2 DEF Goes
    <3> QED
      BY <3>2, <3>3
  <2> QED
    BY <2>1, <2>2
<1>3. f = Body(f)
  <2>1. DOMAIN f = Places /\ DOMAIN Body(f) = Places
    OBVIOUS
  <2>2. f = [p \in Places |-> f[p]] /\ Body(f) = [p \in Places |-> Body(f)[p]]
    OBVIOUS
  <2> HIDE DEF f, Body
  <2> QED
    BY <1>2, <2>1, <2>2
<1>4. w = Body(w)
  <2> HIDE DEF Body, f, w
  <2> QED
    BY <1>1, <1>3
<1> HIDE DEF w
<1>5. ASSUME NEW p \in Places PROVE w[p] = IF Goes(l, Pass, i, p) THEN w[Ahead(l, p, i)] ELSE p
  BY <1>4 DEF Goes
<1> QED
  BY <1>5 DEF w

-----------------------------------------------------------------------------
(* A list and the positions of its nodes.                                  *)

\* A gives the nodes in order: the head at 0, then the n members, then the end.
Positions(l, A, n) ==
  /\ n \in Nat /\ A \in [0 .. n + 1 -> Nodes \cup {Nil}] /\ A[0] = Head_ /\ A[n + 1] = Nil
  /\ \A p \in 1 .. n : A[p] \in Members /\ l.height[A[p]] >= 1
  /\ \A m \in Members : l.height[m] >= 1 => \E p \in 1 .. n : A[p] = m

\* The nodes are in order of score, then of member.
Sorted(l, A, n) == \A p, q \in 1 .. n : p < q => Before(l, A[p], l.score[A[q]], A[q])

\* Position q is the next one after p on level i.
Succ(l, A, n, i, p, q) ==
  /\ \A r \in p + 1 .. q - 1 : l.height[A[r]] < i
  /\ q <= n => l.height[A[q]] >= i
\* How far a pointer to position q reaches: the end of the list is not counted.
Reach(n, q) == IF q <= n THEN q ELSE n

\* On every level a node has, its pointer leads to the next node of that level and its span
\* counts the positions in between, in the levels the list uses.
Link(l, A, n, i, p, q) ==
  /\ Succ(l, A, n, i, p, q) /\ l.forward[A[p]][i] = A[q]
  /\ i <= l.level => l.span[A[p]][i] = Reach(n, q) - p
Linked(l, A, n) ==
  \A p \in 0 .. n, i \in Levels :
    l.height[A[p]] >= i => \E q \in p + 1 .. n + 1 : Link(l, A, n, i, p, q)

\* The list read backwards.
Back(l, A, n) ==
  /\ l.length = n /\ l.tail = IF n = 0 THEN Nil ELSE A[n]
  /\ \A p \in 1 .. n : l.backward[A[p]] = IF p = 1 THEN Nil ELSE A[p - 1]

\* A well-formed list of n nodes, in the order A.
Chain(l, A, n) ==
  Shape(l) /\ Positions(l, A, n) /\ Sorted(l, A, n) /\ Linked(l, A, n) /\ Back(l, A, n)

\* The place of a position.
Place(A, p) == [node |-> A[p], rank |-> p]

\* The search passes the first c positions.
Cut(A, n, Pass, c) == \A q \in 1 .. n : Place(A, q) \in Pass <=> q <= c

\* b is the last of the first c positions that has level i.
IsLast(l, A, c, i, b) ==
  /\ b \in 0 .. c /\ l.height[A[b]] >= i
  /\ \A r \in b + 1 .. c : l.height[A[r]] < i

\* Facts about constants.
LEMMA ConstantFacts ==
  /\ \A m \in Members : m \in Nat /\ m # 0 /\ m # Head_ /\ m # Nil /\ m \in Nodes
  /\ Head_ \in Nodes /\ Head_ \notin Members /\ Nil \notin Members /\ Nil \notin Nodes
  /\ Head_ # Nil /\ MaxLevel \in Nat /\ MaxLevel >= 1 /\ Nodes \subseteq Nat
  /\ Head_ \in Nat /\ Nil \in Int
BY MembersAssumption, MaxLevelAssumption DEF Head_, Nil, Nodes

\* The node of a position.
LEMMA NodeAt ==
  ASSUME NEW l, NEW A, NEW n, Shape(l), Positions(l, A, n), NEW p \in 0 .. n
  PROVE  /\ A[p] \in Nodes /\ A[p] # Nil /\ A[p] \in Nat
         /\ l.height[A[p]] \in 1 .. MaxLevel
         /\ (A[p] = Head_ <=> p = 0) /\ Place(A, p) \in Places
<1>1. CASE p = 0
  <2>1. A[p] = Head_ /\ l.height[Head_] = MaxLevel
    BY <1>1 DEF Positions, Shape
  <2> QED
    BY <1>1, <2>1, ConstantFacts DEF Place, Places
<1>2. CASE p # 0
  <2>1. p \in 1 .. n
    BY <1>2 DEF Positions
  <2>2. A[p] \in Members /\ l.height[A[p]] >= 1
    BY <2>1 DEF Positions
  <2>3. A[p] \in Nodes /\ l.height[A[p]] \in 0 .. MaxLevel
    BY <2>2, ConstantFacts DEF Shape
  <2>4. l.height[A[p]] \in 1 .. MaxLevel
    BY <2>2, <2>3, ConstantFacts
  <2>5. p \in Int
    BY <2>1
  <2> QED
    BY <1>2, <2>2, <2>3, <2>4, <2>5, ConstantFacts DEF Place, Places
<1> QED
  BY <1>1, <1>2

\* A node has one position.
LEMMA OnePosition ==
  ASSUME NEW l, NEW A, NEW n, Shape(l), Positions(l, A, n), Sorted(l, A, n),
         NEW p \in 0 .. n, NEW q \in 0 .. n, A[p] = A[q]
  PROVE  p = q
<1>0. n \in Nat
  BY DEF Positions
<1>1. CASE p = 0 \/ q = 0
  BY <1>1, NodeAt
<1>2. CASE p # 0 /\ q # 0
  <2>1. p \in 1 .. n /\ q \in 1 .. n
    BY <1>0, <1>2
  <2>2. A[p] \in Nat /\ l.score[A[p]] \in Int
    <3>1. A[p] \in Nodes /\ A[p] \in Nat
      BY NodeAt
    <3> QED
      BY <3>1 DEF Shape
  <2>3. ASSUME NEW x \in 1 .. n, NEW y \in 1 .. n, x < y PROVE Before(l, A[x], l.score[A[y]], A[y])
    BY <2>3 DEF Sorted
  <2>4. ~(p < q)
    BY <2>1, <2>2, <2>3 DEF Before
  <2>5. ~(q < p)
    BY <2>1, <2>2, <2>3 DEF Before
  <2> QED
    BY <2>1, <2>4, <2>5
<1> QED
  BY <1>1, <1>2

\* A node that has a level has a successor there.
LEMMA HasSucc ==
  ASSUME NEW l, NEW A, NEW n, Chain(l, A, n), NEW p \in 0 .. n, NEW i \in Levels,
         l.height[A[p]] >= i
  PROVE  \E q \in p + 1 .. n + 1 : Link(l, A, n, i, p, q)
BY DEF Chain, Linked

\* One move of a search.
LEMMA MoveIs ==
  ASSUME NEW l, NEW A, NEW n, Chain(l, A, n), NEW i \in 1 .. l.level, NEW Pass, NEW c \in 0 .. n,
         Cut(A, n, Pass, c), NEW p \in 0 .. n, NEW q \in p + 1 .. n + 1, Link(l, A, n, i, p, q)
  PROVE  /\ Goes(l, Pass, i, Place(A, p)) <=> q <= c
         /\ q <= c => Ahead(l, Place(A, p), i) = Place(A, q)
<1>1. Shape(l) /\ Positions(l, A, n) /\ n \in Nat
  BY DEF Chain, Positions
<1>2. l.forward[A[p]][i] = A[q] /\ l.span[A[p]][i] = Reach(n, q) - p
  <2>1. i <= l.level
    BY <1>1 DEF Shape, Levels
  <2> QED
    BY <2>1 DEF Link
<1>3. Place(A, p).node = A[p] /\ Place(A, p).rank = p
  BY DEF Place
<1>4. CASE q = n + 1
  <2>1. A[q] = Nil
    BY <1>1, <1>4 DEF Positions
  <2>2. ~(q <= c)
    BY <1>1, <1>4
  <2> QED
    BY <1>2, <1>3, <2>1, <2>2 DEF Goes
<1>5. CASE q # n + 1
  <2>1. q \in 1 .. n /\ q \in 0 .. n /\ q <= n
    BY <1>1, <1>5
  <2>2. A[q] # Nil
    BY <1>1, <2>1, NodeAt
  <2>3. p + l.span[A[p]][i] = q
    BY <1>1, <1>2, <2>1 DEF Reach
  <2>4. Ahead(l, Place(A, p), i) = Place(A, q)
    BY <1>2, <1>3, <2>3 DEF Ahead, Place
  <2>5. Place(A, q) \in Pass <=> q <= c
    BY <2>1 DEF Cut
  <2> QED
    BY <1>2, <1>3, <2>2, <2>4, <2>5 DEF Goes
<1> QED
  BY <1>4, <1>5

\* The loop on level i, from a position it passes, stops at the last such position of the level.
LEMMA WalkIs ==
  ASSUME NEW l, NEW A, NEW n, Chain(l, A, n), NEW i \in 1 .. l.level, NEW Pass, NEW c \in 0 .. n,
         Cut(A, n, Pass, c), NEW a \in 0 .. c, l.height[A[a]] >= i
  PROVE  \E b \in 0 .. c : IsLast(l, A, c, i, b) /\ Walk(l, Pass, i)[Place(A, a)] = Place(A, b)
<1> DEFINE Good(p) == \E b \in 0 .. c :
              IsLast(l, A, c, i, b) /\ Walk(l, Pass, i)[Place(A, p)] = Place(A, b)
           Bad == {d \in 0 .. c : l.height[A[c - d]] >= i /\ ~Good(c - d)}
<1>1. Shape(l) /\ Positions(l, A, n) /\ n \in Nat /\ c \in Nat /\ i \in Levels
  <2>1. Shape(l) /\ Positions(l, A, n) /\ n \in Nat
    BY DEF Chain, Positions
  <2>2. l.level \in Levels
    BY <2>1 DEF Shape
  <2>3. i \in Levels
    BY <2>2, ConstantFacts DEF Levels
  <2> QED
    BY <2>1, <2>3
<1>2. SUFFICES ASSUME ~Good(a) PROVE FALSE
  OBVIOUS
<1> HIDE DEF Good
<1>3. c - a \in Bad
  <2>1. c - a \in 0 .. c /\ c - (c - a) = a
    BY <1>1
  <2> QED
    BY <1>2, <2>1
<1>4. PICK d \in Bad : \A e \in Bad : d <= e
  <2>0. Bad \subseteq 0 .. c /\ Bad # {}
    BY <1>3
  <2>1. Bad \in SUBSET Nat /\ Bad # {}
    <3> HIDE DEF Bad
    <3> QED
      BY <2>0
  <2> HIDE DEF Bad
  <2> QED
    BY <2>1, LeastElement
<1>5. PICK p \in 0 .. c : p = c - d
  BY <1>1, <1>4
<1>6. l.height[A[p]] >= i /\ ~Good(p) /\ p \in 0 .. n
  BY <1>1, <1>4, <1>5
<1>7. PICK q \in p + 1 .. n + 1 : Link(l, A, n, i, p, q)
  BY <1>1, <1>6, HasSucc
<1>8. /\ Goes(l, Pass, i, Place(A, p)) <=> q <= c
      /\ q <= c => Ahead(l, Place(A, p), i) = Place(A, q)
  BY <1>6, <1>7, MoveIs
<1>9. Place(A, p) \in Places
  BY <1>1, <1>6, NodeAt
<1>10. Walk(l, Pass, i)[Place(A, p)] =
         IF Goes(l, Pass, i, Place(A, p)) THEN Walk(l, Pass, i)[Ahead(l, Place(A, p), i)]
         ELSE Place(A, p)
  BY <1>1, <1>9, WalkTurn
<1>11. CASE q <= c
  <2>1. Walk(l, Pass, i)[Place(A, p)] = Walk(l, Pass, i)[Place(A, q)]
    BY <1>8, <1>10, <1>11
  <2>2. q \in 0 .. c /\ q <= n /\ c - q \in 0 .. c /\ c - (c - q) = q /\ c - q < d
    BY <1>1, <1>5, <1>11, <1>4
  <2>3. l.height[A[q]] >= i
    BY <1>7, <2>2 DEF Link, Succ
  <2>4. ~Good(q)
    BY <1>6, <2>1 DEF Good
  <2>5. c - q \in Bad
    BY <2>2, <2>3, <2>4
  <2> QED
    BY <1>1, <1>4, <2>2, <2>5
<1>12. CASE ~(q <= c)
  <2>1. Walk(l, Pass, i)[Place(A, p)] = Place(A, p)
    BY <1>8, <1>10, <1>12
  <2>2. ASSUME NEW r \in p + 1 .. c PROVE l.height[A[r]] < i
    <3>1. r \in p + 1 .. q - 1
      BY <1>1, <1>12
    <3> QED
      BY <1>7, <3>1 DEF Link, Succ
  <2>3. IsLast(l, A, c, i, p)
    BY <1>6, <2>2 DEF IsLast
  <2> QED
    BY <1>6, <2>1, <2>3 DEF Good
<1> QED
  BY <1>11, <1>12

\* One position is the last.
LEMMA LastIs ==
  ASSUME NEW l, NEW A, NEW n, Shape(l), Positions(l, A, n), NEW c \in 0 .. n, NEW i \in Levels
  PROVE  \E b \in 0 .. c : IsLast(l, A, c, i, b) /\ \A x : IsLast(l, A, c, i, x) => x = b
<1>0. n \in Nat /\ c \in Nat /\ \A p \in 0 .. n : l.height[A[p]] \in 1 .. MaxLevel
  <2>1. n \in Nat
    BY DEF Positions
  <2>2. \A p \in 0 .. n : l.height[A[p]] \in 1 .. MaxLevel
    BY NodeAt
  <2> QED
    BY <2>1, <2>2
<1>1. l.height[A[0]] >= i
  BY ConstantFacts DEF Positions, Shape, Levels
<1> DEFINE T == {d \in 0 .. c : l.height[A[c - d]] >= i}
<1>2. c \in T
  BY <1>0, <1>1
<1>3. PICK d \in T : \A e \in T : d <= e
  <2>1. T \in SUBSET Nat /\ T # {}
    BY <1>0, <1>2
  <2> HIDE DEF T
  <2> QED
    BY <2>1, LeastElement
<1>4. PICK b \in 0 .. c : b = c - d
  BY <1>0, <1>3
<1>5. l.height[A[b]] >= i
  BY <1>3, <1>4
<1>6. ASSUME NEW r \in b + 1 .. c PROVE l.height[A[r]] < i
  <2>1. c - r \in 0 .. c /\ c - (c - r) = r /\ c - r < d
    BY <1>0, <1>3, <1>4
  <2>2. c - r \notin T
    BY <1>0, <1>3, <2>1
  <2>3. ~(l.height[A[r]] >= i)
    BY <2>1, <2>2
  <2>4. r \in 0 .. n
    BY <1>0
  <2>5. l.height[A[r]] \in Int /\ i \in Int
    BY <1>0, <2>4 DEF Levels
  <2> QED
    BY <2>3, <2>5
<1>7. ASSUME NEW x, IsLast(l, A, c, i, x) PROVE x = b
  <2>1. x \in 0 .. c /\ l.height[A[x]] >= i /\ \A r \in x + 1 .. c : l.height[A[r]] < i
    BY <1>7 DEF IsLast
  <2>2. x \in 0 .. n /\ b \in 0 .. n
    BY <1>0, <2>1
  <2>3. l.height[A[x]] \in Int /\ l.height[A[b]] \in Int /\ i \in Int
    BY <1>0, <2>2 DEF Levels
  <2>4. ~(x < b)
    BY <1>0, <1>5, <2>1, <2>2, <2>3
  <2>5. ~(b < x)
    BY <1>0, <1>6, <2>1, <2>2, <2>3
  <2> QED
    BY <1>0, <2>1, <2>4, <2>5
<1> QED
  BY <1>5, <1>6, <1>7 DEF IsLast

\* The last of the first c positions that has level i.
LastAt(l, A, c, i) == CHOOSE b : IsLast(l, A, c, i, b)

\* There is one such position.
LEMMA LastAtIs ==
  ASSUME NEW l, NEW A, NEW n, Shape(l), Positions(l, A, n), NEW c \in 0 .. n, NEW i \in Levels
  PROVE  /\ LastAt(l, A, c, i) \in 0 .. c /\ IsLast(l, A, c, i, LastAt(l, A, c, i))
         /\ \A x : IsLast(l, A, c, i, x) => x = LastAt(l, A, c, i)
<1>1. PICK b \in 0 .. c : IsLast(l, A, c, i, b) /\ \A x : IsLast(l, A, c, i, x) => x = b
  BY LastIs
<1>2. LastAt(l, A, c, i) = b
  BY <1>1 DEF LastAt
<1> QED
  BY <1>1, <1>2

\* Where a search that passes the first c positions leaves each level: at the last of them that
\* has the level, with its position as its rank.
LEMMA SearchIs ==
  ASSUME NEW l, NEW A, NEW n, Chain(l, A, n), NEW Pass, NEW c \in 0 .. n, Cut(A, n, Pass, c)
  PROVE  Search(l, Pass) = [i \in 1 .. l.level |-> Place(A, LastAt(l, A, c, i))]
<1> DEFINE L == l.level
           W(i, p) == Walk(l, Pass, i)[p]
           Body(h) == [i \in 1 .. L + 1 |-> IF i = L + 1 THEN Start ELSE W(i, h[i + 1])]
           f == [i \in 1 .. L + 1 |-> IF i = L + 1 THEN Start ELSE Place(A, LastAt(l, A, c, i))]
           left == CHOOSE h : h = Body(h)
<1>1. Search(l, Pass) = [i \in 1 .. L |-> left[i]]
  BY DEF Search
<1>2. /\ Shape(l) /\ Positions(l, A, n) /\ n \in Nat /\ c \in Nat /\ L \in Nat
      /\ \A i \in 1 .. L : i \in Levels
  <2>1. Shape(l) /\ Positions(l, A, n) /\ n \in Nat
    BY DEF Chain, Positions
  <2>2. L \in 1 .. MaxLevel
    BY <2>1 DEF Shape, Levels
  <2> QED
    BY <2>1, <2>2, ConstantFacts DEF Levels
<1>3. ASSUME NEW i \in 1 .. L PROVE f[i] = W(i, f[i + 1])
  <2>0. i \in Levels /\ i \in Nat /\ i \in 1 .. L + 1 /\ i # L + 1 /\ i + 1 \in 1 .. L + 1
    BY <1>2
  <2>1. PICK a \in 0 .. c : f[i + 1] = Place(A, a) /\ l.height[A[a]] >= i
    <3>1. CASE i = L
      <4>1. f[i + 1] = Start /\ 0 \in 0 .. c
        BY <1>2, <3>1
      <4>2. Start = Place(A, 0) /\ A[0] = Head_
        BY <1>2 DEF Start, Place, Positions
      <4>3. l.height[A[0]] >= i
        BY <1>2, <2>0, <4>2, ConstantFacts DEF Shape, Levels
      <4> QED
        BY <4>1, <4>2, <4>3
    <3>2. CASE i # L
      <4>1. i + 1 \in 1 .. L /\ i + 1 # L + 1 /\ i + 1 \in Levels
        BY <1>2, <3>2, <2>0
      <4>2. PICK a : a = LastAt(l, A, c, i + 1)
        OBVIOUS
      <4>3. f[i + 1] = Place(A, a)
        BY <2>0, <4>1, <4>2
      <4>4. a \in 0 .. c /\ IsLast(l, A, c, i + 1, a)
        BY <1>2, <4>1, <4>2, LastAtIs
      <4>5. l.height[A[a]] >= i + 1
        BY <4>4 DEF IsLast
      <4>6. l.height[A[a]] \in Int
        <5>1. a \in 0 .. n
          BY <1>2, <4>4
        <5> QED
          BY <1>2, <5>1, NodeAt
      <4>7. l.height[A[a]] >= i
        BY <2>0, <4>5, <4>6
      <4> QED
        BY <4>3, <4>4, <4>7
    <3> QED
      BY <3>1, <3>2
  <2>2. PICK b \in 0 .. c : IsLast(l, A, c, i, b) /\ W(i, Place(A, a)) = Place(A, b)
    BY <2>1, WalkIs
  <2>3. b = LastAt(l, A, c, i)
    BY <1>2, <2>0, <2>2, LastAtIs
  <2>4. f[i] = Place(A, LastAt(l, A, c, i))
    BY <2>0
  <2> QED
    BY <2>1, <2>2, <2>3, <2>4
<1>4. f[L + 1] = Start /\ f = [i \in 1 .. L + 1 |-> f[i]]
  BY <1>2
<1> HIDE DEF f, W, L
<1>5. f = Body(f)
  <2>1. ASSUME NEW i \in 1 .. L + 1 PROVE f[i] = IF i = L + 1 THEN Start ELSE W(i, f[i + 1])
    <3>1. CASE i = L + 1
      BY <1>4, <3>1
    <3>2. CASE i # L + 1
      <4>1. i \in 1 .. L
        BY <1>2, <3>2
      <4> QED
        BY <1>3, <3>2, <4>1
    <3> QED
      BY <3>1, <3>2
  <2> QED
    BY <1>4, <2>1
<1>6. left = Body(left)
  <2> HIDE DEF Body
  <2> QED
    BY <1>5
<1> HIDE DEF left
<1>7. left[L + 1] = Start /\ \A i \in 1 .. L : left[i] = W(i, left[i + 1])
  <2>1. L + 1 \in 1 .. L + 1 /\ \A i \in 1 .. L : i \in 1 .. L + 1 /\ i # L + 1
    BY <1>2
  <2>2. \A i \in 1 .. L + 1 : left[i] = IF i = L + 1 THEN Start ELSE W(i, left[i + 1])
    BY <1>6
  <2> QED
    BY <2>1, <2>2
<1> DEFINE Bad == {d \in 0 .. L : left[L + 1 - d] # f[L + 1 - d]}
<1>8. Bad = {}
  <2> SUFFICES ASSUME Bad # {} PROVE FALSE
    OBVIOUS
  <2>1. PICK d \in Bad : \A e \in Bad : d <= e
    <3>1. Bad \subseteq 0 .. L
      OBVIOUS
    <3> HIDE DEF Bad
    <3>2. Bad \in SUBSET Nat
      BY <1>2, <3>1
    <3> QED
      BY <3>2, LeastElement
  <2>2. d \in 0 .. L /\ left[L + 1 - d] # f[L + 1 - d]
    OBVIOUS
  <2>3. d # 0
    <3>1. L + 1 - 0 = L + 1
      BY <1>2
    <3> QED
      BY <1>4, <1>7, <2>2, <3>1
  <2>4. PICK j \in 1 .. L : j = L + 1 - d
    BY <1>2, <2>2, <2>3
  <2>5. d - 1 \in 0 .. L /\ L + 1 - (d - 1) = j + 1 /\ d - 1 < d
    BY <1>2, <2>2, <2>3, <2>4
  <2>6. d - 1 \notin Bad
    <3> HIDE DEF Bad
    <3> QED
      BY <2>1, <2>2, <2>5
  <2>7. left[j + 1] = f[j + 1]
    BY <2>5, <2>6
  <2>8. left[j] = f[j]
    BY <1>3, <1>7, <2>7
  <2> QED
    BY <2>2, <2>4, <2>8
<1>9. ASSUME NEW i \in 1 .. L PROVE left[i] = Place(A, LastAt(l, A, c, i))
  <2>1. L + 1 - i \in 0 .. L /\ L + 1 - (L + 1 - i) = i /\ i \in 1 .. L + 1 /\ i # L + 1
    BY <1>2
  <2>2. left[i] = f[i]
    BY <1>8, <2>1
  <2> QED
    BY <2>1, <2>2 DEF f
<1> QED
  BY <1>1, <1>9 DEF L

\* What a search computes, level by level, and the levels the list does not use.
LEMMA FoundIs ==
  ASSUME NEW l, NEW A, NEW n, Chain(l, A, n), NEW Pass, NEW c \in 0 .. n, Cut(A, n, Pass, c)
  PROVE  \E P \in [Levels -> 0 .. c] :
           /\ \A i \in Levels : IsLast(l, A, c, i, P[i])
           /\ P[1] = c
           /\ \A i \in Levels : (IF i <= l.level THEN Search(l, Pass)[i] ELSE Start) = Place(A, P[i])
           /\ \A i \in Levels : i > l.level => P[i] = 0
<1> DEFINE P == [i \in Levels |-> LastAt(l, A, c, i)]
<1>1. Shape(l) /\ Positions(l, A, n) /\ n \in Nat /\ c \in Nat /\ l.level \in 1 .. MaxLevel
  BY DEF Chain, Positions, Shape, Levels
<1>2. P \in [Levels -> 0 .. c]
  BY <1>1, LastAtIs
<1>3. \A i \in Levels : IsLast(l, A, c, i, P[i])
  BY <1>1, LastAtIs
<1>4. P[1] = c
  <2>1. 1 \in Levels
    BY ConstantFacts DEF Levels
  <2>2. c \in 0 .. n /\ l.height[A[c]] \in 1 .. MaxLevel
    BY <1>1, NodeAt
  <2>3. IsLast(l, A, c, 1, c)
    BY <1>1, <2>2 DEF IsLast
  <2> QED
    BY <1>1, <2>1, <2>3, LastAtIs
<1>5. ASSUME NEW i \in Levels, i > l.level PROVE P[i] = 0
  <2>1. i \in Nat /\ i <= MaxLevel /\ A[0] = Head_ /\ l.height[Head_] = MaxLevel
    BY <1>1, ConstantFacts DEF Levels, Positions, Shape
  <2>2. ASSUME NEW r \in 0 + 1 .. c PROVE l.height[A[r]] < i
    <3>1. r \in 1 .. n
      BY <1>1
    <3>2. A[r] \in Members
      BY <1>1, <3>1 DEF Positions
    <3>3. l.height[A[r]] <= l.level /\ l.height[A[r]] \in 0 .. MaxLevel
      BY <1>1, <3>2, ConstantFacts DEF Shape
    <3> QED
      BY <1>1, <1>5, <2>1, <3>3, ConstantFacts
  <2>3. IsLast(l, A, c, i, 0)
    BY <1>1, <2>1, <2>2, ConstantFacts DEF IsLast
  <2> QED
    BY <1>1, <2>3, LastAtIs
<1>6. ASSUME NEW i \in Levels
      PROVE  (IF i <= l.level THEN Search(l, Pass)[i] ELSE Start) = Place(A, P[i])
  <2>1. CASE i <= l.level
    <3>1. i \in 1 .. l.level
      BY <1>1, <2>1, ConstantFacts DEF Levels
    <3>2. Search(l, Pass) = [j \in 1 .. l.level |-> Place(A, LastAt(l, A, c, j))]
      BY SearchIs
    <3>3. Search(l, Pass)[i] = Place(A, LastAt(l, A, c, i))
      BY <3>1, <3>2
    <3> QED
      BY <2>1, <3>3
  <2>2. CASE ~(i <= l.level)
    <3>1. i > l.level
      BY <1>1, <2>2, ConstantFacts DEF Levels
    <3>2. P[i] = 0
      BY <1>5, <3>1
    <3> HIDE DEF P
    <3>3. Start = Place(A, 0)
      BY <1>1 DEF Start, Place, Positions
    <3> QED
      BY <2>2, <3>2, <3>3
  <2> QED
    BY <2>1, <2>2
<1> HIDE DEF P
<1> QED
  BY <1>2, <1>3, <1>4, <1>5, <1>6

\* Positions that come with all the ones before them are the first of some number.
LEMMA Threshold ==
  ASSUME NEW n \in Nat, NEW S \in SUBSET (1 .. n), \A p \in S : \A q \in 1 .. n : q < p => q \in S
  PROVE  \E c \in 0 .. n : \A p \in 1 .. n : p \in S <=> p <= c
<1> DEFINE T == {p \in 1 .. n + 1 : p \notin S}
<1>1. T \subseteq 1 .. n + 1 /\ n + 1 \in T
  OBVIOUS
<1>2. PICK x \in T : \A y \in T : x <= y
  <2> HIDE DEF T
  <2>1. T \in SUBSET Nat /\ T # {}
    BY <1>1
  <2> QED
    BY <2>1, LeastElement
<1>3. PICK c \in 0 .. n : x = c + 1
  <2>1. x - 1 \in 0 .. n /\ x = (x - 1) + 1
    BY <1>2
  <2> QED
    BY <2>1
<1>4. ASSUME NEW p \in 1 .. n PROVE p \in S <=> p <= c
  <2>1. CASE p <= c
    BY <1>2, <1>3, <2>1
  <2>2. CASE p > c
    <3>1. p = x \/ x < p
      BY <1>3, <2>2
    <3>2. x \notin S
      BY <1>2
    <3>3. x \in 1 .. n
      BY <1>3, <2>2
    <3> QED
      BY <2>2, <3>1, <3>2, <3>3
  <2> QED
    BY <2>1, <2>2
<1> QED
  BY <1>4

-----------------------------------------------------------------------------
(* Searches for a pair.                                                    *)

\* What Chain says, for citation.
LEMMA ChainParts ==
  ASSUME NEW l, NEW A, NEW n, Chain(l, A, n)
  PROVE  /\ Shape(l) /\ Positions(l, A, n) /\ Sorted(l, A, n) /\ Linked(l, A, n) /\ Back(l, A, n)
         /\ n \in Nat /\ l.level \in 1 .. MaxLevel /\ l.level \in Levels
BY DEF Chain, Positions, Shape, Levels

\* The places that the search for (score, member) passes.
Passed(l, score, member) == {p \in Places : Before(l, p.node, score, member)}

\* The nodes before (score, member) are the first ones: that is what the searches of insert,
\* deleteNode and getRank pass.
LEMMA PositionCut ==
  ASSUME NEW l, NEW A, NEW n, Chain(l, A, n), NEW score \in Int, NEW member \in Int
  PROVE  \E c \in 0 .. n : /\ \A p \in 1 .. n : Before(l, A[p], score, member) <=> p <= c
                           /\ Cut(A, n, Passed(l, score, member), c)
<1> DEFINE S == {p \in 1 .. n : Before(l, A[p], score, member)}
<1>1. Shape(l) /\ Positions(l, A, n) /\ Sorted(l, A, n) /\ n \in Nat
  BY ChainParts
<1>2. ASSUME NEW p \in 1 .. n PROVE A[p] \in Int /\ l.score[A[p]] \in Int /\ Place(A, p) \in Places
  <2>1. p \in 0 .. n
    BY <1>1
  <2>2. A[p] \in Nodes /\ A[p] \in Nat /\ Place(A, p) \in Places
    BY <1>1, <2>1, NodeAt
  <2> QED
    BY <1>1, <2>2 DEF Shape
<1>3. ASSUME NEW p \in S, NEW q \in 1 .. n, q < p PROVE q \in S
  <2>1. Before(l, A[q], l.score[A[p]], A[p])
    BY <1>1, <1>3 DEF Sorted
  <2>2. A[p] \in Int /\ l.score[A[p]] \in Int /\ A[q] \in Int /\ l.score[A[q]] \in Int
    BY <1>2
  <2>3. Before(l, A[p], score, member)
    OBVIOUS
  <2> QED
    BY <2>1, <2>2, <2>3 DEF Before
<1>4. S \in SUBSET (1 .. n)
  OBVIOUS
<1>5. PICK c \in 0 .. n : \A p \in 1 .. n : p \in S <=> p <= c
  <2> HIDE DEF S
  <2> QED
    BY <1>1, <1>3, <1>4, Threshold
<1>6. \A p \in 1 .. n : Before(l, A[p], score, member) <=> p <= c
  BY <1>5
<1>7. Cut(A, n, Passed(l, score, member), c)
  <2> DEFINE Pass == Passed(l, score, member)
  <2>1. ASSUME NEW q \in 1 .. n PROVE Place(A, q) \in Pass <=> q <= c
    <3>1. Place(A, q) \in Places /\ Place(A, q).node = A[q]
      BY <1>2 DEF Place
    <3> QED
      BY <1>6, <3>1 DEF Passed
  <2> HIDE DEF Pass
  <2>2. Cut(A, n, Pass, c)
    BY <2>1 DEF Cut
  <2> QED
    BY <2>2 DEF Pass
<1> QED
  BY <1>6, <1>7

\* The node after the last one passed on a level is not passed.
LEMMA LastSucc ==
  ASSUME NEW l, NEW A, NEW n, Chain(l, A, n), NEW c \in 0 .. n, NEW i \in Levels, NEW b,
         IsLast(l, A, c, i, b)
  PROVE  /\ b \in 0 .. c /\ b \in 0 .. n
         /\ \E q \in c + 1 .. n + 1 : Link(l, A, n, i, b, q)
<1>1. Shape(l) /\ Positions(l, A, n) /\ n \in Nat
  BY ChainParts
<1>2. b \in 0 .. c /\ l.height[A[b]] >= i /\ b \in 0 .. n
  BY <1>1 DEF IsLast
<1>3. PICK q \in b + 1 .. n + 1 : Link(l, A, n, i, b, q)
  BY <1>2, HasSucc
<1>4. q > c
  <2> SUFFICES ASSUME q <= c PROVE FALSE
    BY <1>1, <1>2
  <2>1. q \in b + 1 .. c /\ q <= n /\ q \in 0 .. n
    BY <1>1, <1>2
  <2>2. l.height[A[q]] < i
    BY <2>1 DEF IsLast
  <2>3. l.height[A[q]] >= i
    BY <1>3, <2>1 DEF Link, Succ
  <2>4. l.height[A[q]] \in 1 .. MaxLevel /\ i \in Int
    BY <1>1, <2>1, NodeAt DEF Levels
  <2> QED
    BY <2>2, <2>3, <2>4
<1> QED
  BY <1>1, <1>2, <1>3, <1>4

-----------------------------------------------------------------------------
(* insert.                                                                 *)

\* The span of a node on a level, or over the whole list on a level that is new.
Old(l, x, i) == IF i <= l.level THEN l.span[x][i] ELSE l.length

\* It reaches the next node of that level.
LEMMA OldIs ==
  ASSUME NEW l, NEW A, NEW n, Chain(l, A, n), NEW i \in Levels, NEW b \in 0 .. n,
         i > l.level => b = 0, NEW q \in b + 1 .. n + 1, Link(l, A, n, i, b, q)
  PROVE  Old(l, A[b], i) = Reach(n, q) - b
<1>1. /\ Shape(l) /\ Positions(l, A, n) /\ Back(l, A, n) /\ n \in Nat /\ l.level \in 1 .. MaxLevel
      /\ i \in Int
  BY ChainParts DEF Levels
<1>2. CASE i <= l.level
  BY <1>2 DEF Link, Old
<1>3. CASE ~(i <= l.level)
  <2>1. b = 0 /\ i > l.level
    BY <1>1, <1>3
  <2>2. q = n + 1
    <3> SUFFICES ASSUME q # n + 1 PROVE FALSE
      OBVIOUS
    <3>1. q \in 1 .. n /\ q <= n
      BY <1>1, <2>1
    <3>2. A[q] \in Members
      BY <1>1, <3>1 DEF Positions
    <3>3. l.height[A[q]] <= l.level /\ l.height[A[q]] \in 0 .. MaxLevel
      BY <1>1, <3>2, ConstantFacts DEF Shape
    <3>4. l.height[A[q]] >= i
      BY <3>1 DEF Link, Succ
    <3> QED
      BY <1>1, <2>1, <3>3, <3>4, ConstantFacts
  <2>3. l.length = n
    BY <1>1 DEF Back
  <2> QED
    BY <1>1, <1>3, <2>1, <2>2, <2>3 DEF Old, Reach
<1> QED
  BY <1>2, <1>3

\* The positions with member m after the first c.
With(A, n, c, m) == [p \in 0 .. n + 2 |-> IF p <= c THEN A[p] ELSE IF p = c + 1 THEN m ELSE A[p - 1]]

\* What insert makes of a list l: r, where P gives the positions at which the search leaves the
\* levels.
InsertMakes(l, r, A, P, m, score, k) ==
  /\ r.forward = [x \in Nodes |-> [i \in Levels |->
        IF i > k THEN l.forward[x][i]
        ELSE IF x = m THEN l.forward[A[P[i]]][i]
        ELSE IF x = A[P[i]] THEN m ELSE l.forward[x][i]]]
  /\ r.span = [x \in Nodes |-> [i \in Levels |->
        IF i <= k /\ x = m THEN Old(l, A[P[i]], i) - (P[1] - P[i])
        ELSE IF i <= k /\ x = A[P[i]] THEN (P[1] - P[i]) + 1
        ELSE IF i > k /\ i <= l.level /\ x = A[P[i]] THEN l.span[x][i] + 1
        ELSE l.span[x][i]]]
  /\ r.score = [l.score EXCEPT ![m] = score]
  /\ r.height = [l.height EXCEPT ![m] = k]
  /\ r.backward = [x \in Nodes |->
        IF x = m THEN (IF A[P[1]] = Head_ THEN Nil ELSE A[P[1]])
        ELSE IF x = l.forward[A[P[1]]][1] THEN m ELSE l.backward[x]]
  /\ r.tail = IF l.forward[A[P[1]]][1] = Nil THEN m ELSE l.tail
  /\ r.length = l.length + 1
  /\ r.level = IF k > l.level THEN k ELSE l.level

\* That is what insert makes of a list, P being the positions where its search left the levels.
LEMMA InsertIs ==
  ASSUME NEW l, NEW A, NEW n, NEW c, NEW score, NEW m, NEW k,
         NEW P \in [Levels -> 0 .. c],
         \A i \in Levels : (IF i <= l.level THEN Position(l, score, m)[i] ELSE Start) = Place(A, P[i])
  PROVE  InsertMakes(l, insert(l, score, m, k), A, P, m, score, k)
<1> DEFINE r == insert(l, score, m, k)
           at(i) == IF i <= l.level THEN Position(l, score, m)[i] ELSE Start
           old(i) == IF i <= l.level THEN l.span[at(i).node][i] ELSE l.length
           gap(i) == at(1).rank - at(i).rank
           next == l.forward[at(1).node][1]
           forward == [x \in Nodes |-> [i \in Levels |->
             IF i > k THEN l.forward[x][i]
             ELSE IF x = m THEN l.forward[at(i).node][i]
             ELSE IF x = at(i).node THEN m ELSE l.forward[x][i]]]
           span == [x \in Nodes |-> [i \in Levels |->
             IF i <= k /\ x = m THEN old(i) - gap(i)
             ELSE IF i <= k /\ x = at(i).node THEN gap(i) + 1
             ELSE IF i > k /\ i <= l.level /\ x = at(i).node THEN l.span[x][i] + 1
             ELSE l.span[x][i]]]
           scores == [l.score EXCEPT ![m] = score]
           heights == [l.height EXCEPT ![m] = k]
           backward == [x \in Nodes |->
             IF x = m THEN (IF at(1).node = Head_ THEN Nil ELSE at(1).node)
             ELSE IF x = next THEN m ELSE l.backward[x]]
           tail == IF next = Nil THEN m ELSE l.tail
           level == IF k > l.level THEN k ELSE l.level
<1>0. r = [forward |-> forward, span |-> span, score |-> scores, height |-> heights,
           backward |-> backward, tail |-> tail, length |-> l.length + 1, level |-> level]
  BY DEF insert
<1>1. /\ r.forward = forward /\ r.span = span /\ r.score = scores /\ r.height = heights
      /\ r.backward = backward /\ r.tail = tail /\ r.length = l.length + 1 /\ r.level = level
  <2> HIDE DEF r, forward, span, scores, heights, backward, tail, level
  <2> QED
    BY <1>0
<1>9. \A i \in Levels : at(i) = Place(A, P[i])
  OBVIOUS
<1>2. \A i \in Levels : at(i).node = A[P[i]] /\ at(i).rank = P[i]
  <2> HIDE DEF at
  <2> QED
    BY <1>9 DEF Place
<1>3. 1 \in Levels
  BY ConstantFacts DEF Levels
<1> HIDE DEF at, r
<1>4. at(1).node = A[P[1]] /\ at(1).rank = P[1]
  BY <1>2, <1>3
<1>5. ASSUME NEW i \in Levels PROVE old(i) = Old(l, A[P[i]], i) /\ gap(i) = P[1] - P[i]
  BY <1>2, <1>4 DEF Old
<1> HIDE DEF old, gap
<1>6. r.forward = [x \in Nodes |-> [i \in Levels |->
        IF i > k THEN l.forward[x][i]
        ELSE IF x = m THEN l.forward[A[P[i]]][i]
        ELSE IF x = A[P[i]] THEN m ELSE l.forward[x][i]]]
  BY <1>1, <1>2
<1>7. r.span = [x \in Nodes |-> [i \in Levels |->
        IF i <= k /\ x = m THEN Old(l, A[P[i]], i) - (P[1] - P[i])
        ELSE IF i <= k /\ x = A[P[i]] THEN (P[1] - P[i]) + 1
        ELSE IF i > k /\ i <= l.level /\ x = A[P[i]] THEN l.span[x][i] + 1
        ELSE l.span[x][i]]]
  BY <1>1, <1>2, <1>5
<1>8. /\ r.backward = [x \in Nodes |->
        IF x = m THEN (IF A[P[1]] = Head_ THEN Nil ELSE A[P[1]])
        ELSE IF x = l.forward[A[P[1]]][1] THEN m ELSE l.backward[x]]
      /\ r.tail = IF l.forward[A[P[1]]][1] = Nil THEN m ELSE l.tail
  BY <1>1, <1>4
<1> QED
  BY <1>1, <1>6, <1>7, <1>8 DEF InsertMakes, r

\* A list l with positions A, and the list r that insert makes of it with member m at c + 1.
Inserting(l, A, n, c, P, m, score, k, r) ==
  /\ Chain(l, A, n) /\ m \in Members /\ l.height[m] = 0 /\ score \in Int /\ k \in Levels
  /\ c \in 0 .. n /\ \A p \in 1 .. n : Before(l, A[p], score, m) <=> p <= c
  /\ P \in [Levels -> 0 .. c] /\ \A i \in Levels : IsLast(l, A, c, i, P[i])
  /\ P[1] = c /\ \A i \in Levels : i > l.level => P[i] = 0
  /\ InsertMakes(l, r, A, P, m, score, k)

\* The new positions.
LEMMA WithIs ==
  ASSUME NEW A, NEW n \in Nat, NEW c \in 0 .. n, NEW m, NEW B, B = With(A, n, c, m)
  PROVE  /\ \A p \in 0 .. c : B[p] = A[p]
         /\ B[c + 1] = m
         /\ \A p \in c + 1 .. n + 1 : B[p + 1] = A[p]
         /\ \A p \in c + 2 .. n + 2 : B[p] = A[p - 1] /\ p - 1 \in c + 1 .. n + 1
<1>1. \A p \in 0 .. c : B[p] = A[p]
  BY DEF With
<1>2. B[c + 1] = m
  BY DEF With
<1>3. ASSUME NEW p \in c + 1 .. n + 1 PROVE B[p + 1] = A[p]
  <2>1. p + 1 \in 0 .. n + 2 /\ ~(p + 1 <= c) /\ p + 1 # c + 1 /\ (p + 1) - 1 = p
    OBVIOUS
  <2> QED
    BY <2>1 DEF With
<1>4. ASSUME NEW p \in c + 2 .. n + 2 PROVE B[p] = A[p - 1] /\ p - 1 \in c + 1 .. n + 1
  <2>1. p \in 0 .. n + 2 /\ ~(p <= c) /\ p # c + 1 /\ p - 1 \in c + 1 .. n + 1
    OBVIOUS
  <2> QED
    BY <2>1 DEF With
<1> QED
  BY <1>1, <1>2, <1>3, <1>4

\* Heights, scores and the nodes of the positions.
LEMMA InsertNodes ==
  ASSUME NEW l, NEW A, NEW n, NEW c, NEW P, NEW m, NEW score, NEW k, NEW r,
         Inserting(l, A, n, c, P, m, score, k, r)
  PROVE  /\ m \in Nodes /\ r.height[m] = k /\ r.score[m] = score
         /\ \A x \in Nodes : x # m => r.height[x] = l.height[x] /\ r.score[x] = l.score[x]
         /\ \A p \in 0 .. n : /\ A[p] # m /\ A[p] \in Nodes /\ A[p] \in Nat
                              /\ r.height[A[p]] = l.height[A[p]] /\ r.score[A[p]] = l.score[A[p]]
                              /\ l.height[A[p]] \in 1 .. MaxLevel /\ l.score[A[p]] \in Int
<1>1. Shape(l) /\ Positions(l, A, n) /\ n \in Nat /\ m \in Nodes /\ l.height[m] = 0
  BY ChainParts, ConstantFacts DEF Inserting
<1>2. r.score = [l.score EXCEPT ![m] = score] /\ r.height = [l.height EXCEPT ![m] = k]
  BY DEF Inserting, InsertMakes
<1>3. l.score \in [Nodes -> Int] /\ l.height \in [Nodes -> 0 .. MaxLevel]
  BY <1>1 DEF Shape
<1>4. r.height[m] = k /\ r.score[m] = score
  BY <1>1, <1>2, <1>3
<1>5. \A x \in Nodes : x # m => r.height[x] = l.height[x] /\ r.score[x] = l.score[x]
  BY <1>1, <1>2, <1>3
<1>6. ASSUME NEW p \in 0 .. n
      PROVE  A[p] # m /\ A[p] \in Nodes /\ A[p] \in Nat /\ l.height[A[p]] \in 1 .. MaxLevel
             /\ l.score[A[p]] \in Int
  <2>1. A[p] \in Nodes /\ A[p] \in Nat /\ l.height[A[p]] \in 1 .. MaxLevel
    BY <1>1, NodeAt
  <2>2. l.height[A[p]] # 0
    BY <2>1
  <2> QED
    BY <1>1, <1>3, <2>1, <2>2
<1> QED
  BY <1>1, <1>4, <1>5, <1>6

\* The pointer and the span of the new node on a level it has.
LEMMA InsertLinkNew ==
  ASSUME NEW l, NEW A, NEW n, NEW c, NEW P, NEW m, NEW score, NEW k, NEW r,
         Inserting(l, A, n, c, P, m, score, k, r), NEW B, B = With(A, n, c, m),
         NEW i \in Levels, i <= k
  PROVE  \E q \in (c + 1) + 1 .. (n + 1) + 1 : Link(r, B, n + 1, i, c + 1, q)
<1>1. /\ Chain(l, A, n) /\ n \in Nat /\ c \in 0 .. n /\ i \in Int /\ k \in Int /\ IsLast(l, A, c, i, P[i])
      /\ P[1] = c /\ (i > l.level => P[i] = 0) /\ InsertMakes(l, r, A, P, m, score, k)
  BY ChainParts DEF Inserting, Levels
<1>2. P[i] \in 0 .. c /\ P[i] \in 0 .. n
  BY <1>1, LastSucc
<1>3. PICK q \in c + 1 .. n + 1 : Link(l, A, n, i, P[i], q)
  BY <1>1, LastSucc
<1>4. q \in P[i] + 1 .. n + 1 /\ q + 1 \in (c + 1) + 1 .. (n + 1) + 1
  BY <1>1, <1>2
<1>5. /\ m \in Nodes
      /\ \A p \in 0 .. n : A[p] # m /\ r.height[A[p]] = l.height[A[p]]
  BY InsertNodes
<1>6. /\ \A p \in 0 .. c : B[p] = A[p]
      /\ B[c + 1] = m
      /\ \A p \in c + 1 .. n + 1 : B[p + 1] = A[p]
      /\ \A p \in c + 2 .. n + 2 : B[p] = A[p - 1] /\ p - 1 \in c + 1 .. n + 1
  <2>1. n \in Nat /\ c \in 0 .. n /\ B = With(A, n, c, m)
    BY <1>1
  <2> QED
    BY <2>1, WithIs, Zenon
<1>7. r.forward[m][i] = A[q]
  <2>1. r.forward[m][i] = l.forward[A[P[i]]][i]
    BY <1>1, <1>5 DEF InsertMakes
  <2> QED
    BY <1>3, <2>1 DEF Link
<1>8. r.span[m][i] = Reach(n, q) - c
  <2>1. r.span[m][i] = Old(l, A[P[i]], i) - (c - P[i])
    BY <1>1, <1>5 DEF InsertMakes
  <2>2. Old(l, A[P[i]], i) = Reach(n, q) - P[i]
    BY <1>1, <1>2, <1>3, <1>4, OldIs
  <2>3. Reach(n, q) \in Nat
    BY <1>1 DEF Reach
  <2> QED
    BY <1>1, <1>2, <2>1, <2>2, <2>3
<1>9. Reach(n + 1, q + 1) = Reach(n, q) + 1 /\ Reach(n, q) \in Nat
  BY <1>1 DEF Reach
<1>10. ASSUME NEW s \in (c + 1) + 1 .. (q + 1) - 1 PROVE r.height[B[s]] < i
  <2>1. s \in c + 2 .. n + 2 /\ s - 1 \in P[i] + 1 .. q - 1 /\ s - 1 \in 0 .. n
    BY <1>1, <1>2
  <2>2. l.height[A[s - 1]] < i
    BY <1>3, <2>1 DEF Link, Succ
  <2> QED
    BY <1>5, <1>6, <2>1, <2>2
<1>11. q + 1 <= n + 1 => r.height[B[q + 1]] >= i
  <2> SUFFICES ASSUME q + 1 <= n + 1 PROVE r.height[B[q + 1]] >= i
    OBVIOUS
  <2>1. q <= n /\ q \in 0 .. n
    BY <1>1
  <2>2. l.height[A[q]] >= i
    BY <1>3, <2>1 DEF Link, Succ
  <2> QED
    BY <1>5, <1>6, <2>1, <2>2
<1>12. Succ(r, B, n + 1, i, c + 1, q + 1)
  BY <1>10, <1>11 DEF Succ
<1>13. r.forward[B[c + 1]][i] = B[q + 1]
  BY <1>6, <1>7
<1>14. r.span[B[c + 1]][i] = Reach(n + 1, q + 1) - (c + 1)
  BY <1>1, <1>6, <1>8, <1>9
<1>15. Link(r, B, n + 1, i, c + 1, q + 1)
  BY <1>12, <1>13, <1>14 DEF Link
<1> QED
  BY <1>4, <1>15

\* The node where the search leaves a level.
LEMMA InsertLinkLast ==
  ASSUME NEW l, NEW A, NEW n, NEW c, NEW P, NEW m, NEW score, NEW k, NEW r,
         Inserting(l, A, n, c, P, m, score, k, r), NEW B, B = With(A, n, c, m),
         NEW i \in Levels
  PROVE  \E q \in P[i] + 1 .. (n + 1) + 1 : Link(r, B, n + 1, i, P[i], q)
<1>1. /\ Chain(l, A, n) /\ n \in Nat /\ c \in 0 .. n /\ i \in Int /\ k \in Int
      /\ IsLast(l, A, c, i, P[i]) /\ l.level \in Int
      /\ P[1] = c /\ InsertMakes(l, r, A, P, m, score, k)
  BY ChainParts DEF Inserting, Levels
<1>2. PICK b \in 0 .. c : b = P[i]
  BY <1>1, LastSucc
<1>3. PICK q \in c + 1 .. n + 1 : Link(l, A, n, i, b, q)
  BY <1>1, <1>2, LastSucc
<1>4. b \in 0 .. n /\ c + 1 \in b + 1 .. (n + 1) + 1 /\ q + 1 \in b + 1 .. (n + 1) + 1
  BY <1>1
<1>5. /\ \A p \in 0 .. n : A[p] # m /\ r.height[A[p]] = l.height[A[p]] /\ A[p] \in Nodes
      /\ r.height[m] = k
  BY InsertNodes
<1>6. /\ \A p \in 0 .. c : B[p] = A[p]
      /\ B[c + 1] = m
      /\ \A p \in c + 1 .. n + 1 : B[p + 1] = A[p]
      /\ \A p \in c + 2 .. n + 2 : B[p] = A[p - 1] /\ p - 1 \in c + 1 .. n + 1
  <2>1. n \in Nat /\ c \in 0 .. n /\ B = With(A, n, c, m)
    BY <1>1
  <2> QED
    BY <2>1, WithIs, Zenon
<1>7. B[b] = A[b] /\ A[b] # m /\ A[b] \in Nodes
  BY <1>4, <1>5, <1>6
<1>8. ASSUME NEW s \in b + 1 .. c PROVE r.height[B[s]] < i
  <2>1. s \in 0 .. c /\ s \in 0 .. n
    BY <1>1
  <2>2. l.height[A[s]] < i
    BY <1>1, <1>2 DEF IsLast
  <2> QED
    BY <1>5, <1>6, <2>1, <2>2
<1>9. CASE i <= k
  <2>1. r.forward[A[b]][i] = m
    BY <1>1, <1>2, <1>7, <1>9 DEF InsertMakes
  <2>2. r.span[A[b]][i] = (c - b) + 1
    BY <1>1, <1>2, <1>7, <1>9 DEF InsertMakes
  <2>3. Succ(r, B, n + 1, i, b, c + 1)
    <3>1. (c + 1) - 1 = c
      BY <1>1
    <3>2. r.height[B[c + 1]] >= i
      BY <1>1, <1>5, <1>6, <1>9
    <3> QED
      BY <1>8, <3>1, <3>2 DEF Succ
  <2>4. Reach(n + 1, c + 1) - b = (c - b) + 1
    BY <1>1 DEF Reach
  <2>5. Link(r, B, n + 1, i, b, c + 1)
    BY <1>6, <1>7, <2>1, <2>2, <2>3, <2>4 DEF Link
  <2> QED
    BY <1>2, <1>4, <2>5
<1>10. CASE ~(i <= k)
  <2>0. i > k
    BY <1>1, <1>10
  <2>1. r.forward[A[b]][i] = A[q]
    <3>1. r.forward[A[b]][i] = l.forward[A[b]][i]
      BY <1>1, <1>7, <2>0 DEF InsertMakes
    <3> QED
      BY <1>3, <3>1 DEF Link
  <2>2. ASSUME i <= r.level PROVE r.span[A[b]][i] = Reach(n + 1, q + 1) - b
    <3>1. i <= l.level
      BY <1>1, <2>0, <2>2 DEF InsertMakes
    <3>2. r.span[A[b]][i] = l.span[A[b]][i] + 1
      BY <1>1, <1>2, <1>7, <1>10, <2>0, <3>1 DEF InsertMakes
    <3>3. l.span[A[b]][i] = Reach(n, q) - b
      BY <1>3, <3>1 DEF Link
    <3>4. Reach(n + 1, q + 1) = Reach(n, q) + 1 /\ Reach(n, q) \in Nat
      BY <1>1 DEF Reach
    <3> QED
      BY <3>2, <3>3, <3>4
  <2>3. ASSUME NEW s \in b + 1 .. (q + 1) - 1 PROVE r.height[B[s]] < i
    <3>1. CASE s <= c
      BY <1>8, <3>1
    <3>2. CASE s = c + 1
      BY <1>5, <1>6, <2>0, <3>2
    <3>3. CASE s > c + 1
      <4>1. s \in c + 2 .. n + 2 /\ s - 1 \in b + 1 .. q - 1 /\ s - 1 \in 0 .. n
        BY <1>1, <3>3
      <4>2. l.height[A[s - 1]] < i
        BY <1>3, <4>1 DEF Link, Succ
      <4> QED
        BY <1>5, <1>6, <4>1, <4>2
    <3> QED
      BY <1>1, <3>1, <3>2, <3>3
  <2>4. q + 1 <= n + 1 => r.height[B[q + 1]] >= i
    <3> SUFFICES ASSUME q + 1 <= n + 1 PROVE r.height[B[q + 1]] >= i
      OBVIOUS
    <3>1. q <= n /\ q \in 0 .. n
      BY <1>1
    <3>2. l.height[A[q]] >= i
      BY <1>3, <3>1 DEF Link, Succ
    <3> QED
      BY <1>5, <1>6, <3>1, <3>2
  <2>5. Succ(r, B, n + 1, i, b, q + 1)
    BY <2>3, <2>4 DEF Succ
  <2>6. B[q + 1] = A[q]
    BY <1>6
  <2>7. Link(r, B, n + 1, i, b, q + 1)
    BY <1>7, <2>1, <2>2, <2>5, <2>6 DEF Link
  <2> QED
    BY <1>2, <1>4, <2>7
<1> QED
  BY <1>9, <1>10

\* A node before the one where the search leaves a level.
LEMMA InsertLinkBefore ==
  ASSUME NEW l, NEW A, NEW n, NEW c, NEW P, NEW m, NEW score, NEW k, NEW r,
         Inserting(l, A, n, c, P, m, score, k, r), NEW B, B = With(A, n, c, m),
         NEW i \in Levels, NEW p \in 0 .. c, p # P[i], l.height[A[p]] >= i
  PROVE  \E q \in p + 1 .. (n + 1) + 1 : Link(r, B, n + 1, i, p, q)
<1>1. /\ Chain(l, A, n) /\ n \in Nat /\ c \in 0 .. n /\ i \in Int /\ k \in Int
      /\ IsLast(l, A, c, i, P[i]) /\ l.level \in Int
      /\ P[1] = c /\ InsertMakes(l, r, A, P, m, score, k)
  BY ChainParts DEF Inserting, Levels
<1>2. PICK b \in 0 .. c : b = P[i]
  BY <1>1, LastSucc
<1>3. b \in 0 .. n /\ p \in 0 .. n
  BY <1>1
<1>4. /\ \A s \in 0 .. n : /\ A[s] # m /\ r.height[A[s]] = l.height[A[s]] /\ A[s] \in Nodes
                           /\ l.height[A[s]] \in 1 .. MaxLevel
      /\ r.height[m] = k
  BY InsertNodes
<1>5. /\ \A s \in 0 .. c : B[s] = A[s]
  BY <1>1, WithIs
<1>6. p < b
  <2> SUFFICES ASSUME ~(p < b) PROVE FALSE
    OBVIOUS
  <2>1. p \in b + 1 .. c
    BY <1>1, <1>2
  <2>2. l.height[A[p]] < i
    BY <1>1, <1>2, <2>1 DEF IsLast
  <2>3. l.height[A[p]] \in Int
    BY <1>3, <1>4
  <2> QED
    BY <1>1, <2>2, <2>3
<1>7. PICK q \in p + 1 .. n + 1 : Link(l, A, n, i, p, q)
  BY <1>1, <1>3, HasSucc
<1>8. q <= b
  <2> SUFFICES ASSUME ~(q <= b) PROVE FALSE
    OBVIOUS
  <2>1. b \in p + 1 .. q - 1
    BY <1>1, <1>3, <1>6
  <2>2. l.height[A[b]] < i
    BY <1>7, <2>1 DEF Link, Succ
  <2>3. l.height[A[b]] >= i
    BY <1>1, <1>2 DEF IsLast
  <2>4. l.height[A[b]] \in Int
    BY <1>3, <1>4
  <2> QED
    BY <1>1, <2>2, <2>3, <2>4
<1>9. q \in 0 .. c /\ q \in 0 .. n /\ q <= n /\ q \in p + 1 .. (n + 1) + 1
  BY <1>1, <1>3, <1>8
<1>10. A[p] # A[b] /\ A[p] # m /\ A[p] \in Nodes /\ B[p] = A[p] /\ B[q] = A[q]
  <2>1. A[p] # A[b]
    BY <1>1, <1>3, <1>6, ChainParts, OnePosition
  <2> QED
    BY <1>3, <1>4, <1>5, <1>9, <2>1
<1>11. r.forward[A[p]][i] = l.forward[A[p]][i] /\ r.span[A[p]][i] = l.span[A[p]][i]
  BY <1>1, <1>2, <1>10 DEF InsertMakes
<1>12. r.forward[A[p]][i] = A[q]
  BY <1>7, <1>11 DEF Link
<1>13. ASSUME i <= r.level PROVE r.span[A[p]][i] = Reach(n + 1, q) - p
  <2>1. i <= l.level
    <3> SUFFICES ASSUME i > l.level PROVE FALSE
      BY <1>1
    <3>1. P[i] = 0
      BY DEF Inserting
    <3> QED
      BY <1>2, <1>6, <3>1
  <2>2. l.span[A[p]][i] = Reach(n, q) - p
    BY <1>7, <2>1 DEF Link
  <2>3. Reach(n, q) = Reach(n + 1, q)
    BY <1>1, <1>9 DEF Reach
  <2> QED
    BY <1>11, <2>2, <2>3
<1>14. Succ(r, B, n + 1, i, p, q)
  <2>1. ASSUME NEW s \in p + 1 .. q - 1 PROVE r.height[B[s]] < i
    <3>1. s \in 0 .. c /\ s \in 0 .. n
      BY <1>1, <1>9
    <3>2. l.height[A[s]] < i
      BY <1>7 DEF Link, Succ
    <3> QED
      BY <1>4, <1>5, <3>1, <3>2
  <2>2. r.height[B[q]] >= i
    <3>1. l.height[A[q]] >= i
      BY <1>7, <1>9 DEF Link, Succ
    <3> QED
      BY <1>4, <1>9, <1>10, <3>1
  <2> QED
    BY <2>1, <2>2 DEF Succ
<1>15. Link(r, B, n + 1, i, p, q)
  BY <1>10, <1>12, <1>13, <1>14 DEF Link
<1> QED
  BY <1>9, <1>15

\* A node after the new one: p is its position without the new one.
LEMMA InsertLinkAfter ==
  ASSUME NEW l, NEW A, NEW n, NEW c, NEW P, NEW m, NEW score, NEW k, NEW r,
         Inserting(l, A, n, c, P, m, score, k, r), NEW B, B = With(A, n, c, m),
         NEW i \in Levels, NEW p \in c + 1 .. n, l.height[A[p]] >= i
  PROVE  \E q \in (p + 1) + 1 .. (n + 1) + 1 : Link(r, B, n + 1, i, p + 1, q)
<1>1. /\ Chain(l, A, n) /\ n \in Nat /\ c \in 0 .. n /\ i \in Int /\ k \in Int
      /\ IsLast(l, A, c, i, P[i]) /\ l.level \in 1 .. MaxLevel /\ Shape(l) /\ Positions(l, A, n)
      /\ P[1] = c /\ InsertMakes(l, r, A, P, m, score, k)
  BY ChainParts DEF Inserting, Levels
<1>2. PICK b \in 0 .. c : b = P[i]
  BY <1>1, LastSucc
<1>3. b \in 0 .. n /\ p \in 0 .. n /\ p # b /\ p \in 1 .. n /\ p \in c + 1 .. n + 1
  BY <1>1
<1>4. /\ \A s \in 0 .. n : /\ A[s] # m /\ r.height[A[s]] = l.height[A[s]] /\ A[s] \in Nodes
                           /\ l.height[A[s]] \in 1 .. MaxLevel
  BY InsertNodes
<1>5. \A s \in c + 1 .. n + 1 : B[s + 1] = A[s]
  BY <1>1, WithIs
<1>6. /\ \A s \in c + 2 .. n + 2 : B[s] = A[s - 1] /\ s - 1 \in c + 1 .. n + 1
  BY <1>1, WithIs
<1>7. PICK q \in p + 1 .. n + 1 : Link(l, A, n, i, p, q)
  BY <1>1, <1>3, HasSucc
<1>9. q \in c + 1 .. n + 1 /\ q + 1 \in (p + 1) + 1 .. (n + 1) + 1
  BY <1>1, <1>3
<1>10. A[p] # A[b] /\ A[p] # m /\ A[p] \in Nodes /\ B[p + 1] = A[p] /\ B[q + 1] = A[q]
  <2>1. A[p] # A[b]
    BY <1>1, <1>3, ChainParts, OnePosition
  <2> QED
    BY <1>3, <1>4, <1>5, <1>9, <2>1
<1>11. r.forward[A[p]][i] = l.forward[A[p]][i] /\ r.span[A[p]][i] = l.span[A[p]][i]
  BY <1>1, <1>2, <1>10 DEF InsertMakes
<1>12. r.forward[A[p]][i] = A[q]
  BY <1>7, <1>11 DEF Link
<1>13. r.span[A[p]][i] = Reach(n + 1, q + 1) - (p + 1)
  <2>1. i <= l.level
    <3>1. A[p] \in Members
      BY <1>1, <1>3 DEF Positions
    <3>2. l.height[A[p]] <= l.level
      BY <1>1, <3>1 DEF Shape
    <3>3. l.height[A[p]] \in Int
      BY <1>3, <1>4
    <3> QED
      BY <1>1, <3>2, <3>3
  <2>2. l.span[A[p]][i] = Reach(n, q) - p
    BY <1>7, <2>1 DEF Link
  <2>3. Reach(n + 1, q + 1) = Reach(n, q) + 1 /\ Reach(n, q) \in Nat
    BY <1>1, <1>9 DEF Reach
  <2> QED
    BY <1>3, <1>11, <2>2, <2>3
<1>14. Succ(r, B, n + 1, i, p + 1, q + 1)
  <2>1. ASSUME NEW s \in (p + 1) + 1 .. (q + 1) - 1 PROVE r.height[B[s]] < i
    <3>1. s \in c + 2 .. n + 2 /\ s - 1 \in p + 1 .. q - 1 /\ s - 1 \in 0 .. n
      BY <1>1, <1>3
    <3>2. l.height[A[s - 1]] < i
      BY <1>7, <3>1 DEF Link, Succ
    <3> QED
      BY <1>4, <1>6, <3>1, <3>2
  <2>2. q + 1 <= n + 1 => r.height[B[q + 1]] >= i
    <3> SUFFICES ASSUME q + 1 <= n + 1 PROVE r.height[B[q + 1]] >= i
      OBVIOUS
    <3>1. q <= n /\ q \in 0 .. n
      BY <1>1, <1>3
    <3>2. l.height[A[q]] >= i
      BY <1>7, <3>1 DEF Link, Succ
    <3> QED
      BY <1>4, <1>10, <3>1, <3>2
  <2> QED
    BY <2>1, <2>2 DEF Succ
<1>15. Link(r, B, n + 1, i, p + 1, q + 1)
  BY <1>10, <1>12, <1>13, <1>14 DEF Link
<1> QED
  BY <1>9, <1>15

\* Every node of the new list is linked.
LEMMA InsertLinked ==
  ASSUME NEW l, NEW A, NEW n, NEW c, NEW P, NEW m, NEW score, NEW k, NEW r,
         Inserting(l, A, n, c, P, m, score, k, r), NEW B, B = With(A, n, c, m)
  PROVE  Linked(r, B, n + 1)
<1>1. n \in Nat /\ c \in 0 .. n /\ k \in Int
  BY ChainParts DEF Inserting, Levels
<1>2. /\ \A p \in 0 .. n : A[p] # m /\ r.height[A[p]] = l.height[A[p]]
      /\ r.height[m] = k
  BY InsertNodes
<1>3. /\ \A p \in 0 .. c : B[p] = A[p]
      /\ B[c + 1] = m
      /\ \A p \in c + 1 .. n + 1 : B[p + 1] = A[p]
      /\ \A p \in c + 2 .. n + 2 : B[p] = A[p - 1] /\ p - 1 \in c + 1 .. n + 1
  <2>1. n \in Nat /\ c \in 0 .. n /\ B = With(A, n, c, m)
    BY <1>1
  <2> QED
    BY <2>1, WithIs, Zenon
<1>4. ASSUME NEW p \in 0 .. n + 1, NEW i \in Levels, r.height[B[p]] >= i
      PROVE  \E q \in p + 1 .. (n + 1) + 1 : Link(r, B, n + 1, i, p, q)
  <2>1. CASE p = c + 1
    <3>1. i <= k
      BY <1>1, <1>2, <1>3, <1>4, <2>1 DEF Levels
    <3> QED
      BY <2>1, <3>1, InsertLinkNew
  <2>2. CASE p <= c
    <3>1. p \in 0 .. c /\ p \in 0 .. n
      BY <1>1, <2>2
    <3>2. l.height[A[p]] >= i
      BY <1>2, <1>3, <1>4, <3>1
    <3>3. CASE p = P[i]
      BY <3>3, InsertLinkLast
    <3>4. CASE p # P[i]
      BY <3>1, <3>2, <3>4, InsertLinkBefore
    <3> QED
      BY <3>3, <3>4
  <2>3. CASE p > c + 1
    <3>1. PICK s \in c + 1 .. n : p = s + 1
      <4>1. p - 1 \in c + 1 .. n /\ p = (p - 1) + 1
        BY <1>1, <2>3
      <4> QED
        BY <4>1
    <3>2. s \in c + 1 .. n + 1 /\ s \in 0 .. n
      BY <1>1
    <3>3. l.height[A[s]] >= i
      BY <1>2, <1>3, <1>4, <3>1, <3>2
    <3> QED
      BY <3>1, <3>3, InsertLinkAfter
  <2> QED
    BY <1>1, <2>1, <2>2, <2>3
<1> QED
  BY <1>4 DEF Linked

\* The types of the new list.
LEMMA InsertShape ==
  ASSUME NEW l, NEW A, NEW n, NEW c, NEW P, NEW m, NEW score, NEW k, NEW r,
         Inserting(l, A, n, c, P, m, score, k, r)
  PROVE  Shape(r)
<1>1. /\ Chain(l, A, n) /\ n \in Nat /\ c \in 0 .. n /\ m \in Members /\ m \in Nodes /\ score \in Int
      /\ k \in 1 .. MaxLevel /\ P[1] = c /\ InsertMakes(l, r, A, P, m, score, k)
      /\ Shape(l) /\ Back(l, A, n) /\ l.level \in 1 .. MaxLevel
      /\ \A i \in Levels : IsLast(l, A, c, i, P[i])
      /\ \A i \in Levels : i > l.level => P[i] = 0
  BY ChainParts, ConstantFacts DEF Inserting, Levels
<1>2. \A p \in 0 .. n : A[p] \in Nodes /\ A[p] # m
  BY InsertNodes
<1>3. ASSUME NEW i \in Levels PROVE P[i] \in 0 .. c /\ A[P[i]] \in Nodes
  <2>1. P[i] \in 0 .. c /\ P[i] \in 0 .. n
    BY <1>1, LastSucc
  <2> QED
    BY <1>2, <2>1
<1>4. /\ l.forward \in [Nodes -> [Levels -> Members \cup {Nil}]]
      /\ l.span \in [Nodes -> [Levels -> Nat]]
      /\ l.score \in [Nodes -> Int]
      /\ l.height \in [Nodes -> 0 .. MaxLevel] /\ l.height[Head_] = MaxLevel
      /\ l.backward \in [Nodes -> Members \cup {Nil}]
      /\ l.tail \in Members \cup {Nil}
      /\ l.length \in Nat
      /\ \A x \in Members : l.height[x] <= l.level
  BY <1>1 DEF Shape
<1>5. r.forward \in [Nodes -> [Levels -> Members \cup {Nil}]]
  <2>1. ASSUME NEW x \in Nodes, NEW i \in Levels
        PROVE  (IF i > k THEN l.forward[x][i]
                ELSE IF x = m THEN l.forward[A[P[i]]][i]
                ELSE IF x = A[P[i]] THEN m ELSE l.forward[x][i]) \in Members \cup {Nil}
    BY <1>1, <1>3, <1>4
  <2> QED
    BY <1>1, <2>1 DEF InsertMakes
<1>6. r.span \in [Nodes -> [Levels -> Nat]]
  <2>0. ASSUME NEW i \in Levels PROVE Old(l, A[P[i]], i) - (c - P[i]) \in Nat /\ (c - P[i]) + 1 \in Nat
    <3>1. PICK b : b = P[i]
      OBVIOUS
    <3>2. b \in 0 .. c /\ b \in 0 .. n /\ IsLast(l, A, c, i, b) /\ (i > l.level => b = 0)
      BY <1>1, <3>1, <1>3
    <3>3. PICK q \in c + 1 .. n + 1 : Link(l, A, n, i, b, q)
      BY <1>1, <3>2, LastSucc
    <3>4. q \in b + 1 .. n + 1
      BY <1>1, <3>2
    <3>5. Old(l, A[b], i) = Reach(n, q) - b
      BY <1>1, <3>2, <3>3, <3>4, OldIs
    <3>6. Reach(n, q) \in Nat /\ Reach(n, q) >= c
      BY <1>1 DEF Reach
    <3>7. (Reach(n, q) - b) - (c - b) \in Nat /\ (c - b) + 1 \in Nat
      BY <1>1, <3>2, <3>6
    <3> QED
      BY <3>1, <3>5, <3>7
  <2>1. ASSUME NEW x \in Nodes, NEW i \in Levels
        PROVE  (IF i <= k /\ x = m THEN Old(l, A[P[i]], i) - (c - P[i])
                ELSE IF i <= k /\ x = A[P[i]] THEN (c - P[i]) + 1
                ELSE IF i > k /\ i <= l.level /\ x = A[P[i]] THEN l.span[x][i] + 1
                ELSE l.span[x][i]) \in Nat
    <3>1. l.span[x][i] \in Nat
      BY <1>4
    <3> QED
      BY <2>0, <3>1
  <2> QED
    BY <1>1, <2>1 DEF InsertMakes
<1>7. r.score \in [Nodes -> Int]
  BY <1>1, <1>4 DEF InsertMakes
<1>8. r.height \in [Nodes -> 0 .. MaxLevel] /\ r.height[Head_] = MaxLevel
  <2>1. k \in 0 .. MaxLevel /\ Head_ # m /\ Head_ \in Nodes
    BY <1>1, ConstantFacts
  <2>2. r.height = [l.height EXCEPT ![m] = k]
    BY <1>1 DEF InsertMakes
  <2> QED
    BY <1>1, <1>4, <2>1, <2>2
<1>9. r.backward \in [Nodes -> Members \cup {Nil}]
  <2>1. A[c] \in Nodes
    BY <1>1, <1>2
  <2>2. ASSUME NEW x \in Nodes
        PROVE  (IF x = m THEN (IF A[c] = Head_ THEN Nil ELSE A[c])
                ELSE IF x = l.forward[A[c]][1] THEN m ELSE l.backward[x]) \in Members \cup {Nil}
    BY <1>1, <1>4, <2>1 DEF Nodes
  <2> QED
    BY <1>1, <2>2 DEF InsertMakes
<1>10. r.tail \in Members \cup {Nil} /\ r.length \in Nat /\ r.level \in Levels
  <2>1. /\ r.tail = IF l.forward[A[P[1]]][1] = Nil THEN m ELSE l.tail
        /\ r.length = l.length + 1 /\ r.level = IF k > l.level THEN k ELSE l.level
    BY <1>1 DEF InsertMakes
  <2> QED
    BY <1>1, <1>4, <2>1 DEF Levels
<1>11. ASSUME NEW x \in Members PROVE r.height[x] <= r.level
  <2>1. r.height = [l.height EXCEPT ![m] = k] /\ r.level = IF k > l.level THEN k ELSE l.level
    BY <1>1 DEF InsertMakes
  <2>2. x \in Nodes /\ l.height[x] \in 0 .. MaxLevel /\ l.height[x] <= l.level
    BY <1>4, ConstantFacts
  <2>3. r.height[x] = IF x = m THEN k ELSE l.height[x]
    BY <1>4, <2>1, <2>2
  <2> QED
    BY <1>1, <2>1, <2>2, <2>3, ConstantFacts
<1> QED
  BY <1>5, <1>6, <1>7, <1>8, <1>9, <1>10, <1>11 DEF Shape

\* The nodes of the new list.
LEMMA InsertPositions ==
  ASSUME NEW l, NEW A, NEW n, NEW c, NEW P, NEW m, NEW score, NEW k, NEW r,
         Inserting(l, A, n, c, P, m, score, k, r), NEW B, B = With(A, n, c, m)
  PROVE  Positions(r, B, n + 1)
<1>1. /\ Chain(l, A, n) /\ n \in Nat /\ c \in 0 .. n /\ m \in Members /\ m \in Nodes
      /\ k \in 1 .. MaxLevel /\ Positions(l, A, n)
  BY ChainParts, ConstantFacts DEF Inserting, Levels
<1>2. /\ \A p \in 0 .. n : A[p] # m /\ A[p] \in Nodes /\ r.height[A[p]] = l.height[A[p]]
      /\ r.height[m] = k
      /\ \A x \in Nodes : x # m => r.height[x] = l.height[x]
  BY InsertNodes
<1>3. /\ \A p \in 0 .. c : B[p] = A[p]
      /\ B[c + 1] = m
      /\ \A p \in c + 1 .. n + 1 : B[p + 1] = A[p]
      /\ \A p \in c + 2 .. n + 2 : B[p] = A[p - 1] /\ p - 1 \in c + 1 .. n + 1
  <2>1. n \in Nat /\ c \in 0 .. n /\ B = With(A, n, c, m)
    BY <1>1
  <2> QED
    BY <2>1, WithIs, Zenon
<1>4. /\ A \in [0 .. n + 1 -> Nodes \cup {Nil}] /\ A[0] = Head_ /\ A[n + 1] = Nil
      /\ \A p \in 1 .. n : A[p] \in Members /\ l.height[A[p]] >= 1
      /\ \A x \in Members : l.height[x] >= 1 => \E p \in 1 .. n : A[p] = x
  BY <1>1 DEF Positions
<1>5. B \in [0 .. (n + 1) + 1 -> Nodes \cup {Nil}]
  <2>1. ASSUME NEW p \in 0 .. n + 2
        PROVE  (IF p <= c THEN A[p] ELSE IF p = c + 1 THEN m ELSE A[p - 1]) \in Nodes \cup {Nil}
    <3>1. CASE p <= c
      BY <1>1, <1>4, <3>1
    <3>2. CASE p = c + 1
      BY <1>1, <3>2
    <3>3. CASE p > c + 1
      <4>1. p - 1 \in 0 .. n + 1
        BY <1>1, <3>3
      <4>2. ~(p <= c) /\ p # c + 1
        BY <1>1, <3>3
      <4> QED
        BY <1>4, <4>1, <4>2
    <3> QED
      BY <1>1, <3>1, <3>2, <3>3
  <2>2. (n + 1) + 1 = n + 2
    BY <1>1
  <2> QED
    BY <2>1, <2>2 DEF With
<1>6. B[0] = Head_ /\ B[(n + 1) + 1] = Nil
  <2>1. 0 \in 0 .. c /\ n + 1 \in c + 1 .. n + 1
    BY <1>1
  <2> QED
    BY <1>3, <1>4, <2>1
<1>7. ASSUME NEW p \in 1 .. n + 1 PROVE B[p] \in Members /\ r.height[B[p]] >= 1
  <2>1. CASE p <= c
    <3>1. p \in 1 .. n /\ p \in 0 .. n /\ p \in 0 .. c
      BY <1>1, <2>1
    <3> QED
      BY <1>2, <1>3, <1>4, <3>1
  <2>2. CASE p = c + 1
    BY <1>1, <1>2, <1>3, <2>2
  <2>3. CASE p > c + 1
    <3>1. p - 1 \in 1 .. n /\ p - 1 \in 0 .. n /\ p \in c + 2 .. n + 2
      BY <1>1, <2>3
    <3> QED
      BY <1>2, <1>3, <1>4, <3>1
  <2> QED
    BY <1>1, <2>1, <2>2, <2>3
<1>8. ASSUME NEW x \in Members, r.height[x] >= 1 PROVE \E p \in 1 .. n + 1 : B[p] = x
  <2>1. CASE x = m
    <3>1. c + 1 \in 1 .. n + 1
      BY <1>1
    <3> QED
      BY <1>3, <2>1, <3>1
  <2>2. CASE x # m
    <3>1. l.height[x] >= 1
      BY <1>2, <1>8, <2>2, ConstantFacts
    <3>2. PICK p \in 1 .. n : A[p] = x
      BY <1>4, <3>1
    <3>3. CASE p <= c
      <4>1. p \in 0 .. c /\ p \in 1 .. n + 1
        BY <1>1, <3>3
      <4> QED
        BY <1>3, <3>2, <4>1
    <3>4. CASE p > c
      <4>1. p \in c + 1 .. n + 1 /\ p + 1 \in 1 .. n + 1
        BY <1>1, <3>4
      <4> QED
        BY <1>3, <3>2, <4>1
    <3> QED
      BY <1>1, <3>3, <3>4
  <2> QED
    BY <2>1, <2>2
<1>9. n + 1 \in Nat
  BY <1>1
<1> QED
  BY <1>5, <1>6, <1>7, <1>8, <1>9 DEF Positions

\* The order of the new list.
LEMMA InsertSorted ==
  ASSUME NEW l, NEW A, NEW n, NEW c, NEW P, NEW m, NEW score, NEW k, NEW r,
         Inserting(l, A, n, c, P, m, score, k, r), NEW B, B = With(A, n, c, m)
  PROVE  Sorted(r, B, n + 1)
<1>1. /\ Chain(l, A, n) /\ n \in Nat /\ c \in 0 .. n /\ m \in Nat /\ score \in Int /\ Sorted(l, A, n)
      /\ \A p \in 1 .. n : Before(l, A[p], score, m) <=> p <= c
  BY ChainParts, ConstantFacts DEF Inserting
<1>2. /\ r.score[m] = score
      /\ \A p \in 0 .. n : A[p] # m /\ A[p] \in Nat /\ r.score[A[p]] = l.score[A[p]] /\ l.score[A[p]] \in Int
  BY InsertNodes
<1>3. /\ \A p \in 0 .. c : B[p] = A[p]
      /\ B[c + 1] = m
      /\ \A p \in c + 1 .. n + 1 : B[p + 1] = A[p]
      /\ \A p \in c + 2 .. n + 2 : B[p] = A[p - 1] /\ p - 1 \in c + 1 .. n + 1
  <2>1. n \in Nat /\ c \in 0 .. n /\ B = With(A, n, c, m)
    BY <1>1
  <2> QED
    BY <2>1, WithIs, Zenon
<1>4. ASSUME NEW p \in 1 .. n, NEW q \in 1 .. n, p < q PROVE Before(r, A[p], r.score[A[q]], A[q])
  <2>1. Before(l, A[p], l.score[A[q]], A[q])
    BY <1>1, <1>4 DEF Sorted
  <2>2. p \in 0 .. n /\ q \in 0 .. n
    BY <1>1
  <2> QED
    BY <1>2, <2>1, <2>2 DEF Before
<1>5. ASSUME NEW p \in 1 .. n, p <= c PROVE Before(r, A[p], score, m)
  <2>1. Before(l, A[p], score, m) /\ p \in 0 .. n
    BY <1>1, <1>5
  <2> QED
    BY <1>2, <2>1 DEF Before
<1>6. ASSUME NEW p \in 1 .. n, p > c PROVE Before(r, m, r.score[A[p]], A[p])
  <2>1. ~Before(l, A[p], score, m) /\ p \in 0 .. n
    BY <1>1, <1>6
  <2> QED
    BY <1>1, <1>2, <2>1 DEF Before
<1>7. ASSUME NEW p \in 1 .. n + 1, NEW q \in 1 .. n + 1, p < q
      PROVE  Before(r, B[p], r.score[B[q]], B[q])
  <2>1. CASE q <= c
    <3>1. p \in 1 .. n /\ q \in 1 .. n /\ p \in 0 .. c /\ q \in 0 .. c
      BY <1>1, <1>7, <2>1
    <3> QED
      BY <1>3, <1>4, <1>7, <3>1
  <2>2. CASE q = c + 1
    <3>1. p \in 1 .. n /\ p <= c /\ p \in 0 .. c
      BY <1>1, <1>7, <2>2
    <3> QED
      BY <1>2, <1>3, <1>5, <2>2, <3>1
  <2>3. CASE q > c + 1
    <3>1. q - 1 \in 1 .. n /\ q - 1 > c /\ q \in c + 2 .. n + 2
      BY <1>1, <2>3
    <3>2. CASE p <= c
      <4>1. p \in 1 .. n /\ p \in 0 .. c /\ p < q - 1
        BY <1>1, <2>3, <3>2
      <4> QED
        BY <1>3, <1>4, <3>1, <4>1
    <3>3. CASE p = c + 1
      BY <1>3, <1>6, <3>1, <3>3
    <3>4. CASE p > c + 1
      <4>1. p - 1 \in 1 .. n /\ p \in c + 2 .. n + 2 /\ p - 1 < q - 1
        BY <1>1, <1>7, <3>4
      <4> QED
        BY <1>3, <1>4, <3>1, <4>1
    <3> QED
      BY <1>1, <3>2, <3>3, <3>4
  <2> QED
    BY <1>1, <2>1, <2>2, <2>3
<1> QED
  BY <1>7 DEF Sorted

\* On the bottom level every position leads to the next one.
LEMMA BottomLevel ==
  ASSUME NEW l, NEW A, NEW n, Chain(l, A, n), NEW p \in 0 .. n
  PROVE  l.forward[A[p]][1] = A[p + 1]
<1>1. Shape(l) /\ Positions(l, A, n) /\ n \in Nat
  BY ChainParts
<1>2. 1 \in Levels
  BY ConstantFacts DEF Levels
<1>3. l.height[A[p]] >= 1
  <2>1. l.height[A[p]] \in 1 .. MaxLevel
    BY <1>1, NodeAt
  <2> QED
    BY <2>1
<1>4. PICK q \in p + 1 .. n + 1 : Link(l, A, n, 1, p, q)
  BY <1>2, <1>3, HasSucc
<1>5. q = p + 1
  <2> SUFFICES ASSUME q # p + 1 PROVE FALSE
    OBVIOUS
  <2>1. p + 1 \in p + 1 .. q - 1 /\ p + 1 \in 0 .. n
    BY <1>1
  <2>2. l.height[A[p + 1]] < 1
    BY <1>4, <2>1 DEF Link, Succ
  <2>3. l.height[A[p + 1]] \in 1 .. MaxLevel
    BY <1>1, <2>1, NodeAt
  <2> QED
    BY <2>2, <2>3
<1> QED
  BY <1>4, <1>5 DEF Link

\* The new list read backwards.
LEMMA InsertBack ==
  ASSUME NEW l, NEW A, NEW n, NEW c, NEW P, NEW m, NEW score, NEW k, NEW r,
         Inserting(l, A, n, c, P, m, score, k, r), NEW B, B = With(A, n, c, m)
  PROVE  Back(r, B, n + 1)
<1>1. /\ Chain(l, A, n) /\ n \in Nat /\ c \in 0 .. n /\ m \in Members /\ m \in Nodes
      /\ P[1] = c /\ InsertMakes(l, r, A, P, m, score, k)
      /\ Shape(l) /\ Positions(l, A, n) /\ Sorted(l, A, n) /\ Back(l, A, n)
  BY ChainParts, ConstantFacts DEF Inserting
<1>2. \A p \in 0 .. n : A[p] # m /\ A[p] \in Nodes
  BY InsertNodes
<1>3. /\ \A p \in 0 .. c : B[p] = A[p]
      /\ B[c + 1] = m
      /\ \A p \in c + 1 .. n + 1 : B[p + 1] = A[p]
      /\ \A p \in c + 2 .. n + 2 : B[p] = A[p - 1] /\ p - 1 \in c + 1 .. n + 1
  <2>1. n \in Nat /\ c \in 0 .. n /\ B = With(A, n, c, m)
    BY <1>1
  <2> QED
    BY <2>1, WithIs, Zenon
<1>4. l.forward[A[c]][1] = A[c + 1]
  BY <1>1, BottomLevel
<1>5. /\ \A x \in Nodes : r.backward[x] =
           IF x = m THEN (IF A[c] = Head_ THEN Nil ELSE A[c])
           ELSE IF x = A[c + 1] THEN m ELSE l.backward[x]
      /\ r.tail = IF A[c + 1] = Nil THEN m ELSE l.tail
      /\ r.length = l.length + 1
  BY <1>1, <1>4 DEF InsertMakes
<1>6. /\ l.length = n /\ l.tail = IF n = 0 THEN Nil ELSE A[n]
      /\ \A p \in 1 .. n : l.backward[A[p]] = IF p = 1 THEN Nil ELSE A[p - 1]
  BY <1>1 DEF Back
<1>7. r.length = n + 1
  BY <1>5, <1>6
<1>8. r.tail = B[n + 1]
  <2>1. CASE c = n
    <3>1. A[c + 1] = Nil
      BY <1>1, <2>1 DEF Positions
    <3> QED
      BY <1>3, <1>5, <2>1, <3>1
  <2>2. CASE c # n
    <3>1. c + 1 \in 0 .. n /\ n # 0 /\ n \in c + 1 .. n + 1
      BY <1>1, <2>2
    <3>2. A[c + 1] # Nil
      BY <1>1, <3>1, NodeAt
    <3> QED
      BY <1>3, <1>5, <1>6, <3>1, <3>2
  <2> QED
    BY <2>1, <2>2
<1>9. ASSUME NEW p \in 1 .. n + 1 PROVE r.backward[B[p]] = IF p = 1 THEN Nil ELSE B[p - 1]
  <2>1. CASE p <= c
    <3>1. p \in 1 .. n /\ p \in 0 .. n /\ p \in 0 .. c /\ p - 1 \in 0 .. c
      BY <1>1, <2>1
    <3>2. A[p] # A[c + 1]
      <4>1. CASE c = n
        <5>1. A[c + 1] = Nil
          BY <1>1, <4>1 DEF Positions
        <5> QED
          BY <1>1, <3>1, <5>1, NodeAt
      <4>2. CASE c # n
        <5>1. c + 1 \in 0 .. n /\ p # c + 1
          BY <1>1, <2>1, <4>2
        <5> QED
          BY <1>1, <3>1, <5>1, OnePosition
      <4> QED
        BY <4>1, <4>2
    <3>3. B[p] = A[p] /\ B[p - 1] = A[p - 1] /\ A[p] # m /\ A[p] \in Nodes
      BY <1>2, <1>3, <3>1
    <3>4. r.backward[A[p]] = l.backward[A[p]]
      BY <1>5, <3>2, <3>3
    <3> QED
      BY <1>6, <3>1, <3>3, <3>4
  <2>2. CASE p = c + 1
    <3>1. r.backward[m] = IF A[c] = Head_ THEN Nil ELSE A[c]
      BY <1>1, <1>5
    <3>2. A[c] = Head_ <=> c = 0
      BY <1>1, NodeAt
    <3>3. p - 1 = c /\ (p = 1 <=> c = 0) /\ c \in 0 .. c
      BY <1>1, <2>2
    <3>4. B[p] = m /\ B[p - 1] = A[c]
      BY <1>3, <2>2, <3>3
    <3> QED
      BY <3>1, <3>2, <3>3, <3>4
  <2>3. CASE p = c + 2
    <3>1. c + 1 \in 0 .. n /\ c + 1 \in c + 1 .. n + 1 /\ p = (c + 1) + 1 /\ p # 1 /\ p - 1 = c + 1
      BY <1>1, <2>3
    <3>2. B[p] = A[c + 1] /\ B[p - 1] = m /\ A[c + 1] # m /\ A[c + 1] \in Nodes
      BY <1>2, <1>3, <3>1
    <3>3. r.backward[A[c + 1]] = m
      BY <1>5, <3>2
    <3> QED
      BY <3>1, <3>2, <3>3
  <2>4. CASE p > c + 2
    <3>0. PICK s \in 1 .. n : s = p - 1
      BY <1>1, <2>4
    <3>1. /\ s \in 0 .. n /\ s > c + 1 /\ s \in c + 1 .. n + 1 /\ p = s + 1 /\ p # 1 /\ s # 1 /\ c + 1 \in 0 .. n
          /\ s - 1 \in c + 1 .. n + 1 /\ p - 1 = (s - 1) + 1 /\ s # c + 1
      BY <1>1, <2>4, <3>0
    <3>2. B[p] = A[s] /\ A[s] # m /\ A[s] \in Nodes
      BY <1>2, <1>3, <3>1
    <3>3. B[p - 1] = A[s - 1]
      BY <1>3, <3>1
    <3>4. A[s] # A[c + 1]
      BY <1>1, <3>1, OnePosition
    <3>5. r.backward[A[s]] = l.backward[A[s]]
      BY <1>5, <3>2, <3>4
    <3> QED
      BY <1>6, <3>1, <3>2, <3>3, <3>5
  <2> QED
    BY <1>1, <2>1, <2>2, <2>3, <2>4
<1>10. n + 1 # 0
  BY <1>1
<1> QED
  BY <1>7, <1>8, <1>9, <1>10 DEF Back

\* insert puts a member that is not in the list into its place.
LEMMA InsertChain ==
  ASSUME NEW l, NEW A, NEW n, Chain(l, A, n), NEW m \in Members, l.height[m] = 0,
         NEW score \in Int, NEW k \in Levels
  PROVE  /\ \E B : Chain(insert(l, score, m, k), B, n + 1)
         /\ insert(l, score, m, k).height = [l.height EXCEPT ![m] = k]
         /\ insert(l, score, m, k).score = [l.score EXCEPT ![m] = score]
<1>0. n \in Nat /\ m \in Int
  BY ChainParts, ConstantFacts
<1> DEFINE Pass == Passed(l, score, m)
           r == insert(l, score, m, k)
<1>1. PICK c \in 0 .. n : /\ \A p \in 1 .. n : Before(l, A[p], score, m) <=> p <= c
                          /\ Cut(A, n, Pass, c)
  BY <1>0, PositionCut
<1>2. Position(l, score, m) = Search(l, Pass)
  BY DEF Position, Passed
<1> HIDE DEF Pass
<1>3. PICK P \in [Levels -> 0 .. c] :
           /\ \A i \in Levels : IsLast(l, A, c, i, P[i])
           /\ P[1] = c
           /\ \A i \in Levels : (IF i <= l.level THEN Search(l, Pass)[i] ELSE Start) = Place(A, P[i])
           /\ \A i \in Levels : i > l.level => P[i] = 0
  BY <1>1, FoundIs
<1>4. InsertMakes(l, r, A, P, m, score, k)
  BY <1>2, <1>3, InsertIs
<1> HIDE DEF r
<1>5. Inserting(l, A, n, c, P, m, score, k, r)
  BY <1>1, <1>3, <1>4 DEF Inserting
<1>6. Chain(r, With(A, n, c, m), n + 1)
  BY <1>5, InsertLinked, InsertShape, InsertPositions, InsertSorted, InsertBack DEF Chain
<1> QED
  BY <1>4, <1>6 DEF InsertMakes, r

-----------------------------------------------------------------------------
(* deleteNode.                                                             *)

\* A set of levels that is not empty has a highest one.
LEMMA MaxIs ==
  ASSUME NEW n \in Nat, NEW S \in SUBSET (1 .. n), S # {}
  PROVE  Max(S) \in S /\ \A y \in S : y <= Max(S)
<1> DEFINE T == {d \in 0 .. n : n - d \in S}
<1>1. PICK y \in S : TRUE
  OBVIOUS
<1>2. n - y \in T
  <2>1. n - y \in 0 .. n /\ n - (n - y) = y
    OBVIOUS
  <2> QED
    BY <2>1
<1>3. PICK d \in T : \A e \in T : d <= e
  <2>1. T \subseteq 0 .. n
    OBVIOUS
  <2> HIDE DEF T
  <2>2. T \in SUBSET Nat /\ T # {}
    BY <1>2, <2>1
  <2> QED
    BY <2>2, LeastElement
<1>4. d \in 0 .. n /\ n - d \in S
  OBVIOUS
<1>5. ASSUME NEW z \in S PROVE n - d >= z
  <2>1. n - z \in 0 .. n /\ n - (n - z) = z
    OBVIOUS
  <2>2. n - z \in T
    BY <2>1
  <2> HIDE DEF T
  <2>3. d <= n - z
    BY <1>3, <2>2
  <2> QED
    BY <1>4, <2>3
<1>6. \E x \in S : \A z \in S : x >= z
  BY <1>4, <1>5
<1>7. Max(S) \in S /\ \A z \in S : Max(S) >= z
  BY <1>6 DEF Max
<1> QED
  BY <1>7

\* The positions without the one after c.
Gone(A, n, c) == [p \in 0 .. n + 1 |-> IF p <= c THEN A[p] ELSE A[p + 1]]

\* What deleteNode makes of a list l: r, where P gives the positions at which the search leaves
\* the levels and m is the member.
DeleteMakes(l, r, A, P, m) ==
  /\ r.forward = [x \in Nodes |-> [i \in Levels |->
        IF x = m THEN Nil
        ELSE IF i <= l.level /\ x = A[P[i]] /\ l.forward[x][i] = m THEN l.forward[m][i]
        ELSE l.forward[x][i]]]
  /\ r.span = [x \in Nodes |-> [i \in Levels |->
        IF x = m THEN 0
        ELSE IF i > l.level \/ x # A[P[i]] THEN l.span[x][i]
        ELSE IF l.forward[x][i] = m THEN l.span[x][i] + l.span[m][i] - 1
        ELSE l.span[x][i] - 1]]
  /\ r.score = [l.score EXCEPT ![m] = 0]
  /\ r.height = [l.height EXCEPT ![m] = 0]
  /\ r.backward = [x \in Nodes |->
        IF x = m THEN Nil
        ELSE IF x = l.forward[m][1] THEN l.backward[m] ELSE l.backward[x]]
  /\ r.tail = IF l.forward[m][1] = Nil THEN l.backward[m] ELSE l.tail
  /\ r.length = l.length - 1
  /\ LET used == {i \in 2 .. l.level : r.forward[Head_][i] # Nil}
     IN  r.level = IF used = {} THEN 1 ELSE Max(used)

\* That is what deleteNode makes of a list, P being the positions where its search left the levels.
LEMMA DeleteIs ==
  ASSUME NEW l, NEW A, NEW c, NEW m \in Members, NEW P \in [Levels -> 0 .. c], l.level \in Levels,
         NEW update, \A i \in Levels : i <= l.level => update[i] = Place(A, P[i])
  PROVE  DeleteMakes(l, Forget(deleteNodeInternal(l, m, update), m), A, P, m)
<1> DEFINE d == deleteNodeInternal(l, m, update)
           r == Forget(d, m)
           forward == [n \in Nodes |-> [i \in Levels |->
                    IF i <= l.level /\ n = update[i].node /\ l.forward[n][i] = m
                    THEN l.forward[m][i] ELSE l.forward[n][i]]]
           next == l.forward[m][1]
           used == {i \in 2 .. l.level : forward[Head_][i] # Nil}
           span == [n \in Nodes |-> [i \in Levels |->
             IF i > l.level \/ n # update[i].node THEN l.span[n][i]
             ELSE IF l.forward[n][i] = m THEN l.span[n][i] + l.span[m][i] - 1
             ELSE l.span[n][i] - 1]]
           backward == [n \in Nodes |-> IF n = next THEN l.backward[m] ELSE l.backward[n]]
           tail == IF next = Nil THEN l.backward[m] ELSE l.tail
           level == IF used = {} THEN 1 ELSE Max(used)
<1>1. d = [forward |-> forward, span |-> span, score |-> l.score, height |-> l.height,
           backward |-> backward, tail |-> tail, length |-> l.length - 1, level |-> level]
  BY DEF deleteNodeInternal
<1>2. /\ d.forward = forward /\ d.span = span /\ d.score = l.score /\ d.height = l.height
      /\ d.backward = backward /\ d.tail = tail /\ d.length = l.length - 1 /\ d.level = level
  <2> HIDE DEF d, forward, span, backward, tail, level
  <2> QED
    BY <1>1
<1> HIDE DEF d
<1>3. /\ r.forward = [d.forward EXCEPT ![m] = EmptyList.forward[m]]
      /\ r.span = [d.span EXCEPT ![m] = EmptyList.span[m]]
      /\ r.score = [d.score EXCEPT ![m] = 0] /\ r.height = [d.height EXCEPT ![m] = 0]
      /\ r.backward = [d.backward EXCEPT ![m] = Nil]
      /\ r.tail = d.tail /\ r.length = d.length /\ r.level = d.level
  BY DEF Forget
<1>4. EmptyList.forward[m] = [i \in Levels |-> Nil] /\ EmptyList.span[m] = [i \in Levels |-> 0]
  BY ConstantFacts DEF EmptyList
<1> HIDE DEF r
<1>5. m \in Nodes /\ Head_ \in Nodes /\ Head_ # m
  BY ConstantFacts
<1>6. ASSUME NEW i \in Levels, i <= l.level PROVE update[i].node = A[P[i]]
  <2>1. update[i] = Place(A, P[i])
    BY <1>6
  <2>2. Place(A, P[i]).node = A[P[i]]
    BY DEF Place
  <2> QED
    BY <2>1, <2>2
<1>7. r.forward = [x \in Nodes |-> [i \in Levels |->
        IF x = m THEN Nil
        ELSE IF i <= l.level /\ x = A[P[i]] /\ l.forward[x][i] = m THEN l.forward[m][i]
        ELSE l.forward[x][i]]]
  <2>1. ASSUME NEW x \in Nodes, x # m
        PROVE  forward[x] = [i \in Levels |->
                  IF i <= l.level /\ x = A[P[i]] /\ l.forward[x][i] = m THEN l.forward[m][i]
                  ELSE l.forward[x][i]]
    BY <1>6
  <2>2. r.forward = [x \in Nodes |-> IF x = m THEN [i \in Levels |-> Nil] ELSE forward[x]]
    <3> HIDE DEF span, backward, tail, level
    <3> QED
      BY <1>2, <1>3, <1>4, <1>5
  <2> HIDE DEF forward
  <2>3. \A x \in Nodes : r.forward[x] = [i \in Levels |->
        IF x = m THEN Nil
        ELSE IF i <= l.level /\ x = A[P[i]] /\ l.forward[x][i] = m THEN l.forward[m][i]
        ELSE l.forward[x][i]]
    BY <2>1, <2>2
  <2> QED
    BY <2>2, <2>3
<1>8. r.span = [x \in Nodes |-> [i \in Levels |->
        IF x = m THEN 0
        ELSE IF i > l.level \/ x # A[P[i]] THEN l.span[x][i]
        ELSE IF l.forward[x][i] = m THEN l.span[x][i] + l.span[m][i] - 1
        ELSE l.span[x][i] - 1]]
  <2>0. ASSUME NEW i \in Levels, ~(i > l.level) PROVE update[i].node = A[P[i]]
    BY <1>6, <2>0 DEF Levels
  <2>1. ASSUME NEW x \in Nodes, x # m
        PROVE  span[x] = [i \in Levels |->
                  IF i > l.level \/ x # A[P[i]] THEN l.span[x][i]
                  ELSE IF l.forward[x][i] = m THEN l.span[x][i] + l.span[m][i] - 1
                  ELSE l.span[x][i] - 1]
    BY <2>0
  <2>2. r.span = [x \in Nodes |-> IF x = m THEN [i \in Levels |-> 0] ELSE span[x]]
    <3> HIDE DEF forward, backward, tail, level
    <3> QED
      BY <1>2, <1>3, <1>4, <1>5
  <2> HIDE DEF span
  <2>3. \A x \in Nodes : r.span[x] = [i \in Levels |->
        IF x = m THEN 0
        ELSE IF i > l.level \/ x # A[P[i]] THEN l.span[x][i]
        ELSE IF l.forward[x][i] = m THEN l.span[x][i] + l.span[m][i] - 1
        ELSE l.span[x][i] - 1]
    BY <2>1, <2>2
  <2> QED
    BY <2>2, <2>3
<1>9. r.backward = [x \in Nodes |->
        IF x = m THEN Nil
        ELSE IF x = l.forward[m][1] THEN l.backward[m] ELSE l.backward[x]]
  <2> HIDE DEF forward, span, tail, level
  <2> QED
    BY <1>2, <1>3, <1>5
<1>10. LET u == {i \in 2 .. l.level : r.forward[Head_][i] # Nil}
       IN  r.level = IF u = {} THEN 1 ELSE Max(u)
  <2>1. r.forward[Head_] = forward[Head_]
    <3> HIDE DEF span, backward, tail, level
    <3> QED
      BY <1>2, <1>3, <1>5
  <2>2. r.level = level
    <3> HIDE DEF forward, span, backward, tail, level
    <3> QED
      BY <1>2, <1>3
  <2> QED
    BY <2>1, <2>2
<1>11. /\ r.score = [l.score EXCEPT ![m] = 0] /\ r.height = [l.height EXCEPT ![m] = 0]
       /\ r.tail = IF l.forward[m][1] = Nil THEN l.backward[m] ELSE l.tail
       /\ r.length = l.length - 1
  <2> HIDE DEF forward, span, backward, level
  <2> QED
    BY <1>2, <1>3
<1> QED
  BY <1>7, <1>8, <1>9, <1>10, <1>11 DEF DeleteMakes, r, d

\* A list l with positions A, and the list r that deleteNode makes of it without m, the member
\* after position c.
Deleting(l, A, n, c, P, m, r) ==
  /\ n \in Nat /\ Chain(l, A, n + 1) /\ c \in 0 .. n /\ m \in Members /\ A[c + 1] = m
  /\ P \in [Levels -> 0 .. c] /\ \A i \in Levels : IsLast(l, A, c, i, P[i])
  /\ P[1] = c /\ \A i \in Levels : i > l.level => P[i] = 0
  /\ DeleteMakes(l, r, A, P, m)

\* The positions that are left.
LEMMA GoneIs ==
  ASSUME NEW A, NEW n \in Nat, NEW c \in 0 .. n, NEW B, B = Gone(A, n, c)
  PROVE  /\ \A p \in 0 .. c : B[p] = A[p]
         /\ \A p \in c + 1 .. n + 1 : B[p] = A[p + 1]
         /\ \A p \in c + 2 .. n + 2 : B[p - 1] = A[p]
<1>1. \A p \in 0 .. c : B[p] = A[p]
  BY DEF Gone
<1>2. \A p \in c + 1 .. n + 1 : B[p] = A[p + 1]
  BY DEF Gone
<1>3. ASSUME NEW p \in c + 2 .. n + 2 PROVE B[p - 1] = A[p]
  <2>1. p - 1 \in 0 .. n + 1 /\ ~(p - 1 <= c) /\ (p - 1) + 1 = p
    OBVIOUS
  <2> QED
    BY <2>1 DEF Gone
<1> QED
  BY <1>1, <1>2, <1>3

\* The levels that are left.
LEMMA DeleteLevel ==
  ASSUME NEW l, NEW A, NEW n, NEW c, NEW P, NEW m, NEW r, Deleting(l, A, n, c, P, m, r)
  PROVE  /\ r.level \in 1 .. l.level
         /\ \A i \in 2 .. l.level : r.forward[Head_][i] # Nil => i <= r.level
<1>1. l.level \in 1 .. MaxLevel /\ DeleteMakes(l, r, A, P, m)
  BY ChainParts DEF Deleting
<1> DEFINE used == {i \in 2 .. l.level : r.forward[Head_][i] # Nil}
<1>2. r.level = IF used = {} THEN 1 ELSE Max(used)
  BY <1>1 DEF DeleteMakes
<1>3. used \subseteq 2 .. l.level
  OBVIOUS
<1>4. \A i \in 2 .. l.level : r.forward[Head_][i] # Nil => i \in used
  OBVIOUS
<1> HIDE DEF used
<1>5. CASE used = {}
  BY <1>1, <1>2, <1>4, <1>5
<1>6. CASE used # {}
  <2>1. used \in SUBSET (1 .. l.level) /\ l.level \in Nat
    BY <1>1, <1>3
  <2>2. Max(used) \in used /\ \A y \in used : y <= Max(used)
    BY <1>6, <2>1, MaxIs
  <2> QED
    BY <1>2, <1>3, <1>4, <1>6, <2>1, <2>2
<1> QED
  BY <1>5, <1>6

\* Heights, scores and the nodes of the positions.
LEMMA DeleteNodes ==
  ASSUME NEW l, NEW A, NEW n, NEW c, NEW P, NEW m, NEW r, Deleting(l, A, n, c, P, m, r)
  PROVE  /\ m \in Nodes /\ r.height[m] = 0
         /\ \A x \in Nodes : x # m => r.height[x] = l.height[x] /\ r.score[x] = l.score[x]
         /\ \A p \in 0 .. n + 1 : p # c + 1 =>
              /\ A[p] # m /\ A[p] \in Nodes
              /\ r.height[A[p]] = l.height[A[p]] /\ r.score[A[p]] = l.score[A[p]]
              /\ l.height[A[p]] \in 1 .. MaxLevel
         /\ l.height[m] \in 1 .. MaxLevel
<1>1. /\ n \in Nat /\ c \in 0 .. n /\ Shape(l) /\ Positions(l, A, n + 1) /\ Sorted(l, A, n + 1)
      /\ m \in Nodes /\ A[c + 1] = m /\ DeleteMakes(l, r, A, P, m)
  BY ChainParts, ConstantFacts DEF Deleting
<1>2. r.score = [l.score EXCEPT ![m] = 0] /\ r.height = [l.height EXCEPT ![m] = 0]
  BY <1>1 DEF DeleteMakes
<1>3. l.score \in [Nodes -> Int] /\ l.height \in [Nodes -> 0 .. MaxLevel]
  BY <1>1 DEF Shape
<1>4. r.height[m] = 0
  BY <1>1, <1>2, <1>3
<1>5. \A x \in Nodes : x # m => r.height[x] = l.height[x] /\ r.score[x] = l.score[x]
  BY <1>1, <1>2, <1>3
<1>6. c + 1 \in 0 .. n + 1
  BY <1>1
<1>7. ASSUME NEW p \in 0 .. n + 1
      PROVE  A[p] \in Nodes /\ l.height[A[p]] \in 1 .. MaxLevel /\ (p # c + 1 => A[p] # m)
  <2>1. A[p] \in Nodes /\ l.height[A[p]] \in 1 .. MaxLevel
    BY <1>1, NodeAt
  <2>2. A[p] = A[c + 1] => p = c + 1
    BY <1>1, <1>6, OnePosition
  <2> QED
    BY <1>1, <2>1, <2>2
<1>8. l.height[m] \in 1 .. MaxLevel
  BY <1>1, <1>6, <1>7
<1> QED
  BY <1>1, <1>4, <1>5, <1>7, <1>8

\* The pointers and spans of a node that stays.
LEMMA DeleteFields ==
  ASSUME NEW l, NEW A, NEW n, NEW c, NEW P, NEW m, NEW r, Deleting(l, A, n, c, P, m, r),
         NEW x \in Nodes, x # m, NEW i \in Levels
  PROVE  /\ r.forward[x][i] = IF i <= l.level /\ x = A[P[i]] /\ l.forward[x][i] = m
                              THEN l.forward[m][i] ELSE l.forward[x][i]
         /\ r.span[x][i] = IF i > l.level \/ x # A[P[i]] THEN l.span[x][i]
                           ELSE IF l.forward[x][i] = m THEN l.span[x][i] + l.span[m][i] - 1
                           ELSE l.span[x][i] - 1
<1>1. r.forward = [y \in Nodes |-> [j \in Levels |->
        IF y = m THEN Nil
        ELSE IF j <= l.level /\ y = A[P[j]] /\ l.forward[y][j] = m THEN l.forward[m][j]
        ELSE l.forward[y][j]]]
  BY DEF Deleting, DeleteMakes
<1>2. r.span = [y \in Nodes |-> [j \in Levels |->
        IF y = m THEN 0
        ELSE IF j > l.level \/ y # A[P[j]] THEN l.span[y][j]
        ELSE IF l.forward[y][j] = m THEN l.span[y][j] + l.span[m][j] - 1
        ELSE l.span[y][j] - 1]]
  BY DEF Deleting, DeleteMakes
<1> QED
  BY <1>1, <1>2

\* The node where the search leaves a level.
LEMMA DeleteLinkLast ==
  ASSUME NEW l, NEW A, NEW n, NEW c, NEW P, NEW m, NEW r, Deleting(l, A, n, c, P, m, r),
         NEW B, B = Gone(A, n, c), NEW i \in Levels
  PROVE  \E q \in P[i] + 1 .. n + 1 : Link(r, B, n, i, P[i], q)
<1>1. /\ Chain(l, A, n + 1) /\ n \in Nat /\ n + 1 \in Nat /\ c \in 0 .. n /\ c \in 0 .. n + 1 /\ i \in Int
      /\ IsLast(l, A, c, i, P[i]) /\ l.level \in 1 .. MaxLevel /\ Shape(l) /\ Positions(l, A, n + 1)
      /\ DeleteMakes(l, r, A, P, m) /\ A[c + 1] = m /\ m \in Members
  <2>1. /\ Chain(l, A, n + 1) /\ n \in Nat /\ c \in 0 .. n /\ IsLast(l, A, c, i, P[i])
        /\ DeleteMakes(l, r, A, P, m) /\ A[c + 1] = m /\ m \in Members
    BY DEF Deleting
  <2>2. l.level \in 1 .. MaxLevel /\ Shape(l) /\ Positions(l, A, n + 1)
    BY <2>1, ChainParts
  <2> QED
    BY <2>1, <2>2 DEF Levels
<1>2. PICK b \in 0 .. c : b = P[i]
  BY <1>1, LastSucc
<1>3. PICK q \in c + 1 .. (n + 1) + 1 : Link(l, A, n + 1, i, b, q)
  BY <1>1, <1>2, LastSucc
<1>4. b \in 0 .. n + 1 /\ b # c + 1
  BY <1>1
<1>5. /\ m \in Nodes
      /\ \A p \in 0 .. n + 1 : p # c + 1 =>
              A[p] # m /\ A[p] \in Nodes /\ r.height[A[p]] = l.height[A[p]]
      /\ l.height[m] \in 1 .. MaxLevel
  BY DeleteNodes
<1>6. /\ \A p \in 0 .. c : B[p] = A[p]
      /\ \A p \in c + 1 .. n + 1 : B[p] = A[p + 1]
      /\ \A p \in c + 2 .. n + 2 : B[p - 1] = A[p]
  <2>1. n \in Nat /\ c \in 0 .. n /\ B = Gone(A, n, c)
    BY <1>1
  <2> QED
    BY <2>1, GoneIs, Zenon
<1>7. B[b] = A[b] /\ A[b] # m /\ A[b] \in Nodes
  BY <1>4, <1>5, <1>6
<1>8. ASSUME NEW s \in b + 1 .. c PROVE r.height[B[s]] < i
  <2>1. s \in 0 .. c /\ s \in 0 .. n + 1 /\ s # c + 1
    BY <1>1
  <2>2. l.height[A[s]] < i
    BY <1>1, <1>2 DEF IsLast
  <2> QED
    BY <1>5, <1>6, <2>1, <2>2
<1>9. r.level \in 1 .. l.level
  BY DeleteLevel
<1>10. CASE q = c + 1
  <2>1. l.height[m] >= i /\ c + 1 \in 0 .. n + 1
    BY <1>1, <1>3, <1>10 DEF Link, Succ
  <2>2. i <= l.level
    <3>1. l.height[m] <= l.level
      BY <1>1 DEF Shape
    <3> QED
      BY <1>1, <1>5, <2>1, <3>1
  <2>3. PICK t \in (c + 1) + 1 .. (n + 1) + 1 : Link(l, A, n + 1, i, c + 1, t)
    BY <1>1, <2>1, HasSucc
  <2>4. PICK u \in c + 1 .. n + 1 : t = u + 1
    <3>1. t - 1 \in c + 1 .. n + 1 /\ t = (t - 1) + 1
      BY <1>1
    <3> QED
      BY <3>1
  <2>5. l.forward[A[b]][i] = m /\ l.forward[m][i] = A[t]
    BY <1>1, <1>3, <1>10, <2>3 DEF Link
  <2>6. r.forward[A[b]][i] = B[u]
    <3>1. r.forward[A[b]][i] = l.forward[m][i]
      BY <1>2, <1>7, <2>2, <2>5, DeleteFields
    <3> QED
      BY <1>6, <2>4, <2>5, <3>1
  <2>7. r.span[A[b]][i] = Reach(n, u) - b
    <3>1. ~(i > l.level)
      BY <1>1, <2>2
    <3>2. r.span[A[b]][i] = l.span[A[b]][i] + l.span[m][i] - 1
      BY <1>2, <1>7, <2>5, <3>1, DeleteFields
    <3>3. l.span[A[b]][i] = Reach(n + 1, c + 1) - b /\ l.span[m][i] = Reach(n + 1, u + 1) - (c + 1)
      BY <1>1, <1>3, <1>10, <2>2, <2>3, <2>4 DEF Link
    <3>4. Reach(n + 1, c + 1) = c + 1
      BY <1>1 DEF Reach
    <3>5. Reach(n + 1, u + 1) = Reach(n, u) + 1 /\ Reach(n, u) \in Nat
      BY <1>1, <2>4 DEF Reach
    <3> QED
      BY <1>1, <3>2, <3>3, <3>4, <3>5
  <2>8. ASSUME NEW s \in b + 1 .. u - 1 PROVE r.height[B[s]] < i
    <3>1. CASE s <= c
      BY <1>1, <1>8, <3>1
    <3>2. CASE s > c
      <4>1. s \in c + 1 .. n + 1 /\ s + 1 \in (c + 1) + 1 .. t - 1 /\ s + 1 \in 0 .. n + 1 /\ s + 1 # c + 1
        BY <1>1, <2>4, <3>2
      <4>2. l.height[A[s + 1]] < i
        BY <2>3, <4>1 DEF Link, Succ
      <4> QED
        BY <1>5, <1>6, <4>1, <4>2
    <3> QED
      BY <1>1, <3>1, <3>2
  <2>9. u <= n => r.height[B[u]] >= i
    <3> SUFFICES ASSUME u <= n PROVE r.height[B[u]] >= i
      OBVIOUS
    <3>1. t <= n + 1 /\ t \in 0 .. n + 1 /\ t # c + 1
      BY <1>1, <2>4
    <3>2. l.height[A[t]] >= i
      BY <2>3, <3>1 DEF Link, Succ
    <3> QED
      BY <1>5, <1>6, <2>4, <3>1, <3>2
  <2>10. Succ(r, B, n, i, b, u)
    BY <2>8, <2>9 DEF Succ
  <2>11. Link(r, B, n, i, b, u)
    BY <1>7, <2>6, <2>7, <2>10 DEF Link
  <2>12. u \in b + 1 .. n + 1
    BY <1>1
  <2> QED
    BY <1>2, <2>11, <2>12
<1>11. CASE q # c + 1
  <2>1. PICK u \in c + 1 .. n + 1 : q = u + 1
    <3>1. q - 1 \in c + 1 .. n + 1 /\ q = (q - 1) + 1
      BY <1>1, <1>11
    <3> QED
      BY <3>1
  <2>2. A[q] # m
    <3>1. CASE q = (n + 1) + 1
      BY <1>1, <3>1, ConstantFacts DEF Positions
    <3>2. CASE q # (n + 1) + 1
      <4>1. q \in 0 .. n + 1
        BY <1>1, <3>2
      <4> QED
        BY <1>5, <1>11, <4>1
    <3> QED
      BY <3>1, <3>2
  <2>3. l.forward[A[b]][i] = A[q] /\ l.forward[A[b]][i] # m
    BY <1>3, <2>2 DEF Link
  <2>4. r.forward[A[b]][i] = B[u]
    <3>1. r.forward[A[b]][i] = l.forward[A[b]][i]
      BY <1>7, <2>3, DeleteFields
    <3> QED
      BY <1>6, <2>1, <2>3, <3>1
  <2>5. ASSUME i <= r.level PROVE r.span[A[b]][i] = Reach(n, u) - b
    <3>1. ~(i > l.level) /\ i <= l.level
      BY <1>1, <1>9, <2>5
    <3>2. r.span[A[b]][i] = l.span[A[b]][i] - 1
      BY <1>2, <1>7, <2>3, <3>1, DeleteFields
    <3>3. l.span[A[b]][i] = Reach(n + 1, u + 1) - b
      BY <1>3, <2>1, <3>1 DEF Link
    <3>4. Reach(n + 1, u + 1) = Reach(n, u) + 1 /\ Reach(n, u) \in Nat
      BY <1>1, <2>1 DEF Reach
    <3> QED
      BY <1>1, <3>2, <3>3, <3>4
  <2>6. ASSUME NEW s \in b + 1 .. u - 1 PROVE r.height[B[s]] < i
    <3>1. CASE s <= c
      BY <1>1, <1>8, <3>1
    <3>2. CASE s > c
      <4>1. s \in c + 1 .. n + 1 /\ s + 1 \in b + 1 .. q - 1 /\ s + 1 \in 0 .. n + 1 /\ s + 1 # c + 1
        BY <1>1, <2>1, <3>2
      <4>2. l.height[A[s + 1]] < i
        BY <1>3, <4>1 DEF Link, Succ
      <4> QED
        BY <1>5, <1>6, <4>1, <4>2
    <3> QED
      BY <1>1, <3>1, <3>2
  <2>7. u <= n => r.height[B[u]] >= i
    <3> SUFFICES ASSUME u <= n PROVE r.height[B[u]] >= i
      OBVIOUS
    <3>1. q <= n + 1 /\ q \in 0 .. n + 1
      BY <1>1, <2>1
    <3>2. l.height[A[q]] >= i
      BY <1>3, <3>1 DEF Link, Succ
    <3> QED
      BY <1>5, <1>6, <1>11, <2>1, <3>1, <3>2
  <2>8. Succ(r, B, n, i, b, u)
    BY <2>6, <2>7 DEF Succ
  <2>9. Link(r, B, n, i, b, u)
    BY <1>7, <2>4, <2>5, <2>8 DEF Link
  <2>10. u \in b + 1 .. n + 1
    BY <1>1
  <2> QED
    BY <1>2, <2>9, <2>10
<1> QED
  BY <1>10, <1>11

\* A node before the one where the search leaves a level.
LEMMA DeleteLinkBefore ==
  ASSUME NEW l, NEW A, NEW n, NEW c, NEW P, NEW m, NEW r, Deleting(l, A, n, c, P, m, r),
         NEW B, B = Gone(A, n, c), NEW i \in Levels, NEW p \in 0 .. c, p # P[i], l.height[A[p]] >= i
  PROVE  \E q \in p + 1 .. n + 1 : Link(r, B, n, i, p, q)
<1>1. /\ Chain(l, A, n + 1) /\ n \in Nat /\ n + 1 \in Nat /\ c \in 0 .. n /\ c \in 0 .. n + 1 /\ i \in Int
      /\ IsLast(l, A, c, i, P[i]) /\ l.level \in 1 .. MaxLevel /\ Shape(l) /\ Positions(l, A, n + 1)
      /\ DeleteMakes(l, r, A, P, m) /\ Sorted(l, A, n + 1)
  <2>1. /\ Chain(l, A, n + 1) /\ n \in Nat /\ c \in 0 .. n /\ IsLast(l, A, c, i, P[i])
        /\ DeleteMakes(l, r, A, P, m)
    BY DEF Deleting
  <2>2. l.level \in 1 .. MaxLevel /\ Shape(l) /\ Positions(l, A, n + 1) /\ Sorted(l, A, n + 1)
    BY <2>1, ChainParts
  <2> QED
    BY <2>1, <2>2 DEF Levels
<1>2. PICK b \in 0 .. c : b = P[i]
  BY <1>1, LastSucc
<1>3. b \in 0 .. n + 1 /\ p \in 0 .. n + 1 /\ p # c + 1 /\ b # c + 1
  BY <1>1
<1>4. \A s \in 0 .. n + 1 : s # c + 1 =>
              /\ A[s] # m /\ A[s] \in Nodes /\ r.height[A[s]] = l.height[A[s]]
              /\ l.height[A[s]] \in 1 .. MaxLevel
  BY DeleteNodes
<1>5. \A s \in 0 .. c : B[s] = A[s]
  BY <1>1, GoneIs
<1>6. p < b
  <2> SUFFICES ASSUME ~(p < b) PROVE FALSE
    OBVIOUS
  <2>1. p \in b + 1 .. c
    BY <1>1, <1>2
  <2>2. l.height[A[p]] < i
    BY <1>1, <1>2, <2>1 DEF IsLast
  <2>3. l.height[A[p]] \in Int
    BY <1>3, <1>4
  <2> QED
    BY <1>1, <2>2, <2>3
<1>7. PICK q \in p + 1 .. (n + 1) + 1 : Link(l, A, n + 1, i, p, q)
  BY <1>1, <1>3, HasSucc
<1>8. q <= b
  <2> SUFFICES ASSUME ~(q <= b) PROVE FALSE
    OBVIOUS
  <2>1. b \in p + 1 .. q - 1
    BY <1>1, <1>3, <1>6
  <2>2. l.height[A[b]] < i
    BY <1>7, <2>1 DEF Link, Succ
  <2>3. l.height[A[b]] >= i
    BY <1>1, <1>2 DEF IsLast
  <2>4. l.height[A[b]] \in Int
    BY <1>3, <1>4
  <2> QED
    BY <1>1, <2>2, <2>3, <2>4
<1>9. q \in 0 .. c /\ q \in 0 .. n + 1 /\ q # c + 1 /\ q <= n + 1 /\ q <= n /\ q \in p + 1 .. n + 1
  BY <1>1, <1>3, <1>8
<1>10. A[p] # A[b] /\ A[p] # m /\ A[p] \in Nodes /\ B[p] = A[p] /\ B[q] = A[q]
  <2>1. A[p] # A[b]
    BY <1>1, <1>3, <1>6, OnePosition
  <2> QED
    BY <1>3, <1>4, <1>5, <1>9, <2>1
<1>11. r.forward[A[p]][i] = l.forward[A[p]][i] /\ r.span[A[p]][i] = l.span[A[p]][i]
  BY <1>2, <1>10, DeleteFields
<1>12. r.forward[A[p]][i] = A[q]
  BY <1>7, <1>11 DEF Link
<1>13. ASSUME i <= r.level PROVE r.span[A[p]][i] = Reach(n, q) - p
  <2>1. i <= l.level
    BY <1>1, <1>13, DeleteLevel
  <2>2. l.span[A[p]][i] = Reach(n + 1, q) - p
    BY <1>7, <2>1 DEF Link
  <2>3. Reach(n, q) = Reach(n + 1, q)
    BY <1>1, <1>9 DEF Reach
  <2> QED
    BY <1>11, <2>2, <2>3
<1>14. Succ(r, B, n, i, p, q)
  <2>1. ASSUME NEW s \in p + 1 .. q - 1 PROVE r.height[B[s]] < i
    <3>1. s \in 0 .. c /\ s \in 0 .. n + 1 /\ s # c + 1
      BY <1>1, <1>9
    <3>2. l.height[A[s]] < i
      BY <1>7 DEF Link, Succ
    <3> QED
      BY <1>4, <1>5, <3>1, <3>2
  <2>2. r.height[B[q]] >= i
    <3>1. l.height[A[q]] >= i
      BY <1>7, <1>9 DEF Link, Succ
    <3> QED
      BY <1>4, <1>9, <1>10, <3>1
  <2> QED
    BY <2>1, <2>2 DEF Succ
<1>15. Link(r, B, n, i, p, q)
  BY <1>10, <1>12, <1>13, <1>14 DEF Link
<1> QED
  BY <1>9, <1>15

\* A node after the one deleted: p + 1 is its position in the list before.
LEMMA DeleteLinkAfter ==
  ASSUME NEW l, NEW A, NEW n, NEW c, NEW P, NEW m, NEW r, Deleting(l, A, n, c, P, m, r),
         NEW B, B = Gone(A, n, c), NEW i \in Levels, NEW p \in c + 1 .. n, l.height[A[p + 1]] >= i
  PROVE  \E q \in p + 1 .. n + 1 : Link(r, B, n, i, p, q)
<1>1. /\ Chain(l, A, n + 1) /\ n \in Nat /\ n + 1 \in Nat /\ c \in 0 .. n /\ c \in 0 .. n + 1 /\ i \in Int
      /\ IsLast(l, A, c, i, P[i]) /\ l.level \in 1 .. MaxLevel /\ Shape(l) /\ Positions(l, A, n + 1)
      /\ DeleteMakes(l, r, A, P, m) /\ Sorted(l, A, n + 1)
  <2>1. /\ Chain(l, A, n + 1) /\ n \in Nat /\ c \in 0 .. n /\ IsLast(l, A, c, i, P[i])
        /\ DeleteMakes(l, r, A, P, m)
    BY DEF Deleting
  <2>2. l.level \in 1 .. MaxLevel /\ Shape(l) /\ Positions(l, A, n + 1) /\ Sorted(l, A, n + 1)
    BY <2>1, ChainParts
  <2> QED
    BY <2>1, <2>2 DEF Levels
<1>2. PICK b \in 0 .. c : b = P[i]
  BY <1>1, LastSucc
<1>3. /\ b \in 0 .. n + 1 /\ p + 1 \in 0 .. n + 1 /\ p + 1 # c + 1 /\ p + 1 # b /\ p \in c + 1 .. n + 1
      /\ p \in Nat
  BY <1>1
<1>4. \A s \in 0 .. n + 1 : s # c + 1 =>
              /\ A[s] # m /\ A[s] \in Nodes /\ r.height[A[s]] = l.height[A[s]]
              /\ l.height[A[s]] \in 1 .. MaxLevel
  BY DeleteNodes
<1>5. \A s \in c + 1 .. n + 1 : B[s] = A[s + 1]
  BY <1>1, GoneIs
<1>7. PICK t \in (p + 1) + 1 .. (n + 1) + 1 : Link(l, A, n + 1, i, p + 1, t)
  BY <1>1, <1>3, HasSucc
<1>8. PICK q \in p + 1 .. n + 1 : t = q + 1
  <2>1. t - 1 \in p + 1 .. n + 1 /\ t = (t - 1) + 1
    BY <1>1, <1>3
  <2> QED
    BY <2>1
<1>9. q \in c + 1 .. n + 1
  BY <1>1, <1>3
<1>10. A[p + 1] # A[b] /\ A[p + 1] # m /\ A[p + 1] \in Nodes /\ B[p] = A[p + 1] /\ B[q] = A[t]
  <2>1. A[p + 1] # A[b]
    BY <1>1, <1>3, OnePosition
  <2> QED
    BY <1>3, <1>4, <1>5, <1>8, <1>9, <2>1
<1>11. r.forward[A[p + 1]][i] = l.forward[A[p + 1]][i] /\ r.span[A[p + 1]][i] = l.span[A[p + 1]][i]
  BY <1>2, <1>10, DeleteFields
<1>12. r.forward[A[p + 1]][i] = A[t]
  BY <1>7, <1>11 DEF Link
<1>13. ASSUME i <= r.level PROVE r.span[A[p + 1]][i] = Reach(n, q) - p
  <2>1. i <= l.level
    BY <1>1, <1>13, DeleteLevel
  <2>2. l.span[A[p + 1]][i] = Reach(n + 1, q + 1) - (p + 1)
    BY <1>7, <1>8, <2>1 DEF Link
  <2>3. Reach(n + 1, q + 1) = Reach(n, q) + 1 /\ Reach(n, q) \in Nat
    BY <1>1, <1>3 DEF Reach
  <2> QED
    BY <1>3, <1>11, <2>2, <2>3
<1>14. Succ(r, B, n, i, p, q)
  <2>1. ASSUME NEW s \in p + 1 .. q - 1 PROVE r.height[B[s]] < i
    <3>1. s \in c + 1 .. n + 1 /\ s + 1 \in (p + 1) + 1 .. t - 1 /\ s + 1 \in 0 .. n + 1 /\ s + 1 # c + 1
      BY <1>1, <1>3, <1>8
    <3>2. l.height[A[s + 1]] < i
      BY <1>7, <3>1 DEF Link, Succ
    <3> QED
      BY <1>4, <1>5, <3>1, <3>2
  <2>2. q <= n => r.height[B[q]] >= i
    <3> SUFFICES ASSUME q <= n PROVE r.height[B[q]] >= i
      OBVIOUS
    <3>1. t <= n + 1 /\ t \in 0 .. n + 1 /\ t # c + 1
      BY <1>1, <1>3, <1>8
    <3>2. l.height[A[t]] >= i
      BY <1>7, <3>1 DEF Link, Succ
    <3> QED
      BY <1>4, <1>10, <3>1, <3>2
  <2> QED
    BY <2>1, <2>2 DEF Succ
<1>15. Link(r, B, n, i, p, q)
  BY <1>10, <1>12, <1>13, <1>14 DEF Link
<1> QED
  BY <1>15

\* Every node that is left is linked.
LEMMA DeleteLinked ==
  ASSUME NEW l, NEW A, NEW n, NEW c, NEW P, NEW m, NEW r, Deleting(l, A, n, c, P, m, r),
         NEW B, B = Gone(A, n, c)
  PROVE  Linked(r, B, n)
<1>1. n \in Nat /\ c \in 0 .. n
  BY DEF Deleting
<1>2. \A p \in 0 .. n + 1 : p # c + 1 => A[p] # m /\ r.height[A[p]] = l.height[A[p]]
  BY DeleteNodes
<1>3. /\ \A p \in 0 .. c : B[p] = A[p]
      /\ \A p \in c + 1 .. n + 1 : B[p] = A[p + 1]
      /\ \A p \in c + 2 .. n + 2 : B[p - 1] = A[p]
  BY <1>1, GoneIs, Zenon
<1>4. ASSUME NEW p \in 0 .. n, NEW i \in Levels, r.height[B[p]] >= i
      PROVE  \E q \in p + 1 .. n + 1 : Link(r, B, n, i, p, q)
  <2>1. CASE p <= c
    <3>1. p \in 0 .. c /\ p \in 0 .. n + 1 /\ p # c + 1
      BY <1>1, <2>1
    <3>2. l.height[A[p]] >= i
      BY <1>2, <1>3, <1>4, <3>1
    <3>3. CASE p = P[i]
      BY <3>3, DeleteLinkLast
    <3>4. CASE p # P[i]
      BY <3>1, <3>2, <3>4, DeleteLinkBefore
    <3> QED
      BY <3>3, <3>4
  <2>2. CASE p > c
    <3>1. p \in c + 1 .. n /\ p \in c + 1 .. n + 1 /\ p + 1 \in 0 .. n + 1 /\ p + 1 # c + 1
      BY <1>1, <2>2
    <3>2. l.height[A[p + 1]] >= i
      BY <1>2, <1>3, <1>4, <3>1
    <3> QED
      BY <3>1, <3>2, DeleteLinkAfter
  <2> QED
    BY <1>1, <2>1, <2>2
<1> QED
  BY <1>4 DEF Linked

\* The nodes that are left.
LEMMA DeletePositions ==
  ASSUME NEW l, NEW A, NEW n, NEW c, NEW P, NEW m, NEW r, Deleting(l, A, n, c, P, m, r),
         NEW B, B = Gone(A, n, c)
  PROVE  Positions(r, B, n)
<1>1. n \in Nat /\ c \in 0 .. n /\ Positions(l, A, n + 1) /\ A[c + 1] = m
  BY ChainParts DEF Deleting
<1>2. /\ \A p \in 0 .. n + 1 : p # c + 1 => A[p] # m /\ A[p] \in Nodes /\ r.height[A[p]] = l.height[A[p]]
      /\ r.height[m] = 0
      /\ \A x \in Nodes : x # m => r.height[x] = l.height[x]
  BY DeleteNodes
<1>3. /\ \A p \in 0 .. c : B[p] = A[p]
      /\ \A p \in c + 1 .. n + 1 : B[p] = A[p + 1]
      /\ \A p \in c + 2 .. n + 2 : B[p - 1] = A[p]
  <2>1. n \in Nat /\ c \in 0 .. n /\ B = Gone(A, n, c)
    BY <1>1
  <2> QED
    BY <2>1, GoneIs, Zenon
<1>4. /\ A \in [0 .. (n + 1) + 1 -> Nodes \cup {Nil}] /\ A[0] = Head_ /\ A[(n + 1) + 1] = Nil
      /\ \A p \in 1 .. n + 1 : A[p] \in Members /\ l.height[A[p]] >= 1
      /\ \A x \in Members : l.height[x] >= 1 => \E p \in 1 .. n + 1 : A[p] = x
  BY <1>1 DEF Positions
<1>5. B \in [0 .. n + 1 -> Nodes \cup {Nil}]
  <2>1. ASSUME NEW p \in 0 .. n + 1 PROVE (IF p <= c THEN A[p] ELSE A[p + 1]) \in Nodes \cup {Nil}
    <3>1. p \in 0 .. (n + 1) + 1 /\ p + 1 \in 0 .. (n + 1) + 1
      BY <1>1
    <3> QED
      BY <1>4, <3>1
  <2> QED
    BY <2>1 DEF Gone
<1>6. B[0] = Head_ /\ B[n + 1] = Nil
  <2>1. 0 \in 0 .. c /\ n + 1 \in c + 1 .. n + 1
    BY <1>1
  <2> QED
    BY <1>3, <1>4, <2>1
<1>7. ASSUME NEW p \in 1 .. n PROVE B[p] \in Members /\ r.height[B[p]] >= 1
  <2>1. CASE p <= c
    <3>1. p \in 1 .. n + 1 /\ p \in 0 .. n + 1 /\ p \in 0 .. c /\ p # c + 1
      BY <1>1, <2>1
    <3> QED
      BY <1>2, <1>3, <1>4, <3>1
  <2>2. CASE p > c
    <3>1. p + 1 \in 1 .. n + 1 /\ p + 1 \in 0 .. n + 1 /\ p \in c + 1 .. n + 1 /\ p + 1 # c + 1
      BY <1>1, <2>2
    <3> QED
      BY <1>2, <1>3, <1>4, <3>1
  <2> QED
    BY <1>1, <2>1, <2>2
<1>8. ASSUME NEW x \in Members, r.height[x] >= 1 PROVE \E p \in 1 .. n : B[p] = x
  <2>1. x # m
    BY <1>2, <1>8
  <2>2. l.height[x] >= 1
    BY <1>2, <1>8, <2>1, ConstantFacts
  <2>3. PICK p \in 1 .. n + 1 : A[p] = x
    BY <1>4, <2>2
  <2>4. p # c + 1
    BY <1>1, <2>1, <2>3
  <2>5. CASE p <= c
    <3>1. p \in 0 .. c /\ p \in 1 .. n
      BY <1>1, <2>5
    <3> QED
      BY <1>3, <2>3, <3>1
  <2>6. CASE p > c
    <3>1. p \in c + 2 .. n + 2 /\ p - 1 \in 1 .. n
      BY <1>1, <2>4, <2>6
    <3> QED
      BY <1>3, <2>3, <3>1
  <2> QED
    BY <1>1, <2>5, <2>6
<1> QED
  BY <1>1, <1>5, <1>6, <1>7, <1>8 DEF Positions

\* The types of the list that is left.
LEMMA DeleteShape ==
  ASSUME NEW l, NEW A, NEW n, NEW c, NEW P, NEW m, NEW r, Deleting(l, A, n, c, P, m, r),
         NEW B, B = Gone(A, n, c)
  PROVE  Shape(r)
<1>1. /\ Chain(l, A, n + 1) /\ n \in Nat /\ c \in 0 .. n /\ m \in Members /\ m \in Nodes
      /\ A[c + 1] = m /\ DeleteMakes(l, r, A, P, m)
      /\ Shape(l) /\ Back(l, A, n + 1) /\ l.level \in 1 .. MaxLevel
      /\ \A i \in Levels : IsLast(l, A, c, i, P[i])
  BY ChainParts, ConstantFacts DEF Deleting
<1>2. /\ l.forward \in [Nodes -> [Levels -> Members \cup {Nil}]]
      /\ l.span \in [Nodes -> [Levels -> Nat]]
      /\ l.score \in [Nodes -> Int]
      /\ l.height \in [Nodes -> 0 .. MaxLevel] /\ l.height[Head_] = MaxLevel
      /\ l.backward \in [Nodes -> Members \cup {Nil}]
      /\ l.tail \in Members \cup {Nil}
      /\ \A x \in Members : l.height[x] <= l.level
  BY <1>1 DEF Shape
<1>3. r.forward \in [Nodes -> [Levels -> Members \cup {Nil}]]
  <2>1. ASSUME NEW x \in Nodes, NEW i \in Levels
        PROVE  (IF x = m THEN Nil
                ELSE IF i <= l.level /\ x = A[P[i]] /\ l.forward[x][i] = m THEN l.forward[m][i]
                ELSE l.forward[x][i]) \in Members \cup {Nil}
    BY <1>1, <1>2
  <2> QED
    BY <1>1, <2>1 DEF DeleteMakes
<1>4. r.span \in [Nodes -> [Levels -> Nat]]
  <2>1. ASSUME NEW x \in Nodes, NEW i \in Levels
        PROVE  (IF x = m THEN 0
                ELSE IF i > l.level \/ x # A[P[i]] THEN l.span[x][i]
                ELSE IF l.forward[x][i] = m THEN l.span[x][i] + l.span[m][i] - 1
                ELSE l.span[x][i] - 1) \in Nat
    <3>1. l.span[x][i] \in Nat /\ l.span[m][i] \in Nat
      BY <1>1, <1>2
    <3>2. CASE ~(i > l.level) /\ x = A[P[i]]
      <4>0. c \in 0 .. n + 1 /\ i <= l.level /\ i \in Int
        BY <1>1, <3>2 DEF Levels
      <4>1. PICK b : b = P[i]
        OBVIOUS
      <4>2. IsLast(l, A, c, i, b)
        BY <1>1, <4>1
      <4>3. b \in 0 .. c
        BY <4>2 DEF IsLast
      <4>4. PICK q \in c + 1 .. (n + 1) + 1 : Link(l, A, n + 1, i, b, q)
        BY <1>1, <4>0, <4>2, LastSucc
      <4>5. l.span[A[b]][i] = Reach(n + 1, q) - b
        BY <4>0, <4>4 DEF Link
      <4>6. Reach(n + 1, q) \in Nat /\ Reach(n + 1, q) >= c + 1
        BY <1>1 DEF Reach
      <4>7. l.span[x][i] >= 1
        BY <1>1, <3>2, <4>1, <4>3, <4>5, <4>6
      <4> QED
        BY <3>1, <4>7
    <3> QED
      BY <3>1, <3>2
  <2>2. r.span = [x \in Nodes |-> [i \in Levels |->
          IF x = m THEN 0
          ELSE IF i > l.level \/ x # A[P[i]] THEN l.span[x][i]
          ELSE IF l.forward[x][i] = m THEN l.span[x][i] + l.span[m][i] - 1
          ELSE l.span[x][i] - 1]]
    BY <1>1 DEF DeleteMakes
  <2> QED
    BY <2>1, <2>2
<1>5. r.score \in [Nodes -> Int]
  BY <1>1, <1>2 DEF DeleteMakes
<1>6. r.height \in [Nodes -> 0 .. MaxLevel] /\ r.height[Head_] = MaxLevel
  <2>1. 0 \in 0 .. MaxLevel /\ Head_ # m /\ Head_ \in Nodes
    BY <1>1, ConstantFacts
  <2>2. r.height = [l.height EXCEPT ![m] = 0]
    BY <1>1 DEF DeleteMakes
  <2> QED
    BY <1>1, <1>2, <2>1, <2>2
<1>7. r.backward \in [Nodes -> Members \cup {Nil}]
  BY <1>1, <1>2 DEF DeleteMakes
<1>8. r.tail \in Members \cup {Nil} /\ r.length \in Nat
  <2>1. /\ r.tail = IF l.forward[m][1] = Nil THEN l.backward[m] ELSE l.tail
        /\ r.length = l.length - 1
    BY <1>1 DEF DeleteMakes
  <2>2. l.length = n + 1
    BY <1>1 DEF Back
  <2> QED
    BY <1>1, <1>2, <2>1, <2>2
<1>9. r.level \in 1 .. l.level /\ \A i \in 2 .. l.level : r.forward[Head_][i] # Nil => i <= r.level
  BY DeleteLevel
<1>10. r.level \in Levels
  <2>1. l.level \in 1 .. MaxLevel /\ r.level \in 1 .. l.level /\ MaxLevel \in Nat
    BY <1>1, <1>9, ConstantFacts
  <2> QED
    BY <2>1 DEF Levels
<1>11. ASSUME NEW x \in Members PROVE r.height[x] <= r.level
  <2>1. r.height[m] = 0 /\ \A y \in Nodes : y # m => r.height[y] = l.height[y]
    BY DeleteNodes
  <2>2. Positions(r, B, n) /\ Linked(r, B, n)
    BY DeletePositions, DeleteLinked
  <2>3. x \in Nodes /\ r.height[x] \in 0 .. MaxLevel
    BY <1>6, ConstantFacts
  <2>4. PICK h \in 0 .. MaxLevel : h = r.height[x]
    BY <2>3
  <2>5. CASE h <= 1
    BY <1>1, <1>9, <2>4, <2>5
  <2>6. CASE h > 1
    <3>1. x # m
      BY <2>1, <2>4, <2>6
    <3>2. h <= l.level
      BY <1>2, <2>1, <2>3, <2>4, <3>1
    <3>3. h \in 2 .. l.level /\ h \in Levels /\ h >= 1
      BY <1>1, <2>6, <3>2 DEF Levels
    <3>4. PICK p \in 1 .. n : B[p] = x
      BY <2>2, <2>4, <3>3 DEF Positions
    <3>5. B[0] = Head_ /\ r.height[B[0]] >= h /\ 0 \in 0 .. n
      BY <1>1, <1>6, <2>2, <2>4 DEF Positions
    <3>6. PICK q \in 0 + 1 .. n + 1 : Link(r, B, n, h, 0, q)
      BY <2>2, <3>3, <3>5 DEF Linked
    <3>7. q <= n
      <4> SUFFICES ASSUME ~(q <= n) PROVE FALSE
        OBVIOUS
      <4>1. p \in 0 + 1 .. q - 1
        BY <1>1
      <4>2. r.height[B[p]] < h
        BY <3>6, <4>1 DEF Link, Succ
      <4> QED
        BY <2>4, <3>4, <4>2
    <3>8. B[q] # Nil
      <4>1. q \in 1 .. n
        BY <1>1, <3>7
      <4>2. B[q] \in Members
        BY <2>2, <4>1 DEF Positions
      <4> QED
        BY <4>2, ConstantFacts
    <3>9. r.forward[Head_][h] = B[q]
      BY <3>5, <3>6 DEF Link
    <3> QED
      BY <1>9, <2>4, <3>3, <3>8, <3>9
  <2> QED
    BY <2>5, <2>6
<1> QED
  BY <1>3, <1>4, <1>5, <1>6, <1>7, <1>8, <1>10, <1>11 DEF Shape

\* The order of the list that is left.
LEMMA DeleteSorted ==
  ASSUME NEW l, NEW A, NEW n, NEW c, NEW P, NEW m, NEW r, Deleting(l, A, n, c, P, m, r),
         NEW B, B = Gone(A, n, c)
  PROVE  Sorted(r, B, n)
<1>1. n \in Nat /\ c \in 0 .. n /\ Sorted(l, A, n + 1)
  BY ChainParts DEF Deleting
<1>2. \A p \in 0 .. n + 1 : p # c + 1 => r.score[A[p]] = l.score[A[p]]
  BY DeleteNodes
<1>3. /\ \A p \in 0 .. c : B[p] = A[p]
      /\ \A p \in c + 1 .. n + 1 : B[p] = A[p + 1]
      /\ \A p \in c + 2 .. n + 2 : B[p - 1] = A[p]
  <2>1. n \in Nat /\ c \in 0 .. n /\ B = Gone(A, n, c)
    BY <1>1
  <2> QED
    BY <2>1, GoneIs, Zenon
<1>4. ASSUME NEW p \in 1 .. n + 1, NEW q \in 1 .. n + 1, p < q, p # c + 1, q # c + 1
      PROVE  Before(r, A[p], r.score[A[q]], A[q])
  <2>1. Before(l, A[p], l.score[A[q]], A[q])
    BY <1>1, <1>4 DEF Sorted
  <2>2. p \in 0 .. n + 1 /\ q \in 0 .. n + 1
    BY <1>1
  <2> QED
    BY <1>2, <1>4, <2>1, <2>2 DEF Before
<1>5. ASSUME NEW p \in 1 .. n
      PROVE  \E s \in 1 .. n + 1 : /\ B[p] = A[s] /\ s # c + 1
                                   /\ s = IF p <= c THEN p ELSE p + 1
  <2>1. CASE p <= c
    <3>1. p \in 0 .. c /\ p \in 1 .. n + 1 /\ p # c + 1
      BY <1>1, <2>1
    <3> QED
      BY <1>3, <2>1, <3>1
  <2>2. CASE ~(p <= c)
    <3>1. p \in c + 1 .. n + 1 /\ p + 1 \in 1 .. n + 1 /\ p + 1 # c + 1
      BY <1>1, <2>2
    <3> QED
      BY <1>3, <2>2, <3>1
  <2> QED
    BY <2>1, <2>2
<1>6. ASSUME NEW p \in 1 .. n, NEW q \in 1 .. n, p < q
      PROVE  Before(r, B[p], r.score[B[q]], B[q])
  <2>1. PICK s \in 1 .. n + 1 : B[p] = A[s] /\ s # c + 1 /\ s = IF p <= c THEN p ELSE p + 1
    BY <1>5
  <2>2. PICK t \in 1 .. n + 1 : B[q] = A[t] /\ t # c + 1 /\ t = IF q <= c THEN q ELSE q + 1
    BY <1>5
  <2>3. s < t
    BY <1>1, <1>6, <2>1, <2>2
  <2> QED
    BY <1>4, <2>1, <2>2, <2>3
<1> QED
  BY <1>6 DEF Sorted

\* The list that is left, read backwards.
LEMMA DeleteBack ==
  ASSUME NEW l, NEW A, NEW n, NEW c, NEW P, NEW m, NEW r, Deleting(l, A, n, c, P, m, r),
         NEW B, B = Gone(A, n, c)
  PROVE  Back(r, B, n)
<1>1. /\ Chain(l, A, n + 1) /\ n \in Nat /\ c \in 0 .. n /\ c + 1 \in 0 .. n + 1 /\ c + 1 \in 1 .. n + 1
      /\ m \in Members /\ m \in Nodes
      /\ A[c + 1] = m /\ DeleteMakes(l, r, A, P, m)
      /\ Shape(l) /\ Positions(l, A, n + 1) /\ Sorted(l, A, n + 1) /\ Back(l, A, n + 1)
  <2>1. /\ Chain(l, A, n + 1) /\ n \in Nat /\ c \in 0 .. n /\ m \in Members /\ A[c + 1] = m
        /\ DeleteMakes(l, r, A, P, m)
    BY DEF Deleting
  <2>2. Shape(l) /\ Positions(l, A, n + 1) /\ Sorted(l, A, n + 1) /\ Back(l, A, n + 1)
    BY <2>1, ChainParts
  <2>3. c + 1 \in 0 .. n + 1 /\ c + 1 \in 1 .. n + 1
    BY <2>1
  <2> QED
    BY <2>1, <2>2, <2>3, ConstantFacts
<1>2. \A p \in 0 .. n + 1 : p # c + 1 => A[p] # m /\ A[p] \in Nodes
  BY DeleteNodes
<1>3. /\ \A p \in 0 .. c : B[p] = A[p]
      /\ \A p \in c + 1 .. n + 1 : B[p] = A[p + 1]
      /\ \A p \in c + 2 .. n + 2 : B[p - 1] = A[p]
  <2>1. n \in Nat /\ c \in 0 .. n /\ B = Gone(A, n, c)
    BY <1>1
  <2> QED
    BY <2>1, GoneIs, Zenon
<1>4. l.forward[m][1] = A[c + 2]
  <2>1. l.forward[A[c + 1]][1] = A[(c + 1) + 1]
    BY <1>1, BottomLevel
  <2>2. (c + 1) + 1 = c + 2
    BY <1>1
  <2> QED
    BY <1>1, <2>1, <2>2
<1>5. /\ \A x \in Nodes : x # m => r.backward[x] = IF x = A[c + 2] THEN l.backward[m] ELSE l.backward[x]
      /\ r.tail = IF A[c + 2] = Nil THEN l.backward[m] ELSE l.tail
      /\ r.length = l.length - 1
  BY <1>1, <1>4 DEF DeleteMakes
<1>6. /\ l.length = n + 1 /\ l.tail = IF n + 1 = 0 THEN Nil ELSE A[n + 1]
      /\ \A p \in 1 .. n + 1 : l.backward[A[p]] = IF p = 1 THEN Nil ELSE A[p - 1]
  BY <1>1 DEF Back
<1>7. r.length = n
  BY <1>1, <1>5, <1>6
<1>8. l.backward[m] = IF c = 0 THEN Nil ELSE A[c]
  <2>1. (c + 1 = 1 <=> c = 0) /\ (c + 1) - 1 = c
    BY <1>1
  <2> QED
    BY <1>1, <1>6, <2>1
<1>9. r.tail = IF n = 0 THEN Nil ELSE B[n]
  <2>1. CASE c = n
    <3>1. A[c + 2] = Nil
      <4>1. (n + 1) + 1 = c + 2
        BY <1>1, <2>1
      <4> QED
        BY <1>1, <4>1 DEF Positions
    <3>2. c \in 0 .. c
      BY <1>1
    <3> QED
      BY <1>3, <1>5, <1>8, <2>1, <3>1, <3>2
  <2>2. CASE c # n
    <3>1. c + 2 \in 0 .. n + 1 /\ n # 0 /\ n \in c + 1 .. n + 1 /\ n + 1 # 0
      BY <1>1, <2>2
    <3>2. A[c + 2] # Nil
      BY <1>1, <3>1, NodeAt
    <3> QED
      BY <1>3, <1>5, <1>6, <3>1, <3>2
  <2> QED
    BY <2>1, <2>2
<1>10. ASSUME NEW p \in 1 .. n PROVE r.backward[B[p]] = IF p = 1 THEN Nil ELSE B[p - 1]
  <2>1. CASE p <= c
    <3>1. /\ p \in 1 .. n + 1 /\ p \in 0 .. n + 1 /\ p \in 0 .. c /\ p - 1 \in 0 .. c /\ p # c + 1
          /\ p # c + 2
      BY <1>1, <2>1
    <3>2. A[p] # A[c + 2]
      <4>1. CASE c = n
        <5>1. (n + 1) + 1 = c + 2
          BY <1>1, <4>1
        <5>2. A[c + 2] = Nil
          BY <1>1, <5>1 DEF Positions
        <5> QED
          BY <1>1, <3>1, <5>2, NodeAt
      <4>2. CASE c # n
        <5>1. c + 2 \in 0 .. n + 1
          BY <1>1, <4>2
        <5> QED
          BY <1>1, <3>1, <5>1, OnePosition
      <4> QED
        BY <4>1, <4>2
    <3>3. B[p] = A[p] /\ B[p - 1] = A[p - 1] /\ A[p] # m /\ A[p] \in Nodes
      BY <1>2, <1>3, <3>1
    <3>4. r.backward[A[p]] = l.backward[A[p]]
      BY <1>5, <3>2, <3>3
    <3> QED
      BY <1>6, <3>1, <3>3, <3>4
  <2>2. CASE p = c + 1
    <3>1. /\ c + 2 \in 0 .. n + 1 /\ p \in c + 1 .. n + 1 /\ p + 1 = c + 2 /\ c + 2 # c + 1
          /\ p - 1 = c /\ (p = 1 <=> c = 0) /\ c \in 0 .. c
      BY <1>1, <2>2
    <3>2. B[p] = A[c + 2] /\ B[p - 1] = A[c] /\ A[c + 2] # m /\ A[c + 2] \in Nodes
      BY <1>2, <1>3, <3>1
    <3>3. r.backward[A[c + 2]] = l.backward[m]
      BY <1>5, <3>2
    <3> QED
      BY <1>8, <3>1, <3>2, <3>3
  <2>3. CASE p > c + 1
    <3>1. /\ c + 2 \in 0 .. n + 1 /\ p \in c + 1 .. n + 1 /\ p + 1 \in 0 .. n + 1 /\ p + 1 \in 1 .. n + 1
          /\ p + 1 # c + 1 /\ p + 1 # c + 2 /\ p - 1 \in c + 1 .. n + 1 /\ p # 1 /\ p + 1 # 1
          /\ (p - 1) + 1 = p /\ (p + 1) - 1 = p
      BY <1>1, <2>3
    <3>2. B[p] = A[p + 1] /\ B[p - 1] = A[p] /\ A[p + 1] # m /\ A[p + 1] \in Nodes
      BY <1>2, <1>3, <3>1
    <3>3. A[p + 1] # A[c + 2]
      BY <1>1, <3>1, OnePosition
    <3>4. r.backward[A[p + 1]] = l.backward[A[p + 1]]
      BY <1>5, <3>2, <3>3
    <3>5. l.backward[A[p + 1]] = A[p]
      BY <1>6, <3>1
    <3> QED
      BY <3>1, <3>2, <3>4, <3>5
  <2> QED
    BY <1>1, <2>1, <2>2, <2>3
<1> QED
  BY <1>7, <1>9, <1>10 DEF Back

\* deleteNode takes a member of the list out of it.
LEMMA DeleteChain ==
  ASSUME NEW l, NEW A, NEW n, Chain(l, A, n), NEW m \in Members, l.height[m] >= 1
  PROVE  /\ n - 1 \in Nat /\ \E B : Chain(deleteNode(l, l.score[m], m), B, n - 1)
         /\ deleteNode(l, l.score[m], m).height = [l.height EXCEPT ![m] = 0]
         /\ deleteNode(l, l.score[m], m).score = [l.score EXCEPT ![m] = 0]
<1> DEFINE score == l.score[m]
           Pass == Passed(l, score, m)
           update == Position(l, score, m)
<1>1. n \in Nat /\ m \in Nat /\ score \in Int /\ Shape(l) /\ Positions(l, A, n) /\ Sorted(l, A, n)
      /\ l.level \in 1 .. MaxLevel /\ l.level \in Levels
  <2>1. n \in Nat /\ Shape(l) /\ Positions(l, A, n) /\ Sorted(l, A, n) /\ l.level \in 1 .. MaxLevel
        /\ l.level \in Levels
    BY ChainParts
  <2> QED
    BY <2>1, ConstantFacts DEF Shape
<1>2. PICK d \in 1 .. n : A[d] = m
  BY <1>1 DEF Positions
<1>3. PICK k \in Nat : n = k + 1
  <2>1. n - 1 \in Nat /\ n = (n - 1) + 1
    BY <1>1
  <2> QED
    BY <2>1
<1>4. PICK e \in 0 .. k : d = e + 1
  <2>1. d - 1 \in 0 .. k /\ d = (d - 1) + 1
    BY <1>1, <1>3
  <2> QED
    BY <2>1
<1>5. PICK c \in 0 .. n : /\ \A p \in 1 .. n : Before(l, A[p], score, m) <=> p <= c
                          /\ Cut(A, n, Pass, c)
  BY <1>1, PositionCut
<1>6. c = e
  <2>1. ~Before(l, A[d], score, m)
    BY <1>1, <1>2 DEF Before
  <2>2. ~(d <= c)
    BY <1>5, <2>1
  <2>3. e > 0 => e <= c
    <3> SUFFICES ASSUME e > 0 PROVE e <= c
      OBVIOUS
    <3>1. e \in 1 .. n /\ e < d
      BY <1>3, <1>4
    <3>2. Before(l, A[e], l.score[A[d]], A[d])
      BY <1>1, <3>1 DEF Sorted
    <3> QED
      BY <1>2, <1>5, <3>1, <3>2
  <2> QED
    BY <1>1, <1>4, <2>2, <2>3
<1>7. update = Search(l, Pass)
  BY DEF Position, Passed
<1> HIDE DEF Pass, update
<1>8. PICK P \in [Levels -> 0 .. c] :
           /\ \A i \in Levels : IsLast(l, A, c, i, P[i])
           /\ P[1] = c
           /\ \A i \in Levels : (IF i <= l.level THEN Search(l, Pass)[i] ELSE Start) = Place(A, P[i])
           /\ \A i \in Levels : i > l.level => P[i] = 0
  BY <1>5, FoundIs
<1>9. \A i \in Levels : i <= l.level => update[i] = Place(A, P[i])
  BY <1>7, <1>8
<1>10. l.forward[update[1].node][1] = m
  <2>1. 1 \in Levels /\ 1 <= l.level
    BY <1>1, ConstantFacts DEF Levels
  <2>2. update[1] = Place(A, P[1])
    BY <1>9, <2>1
  <2>3. update[1].node = A[c]
    BY <1>8, <2>2 DEF Place
  <2>4. l.forward[A[c]][1] = A[c + 1]
    BY BottomLevel
  <2> QED
    BY <1>2, <1>4, <1>6, <2>3, <2>4
<1>11. deleteNode(l, score, m) = Forget(deleteNodeInternal(l, m, update), m)
  BY <1>10 DEF deleteNode, update
<1> DEFINE r == Forget(deleteNodeInternal(l, m, update), m)
<1>12. DeleteMakes(l, r, A, P, m)
  BY <1>1, <1>8, <1>9, DeleteIs
<1> HIDE DEF r
<1>13. Deleting(l, A, k, c, P, m, r)
  BY <1>2, <1>3, <1>4, <1>6, <1>8, <1>12 DEF Deleting
<1>14. Chain(r, Gone(A, k, c), k)
  BY <1>13, DeleteLinked, DeleteShape, DeletePositions, DeleteSorted, DeleteBack DEF Chain
<1>15. r.height = [l.height EXCEPT ![m] = 0] /\ r.score = [l.score EXCEPT ![m] = 0]
  BY <1>12 DEF DeleteMakes
<1>16. n - 1 = k
  BY <1>3
<1> QED
  BY <1>11, <1>14, <1>15, <1>16 DEF r

\* The list of a new sorted set.
LEMMA EmptyChain == \E A : Chain(EmptyList, A, 0)
<1> DEFINE l == EmptyList
           A == [p \in 0 .. 1 |-> IF p = 0 THEN Head_ ELSE Nil]
<1>1. /\ l.forward = [x \in Nodes |-> [i \in Levels |-> Nil]]
      /\ l.span = [x \in Nodes |-> [i \in Levels |-> 0]]
      /\ l.score = [x \in Nodes |-> 0]
      /\ l.height = [x \in Nodes |-> IF x = Head_ THEN MaxLevel ELSE 0]
      /\ l.backward = [x \in Nodes |-> Nil]
      /\ l.tail = Nil /\ l.length = 0 /\ l.level = 1
  BY DEF EmptyList
<1> HIDE DEF l
<1>2. Shape(l)
  BY <1>1, ConstantFacts DEF Shape, Levels
<1>3. A[0] = Head_ /\ A[1] = Nil /\ A \in [0 .. 0 + 1 -> Nodes \cup {Nil}] /\ A[0 + 1] = Nil
  BY ConstantFacts
<1> HIDE DEF A
<1>4. \A m \in Members : l.height[m] = 0
  BY <1>1, ConstantFacts
<1>5. Positions(l, A, 0)
  BY <1>3, <1>4 DEF Positions
<1>6. Sorted(l, A, 0)
  BY DEF Sorted
<1>7. Linked(l, A, 0)
  <2>1. ASSUME NEW p \in 0 .. 0, NEW i \in Levels PROVE \E q \in p + 1 .. 0 + 1 : Link(l, A, 0, i, p, q)
    <3>1. Succ(l, A, 0, i, 0, 1)
      BY DEF Succ
    <3>2. l.forward[A[0]][i] = A[1] /\ l.span[A[0]][i] = 0 /\ Reach(0, 1) - 0 = 0
      BY <1>1, <1>3, ConstantFacts DEF Reach
    <3>3. Link(l, A, 0, i, 0, 1)
      BY <3>1, <3>2 DEF Link
    <3> QED
      BY <3>3
  <2> QED
    BY <2>1 DEF Linked
<1>8. Back(l, A, 0)
  BY <1>1 DEF Back
<1> QED
  BY <1>2, <1>5, <1>6, <1>7, <1>8 DEF Chain, l

-----------------------------------------------------------------------------
(* The list and the table.                                                 *)

\* The pairs of the list: those of the table, but a member that moves has its new score already.
Pairs ==
  [m \in Members |-> IF call # Idle /\ ~adding /\ m = call.key THEN call.value ELSE Contents[m]]

\* A list that is well formed and holds the pairs f.
IsList(l, f) ==
  /\ \E n \in Nat : \E A : Chain(l, A, n)
  /\ \A m \in Members : /\ f[m] = NoValue <=> l.height[m] = 0
                        /\ f[m] # NoValue => l.score[m] = f[m]

\* A new member is added to the table before it is added to the list; one that is there is moved
\* in the list before the table has its new score.
ListInv ==
  /\ adding \in BOOLEAN
  /\ adding => call # Idle /\ Contents[call.key] = NoValue
  /\ call # Idle /\ ~adding => Contents[call.key] # NoValue
  /\ IsList(zsl, Pairs)

\* The list of a new sorted set holds nothing.
LEMMA ListEmpty ==
  ASSUME NEW f, \A m \in Members : f[m] = NoValue
  PROVE  IsList(EmptyList, f)
<1>1. \A m \in Members : EmptyList.height[m] = 0
  BY ConstantFacts DEF EmptyList
<1>2. 0 \in Nat
  OBVIOUS
<1> QED
  BY <1>1, <1>2, EmptyChain DEF IsList

\* insert of a member that the list does not hold.
LEMMA ListInsert ==
  ASSUME NEW l, NEW f, IsList(l, f), NEW m \in Members, f[m] = NoValue, NEW v \in Values,
         NEW k \in Levels, NEW g, g[m] = v, \A x \in Members : x # m => g[x] = f[x]
  PROVE  IsList(insert(l, v, m, k), g)
<1>1. PICK n \in Nat : \E A : Chain(l, A, n)
  BY DEF IsList
<1>2. PICK A : Chain(l, A, n)
  BY <1>1
<1>3. l.height[m] = 0 /\ v \in Int /\ v # NoValue /\ k # 0 /\ n + 1 \in Nat
  BY ScoresAssumption, NoValueAssumption DEF IsList, Levels
<1> DEFINE r == insert(l, v, m, k)
<1>4. /\ \E B : Chain(r, B, n + 1)
      /\ r.height = [l.height EXCEPT ![m] = k]
      /\ r.score = [l.score EXCEPT ![m] = v]
  BY <1>2, <1>3, InsertChain
<1> HIDE DEF r
<1>5. l.score \in [Nodes -> Int] /\ l.height \in [Nodes -> 0 .. MaxLevel]
  BY <1>2, ChainParts DEF Shape
<1>6. ASSUME NEW x \in Members
      PROVE  (g[x] = NoValue <=> r.height[x] = 0) /\ (g[x] # NoValue => r.score[x] = g[x])
  <2>0. x \in Nodes /\ m \in Nodes
    BY ConstantFacts
  <2>1. CASE x = m
    BY <1>3, <1>4, <1>5, <2>0, <2>1
  <2>2. CASE x # m
    <3>1. r.height[x] = l.height[x] /\ r.score[x] = l.score[x] /\ g[x] = f[x]
      BY <1>4, <1>5, <2>0, <2>2
    <3> QED
      BY <3>1 DEF IsList
  <2> QED
    BY <2>1, <2>2
<1>7. IsList(r, g)
  BY <1>3, <1>4, <1>6 DEF IsList
<1> QED
  BY <1>7 DEF r

\* deleteNode of a member that the list holds.
LEMMA ListDelete ==
  ASSUME NEW l, NEW f, IsList(l, f), NEW m \in Members, f[m] # NoValue,
         NEW g, g[m] = NoValue, \A x \in Members : x # m => g[x] = f[x]
  PROVE  IsList(deleteNode(l, f[m], m), g)
<1>1. PICK n \in Nat : \E A : Chain(l, A, n)
  BY DEF IsList
<1>2. PICK A : Chain(l, A, n)
  BY <1>1
<1>3. l.score[m] = f[m] /\ l.height[m] # 0
  BY DEF IsList
<1>4. l.score \in [Nodes -> Int] /\ l.height \in [Nodes -> 0 .. MaxLevel]
  BY <1>2, ChainParts DEF Shape
<1>5. l.height[m] >= 1
  <2>1. l.height[m] \in 0 .. MaxLevel
    BY <1>4, ConstantFacts
  <2> QED
    BY <1>3, <2>1
<1> DEFINE r == deleteNode(l, l.score[m], m)
<1>6. /\ n - 1 \in Nat /\ \E B : Chain(r, B, n - 1)
      /\ r.height = [l.height EXCEPT ![m] = 0]
      /\ r.score = [l.score EXCEPT ![m] = 0]
  BY <1>2, <1>5, DeleteChain
<1>8. deleteNode(l, f[m], m) = r
  BY <1>3
<1> HIDE DEF r
<1>7. ASSUME NEW x \in Members
      PROVE  (g[x] = NoValue <=> r.height[x] = 0) /\ (g[x] # NoValue => r.score[x] = g[x])
  <2>0. x \in Nodes /\ m \in Nodes
    BY ConstantFacts
  <2>1. CASE x = m
    BY <1>4, <1>6, <2>0, <2>1
  <2>2. CASE x # m
    <3>1. r.height[x] = l.height[x] /\ r.score[x] = l.score[x] /\ g[x] = f[x]
      BY <1>4, <1>6, <2>0, <2>2
    <3> QED
      BY <3>1 DEF IsList
  <2> QED
    BY <2>1, <2>2
<1>9. IsList(r, g)
  BY <1>6, <1>7 DEF IsList
<1> QED
  BY <1>8, <1>9

\* What a sorted set holds, from its table.
LEMMA ContentsType ==
  ASSUME TableInv
  PROVE  /\ \A m \in Members : m \in Keys /\ Contents[m] = Lookup(buckets, m)
                               /\ Contents[m] \in Values \cup {NoValue}
         /\ call = Idle \/ (call \in [key : Keys, value : Values] /\ call.key \in Members
                              /\ call.value \in Values)
<1>1. /\ Table(buckets) /\ Reachable(buckets) /\ Capacity(buckets) \in Nat /\ Capacity(buckets) >= 2
      /\ call = Idle \/ call \in [key : Keys, value : Values]
  BY DEF TableInv, TableTypes, Table
<1>2. Capacity(buckets) # 0
  BY <1>1
<1>3. ASSUME NEW m \in Members
      PROVE  m \in Keys /\ Contents[m] = Lookup(buckets, m) /\ Contents[m] \in Values \cup {NoValue}
  <2>1. m \in Keys
    BY KeysAreMembers
  <2>2. Contents[m] = Lookup(buckets, m)
    BY <2>1 DEF Contents
  <2>3. Lookup(buckets, m) \in Values \cup {NoValue}
    BY <1>1, <1>2, <2>1, LookupIs
  <2> QED
    BY <2>1, <2>2, <2>3
<1> QED
  BY <1>1, <1>3, KeysAreMembers

\* Between calls the pairs of the list are those of the table.
LEMMA PairsIdle ==
  ASSUME call = Idle
  PROVE  \A m \in Members : Pairs[m] = Contents[m]
BY DEF Pairs

\* A sorted set that is new.
LEMMA ListInit == Init => ListInv
<1> SUFFICES ASSUME Init PROVE ListInv
  OBVIOUS
<1>1. zsl = EmptyList /\ adding = FALSE /\ call = Idle /\ Contents = [k \in Keys |-> NoValue]
  BY TableInitInv DEF Init, TableInit
<1>2. \A m \in Members : Pairs[m] = NoValue
  BY <1>1, KeysAreMembers DEF Pairs
<1> QED
  BY <1>1, <1>2, ListEmpty DEF ListInv

\* ZADD, up to dict_.set.
LEMMA AddKeeps ==
  ASSUME TableInv, ListInv, NEW m \in Members, NEW score \in Values, Add(m, score)
  PROVE  ListInv'
<1>1. m \in Keys /\ Set(m, score)
  BY KeysAreMembers DEF Add
<1>2. Contents' = Contents
  BY <1>1, SetInv
<1>3. call = Idle /\ call' = [key |-> m, value |-> score]
  BY <1>1 DEF Set
<1>4. call' # Idle /\ call'.key = m /\ call'.value = score
  BY <1>3 DEF Idle
<1>5. adding = FALSE /\ IsList(zsl, Pairs) /\ \A x \in Members : Pairs[x] = Contents[x]
  BY <1>3, PairsIdle DEF ListInv
<1>6. Lookup(buckets, m) = Contents[m] /\ Contents[m] \in Values \cup {NoValue} /\ score # NoValue
  BY ContentsType, NoValueAssumption
<1>7. CASE Contents[m] = NoValue /\ adding' = TRUE /\ zsl' = zsl
  <2>1. \A x \in Members : Pairs'[x] = Contents[x]
    BY <1>2, <1>7 DEF Pairs
  <2>2. IsList(zsl', Pairs')
    BY <1>5, <1>7, <2>1 DEF IsList
  <2> QED
    BY <1>2, <1>4, <1>7, <2>2 DEF ListInv
<1>8. CASE /\ Contents[m] # NoValue
           /\ \E level \in Levels : zsl' = insert(deleteNode(zsl, Contents[m], m), score, m, level)
           /\ adding' = adding
  <2>1. PICK level \in Levels : zsl' = insert(deleteNode(zsl, Contents[m], m), score, m, level)
    BY <1>8
  <2> DEFINE g == [Pairs EXCEPT ![m] = NoValue]
  <2>2. g[m] = NoValue /\ \A x \in Members : x # m => g[x] = Pairs[x]
    BY DEF Pairs
  <2>3. Pairs'[m] = score /\ \A x \in Members : x # m => Pairs'[x] = Contents[x]
    BY <1>2, <1>4, <1>5, <1>8 DEF Pairs
  <2>4. \A x \in Members : x # m => Pairs'[x] = g[x]
    BY <1>5, <2>2, <2>3
  <2> HIDE DEF g
  <2>5. Pairs[m] # NoValue /\ Pairs[m] = Contents[m]
    BY <1>5, <1>8
  <2>6. IsList(deleteNode(zsl, Contents[m], m), g)
    BY <1>5, <2>2, <2>5, ListDelete
  <2>7. IsList(zsl', Pairs')
    BY <2>1, <2>2, <2>3, <2>4, <2>6, ListInsert
  <2> QED
    BY <1>2, <1>4, <1>5, <1>8, <2>7 DEF ListInv
<1> QED
  BY <1>6, <1>7, <1>8 DEF Add

\* The end of ZADD.
LEMMA AddEndKeeps ==
  ASSUME TableInv, ListInv, AddEnd
  PROVE  ListInv'
<1>1. Insert /\ adding' = FALSE
  BY DEF AddEnd
<1>2. /\ Contents' = [Contents EXCEPT ![call.key] = call.value]
      /\ call.key \in Keys /\ call.value \in Values /\ call.key \in Members
  BY <1>1, InsertInv, KeysAreMembers
<1>3. call # Idle /\ call' = Idle
  BY <1>1 DEF Insert
<1>4. PICK m \in Members, v \in Values : m = call.key /\ v = call.value
  BY <1>2
<1>5. Contents'[m] = v /\ \A x \in Members : x # m => Contents'[x] = Contents[x]
  <2>1. DOMAIN Contents = Members
    BY KeysAreMembers DEF Contents
  <2> QED
    BY <1>2, <1>4, <2>1
<1>6. \A x \in Members : Pairs'[x] = Contents'[x]
  BY <1>3 DEF Pairs
<1>7. IsList(zsl, Pairs) /\ adding \in BOOLEAN
  BY DEF ListInv
<1>8. CASE adding
  <2>1. PICK level \in Levels : zsl' = insert(zsl, v, m, level)
    BY <1>4, <1>8 DEF AddEnd
  <2>2. Pairs[m] = NoValue /\ \A x \in Members : Pairs[x] = Contents[x]
    BY <1>4, <1>8 DEF Pairs, ListInv
  <2>3. Pairs'[m] = v /\ \A x \in Members : x # m => Pairs'[x] = Pairs[x]
    BY <1>5, <1>6, <2>2
  <2>4. IsList(zsl', Pairs')
    BY <1>7, <2>1, <2>2, <2>3, ListInsert
  <2> QED
    BY <1>1, <1>3, <2>4 DEF ListInv
<1>9. CASE ~adding
  <2>1. zsl' = zsl
    BY <1>9 DEF AddEnd
  <2>2. Pairs[m] = v /\ \A x \in Members : x # m => Pairs[x] = Contents[x]
    BY <1>3, <1>4, <1>9 DEF Pairs
  <2>3. \A x \in Members : Pairs'[x] = Pairs[x]
    BY <1>5, <1>6, <2>2
  <2>4. IsList(zsl', Pairs')
    BY <1>7, <2>1, <2>3 DEF IsList
  <2> QED
    BY <1>1, <1>3, <2>4 DEF ListInv
<1> QED
  BY <1>7, <1>8, <1>9

\* ZREM.
LEMMA RemKeeps ==
  ASSUME TableInv, ListInv, NEW m \in Members, Rem(m) \/ RemoveLast(m)
  PROVE  ListInv'
<1>1. m \in Keys
  BY KeysAreMembers
<1>2. call = Idle /\ call' = Idle /\ adding' = adding
  BY DEF Rem, Del, RemoveLast
<1>3. adding = FALSE /\ IsList(zsl, Pairs) /\ \A x \in Members : Pairs[x] = Contents[x]
  BY <1>2, PairsIdle DEF ListInv
<1>4. Contents' = [Contents EXCEPT ![m] = NoValue]
  <2>1. CASE Rem(m)
    BY <1>1, <2>1, DelInv DEF Rem
  <2>2. CASE RemoveLast(m)
    BY <2>2, RemoveLastInv
  <2> QED
    BY <2>1, <2>2
<1>5. Contents'[m] = NoValue /\ \A x \in Members : x # m => Contents'[x] = Contents[x]
  <2>1. DOMAIN Contents = Members
    BY KeysAreMembers DEF Contents
  <2> QED
    BY <1>4, <2>1
<1>6. \A x \in Members : Pairs'[x] = Contents'[x]
  BY <1>2 DEF Pairs
<1>7. IsList(zsl', Pairs')
  <2>1. CASE Rem(m)
    <3>1. zsl' = deleteNode(zsl, Lookup(buckets, m), m) /\ Lookup(buckets, m) # NoValue
      BY <2>1 DEF Rem
    <3>2. Lookup(buckets, m) = Pairs[m]
      BY <1>3, ContentsType
    <3>3. Pairs'[m] = NoValue /\ \A x \in Members : x # m => Pairs'[x] = Pairs[x]
      BY <1>3, <1>5, <1>6
    <3>4. zsl' = deleteNode(zsl, Pairs[m], m) /\ Pairs[m] # NoValue
      BY <3>1, <3>2
    <3>5. IsList(deleteNode(zsl, Pairs[m], m), Pairs')
      BY <1>3, <3>3, <3>4, ListDelete
    <3> QED
      BY <3>4, <3>5
  <2>2. CASE RemoveLast(m)
    <3>1. zsl' = EmptyList /\ buckets' = EmptyBuckets(InitCapacity)
      BY <2>2 DEF RemoveLast
    <3>2. /\ InitCapacity \in Nat /\ InitCapacity # 0
      BY CapacityAssumption
    <3>3. /\ Table(buckets') /\ Reachable(buckets') /\ Capacity(buckets') = InitCapacity
          /\ InState(buckets', "active") = {}
      BY <3>1, <3>2, EmptyIs
    <3>4. \A x \in Keys : Lookup(buckets', x) = NoValue
      BY <3>2, <3>3, LookupIs
    <3>5. \A x \in Members : Pairs'[x] = NoValue
      BY <1>6, <3>4, KeysAreMembers DEF Contents
    <3> QED
      BY <3>1, <3>5, ListEmpty
  <2> QED
    BY <2>1, <2>2
<1> QED
  BY <1>2, <1>3, <1>7 DEF ListInv

\* A rehash, and a step that changes nothing.
LEMMA StillKeeps ==
  ASSUME TableInv, ListInv, Rehash \/ UNCHANGED vars
  PROVE  ListInv'
<1>1. Contents' = Contents /\ call' = call /\ zsl' = zsl /\ adding' = adding
  <2>1. CASE Rehash
    <3>1. Contents' = Contents
      BY <2>1, RehashStepInv, RehashDoneInv DEF Rehash
    <3> QED
      BY <2>1, <3>1 DEF Rehash, RehashStep, RehashDone
  <2>2. CASE UNCHANGED vars
    <3>1. UNCHANGED tableVars
      BY <2>2 DEF vars
    <3> QED
      BY <2>2, <3>1, TableInvKept DEF vars, tableVars
  <2> QED
    BY <2>1, <2>2
<1>2. Pairs' = Pairs
  BY <1>1 DEF Pairs
<1> QED
  BY <1>1, <1>2 DEF ListInv

\* Every step of the sorted set keeps the list in step with the table.
LEMMA ListStep ==
  ASSUME TableInv, ListInv, [Next]_vars
  PROVE  ListInv'
<1>1. CASE \E m \in Members, score \in Values : Add(m, score)
  BY <1>1, AddKeeps
<1>2. CASE Rehash \/ UNCHANGED vars
  BY <1>2, StillKeeps
<1>3. CASE AddEnd
  BY <1>3, AddEndKeeps
<1>4. CASE \E m \in Members : Rem(m) \/ RemoveLast(m)
  BY <1>4, RemKeeps
<1> QED
  BY <1>1, <1>2, <1>3, <1>4 DEF Next

\* The inductive invariant of the sorted set: that of its table, and the list beside it.
THEOREM ListInvariance == Spec => [](TableInv /\ ListInv)
<1>1. Init => TableInv /\ ListInv
  BY TableInitInv, ListInit DEF Init
<1>2. TableInv /\ ListInv /\ [Next]_vars => TableInv' /\ ListInv'
  BY SetStep, ListStep
<1> QED
  BY <1>1, <1>2, PTL DEF Spec

-----------------------------------------------------------------------------
(* The order of the table.                                                 *)

\* The variables have the types of the members they model.
LEMMA TypesFollow == TableInv /\ ListInv => TypeOK
<1> SUFFICES ASSUME TableInv, ListInv PROVE TypeOK
  OBVIOUS
<1>1. /\ Table(buckets) /\ size \in Nat /\ tombstoneCount \in Nat
      /\ call = Idle \/ call \in [key : Keys, value : Values]
      /\ newSize \in Nat /\ cursor \in 0 .. Capacity(buckets)
  BY DEF TableInv, TableTypes
<1>2. DOMAIN buckets \subseteq Nat /\ \A i \in DOMAIN buckets : buckets[i] \in Buckets
  BY <1>1 DEF Table
<1>3. adding \in BOOLEAN /\ (adding => call # Idle) /\ \E n \in Nat : \E A : Chain(zsl, A, n)
  BY DEF ListInv, IsList
<1>4. Shape(zsl)
  BY <1>3, ChainParts
<1> QED
  BY <1>1, <1>2, <1>3, <1>4 DEF TypeOK, Shape

\* Between calls, the positions of the list are those of the members of the table.
LEMMA PresentIs ==
  ASSUME TableInv, ListInv, call = Idle, NEW A, NEW n, Chain(zsl, A, n)
  PROVE  /\ \A p \in 1 .. n : A[p] \in Present /\ A[p] \in Members /\ A[p] \in Int
                              /\ zsl.score[A[p]] = Contents[A[p]] /\ Contents[A[p]] \in Int
         /\ \A m \in Present : \E p \in 1 .. n : A[p] = m
<1>1. Shape(zsl) /\ Positions(zsl, A, n) /\ n \in Nat
  BY ChainParts
<1>2. \A m \in Members : Pairs[m] = Contents[m] /\ Contents[m] \in Values \cup {NoValue}
  BY PairsIdle, ContentsType
<1>3. \A m \in Members : /\ Contents[m] = NoValue <=> zsl.height[m] = 0
                         /\ Contents[m] # NoValue => zsl.score[m] = Contents[m]
  BY <1>2 DEF ListInv, IsList
<1>4. \A m \in Members : zsl.height[m] \in 0 .. MaxLevel /\ m \in Int
  BY <1>1, ConstantFacts DEF Shape
<1>5. ASSUME NEW p \in 1 .. n
      PROVE  A[p] \in Present /\ A[p] \in Members /\ A[p] \in Int
             /\ zsl.score[A[p]] = Contents[A[p]] /\ Contents[A[p]] \in Int
  <2>1. A[p] \in Members /\ zsl.height[A[p]] >= 1
    BY <1>1 DEF Positions
  <2>2. zsl.height[A[p]] # 0
    BY <1>4, <2>1
  <2>3. Contents[A[p]] # NoValue
    BY <1>3, <2>1, <2>2
  <2> QED
    BY <1>2, <1>3, <1>4, <2>1, <2>3, ScoresAssumption DEF Present
<1>6. ASSUME NEW m \in Present PROVE \E p \in 1 .. n : A[p] = m
  <2>1. m \in Members /\ Contents[m] # NoValue
    BY DEF Present
  <2>2. zsl.height[m] >= 1
    BY <1>3, <1>4, <2>1
  <2> QED
    BY <1>1, <2>1, <2>2 DEF Positions
<1> QED
  BY <1>5, <1>6

\* The table and the list hold as many members.
LEMMA PresentCount ==
  ASSUME TableInv, ListInv, call = Idle, NEW A, NEW n, Chain(zsl, A, n)
  PROVE  Cardinality(Present) = n /\ size = n
<1>1. Shape(zsl) /\ Positions(zsl, A, n) /\ Sorted(zsl, A, n) /\ n \in Nat
  BY ChainParts
<1>2. Cardinality(Present) = n
  <2> DEFINE f == [p \in 1 .. n |-> A[p]]
  <2>1. f \in [1 .. n -> Present] /\ \A m \in Present : \E p \in 1 .. n : f[p] = m
    BY PresentIs
  <2>2. ASSUME NEW p \in 1 .. n, NEW q \in 1 .. n, f[p] = f[q] PROVE p = q
    <3>1. p \in 0 .. n /\ q \in 0 .. n /\ A[p] = A[q]
      BY <1>1, <2>2
    <3> QED
      BY <1>1, <3>1, OnePosition
  <2> HIDE DEF f
  <2>3. f \in Bijection(1 .. n, Present)
    BY <2>1, <2>2 DEF Bijection, Injection, Surjection, IsInjective
  <2>4. ExistsBijection(1 .. n, Present)
    BY <2>3 DEF ExistsBijection
  <2> QED
    BY <1>1, <2>4, FS_CountingElements
<1>3. size = Cardinality(Present)
  <2> DEFINE S == InState(buckets, "active")
             f == [i \in S |-> buckets[i].key]
  <2>1. Table(buckets) /\ Reachable(buckets) /\ Capacity(buckets) # 0 /\ size = Cardinality(S)
    BY DEF TableInv, TableTypes, CountersHold
  <2>2. IsFiniteSet(S)
    BY <2>1, Counted
  <2>3. ASSUME NEW i \in S
        PROVE  /\ f[i] \in Present
               /\ Probe(buckets, f[i], First(Stops(buckets, f[i]))) = i
    <3>1. /\ Probe(buckets, buckets[i].key, First(Stops(buckets, buckets[i].key))) = i
          /\ Lookup(buckets, buckets[i].key) \in Values /\ buckets[i].key \in Keys
      BY <2>1, LookupHit
    <3>2. f[i] = buckets[i].key
      OBVIOUS
    <3> QED
      BY <3>1, <3>2, KeysAreMembers, NoValueAssumption DEF Present, Contents
  <2>4. ASSUME NEW m \in Present PROVE \E i \in S : f[i] = m
    <3>1. m \in Keys /\ Lookup(buckets, m) # NoValue
      BY KeysAreMembers DEF Present, Contents
    <3> QED
      BY <2>1, <3>1, LookupIs
  <2>5. f \in [S -> Present] /\ \A i, j \in S : f[i] = f[j] => i = j
    <3>1. f = [i \in S |-> f[i]]
      OBVIOUS
    <3> HIDE DEF f, S
    <3> QED
      BY <2>3, <3>1
  <2> HIDE DEF f, S
  <2>6. f \in Bijection(S, Present)
    BY <2>4, <2>5 DEF Bijection, Injection, Surjection, IsInjective
  <2>7. ExistsBijection(S, Present)
    BY <2>6 DEF ExistsBijection
  <2> QED
    BY <2>1, <2>2, <2>7, FS_Bijection
<1> QED
  BY <1>2, <1>3

\* The sequences that list the members of the table in order.
Orders(s, n) ==
  /\ s \in [1 .. n -> Present]
  /\ \A m \in Present : \E p \in 1 .. n : s[p] = m
  /\ \A p, q \in 1 .. n : p < q => Precedes(s[p], s[q])

\* There is one of them.
LEMMA OrdersAgree ==
  ASSUME NEW n \in Nat, NEW s, NEW t, Orders(s, n), Orders(t, n),
         \A m \in Present : m \in Int /\ Contents[m] \in Int
  PROVE  s = t
<1> DEFINE Bad == {p \in 1 .. n : s[p] # t[p]}
<1>1. /\ s \in [1 .. n -> Present] /\ \A m \in Present : \E p \in 1 .. n : s[p] = m
      /\ \A p, q \in 1 .. n : p < q => Precedes(s[p], s[q])
      /\ t \in [1 .. n -> Present] /\ \A m \in Present : \E p \in 1 .. n : t[p] = m
      /\ \A p, q \in 1 .. n : p < q => Precedes(t[p], t[q])
  BY DEF Orders
<1>2. \A a, b \in Present : ~(Precedes(a, b) /\ Precedes(b, a)) /\ ~Precedes(a, a)
  BY DEF Precedes
<1>3. ASSUME Bad # {} PROVE FALSE
  <2>1. PICK p \in Bad : \A e \in Bad : p <= e
    <3>1. Bad \subseteq 1 .. n
      OBVIOUS
    <3> HIDE DEF Bad
    <3>2. Bad \in SUBSET Nat
      BY <3>1
    <3> QED
      BY <1>3, <3>2, LeastElement
  <2>2. p \in 1 .. n /\ s[p] # t[p]
    OBVIOUS
  <2>3. \A e \in 1 .. n : e < p => s[e] = t[e]
    <3>1. ASSUME NEW e \in 1 .. n, e < p PROVE e \notin Bad
      <4> HIDE DEF Bad
      <4> QED
        BY <2>1, <2>2, <3>1
    <3> QED
      BY <3>1
  <2> HIDE DEF Bad
  <2>4. PICK a \in 1 .. n : t[a] = s[p]
    BY <1>1, <2>2
  <2>5. PICK b \in 1 .. n : s[b] = t[p]
    BY <1>1, <2>2
  <2>6. s[p] \in Present /\ t[p] \in Present
    BY <1>1, <2>2
  <2>7. a > p
    <3>1. ~(a = p)
      BY <2>2, <2>4
    <3>2. ~(a < p)
      <4> SUFFICES ASSUME a < p PROVE FALSE
        OBVIOUS
      <4>1. s[a] = s[p] /\ Precedes(s[a], s[p])
        BY <1>1, <2>2, <2>3, <2>4
      <4> QED
        BY <1>2, <2>6, <4>1
    <3> QED
      BY <2>2, <3>1, <3>2
  <2>8. b > p
    <3>1. ~(b = p)
      BY <2>2, <2>5
    <3>2. ~(b < p)
      <4> SUFFICES ASSUME b < p PROVE FALSE
        OBVIOUS
      <4>1. t[b] = t[p] /\ Precedes(t[b], t[p])
        BY <1>1, <2>2, <2>3, <2>5
      <4> QED
        BY <1>2, <2>6, <4>1
    <3> QED
      BY <2>2, <3>1, <3>2
  <2>9. Precedes(t[p], t[a]) /\ Precedes(s[p], s[b])
    BY <1>1, <2>2, <2>7, <2>8
  <2> QED
    BY <1>2, <2>4, <2>5, <2>6, <2>9
<1>4. \A p \in 1 .. n : s[p] = t[p]
  BY <1>3
<1> QED
  BY <1>1, <1>4

\* Between calls the list has the order that the table promises.
LEMMA OrderIs ==
  ASSUME TableInv, ListInv, call = Idle, NEW A, NEW n, Chain(zsl, A, n)
  PROVE  InOrder \in [1 .. n -> Present] /\ Len(InOrder) = n /\ \A p \in 1 .. n : InOrder[p] = A[p]
<1> DEFINE s == [p \in 1 .. n |-> A[p]]
<1>1. Sorted(zsl, A, n) /\ n \in Nat /\ Cardinality(Present) = n
  BY ChainParts, PresentCount
<1>2. /\ \A p \in 1 .. n : A[p] \in Present /\ A[p] \in Members /\ A[p] \in Int
                           /\ zsl.score[A[p]] = Contents[A[p]] /\ Contents[A[p]] \in Int
      /\ \A m \in Present : \E p \in 1 .. n : A[p] = m
  BY PresentIs
<1>3. Orders(s, n)
  <2>1. ASSUME NEW p \in 1 .. n, NEW q \in 1 .. n, p < q PROVE Precedes(s[p], s[q])
    <3>1. Before(zsl, A[p], zsl.score[A[q]], A[q])
      BY <1>1, <2>1 DEF Sorted
    <3> QED
      BY <1>2, <3>1 DEF Before, Precedes
  <2> QED
    BY <1>2, <2>1 DEF Orders
<1>4. \A m \in Present : m \in Int /\ Contents[m] \in Int
  BY <1>2
<1> HIDE DEF s
<1>5. InOrder = CHOOSE x \in [1 .. n -> Present] : Orders(x, n)
  BY <1>1 DEF InOrder, Orders
<1>6. Orders(InOrder, n)
  <2>1. s \in [1 .. n -> Present]
    BY <1>3 DEF Orders
  <2> QED
    BY <1>3, <1>5, <2>1
<1>7. InOrder = s
  BY <1>1, <1>3, <1>4, <1>6, OrdersAgree
<1>8. InOrder \in [1 .. n -> Present]
  BY <1>6 DEF Orders
<1>9. Len(InOrder) = n
  BY <1>1, <1>8
<1> QED
  BY <1>7, <1>8, <1>9 DEF s

\* The least and the greatest of a set of numbers.
LEMMA ExtremesAre ==
  ASSUME NEW S \in SUBSET Int, NEW x \in S
  PROVE  /\ (\A y \in S : x <= y) => Min(S) = x
         /\ (\A y \in S : y <= x) => Max(S) = x
<1>1. ASSUME \A y \in S : x <= y PROVE Min(S) = x
  <2>1. Min(S) \in S /\ \A y \in S : Min(S) <= y
    BY <1>1 DEF Min
  <2>2. Min(S) <= x /\ x <= Min(S) /\ Min(S) \in Int
    BY <1>1, <2>1
  <2> QED
    BY <2>2
<1>2. ASSUME \A y \in S : y <= x PROVE Max(S) = x
  <2>1. Max(S) \in S /\ \A y \in S : Max(S) >= y
    BY <1>2 DEF Max
  <2>2. Max(S) >= x /\ Max(S) <= x /\ Max(S) \in Int
    BY <1>2, <2>1
  <2> QED
    BY <2>2
<1> QED
  BY <1>1, <1>2

\* The positions after p that have level i.
Later(l, A, n, p, i) == {r \in p + 1 .. n : l.height[A[r]] >= i}

\* The pointer of a node on a level leads to the first of them.
LEMMA ForwardIs ==
  ASSUME NEW l, NEW A, NEW n, Chain(l, A, n), NEW p \in 0 .. n, NEW i \in Levels,
         l.height[A[p]] >= i, NEW S, S = Later(l, A, n, p, i)
  PROVE  /\ S = {} => l.forward[A[p]][i] = Nil
         /\ S # {} => Min(S) \in S /\ l.forward[A[p]][i] = A[Min(S)]
<1>1. Shape(l) /\ Positions(l, A, n) /\ n \in Nat /\ i \in Int
  BY ChainParts DEF Levels
<1>2. PICK q \in p + 1 .. n + 1 : Link(l, A, n, i, p, q)
  BY HasSucc
<1>3. l.forward[A[p]][i] = A[q] /\ Succ(l, A, n, i, p, q)
  BY <1>2 DEF Link
<1>4. \A r \in p + 1 .. n : l.height[A[r]] \in Int
  <2>1. \A r \in p + 1 .. n : r \in 0 .. n
    BY <1>1
  <2>2. \A r \in 0 .. n : l.height[A[r]] \in 1 .. MaxLevel
    BY <1>1, NodeAt
  <2> QED
    BY <2>1, <2>2
<1>5. ASSUME NEW r \in S PROVE r \in p + 1 .. n /\ q <= r
  <2>1. r \in p + 1 .. n /\ l.height[A[r]] >= i
    BY DEF Later
  <2>2. ~(r < q)
    <3> SUFFICES ASSUME r < q PROVE FALSE
      OBVIOUS
    <3>1. r \in p + 1 .. q - 1
      BY <1>1, <2>1
    <3>2. l.height[A[r]] < i
      BY <1>3, <3>1 DEF Succ
    <3> QED
      BY <1>1, <1>4, <2>1, <3>2
  <2> QED
    BY <1>1, <2>1, <2>2
<1>6. CASE q = n + 1
  <2>1. S = {}
    BY <1>1, <1>5, <1>6
  <2>2. A[q] = Nil
    BY <1>1, <1>6 DEF Positions
  <2> QED
    BY <1>3, <2>1, <2>2
<1>7. CASE q # n + 1
  <2>1. q \in p + 1 .. n /\ q <= n
    BY <1>1, <1>7
  <2>2. l.height[A[q]] >= i
    BY <1>3, <2>1 DEF Succ
  <2>3. q \in S
    BY <2>1, <2>2 DEF Later
  <2>4. S \in SUBSET Int
    BY <1>1, <1>5
  <2>5. Min(S) = q
    BY <1>5, <2>3, <2>4, ExtremesAre
  <2> QED
    BY <1>3, <2>3, <2>5
<1> QED
  BY <1>6, <1>7

\* What the invariant says of the pointers, for the order of the table.
LEMMA ListFollows == TableInv /\ ListInv => ListMatchesTable
<1> SUFFICES ASSUME TableInv, ListInv, call = Idle PROVE ListMatchesTable
  BY DEF ListMatchesTable
<1>1. PICK n \in Nat : \E B : Chain(zsl, B, n)
  BY DEF ListInv, IsList
<1>2. PICK A : Chain(zsl, A, n)
  BY <1>1
<1>3. Shape(zsl) /\ Positions(zsl, A, n) /\ Back(zsl, A, n) /\ zsl.level \in 1 .. MaxLevel
  BY <1>2, ChainParts
<1>4. Len(InOrder) = n /\ \A p \in 1 .. n : InOrder[p] = A[p]
  BY <1>2, OrderIs
<1>5. size = n
  BY <1>2, PresentCount
<1>6. /\ \A p \in 1 .. n : A[p] \in Present /\ A[p] \in Members /\ A[p] \in Int
                           /\ zsl.score[A[p]] = Contents[A[p]] /\ Contents[A[p]] \in Int
      /\ \A m \in Present : \E p \in 1 .. n : A[p] = m
  BY <1>2, PresentIs
<1> DEFINE order == InOrder
           at(p) == IF p = 0 THEN Head_ ELSE order[p]
<1>7. \A p \in 0 .. n : at(p) = A[p]
  BY <1>3, <1>4 DEF Positions
<1>8. zsl.tail = IF n = 0 THEN Nil ELSE order[n]
  <2>1. n # 0 => n \in 1 .. n
    OBVIOUS
  <2> QED
    BY <1>3, <1>4, <2>1 DEF Back
<1>9. ASSUME NEW p \in 1 .. n
      PROVE  zsl.score[order[p]] = Contents[order[p]]
             /\ zsl.backward[order[p]] = IF p = 1 THEN Nil ELSE order[p - 1]
  <2>1. order[p] = A[p] /\ (p # 1 => order[p - 1] = A[p - 1])
    BY <1>4
  <2>2. zsl.backward[A[p]] = IF p = 1 THEN Nil ELSE A[p - 1]
    BY <1>3 DEF Back
  <2> QED
    BY <1>6, <2>1, <2>2
<1>10. ASSUME NEW p \in 0 .. n, NEW i \in 1 .. zsl.level, zsl.height[at(p)] >= i
       PROVE  LET later == {q \in p + 1 .. n : zsl.height[order[q]] >= i}
              IN  zsl.forward[at(p)][i] = IF later = {} THEN Nil ELSE order[Min(later)]
  <2> DEFINE later == {q \in p + 1 .. n : zsl.height[order[q]] >= i}
             S == Later(zsl, A, n, p, i)
  <2>1. at(p) = A[p] /\ i \in Levels
    BY <1>3, <1>7, ConstantFacts DEF Levels
  <2>2. later = S
    <3>1. \A q \in p + 1 .. n : q \in 1 .. n
      OBVIOUS
    <3>2. \A q \in p + 1 .. n : order[q] = A[q]
      BY <1>4, <3>1
    <3> HIDE DEF order
    <3> QED
      BY <3>2 DEF Later
  <2>3. \A q \in S : q \in 1 .. n
    BY DEF Later
  <2>4. /\ S = {} => zsl.forward[A[p]][i] = Nil
        /\ S # {} => Min(S) \in S /\ zsl.forward[A[p]][i] = A[Min(S)]
    <3>1. zsl.height[A[p]] >= i
      BY <1>10, <2>1
    <3> HIDE DEF S
    <3>2. S = Later(zsl, A, n, p, i)
      BY DEF S
    <3> QED
      BY <1>2, <2>1, <3>1, <3>2, ForwardIs
  <2> HIDE DEF S, later, at
  <2>5. zsl.forward[at(p)][i] = IF later = {} THEN Nil ELSE order[Min(later)]
    BY <1>4, <2>1, <2>2, <2>3, <2>4
  <2> QED
    BY <2>5 DEF later
<1>11. zsl.length = n
  BY <1>3 DEF Back
<1> DEFINE Says(x) ==
             /\ zsl.length = x /\ size = x
             /\ zsl.tail = IF x = 0 THEN Nil ELSE order[x]
             /\ \A p \in 1 .. x : zsl.score[order[p]] = Contents[order[p]]
                                  /\ zsl.backward[order[p]] = IF p = 1 THEN Nil ELSE order[p - 1]
             /\ \A p \in 0 .. x, i \in 1 .. zsl.level : zsl.height[at(p)] >= i =>
                  LET later == {q \in p + 1 .. x : zsl.height[order[q]] >= i}
                  IN  zsl.forward[at(p)][i] = IF later = {} THEN Nil ELSE order[Min(later)]
<1>12. Says(n)
  <2> HIDE DEF order, at
  <2> QED
    BY <1>5, <1>8, <1>9, <1>10, <1>11, Zenon
<1>13. Says(Len(order))
  <2> HIDE DEF Says
  <2> QED
    BY <1>4, <1>12
<1> QED
  BY <1>13 DEF ListMatchesTable

-----------------------------------------------------------------------------
(* Queries.                                                                *)

\* Where a search that passes the first c positions leaves the levels: at positions up to c, on
\* the bottom level at c, with the position as the rank.
LEMMA LeavesAt ==
  ASSUME NEW l, NEW A, NEW n, Chain(l, A, n), NEW Pass, NEW c \in 0 .. n, Cut(A, n, Pass, c),
         NEW found, found = Search(l, Pass)
  PROVE  /\ DOMAIN found = 1 .. l.level /\ l.level \in Nat /\ 1 \in 1 .. l.level
         /\ \A i \in 1 .. l.level :
              \E b \in 0 .. c : found[i].node = A[b] /\ found[i].rank = b
         /\ found[1].node = A[c] /\ found[1].rank = c
<1>1. l.level \in 1 .. MaxLevel /\ MaxLevel \in Nat
  BY ChainParts, ConstantFacts
<1>2. l.level \in Nat /\ 1 \in 1 .. l.level /\ \A i \in 1 .. l.level : i \in Levels /\ i <= l.level
  BY <1>1 DEF Levels
<1>3. found = [i \in 1 .. l.level |-> Place(A, LastAt(l, A, c, i))]
  BY SearchIs
<1>4. PICK P \in [Levels -> 0 .. c] :
           /\ \A i \in Levels : IsLast(l, A, c, i, P[i])
           /\ P[1] = c
           /\ \A i \in Levels : (IF i <= l.level THEN Search(l, Pass)[i] ELSE Start) = Place(A, P[i])
           /\ \A i \in Levels : i > l.level => P[i] = 0
  BY FoundIs
<1>5. \A i \in 1 .. l.level : found[i] = Place(A, P[i]) /\ P[i] \in 0 .. c
  BY <1>2, <1>4
<1>6. \A b : Place(A, b).node = A[b] /\ Place(A, b).rank = b
  BY DEF Place
<1>7. DOMAIN found = 1 .. l.level
  BY <1>3
<1>8. \A i \in 1 .. l.level : \E b \in 0 .. c : found[i].node = A[b] /\ found[i].rank = b
  BY <1>5, <1>6
<1>9. found[1].node = A[c] /\ found[1].rank = c
  BY <1>2, <1>4, <1>5, <1>6
<1> QED
  BY <1>2, <1>7, <1>8, <1>9

\* getRank of a member is its position.
LEMMA RankIs ==
  ASSUME NEW l, NEW A, NEW n, Chain(l, A, n), NEW p \in 1 .. n
  PROVE  getRank(l, l.score[A[p]], A[p]) = p
<1> DEFINE m == A[p]
           score == l.score[m]
           Pass == Passed(l, score, m + 1)
           found == Search(l, Pass)
           hits == {i \in DOMAIN found : found[i].node = m}
<1>1. Shape(l) /\ Positions(l, A, n) /\ Sorted(l, A, n) /\ n \in Nat
  BY ChainParts
<1>2. \A q \in 1 .. n : q \in 0 .. n /\ A[q] \in Int /\ l.score[A[q]] \in Int
  <2>1. \A q \in 1 .. n : q \in 0 .. n
    BY <1>1
  <2>2. \A q \in 0 .. n : A[q] \in Nodes /\ A[q] \in Nat
    BY <1>1, NodeAt
  <2> QED
    BY <1>1, <2>1, <2>2 DEF Shape
<1>3. PICK c \in 0 .. n : /\ \A q \in 1 .. n : Before(l, A[q], score, m + 1) <=> q <= c
                          /\ Cut(A, n, Pass, c)
  <2>1. score \in Int /\ m + 1 \in Int
    BY <1>2
  <2> HIDE DEF score, m
  <2> QED
    BY <2>1, PositionCut
<1>4. c = p
  <2>1. p <= c
    <3>1. Before(l, A[p], score, m + 1)
      BY <1>2 DEF Before
    <3> QED
      BY <1>3, <3>1
  <2>2. ~(p < c)
    <3> SUFFICES ASSUME p < c PROVE FALSE
      OBVIOUS
    <3>1. c \in 1 .. n /\ Before(l, A[c], score, m + 1)
      BY <1>1, <1>3
    <3>2. Before(l, A[p], l.score[A[c]], A[c])
      BY <1>1, <3>1 DEF Sorted
    <3> QED
      BY <1>2, <3>1, <3>2 DEF Before
  <2> QED
    BY <1>1, <2>1, <2>2
<1>5. getRank(l, score, m) = IF hits = {} THEN 0 ELSE found[Max(hits)].rank
  BY DEF getRank, Passed
<1> HIDE DEF score, Pass
<1>6. /\ DOMAIN found = 1 .. l.level /\ l.level \in Nat /\ 1 \in 1 .. l.level
      /\ \A i \in 1 .. l.level :
           \E b \in 0 .. c : found[i].node = A[b] /\ found[i].rank = b
      /\ found[1].node = A[c] /\ found[1].rank = c
  <2> HIDE DEF found
  <2>1. found = Search(l, Pass)
    BY DEF found
  <2> QED
    BY <1>3, <2>1, LeavesAt
<1> HIDE DEF found
<1>7. hits \subseteq 1 .. l.level /\ 1 \in hits
  BY <1>4, <1>6
<1>8. Max(hits) \in hits
  <2> HIDE DEF hits
  <2> QED
    BY <1>6, <1>7, MaxIs
<1>9. PICK j \in 1 .. l.level : j = Max(hits) /\ found[j].node = m
  BY <1>6, <1>8
<1>10. PICK b \in 0 .. c : found[j].node = A[b] /\ found[j].rank = b
  BY <1>6
<1>11. b = p
  <2>1. b \in 0 .. n /\ p \in 0 .. n /\ A[b] = A[p]
    BY <1>1, <1>4, <1>9, <1>10
  <2> QED
    BY <1>1, <2>1, OnePosition
<1>12. getRank(l, score, m) = p
  BY <1>5, <1>7, <1>9, <1>10, <1>11
<1> QED
  BY <1>12 DEF score

\* The places of rank r and lower.
UpTo(r) == {p \in Places : p.rank <= r}

\* getElementByRank finds the node of a position.
LEMMA ElementIs ==
  ASSUME NEW l, NEW A, NEW n, Chain(l, A, n), NEW r \in 1 .. n
  PROVE  getElementByRank(l, r) = A[r]
<1> DEFINE found == Search(l, UpTo(r))
           hits == {i \in DOMAIN found : found[i].rank = r}
<1>1. Shape(l) /\ Positions(l, A, n) /\ n \in Nat /\ r \in 0 .. n
  BY ChainParts
<1>2. Cut(A, n, UpTo(r), r)
  <2>1. ASSUME NEW q \in 1 .. n PROVE Place(A, q) \in UpTo(r) <=> q <= r
    <3>1. q \in 0 .. n
      BY <1>1
    <3>2. Place(A, q) \in Places /\ Place(A, q).rank = q
      BY <1>1, <3>1, NodeAt DEF Place
    <3> QED
      BY <3>2 DEF UpTo
  <2> QED
    BY <2>1 DEF Cut
<1>3. getElementByRank(l, r) = IF hits = {} THEN Nil ELSE found[Max(hits)].node
  BY DEF getElementByRank, UpTo
<1>4. /\ DOMAIN found = 1 .. l.level /\ l.level \in Nat /\ 1 \in 1 .. l.level
      /\ \A i \in 1 .. l.level :
           \E b \in 0 .. r : found[i].node = A[b] /\ found[i].rank = b
      /\ found[1].node = A[r] /\ found[1].rank = r
  <2> HIDE DEF found
  <2>1. found = Search(l, UpTo(r))
    BY DEF found
  <2> QED
    BY <1>1, <1>2, <2>1, LeavesAt
<1> HIDE DEF found
<1>5. hits \subseteq 1 .. l.level /\ 1 \in hits
  BY <1>4
<1>6. Max(hits) \in hits
  <2> HIDE DEF hits
  <2> QED
    BY <1>4, <1>5, MaxIs
<1>7. PICK j \in 1 .. l.level : j = Max(hits) /\ found[j].rank = r
  BY <1>4, <1>6
<1>8. PICK b \in 0 .. r : found[j].node = A[b] /\ found[j].rank = b
  BY <1>4
<1> QED
  BY <1>3, <1>5, <1>7, <1>8

\* The scores rise with the positions.
LEMMA ScoresRise ==
  ASSUME NEW l, NEW A, NEW n, Chain(l, A, n), NEW p \in 1 .. n, NEW q \in 1 .. n
  PROVE  /\ l.score[A[p]] \in Int /\ l.score[A[q]] \in Int
         /\ p <= q => l.score[A[p]] <= l.score[A[q]]
<1>1. Shape(l) /\ Positions(l, A, n) /\ Sorted(l, A, n) /\ n \in Nat
  BY ChainParts
<1>2. p \in 0 .. n /\ q \in 0 .. n
  BY <1>1
<1>3. A[p] \in Nodes /\ A[q] \in Nodes
  BY <1>1, <1>2, NodeAt
<1>4. l.score[A[p]] \in Int /\ l.score[A[q]] \in Int
  BY <1>1, <1>3 DEF Shape
<1>5. p < q => Before(l, A[p], l.score[A[q]], A[q])
  BY <1>1 DEF Sorted
<1> QED
  BY <1>4, <1>5 DEF Before

\* The places of scores below a bound, and up to one.
Below(l, min) == {p \in Places : l.score[p.node] < min}
AtMost(l, max) == {p \in Places : l.score[p.node] <= max}

\* The searches by score pass the first positions.
LEMMA ScoreCut ==
  ASSUME NEW l, NEW A, NEW n, Chain(l, A, n), NEW v \in Int
  PROVE  /\ \E c \in 0 .. n : /\ \A p \in 1 .. n : l.score[A[p]] < v <=> p <= c
                              /\ Cut(A, n, Below(l, v), c)
         /\ \E c \in 0 .. n : /\ \A p \in 1 .. n : l.score[A[p]] <= v <=> p <= c
                              /\ Cut(A, n, AtMost(l, v), c)
<1>1. Shape(l) /\ Positions(l, A, n) /\ n \in Nat
  BY ChainParts
<1>2. \A p \in 1 .. n : Place(A, p) \in Places /\ Place(A, p).node = A[p]
  <2>1. \A p \in 1 .. n : p \in 0 .. n
    BY <1>1
  <2>2. \A p \in 0 .. n : Place(A, p) \in Places
    BY <1>1, NodeAt
  <2> QED
    BY <2>1, <2>2 DEF Place
<1>3. \A p, q \in 1 .. n : /\ l.score[A[p]] \in Int /\ l.score[A[q]] \in Int
                           /\ p <= q => l.score[A[p]] <= l.score[A[q]]
  BY ScoresRise
<1>4. \E c \in 0 .. n : /\ \A p \in 1 .. n : l.score[A[p]] < v <=> p <= c
                        /\ Cut(A, n, Below(l, v), c)
  <2> DEFINE S == {p \in 1 .. n : l.score[A[p]] < v}
  <2>1. S \in SUBSET (1 .. n) /\ \A p \in S : \A q \in 1 .. n : q < p => q \in S
    BY <1>3
  <2>2. PICK c \in 0 .. n : \A p \in 1 .. n : p \in S <=> p <= c
    <3> HIDE DEF S
    <3> QED
      BY <1>1, <2>1, Threshold
  <2>3. \A p \in 1 .. n : l.score[A[p]] < v <=> p <= c
    BY <2>2
  <2>4. \A p \in 1 .. n : Place(A, p) \in Below(l, v) <=> p <= c
    BY <1>2, <2>3 DEF Below
  <2>5. Cut(A, n, Below(l, v), c)
    BY <2>4 DEF Cut
  <2> QED
    BY <2>3, <2>5
<1>5. \E c \in 0 .. n : /\ \A p \in 1 .. n : l.score[A[p]] <= v <=> p <= c
                        /\ Cut(A, n, AtMost(l, v), c)
  <2> DEFINE S == {p \in 1 .. n : l.score[A[p]] <= v}
  <2>1. S \in SUBSET (1 .. n) /\ \A p \in S : \A q \in 1 .. n : q < p => q \in S
    BY <1>3
  <2>2. PICK c \in 0 .. n : \A p \in 1 .. n : p \in S <=> p <= c
    <3> HIDE DEF S
    <3> QED
      BY <1>1, <2>1, Threshold
  <2>3. \A p \in 1 .. n : l.score[A[p]] <= v <=> p <= c
    BY <2>2
  <2>4. \A p \in 1 .. n : Place(A, p) \in AtMost(l, v) <=> p <= c
    BY <1>2, <2>3 DEF AtMost
  <2>5. Cut(A, n, AtMost(l, v), c)
    BY <2>4 DEF Cut
  <2> QED
    BY <2>3, <2>5
<1> QED
  BY <1>4, <1>5

\* The positions whose scores are in a range.
InRange(l, A, n, min, max) == {p \in 1 .. n : l.score[A[p]] >= min /\ l.score[A[p]] <= max}

\* getFirstInRange finds the first of them.
LEMMA FirstInRangeIs ==
  ASSUME NEW l, NEW A, NEW n, Chain(l, A, n), NEW min \in Int, NEW max \in Int,
         NEW S, S = InRange(l, A, n, min, max)
  PROVE  /\ S \subseteq 1 .. n
         /\ S = {} => getFirstInRange(l, min, max) = Nil
         /\ S # {} => Min(S) \in S /\ getFirstInRange(l, min, max) = A[Min(S)]
<1>1. Shape(l) /\ Positions(l, A, n) /\ n \in Nat /\ A[n + 1] = Nil
  BY ChainParts DEF Positions
<1>2. \A p, q \in 1 .. n : /\ l.score[A[p]] \in Int /\ l.score[A[q]] \in Int
                           /\ p <= q => l.score[A[p]] <= l.score[A[q]]
  BY ScoresRise
<1>3. PICK c \in 0 .. n : /\ \A p \in 1 .. n : l.score[A[p]] < min <=> p <= c
                          /\ Cut(A, n, Below(l, min), c)
  BY ScoreCut
<1> DEFINE found == Search(l, Below(l, min))
           x == l.forward[found[1].node][1]
<1>4. found[1].node = A[c]
  <2> HIDE DEF found
  <2>1. found = Search(l, Below(l, min))
    BY DEF found
  <2> QED
    BY <1>3, <2>1, LeavesAt
<1>5. x = A[c + 1]
  BY <1>4, BottomLevel
<1>6. getFirstInRange(l, min, max) = IF x = Nil \/ l.score[x] > max THEN Nil ELSE x
  BY DEF getFirstInRange, Below
<1> HIDE DEF x
<1>7. S \subseteq 1 .. n /\ \A p \in S : p >= c + 1
  BY <1>2, <1>3 DEF InRange
<1>8. CASE c = n
  <2>1. S = {}
    BY <1>1, <1>7, <1>8
  <2> QED
    BY <1>1, <1>5, <1>6, <1>7, <1>8, <2>1
<1>9. CASE c # n
  <2>1. c + 1 \in 1 .. n /\ c + 1 \in 0 .. n
    BY <1>1, <1>9
  <2>2. A[c + 1] # Nil /\ l.score[A[c + 1]] >= min /\ l.score[A[c + 1]] \in Int
    <3>1. A[c + 1] # Nil
      BY <1>1, <2>1, NodeAt
    <3>2. ~(c + 1 <= c)
      BY <1>1
    <3>3. ~(l.score[A[c + 1]] < min)
      BY <1>3, <2>1, <3>2
    <3> QED
      BY <1>2, <2>1, <3>1, <3>3
  <2>3. CASE l.score[A[c + 1]] > max
    <3>1. S = {}
      BY <1>2, <1>7, <2>1, <2>3 DEF InRange
    <3> QED
      BY <1>5, <1>6, <1>7, <2>3, <3>1
  <2>4. CASE ~(l.score[A[c + 1]] > max)
    <3>1. c + 1 \in S
      BY <2>1, <2>2, <2>4 DEF InRange
    <3>2. S \in SUBSET Int /\ \A y \in S : c + 1 <= y
      BY <1>7
    <3>3. Min(S) = c + 1
      BY <3>1, <3>2, ExtremesAre
    <3> QED
      BY <1>5, <1>6, <1>7, <2>2, <2>4, <3>1, <3>3
  <2> QED
    BY <2>3, <2>4
<1> QED
  BY <1>8, <1>9

\* getLastInRange finds the last of them.
LEMMA LastInRangeIs ==
  ASSUME NEW l, NEW A, NEW n, Chain(l, A, n), NEW min \in Int, NEW max \in Int,
         NEW S, S = InRange(l, A, n, min, max)
  PROVE  /\ S = {} => getLastInRange(l, min, max) = Nil
         /\ S # {} => Max(S) \in S /\ getLastInRange(l, min, max) = A[Max(S)]
<1>1. Shape(l) /\ Positions(l, A, n) /\ n \in Nat /\ A[0] = Head_
  BY ChainParts DEF Positions
<1>2. \A p, q \in 1 .. n : /\ l.score[A[p]] \in Int /\ l.score[A[q]] \in Int
                           /\ p <= q => l.score[A[p]] <= l.score[A[q]]
  BY ScoresRise
<1>3. PICK c \in 0 .. n : /\ \A p \in 1 .. n : l.score[A[p]] <= max <=> p <= c
                          /\ Cut(A, n, AtMost(l, max), c)
  BY ScoreCut
<1> DEFINE found == Search(l, AtMost(l, max))
           x == found[1].node
<1>4. x = A[c]
  <2> HIDE DEF found
  <2>1. found = Search(l, AtMost(l, max))
    BY DEF found
  <2> QED
    BY <1>3, <2>1, LeavesAt
<1>5. getLastInRange(l, min, max) = IF x = Head_ \/ l.score[x] < min THEN Nil ELSE x
  BY DEF getLastInRange, AtMost
<1> HIDE DEF x
<1>6. S \subseteq 1 .. n /\ \A p \in S : p <= c
  BY <1>2, <1>3 DEF InRange
<1>7. CASE c = 0
  <2>1. S = {}
    BY <1>1, <1>6, <1>7
  <2> QED
    BY <1>1, <1>4, <1>5, <1>7, <2>1
<1>8. CASE c # 0
  <2>1. c \in 1 .. n /\ c \in 0 .. n
    BY <1>1, <1>8
  <2>2. A[c] # Head_ /\ l.score[A[c]] <= max /\ l.score[A[c]] \in Int
    <3>1. A[c] # Head_
      BY <1>1, <1>8, <2>1, NodeAt
    <3> QED
      BY <1>2, <1>3, <2>1, <3>1
  <2>3. CASE l.score[A[c]] < min
    <3>1. S = {}
      BY <1>2, <1>6, <2>1, <2>3 DEF InRange
    <3> QED
      BY <1>4, <1>5, <2>3, <3>1
  <2>4. CASE ~(l.score[A[c]] < min)
    <3>1. c \in S
      BY <2>1, <2>2, <2>4 DEF InRange
    <3>2. S \in SUBSET Int /\ \A y \in S : y <= c
      BY <1>6
    <3>3. Max(S) = c
      BY <3>1, <3>2, ExtremesAre
    <3> QED
      BY <1>4, <1>5, <2>2, <2>4, <3>1, <3>3
  <2> QED
    BY <2>3, <2>4
<1> QED
  BY <1>7, <1>8

\* The nodes that rangeByRank visits: that of a rank, and the d nodes after it.
Visited(l, rank, d) ==
  LET chain[k \in 0 .. d] == IF k = 0 THEN getElementByRank(l, rank)
                             ELSE l.forward[chain[k - 1]][1]
  IN  chain

\* They are the nodes of successive positions.
LEMMA VisitedIs ==
  ASSUME NEW l, NEW A, NEW n, Chain(l, A, n), NEW r \in 1 .. n, NEW d \in Nat, r + d <= n
  PROVE  \A k \in 0 .. d : Visited(l, r, d)[k] = A[r + k]
<1> DEFINE Body(h) == [k \in 0 .. d |-> IF k = 0 THEN getElementByRank(l, r)
                                        ELSE l.forward[h[k - 1]][1]]
           f == [k \in 0 .. d |-> A[r + k]]
           chain == CHOOSE h : h = Body(h)
<1>1. Visited(l, r, d) = chain
  BY DEF Visited
<1>2. n \in Nat /\ getElementByRank(l, r) = A[r]
  BY ChainParts, ElementIs
<1>3. \A p \in 0 .. n : l.forward[A[p]][1] = A[p + 1]
  BY BottomLevel
<1>4. f = Body(f)
  <2>1. ASSUME NEW k \in 0 .. d
        PROVE  A[r + k] = IF k = 0 THEN getElementByRank(l, r) ELSE l.forward[f[k - 1]][1]
    <3>1. CASE k = 0
      BY <1>2, <3>1
    <3>2. CASE k # 0
      <4>1. k - 1 \in 0 .. d /\ r + (k - 1) \in 0 .. n /\ (r + (k - 1)) + 1 = r + k
        BY <1>2, <3>2
      <4>2. f[k - 1] = A[r + (k - 1)]
        BY <4>1
      <4>3. l.forward[A[r + (k - 1)]][1] = A[(r + (k - 1)) + 1]
        BY <1>3, <4>1
      <4> QED
        BY <3>2, <4>1, <4>2, <4>3
    <3> QED
      BY <3>1, <3>2
  <2>2. f = [k \in 0 .. d |-> A[r + k]]
    OBVIOUS
  <2> HIDE DEF f
  <2> QED
    BY <2>1, <2>2
<1>5. chain = Body(chain)
  <2> HIDE DEF Body, f
  <2> QED
    BY <1>4
<1> HIDE DEF chain
<1>6. \A k \in 0 .. d : chain[k] = IF k = 0 THEN getElementByRank(l, r) ELSE l.forward[chain[k - 1]][1]
  BY <1>5
<1> DEFINE Bad == {k \in 0 .. d : chain[k] # A[r + k]}
<1>7. ASSUME Bad # {} PROVE FALSE
  <2>1. PICK k \in Bad : \A e \in Bad : k <= e
    <3>1. Bad \subseteq 0 .. d
      OBVIOUS
    <3> HIDE DEF Bad
    <3>2. Bad \in SUBSET Nat
      BY <3>1
    <3> QED
      BY <1>7, <3>2, LeastElement
  <2>2. k \in 0 .. d /\ chain[k] # A[r + k]
    OBVIOUS
  <2>3. k # 0
    <3>1. r + 0 = r
      OBVIOUS
    <3> QED
      BY <1>2, <1>6, <2>2, <3>1
  <2>4. k - 1 \in 0 .. d /\ r + (k - 1) \in 0 .. n /\ (r + (k - 1)) + 1 = r + k
    BY <1>2, <2>2, <2>3
  <2>5. k - 1 \notin Bad
    <3> HIDE DEF Bad
    <3> QED
      BY <2>1, <2>2
  <2>6. chain[k - 1] = A[r + (k - 1)]
    BY <2>4, <2>5
  <2>7. l.forward[A[r + (k - 1)]][1] = A[(r + (k - 1)) + 1]
    BY <1>3, <2>4
  <2> QED
    BY <1>6, <2>2, <2>3, <2>4, <2>6, <2>7
<1> QED
  BY <1>1, <1>7

\* An index as ZRANGE reads it: a negative one counts from the end.
Index(n, i) == IF i < 0 THEN n + i ELSE i

\* The first index of a range, and its last.
RangeFrom(n, start) == IF Index(n, start) < 0 THEN 0 ELSE Index(n, start)
RangeTo(n, stop) == IF Index(n, stop) >= n THEN n - 1 ELSE Index(n, stop)

\* What rangeByRank answers between calls.
LEMMA RangeIs ==
  ASSUME TableInv, ListInv, call = Idle, NEW A, NEW n, Chain(zsl, A, n),
         NEW start \in Int, NEW stop \in Int,
         NEW from, from = RangeFrom(n, start), NEW to, to = RangeTo(n, stop)
  PROVE  /\ n \in Nat /\ from \in Nat /\ to \in Int
         /\ to < from => rangeByRank(start, stop) = <<>>
         /\ from <= to => from + (to - from) < n
                          /\ rangeByRank(start, stop) = [k \in 1 .. to - from + 1 |-> A[from + k]]
<1>1. n \in Nat /\ size = n
  BY ChainParts, PresentCount
<1>2. from \in Nat /\ to \in Int /\ to < n
  BY <1>1 DEF RangeFrom, RangeTo, Index
<1> DEFINE last == Index(n, stop)
<1>3. last \in Int /\ ((from > last \/ from >= n) <=> to < from)
  BY <1>1, <1>2 DEF RangeTo, Index
<1>4. rangeByRank(start, stop) =
        IF from > last \/ from >= n THEN <<>>
        ELSE [k \in 1 .. to - from + 1 |-> Visited(zsl, from + 1, to - from)[k - 1]]
  BY <1>1 DEF rangeByRank, Visited, RangeFrom, RangeTo, Index
<1> HIDE DEF last
<1>5. ASSUME from <= to
      PROVE  from + (to - from) < n
             /\ rangeByRank(start, stop) = [k \in 1 .. to - from + 1 |-> A[from + k]]
  <2> DEFINE d == to - from
  <2>1. d \in Nat /\ from + 1 \in 1 .. n /\ (from + 1) + d <= n /\ ~(to < from) /\ from + d < n
    BY <1>1, <1>2, <1>5
  <2>2. rangeByRank(start, stop) = [k \in 1 .. d + 1 |-> Visited(zsl, from + 1, d)[k - 1]]
    BY <1>3, <1>4, <2>1
  <2> HIDE DEF d
  <2>3. \A k \in 0 .. d : Visited(zsl, from + 1, d)[k] = A[(from + 1) + k]
    BY <2>1, VisitedIs
  <2>4. ASSUME NEW k \in 1 .. d + 1 PROVE Visited(zsl, from + 1, d)[k - 1] = A[from + k]
    <3>1. k - 1 \in 0 .. d /\ (from + 1) + (k - 1) = from + k
      BY <1>2, <2>1
    <3>2. Visited(zsl, from + 1, d)[k - 1] = A[(from + 1) + (k - 1)]
      BY <2>3, <3>1
    <3> QED
      BY <3>1, <3>2
  <2>5. rangeByRank(start, stop) = [k \in 1 .. d + 1 |-> A[from + k]]
    BY <2>2, <2>4
  <2> QED
    BY <2>1, <2>5 DEF d
<1>6. ASSUME to < from PROVE rangeByRank(start, stop) = <<>>
  BY <1>3, <1>4, <1>6
<1> QED
  BY <1>1, <1>2, <1>5, <1>6

\* A function with nothing in its domain is the empty sequence.
LEMMA NothingIsEmpty ==
  ASSUME NEW f, f \in [1 .. 0 -> {}]
  PROVE  f = <<>>
<1>1. f \in Seq({})
  OBVIOUS
<1>2. Len(f) = 0
  BY <1>1
<1> QED
  BY <1>1, <1>2

\* The number of positions in a range of indices, and the first of them.
LEMMA RangeCount ==
  ASSUME NEW n \in Nat, NEW start \in Int, NEW stop \in Int,
         NEW from, from = RangeFrom(n, start), NEW to, to = RangeTo(n, stop)
  PROVE  /\ Max({0, Index(n, start)}) = from
         /\ Cardinality({p \in 0 .. n - 1 : Index(n, start) <= p /\ p <= Index(n, stop)})
              = IF to < from THEN 0 ELSE to - from + 1
<1> DEFINE a == Index(n, start)
           b == Index(n, stop)
           C == {p \in 0 .. n - 1 : a <= p /\ p <= b}
<1>1. a \in Int /\ b \in Int
  BY DEF Index
<1>2. from = IF a < 0 THEN 0 ELSE a
  BY DEF RangeFrom
<1>3. to = IF b >= n THEN n - 1 ELSE b
  BY DEF RangeTo
<1> HIDE DEF a, b
<1>4. from \in Int /\ to \in Int
  BY <1>1, <1>2, <1>3
<1>5. Max({0, a}) = from
  <2> DEFINE T == {0, a}
  <2>1. T \in SUBSET Int /\ from \in T /\ \A y \in T : y <= from
    BY <1>1, <1>2
  <2> HIDE DEF T
  <2>2. Max(T) = from
    BY <2>1, ExtremesAre
  <2> QED
    BY <2>2 DEF T
<1>6. C = from .. to
  BY <1>1, <1>2, <1>3
<1>7. Cardinality(from .. to) = IF from > to THEN 0 ELSE to - from + 1
  BY <1>4, FS_Interval
<1>8. Cardinality(C) = IF to < from THEN 0 ELSE to - from + 1
  BY <1>4, <1>6, <1>7
<1> QED
  BY <1>5, <1>8 DEF a, b

\* What the queries answer between calls.
LEMMA QueriesFollow == TableInv /\ ListInv => QueriesMatchOrder
<1> SUFFICES ASSUME TableInv, ListInv, call = Idle PROVE QueriesMatchOrder
  BY DEF QueriesMatchOrder
<1>1. PICK n \in Nat : \E B : Chain(zsl, B, n)
  BY DEF ListInv, IsList
<1>2. PICK A : Chain(zsl, A, n)
  BY <1>1
<1>3. Len(InOrder) = n /\ \A p \in 1 .. n : InOrder[p] = A[p]
  BY <1>2, OrderIs
<1>4. /\ \A p \in 1 .. n : A[p] \in Present /\ A[p] \in Members /\ A[p] \in Int
                           /\ zsl.score[A[p]] = Contents[A[p]] /\ Contents[A[p]] \in Int
      /\ \A m \in Present : \E p \in 1 .. n : A[p] = m
  BY <1>2, PresentIs
<1> DEFINE order == InOrder
<1>5. ASSUME NEW p \in 1 .. n PROVE rankOf(order[p]) = p - 1
  <2>1. order[p] = A[p] /\ A[p] \in Members /\ zsl.score[A[p]] = Contents[A[p]]
    BY <1>3, <1>4
  <2>2. Contents[A[p]] = Lookup(buckets, A[p])
    BY <2>1, ContentsType
  <2>3. getRank(zsl, zsl.score[A[p]], A[p]) = p
    BY <1>2, RankIs
  <2>4. getRank(zsl, Lookup(buckets, order[p]), order[p]) = p
    BY <2>1, <2>2, <2>3
  <2> HIDE DEF order
  <2> QED
    BY <2>4 DEF rankOf
<1>6. ASSUME NEW start \in Int, NEW stop \in Int
      PROVE  rangeByRank(start, stop)
               = [k \in 1 .. Cardinality({p \in 0 .. n - 1 : Index(n, start) <= p /\ p <= Index(n, stop)})
                   |-> order[Max({0, Index(n, start)}) + k]]
  <2>1. PICK from : from = RangeFrom(n, start)
    OBVIOUS
  <2>2. PICK to : to = RangeTo(n, stop)
    OBVIOUS
  <2> DEFINE size0 == Cardinality({p \in 0 .. n - 1 : Index(n, start) <= p /\ p <= Index(n, stop)})
             first == Max({0, Index(n, start)})
  <2>3. first = from /\ size0 = IF to < from THEN 0 ELSE to - from + 1
    BY <2>1, <2>2, RangeCount
  <2>4. /\ from \in Nat /\ to \in Int
        /\ to < from => rangeByRank(start, stop) = <<>>
        /\ from <= to => from + (to - from) < n
                         /\ rangeByRank(start, stop) = [k \in 1 .. to - from + 1 |-> A[from + k]]
    BY <1>2, <2>1, <2>2, RangeIs
  <2> HIDE DEF size0, first
  <2>5. CASE to < from
    <3>1. [k \in 1 .. 0 |-> order[first + k]] \in [1 .. 0 -> {}]
      OBVIOUS
    <3>2. [k \in 1 .. 0 |-> order[first + k]] = <<>>
      BY <3>1, NothingIsEmpty
    <3>3. size0 = 0
      BY <2>3, <2>5
    <3> QED
      BY <2>4, <2>5, <3>2, <3>3 DEF size0, first
  <2>6. CASE from <= to
    <3>1. size0 = to - from + 1 /\ first = from
      BY <2>3, <2>4, <2>6
    <3>2. \A k \in 1 .. to - from + 1 : from + k \in 1 .. n
      BY <2>4, <2>6
    <3>3. \A k \in 1 .. to - from + 1 : order[from + k] = A[from + k]
      BY <1>3, <3>2
    <3> HIDE DEF order
    <3>4. rangeByRank(start, stop) = [k \in 1 .. size0 |-> order[first + k]]
      BY <2>4, <2>6, <3>1, <3>3
    <3> QED
      BY <3>4 DEF size0, first
  <2>7. to < from \/ from <= to
    BY <2>4
  <2> QED
    BY <2>5, <2>6, <2>7, Zenon
<1>7. ASSUME NEW min \in Values, NEW max \in Values
      PROVE  LET found == {p \in 1 .. n : Contents[order[p]] >= min /\ Contents[order[p]] <= max}
             IN  /\ getFirstInRange(zsl, min, max) = IF found = {} THEN Nil ELSE order[Min(found)]
                 /\ getLastInRange(zsl, min, max) = IF found = {} THEN Nil ELSE order[Max(found)]
  <2> DEFINE found == {p \in 1 .. n : Contents[order[p]] >= min /\ Contents[order[p]] <= max}
             S == InRange(zsl, A, n, min, max)
  <2>1. found = S
    <3>1. \A p \in 1 .. n : Contents[order[p]] = zsl.score[A[p]]
      BY <1>3, <1>4
    <3> HIDE DEF order
    <3> QED
      BY <3>1 DEF InRange
  <2>2. min \in Int /\ max \in Int /\ S = InRange(zsl, A, n, min, max)
    BY ScoresAssumption
  <2> HIDE DEF found, S
  <2>3. /\ S \subseteq 1 .. n
        /\ S = {} => getFirstInRange(zsl, min, max) = Nil
        /\ S # {} => Min(S) \in S /\ getFirstInRange(zsl, min, max) = A[Min(S)]
    BY <1>2, <2>2, FirstInRangeIs
  <2>4. /\ S = {} => getLastInRange(zsl, min, max) = Nil
        /\ S # {} => Max(S) \in S /\ getLastInRange(zsl, min, max) = A[Max(S)]
    BY <1>2, <2>2, LastInRangeIs
  <2>5. /\ getFirstInRange(zsl, min, max) = IF found = {} THEN Nil ELSE order[Min(found)]
        /\ getLastInRange(zsl, min, max) = IF found = {} THEN Nil ELSE order[Max(found)]
    BY <1>3, <2>1, <2>3, <2>4
  <2> QED
    BY <2>5 DEF found
<1> DEFINE Says(x) ==
      LET bound(i) == IF i < 0 THEN x + i ELSE i
          within(min, max) ==
            {p \in 1 .. x : Contents[order[p]] >= min /\ Contents[order[p]] <= max}
      IN  /\ \A p \in 1 .. x : rankOf(order[p]) = p - 1
          /\ \A start, stop \in -(x + 1) .. x + 1 :
               rangeByRank(start, stop)
                 = [k \in 1 .. Cardinality({p \in 0 .. x - 1 : bound(start) <= p /\ p <= bound(stop)})
                     |-> order[Max({0, bound(start)}) + k]]
          /\ \A min, max \in Values :
               LET found == within(min, max)
               IN  /\ getFirstInRange(zsl, min, max) = IF found = {} THEN Nil ELSE order[Min(found)]
                   /\ getLastInRange(zsl, min, max) = IF found = {} THEN Nil ELSE order[Max(found)]
<1>8. Says(n)
  <2>1. \A i \in -(n + 1) .. n + 1 : i \in Int
    OBVIOUS
  <2>2. ASSUME NEW start \in -(n + 1) .. n + 1, NEW stop \in -(n + 1) .. n + 1
        PROVE  rangeByRank(start, stop)
                 = [k \in 1 .. Cardinality({p \in 0 .. n - 1 : Index(n, start) <= p /\ p <= Index(n, stop)})
                     |-> order[Max({0, Index(n, start)}) + k]]
    <3>1. start \in Int /\ stop \in Int
      BY <2>1
    <3> HIDE DEF order
    <3> QED
      BY <1>6, <3>1
  <2> HIDE DEF order
  <2> QED
    BY <1>5, <2>2, <1>7, Zenon DEF Index
<1>9. Says(Len(order))
  <2> HIDE DEF Says
  <2> QED
    BY <1>3, <1>8
<1> QED
  BY <1>9 DEF QueriesMatchOrder

-----------------------------------------------------------------------------
(* Theorems of the list.                                                   *)

\* The members of the table and of the list keep their types (TypeOK).
THEOREM TypesHold == Spec => []TypeOK
BY ListInvariance, TypesFollow, PTL

\* Whenever no ZADD or ZREM is under way, the list holds exactly the pairs of the table, in order,
\* forwards on every level and backwards (ListMatchesTable).
THEOREM ListFollowsTable == Spec => []ListMatchesTable
BY ListInvariance, ListFollows, PTL

\* Whenever no ZADD or ZREM is under way, ZRANK, ZRANGE and the searches by score answer what the
\* sorted sequence of the pairs says (QueriesMatchOrder).
THEOREM QueriesFollowOrder == Spec => []QueriesMatchOrder
BY ListInvariance, QueriesFollow, PTL
============================================================================
