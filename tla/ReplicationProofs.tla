------------------------- MODULE ReplicationProofs -------------------------
(***************************************************************************)
(* Theorems about replication (server/replication.cpp): the backlog holds  *)
(* the end of the stream, replicas_ lists open connections once, and what  *)
(* a replica applies, what is on the wire and what is buffered for it are  *)
(* the master's writes since its PSYNC, for any number of connections and  *)
(* writes, and whatever connections are lost and replaced.                 *)
(***************************************************************************)
EXTENDS Replication, WellFoundedInduction, SequenceTheorems, TLAPS

-----------------------------------------------------------------------------
(* Remainders, and the larger of two numbers.                              *)

\* What the remainder of a division is.
LEMMA ModDefinition ==
  ASSUME NEW n \in Nat \ {0}, NEW a \in Int
  PROVE  /\ a % n \in 0 .. n - 1
         /\ \E q \in Int : a = n * q + (a % n)
<1>1. a % n \in 0 .. n - 1
  OBVIOUS
<1>2. a = n * (a \div n) + (a % n)
  OBVIOUS
<1>3. a \div n \in Int
  OBVIOUS
<1> QED
  BY <1>1, <1>2, <1>3

\* A number in the range of remainders that differs by a multiple is the remainder.
LEMMA ModIs ==
  ASSUME NEW n \in Nat \ {0}, NEW a \in Int, NEW q \in Int, NEW r \in 0 .. n - 1,
         a = n * q + r
  PROVE  a % n = r
OBVIOUS

\* Numbers closer to each other than the divisor have different remainders.
LEMMA ModDiffers ==
  ASSUME NEW n \in Nat \ {0}, NEW a \in Int, NEW b \in Int,
         a < b, b - a < n
  PROVE  a % n # b % n
<1> SUFFICES ASSUME a % n = b % n PROVE FALSE
  OBVIOUS
<1>1. PICK p \in Int : a = n * p + (a % n)
  BY ModDefinition
<1>2. PICK q \in Int : b = n * q + (b % n)
  BY ModDefinition
<1>3. a % n \in Int
  BY ModDefinition
<1>4. b - a = n * q - n * p
  BY <1>1, <1>2, <1>3
<1>5. n * q - n * p = n * (q - p)
  OBVIOUS
<1>6. q - p \in Int /\ n * (q - p) > 0 /\ n * (q - p) < n
  BY <1>4, <1>5
<1>7. q - p >= 1 \/ q - p <= 0
  OBVIOUS
<1>8. ASSUME q - p >= 1 PROVE n * (q - p) >= n
  BY <1>8
<1>9. ASSUME q - p <= 0 PROVE n * (q - p) <= 0
  BY <1>9
<1> QED
  BY <1>6, <1>7, <1>8, <1>9

\* Multiples of the divisor do not change a remainder.
LEMMA ModSame ==
  ASSUME NEW n \in Nat \ {0}, NEW a \in Int, NEW b \in Int, NEW q \in Int, a = b + n * q
  PROVE  a % n = b % n
<1>1. PICK p \in Int : b = n * p + (b % n)
  BY ModDefinition
<1>2. b % n \in 0 .. n - 1
  BY ModDefinition
<1>3. a = n * p + n * q + (b % n)
  BY <1>1, <1>2
<1>4. n * p + n * q = n * (p + q) /\ p + q \in Int
  OBVIOUS
<1>5. a = n * (p + q) + (b % n)
  BY <1>2, <1>3, <1>4
<1> QED
  BY <1>2, <1>4, <1>5, ModIs

\* The index after some bytes and the one that never wraps lead back to the same slots.
LEMMA ModShift ==
  ASSUME NEW n \in Nat \ {0}, NEW a \in Int, NEW r \in Int, r = a % n, NEW t \in Int
  PROVE  (r + n - t) % n = (a - t) % n
<1>1. PICK p \in Int : a = n * p + r
  BY ModDefinition
<1>2. n * p \in Int /\ n * (1 - p) = n - n * p /\ 1 - p \in Int
  OBVIOUS
<1>3. r + n - t = (a - t) + n * (1 - p)
  BY <1>1, <1>2
<1> DEFINE x == r + n - t
           y == a - t
           q == 1 - p
<1>4. x \in Int /\ y \in Int /\ q \in Int /\ x = y + n * q
  BY <1>3
<1> HIDE DEF x, y, q
<1> QED
  BY <1>4, ModSame DEF x, y

\* Every slot is found by counting back.
LEMMA SlotIsBack ==
  ASSUME NEW n \in Nat \ {0}, NEW a \in Int, NEW s \in 0 .. n - 1
  PROVE  \E t \in 1 .. n : s = (a - t) % n
<1> DEFINE c == a - 1 - s
<1>0. c \in Int
  OBVIOUS
<1> HIDE DEF c
<1>1. c % n \in 0 .. n - 1
  BY <1>0, ModDefinition
<1>2. PICK q \in Int : c = n * q + (c % n)
  BY <1>0, ModDefinition
<1>3. PICK r \in 0 .. n - 1 : c = n * q + r
  BY <1>1, <1>2
<1>4. n * q \in Int
  OBVIOUS
<1>5. a - (r + 1) = n * q + s /\ r + 1 \in 1 .. n
  BY <1>3, <1>4 DEF c
<1>6. s = (a - (r + 1)) % n
  BY <1>5, ModIs
<1> QED
  BY <1>5, <1>6

\* The larger of two numbers.
LEMMA MaxOfTwo ==
  ASSUME NEW a \in Int, NEW b \in Int
  PROVE  Max({a, b}) = IF a >= b THEN a ELSE b
<1> DEFINE m == IF a >= b THEN a ELSE b
<1>1. m \in {a, b} /\ \A y \in {a, b} : m >= y
  OBVIOUS
<1>2. \A x \in {a, b} : (\A y \in {a, b} : x >= y) => x = m
  OBVIOUS
<1> QED
  BY <1>1, <1>2 DEF Max

\* The smaller of two numbers.
LEMMA MinOfTwo ==
  ASSUME NEW a \in Int, NEW b \in Int
  PROVE  Min({a, b}) = IF a <= b THEN a ELSE b
<1> DEFINE m == IF a <= b THEN a ELSE b
<1>1. m \in {a, b} /\ \A y \in {a, b} : m <= y
  OBVIOUS
<1>2. \A x \in {a, b} : (\A y \in {a, b} : x <= y) => x = m
  OBVIOUS
<1> QED
  BY <1>1, <1>2 DEF Min

\* A maximum is the largest element.
LEMMA MaxIs ==
  ASSUME NEW S \in SUBSET Int, NEW m \in S, \A y \in S : y <= m
  PROVE  Max(S) = m
<1>1. \A y \in S : m >= y
  OBVIOUS
<1>2. \A x \in S : (\A y \in S : x >= y) => x = m
  OBVIOUS
<1> QED
  BY <1>1, <1>2 DEF Max

\* The minimum of one number.
LEMMA MinIs ==
  ASSUME NEW m \in Int
  PROVE  Min({m}) = m
BY DEF Min

-----------------------------------------------------------------------------
(* One call of feedReplicationBacklog.                                     *)

\* The byte that is the t-th from the end of the data lands t slots before the new index, and
\* nothing later lands there; slots further back than the data is long stay as they are.
LEMMA HitsOf ==
  ASSUME BacklogTypeOK, NEW data \in Seq(Bytes), NEW t \in 1 .. Size,
         NEW n \in Nat, n = Len(data),
         NEW s \in Slots, s = (replBacklogIdx + n - t) % Size
  PROVE  /\ t <= n => Max(Hits(s, data)) = n + 1 - t /\ Hits(s, data) # {}
         /\ t > n => Hits(s, data) = {}
<1>1. replBacklogIdx \in Int /\ Size \in Nat \ {0}
  BY SizeAssumption DEF BacklogTypeOK, Slots
<1> DEFINE a == replBacklogIdx + n - t
<1>2. a \in Int /\ s = a % Size
  BY <1>1
<1>3. ASSUME NEW j \in Hits(s, data) PROVE j <= n + 1 - t
  <2> DEFINE b == replBacklogIdx + j - 1
  <2>1. j \in 1 .. n /\ b % Size = s
    BY <1>3 DEF Hits
  <2>2. b \in Int /\ b - a < Size /\ (j > n + 1 - t => a < b)
    BY <1>1, <2>1
  <2> HIDE DEF a, b
  <2>3. ~ (a < b)
    BY <1>1, <1>2, <2>1, <2>2, ModDiffers
  <2> QED
    BY <2>1, <2>2, <2>3
<1>4. ASSUME t <= n PROVE n + 1 - t \in Hits(s, data)
  <2>1. n + 1 - t \in 1 .. Len(data)
    BY <1>4
  <2>2. replBacklogIdx + (n + 1 - t) - 1 = a
    BY <1>1
  <2> QED
    BY <1>2, <2>1, <2>2 DEF Hits
<1>5. Hits(s, data) \in SUBSET Int
  BY DEF Hits
<1>6. ASSUME t <= n PROVE Max(Hits(s, data)) = n + 1 - t
  BY <1>3, <1>4, <1>5, <1>6, MaxIs
<1>7. ASSUME t > n PROVE Hits(s, data) = {}
  BY <1>3, <1>7 DEF Hits
<1> QED
  BY <1>4, <1>6, <1>7

\* Where the new index counts back to.
LEMMA NewSlot ==
  ASSUME BacklogTypeOK, NEW n \in Nat, NEW t \in 1 .. Size
  PROVE  /\ (replBacklogIdx + n) % Size \in Slots
         /\ (replBacklogIdx + n - t) % Size \in Slots
         /\ (((replBacklogIdx + n) % Size) + Size - t) % Size = (replBacklogIdx + n - t) % Size
         /\ (replBacklogIdx + n - t) % Size = (replBacklogIdx + Size - (t - n)) % Size
<1>1. replBacklogIdx \in Int /\ Size \in Nat \ {0}
  BY SizeAssumption DEF BacklogTypeOK, Slots
<1> DEFINE a == replBacklogIdx + n
           b == replBacklogIdx + n - t
           c == replBacklogIdx + Size - (t - n)
           r == a % Size
           q == 1
<1>2. b \in Int /\ c \in Int /\ q \in Int /\ b = a - t /\ c = b + Size * q
  BY <1>1
<1>7. a \in Int /\ t \in Int
  BY <1>1
<1> HIDE DEF a, b, c, q
<1>3. r \in Slots /\ b % Size \in Slots
  BY <1>1, <1>2, <1>7, ModDefinition DEF Slots
<1>4. r \in Int /\ r = a % Size
  BY <1>1, <1>7, ModDefinition
<1> HIDE DEF r
<1>5. (r + Size - t) % Size = (a - t) % Size
  BY <1>1, <1>4, <1>7, ModShift
<1>6. b % Size = c % Size
  BY <1>1, <1>2, ModSame
<1> QED
  BY <1>2, <1>3, <1>5, <1>6 DEF a, b, c, r

\* A call keeps the types.
LEMMA FeedType ==
  ASSUME BacklogTypeOK, NEW data \in Seq(Bytes), Feed(data)
  PROVE  BacklogTypeOK'
<1> DEFINE n == Len(data)
<1>1. /\ replBacklogIdx \in Int /\ Size \in Nat \ {0} /\ n \in Nat
      /\ replBacklogHistLen \in 0 .. Size
  BY SizeAssumption DEF BacklogTypeOK, Slots
<1>2. ASSUME NEW s \in Slots, Hits(s, data) # {} PROVE data[Max(Hits(s, data))] \in Bytes
  <2>1. replBacklogIdx + n \in Int
    BY <1>1
  <2>2. PICK t \in 1 .. Size : s = ((replBacklogIdx + n) - t) % Size
    BY <1>1, <2>1, SlotIsBack DEF Slots
  <2>3. s = (replBacklogIdx + n - t) % Size
    BY <1>1, <2>2
  <2>4. t <= n /\ Max(Hits(s, data)) = n + 1 - t
    BY <1>1, <1>2, <2>3, HitsOf
  <2> QED
    BY <1>1, <2>4
<1>3. replBacklog' \in [Slots -> Bytes \cup {NoByte}]
  BY <1>2 DEF Feed, BacklogTypeOK
<1>4. replBacklogIdx' \in Slots
  <2>1. 1 \in 1 .. Size
    BY <1>1
  <2> QED
    BY <1>1, <2>1, NewSlot DEF Feed
<1>5. replBacklogHistLen' \in 0 .. Size
  BY <1>1, MinOfTwo DEF Feed
<1>6. replBacklogOff' \in Nat
  <2> DEFINE e == replBacklogHistLen + n - Size
  <2>1. e \in Int /\ 0 \in Int
    BY <1>1
  <2> HIDE DEF e
  <2>2. Max({0, e}) \in Nat
    BY <2>1, MaxOfTwo
  <2> QED
    BY <2>2 DEF Feed, BacklogTypeOK, e
<1>7. masterReplOffset' \in Nat /\ fed' \in Seq(Bytes)
  BY <1>1 DEF Feed, BacklogTypeOK
<1> QED
  BY <1>3, <1>4, <1>5, <1>6, <1>7 DEF BacklogTypeOK

\* A call keeps the ring the end of the stream.
LEMMA FeedHolds ==
  ASSUME BacklogTypeOK, BacklogHoldsTheLastBytes, NEW data \in Seq(Bytes), Feed(data)
  PROVE  BacklogHoldsTheLastBytes'
<1> DEFINE n == Len(data)
           h == replBacklogHistLen
<1>1. /\ replBacklogIdx \in Int /\ Size \in Nat \ {0} /\ n \in Nat
      /\ h \in 0 .. Size /\ replBacklogOff \in Nat /\ Len(fed) \in Nat
  BY SizeAssumption DEF BacklogTypeOK, Slots
<1>2. replBacklogHistLen' = IF Size <= h + n THEN Size ELSE h + n
  BY <1>1, MinOfTwo DEF Feed
<1> DEFINE e == h + n - Size
<1>3. replBacklogOff' = replBacklogOff + (IF 0 >= e THEN 0 ELSE e)
  <2>1. e \in Int /\ 0 \in Int
    BY <1>1
  <2> HIDE DEF e
  <2>2. Max({0, e}) = IF 0 >= e THEN 0 ELSE e
    BY <2>1, MaxOfTwo
  <2> QED
    BY <2>2 DEF Feed, e
<1>4. Len(fed') = Len(fed) + n
  BY DEF Feed, BacklogTypeOK
<1>5. masterReplOffset' = Len(fed') /\ replBacklogOff' + replBacklogHistLen' = masterReplOffset'
  <2>1. /\ masterReplOffset' = masterReplOffset + n
        /\ masterReplOffset = Len(fed) /\ replBacklogOff + h = masterReplOffset
    BY DEF Feed, BacklogHoldsTheLastBytes
  <2>2. CASE Size <= h + n
    <3>1. replBacklogHistLen' = Size /\ replBacklogOff' = replBacklogOff + (h + n - Size)
      BY <1>1, <1>2, <1>3, <2>2
    <3> QED
      BY <1>1, <1>4, <2>1, <3>1
  <2>3. CASE Size > h + n
    <3>1. replBacklogHistLen' = h + n /\ replBacklogOff' = replBacklogOff
      BY <1>1, <1>2, <1>3, <2>3
    <3> QED
      BY <1>1, <1>4, <2>1, <3>1
  <2> QED
    BY <1>1, <2>2, <2>3
<1>6. ASSUME NEW t \in 1 .. replBacklogHistLen'
      PROVE  replBacklog'[(replBacklogIdx' + Size - t) % Size] = fed'[Len(fed') + 1 - t]
  <2>1. t \in 1 .. Size
    BY <1>1, <1>2
  <2> DEFINE s == (replBacklogIdx + n - t) % Size
  <2>2. s \in Slots /\ (replBacklogIdx' + Size - t) % Size = s
    BY <1>1, <2>1, NewSlot DEF Feed
  <2>3. replBacklog'[s] = IF Hits(s, data) = {} THEN replBacklog[s] ELSE data[Max(Hits(s, data))]
    BY <2>2 DEF Feed
  <2>4. CASE t <= n
    <3>1. replBacklog'[s] = data[n + 1 - t]
      BY <1>1, <2>1, <2>2, <2>3, <2>4, HitsOf
    <3>2. fed'[Len(fed') + 1 - t] = data[n + 1 - t]
      BY <1>1, <1>4, <2>4 DEF Feed, BacklogTypeOK
    <3> QED
      BY <2>2, <3>1, <3>2
  <2>5. CASE t > n
    <3>1. replBacklog'[s] = replBacklog[s]
      BY <1>1, <2>1, <2>2, <2>3, <2>5, HitsOf
    <3>2. t - n \in 1 .. h
      BY <1>1, <1>2, <2>5
    <3>3. s = (replBacklogIdx + Size - (t - n)) % Size
      BY <1>1, <2>1, NewSlot
    <3>4. replBacklog[s] = fed[Len(fed) + 1 - (t - n)]
      BY <3>2, <3>3 DEF BacklogHoldsTheLastBytes
    <3>5. Len(fed) + 1 - (t - n) \in 1 .. Len(fed)
      BY <1>1, <3>2 DEF BacklogHoldsTheLastBytes
    <3>6. fed'[Len(fed') + 1 - t] = fed[Len(fed) + 1 - (t - n)]
      BY <1>1, <1>4, <2>5, <3>5 DEF Feed, BacklogTypeOK
    <3> QED
      BY <2>2, <3>1, <3>4, <3>6
  <2> QED
    BY <1>1, <1>6, <2>4, <2>5
<1> QED
  BY <1>5, <1>6 DEF BacklogHoldsTheLastBytes

\* The empty ring.
LEMMA BacklogInitHolds == BacklogInit => BacklogTypeOK /\ BacklogHoldsTheLastBytes
BY SizeAssumption DEF BacklogInit, BacklogTypeOK, BacklogHoldsTheLastBytes, Slots

\* A master that only feeds its backlog (feedReplicationBacklog) keeps in it the last bytes of
\* the stream under their offsets, for any size of the ring and of the data.
THEOREM BacklogIsTheEndOfTheStream == BacklogSpec => [](BacklogTypeOK /\ BacklogHoldsTheLastBytes)
<1>1. BacklogTypeOK /\ BacklogHoldsTheLastBytes /\ [BacklogNext]_backlog
        => (BacklogTypeOK /\ BacklogHoldsTheLastBytes)'
  <2> SUFFICES ASSUME BacklogTypeOK, BacklogHoldsTheLastBytes, [BacklogNext]_backlog
               PROVE  (BacklogTypeOK /\ BacklogHoldsTheLastBytes)'
    OBVIOUS
  <2>1. CASE BacklogNext
    BY <2>1, FeedType, FeedHolds DEF BacklogNext
  <2>2. CASE UNCHANGED backlog
    BY <2>2 DEF backlog, BacklogTypeOK, BacklogHoldsTheLastBytes
  <2> QED
    BY <2>1, <2>2
<1> QED
  BY <1>1, BacklogInitHolds, PTL DEF BacklogSpec

-----------------------------------------------------------------------------
(* Induction, and the recursion of WritesIn.                               *)

\* A set of natural numbers that is not empty has a least element.
LEMMA LeastElement ==
  ASSUME NEW T \in SUBSET Nat, T # {}
  PROVE  \E x \in T : \A y \in T : x <= y
<1>1. PICK x \in T : \A y \in T : ~ (<<y, x>> \in OpToRel(<, Nat))
  BY NatLessThanWellFounded, WFMin
<1>2. \A y \in T : ~ (y < x)
  BY <1>1 DEF OpToRel
<1> QED
  BY <1>2

\* Induction, for sets of natural numbers.
LEMMA SetInduction ==
  ASSUME NEW T \in SUBSET Nat, 0 \in T, \A n \in T : n + 1 \in T
  PROVE  T = Nat
<1> SUFFICES ASSUME Nat \ T # {} PROVE FALSE
  OBVIOUS
<1>1. PICK x \in Nat \ T : \A y \in Nat \ T : x <= y
  BY LeastElement
<1>2. x # 0 /\ x - 1 \in Nat /\ x - 1 \in T
  BY <1>1
<1> QED
  BY <1>2

\* The commands and replies of the handshake, and what the messages are.
Words == {"PING", "PONG", "REPLCONF", "OK", "PSYNC", "FULLRESYNC", "RDB", "error"}

Msg == [type : {"text"}, text : Words] \cup [type : {"write"}, text : {"write"}, n : Nat]

\* The recursion of WritesIn by itself.
UpTo(msgs) ==
  CHOOSE upTo : upTo = [i \in 0 .. Len(msgs) |->
        IF i = 0 THEN <<>>
        ELSE IF msgs[i].type = "write" THEN Append(upTo[i - 1], msgs[i].n)
        ELSE upTo[i - 1]]

\* One turn of the recursion.
Take(f, msgs, i) ==
  IF msgs[i].type = "write" THEN Append(f[i - 1], msgs[i].n) ELSE f[i - 1]

\* The recursion of WritesIn has a solution for every prefix.
LEMMA UpToExists ==
  ASSUME NEW msgs \in Seq(Msg), NEW k \in Nat, k <= Len(msgs)
  PROVE  \E f \in [0 .. k -> Seq(Nat)] : f[0] = <<>> /\ \A i \in 1 .. k : f[i] = Take(f, msgs, i)
<1> DEFINE Good(n, f) == f[0] = <<>> /\ \A i \in 1 .. n : f[i] = Take(f, msgs, i)
           P(n) == n <= Len(msgs) => \E f \in [0 .. n -> Seq(Nat)] : Good(n, f)
           T == {n \in Nat : P(n)}
<1>1. P(0)
  <2> DEFINE f == [i \in 0 .. 0 |-> <<>>]
  <2>1. f \in [0 .. 0 -> Seq(Nat)] /\ f[0] = <<>>
    OBVIOUS
  <2>2. Good(0, f)
    BY <2>1
  <2> HIDE DEF f, Good
  <2> QED
    BY <2>1, <2>2
<1>2. ASSUME NEW n \in Nat, P(n) PROVE P(n + 1)
  <2> SUFFICES ASSUME n + 1 <= Len(msgs)
               PROVE  \E f \in [0 .. n + 1 -> Seq(Nat)] : Good(n + 1, f)
    OBVIOUS
  <2>0. n <= Len(msgs) /\ Len(msgs) \in Nat
    OBVIOUS
  <2>1. PICK f \in [0 .. n -> Seq(Nat)] : Good(n, f)
    BY <1>2, <2>0
  <2> DEFINE m == msgs[n + 1]
             last == IF m.type = "write" THEN Append(f[n], m.n) ELSE f[n]
             g == [i \in 0 .. n + 1 |-> IF i <= n THEN f[i] ELSE last]
  <2>2. m \in Msg /\ f[n] \in Seq(Nat)
    BY <2>0
  <2> HIDE DEF m
  <2>6. m.type = "write" => m.n \in Nat
    BY <2>2 DEF Msg
  <2>3. last \in Seq(Nat)
    BY <2>2, <2>6
  <2> HIDE DEF last
  <2>4. g \in [0 .. n + 1 -> Seq(Nat)]
    BY <2>3
  <2>7. g[n + 1] = last /\ \A i \in 0 .. n : g[i] = f[i]
    OBVIOUS
  <2> HIDE DEF g
  <2>5. ASSUME NEW i \in 1 .. n + 1 PROVE g[i] = Take(g, msgs, i)
    <3>1. CASE i <= n
      <4>1. i \in 1 .. n /\ i \in 0 .. n /\ i - 1 \in 0 .. n
        BY <3>1
      <4> QED
        BY <2>1, <2>7, <4>1 DEF Take
    <3>2. CASE i = n + 1
      <4>1. i - 1 = n /\ n \in 0 .. n
        BY <3>2
      <4> QED
        BY <2>7, <3>2, <4>1 DEF Take, last, m
    <3> QED
      BY <3>1, <3>2
  <2>8. Good(n + 1, g)
    BY <2>1, <2>5, <2>7
  <2> HIDE DEF Good
  <2> QED
    BY <2>4, <2>8
<1> HIDE DEF P
<1>3. T = Nat
  <2>1. T \in SUBSET Nat /\ 0 \in T
    BY <1>1
  <2>2. \A n \in T : n + 1 \in T
    BY <1>2
  <2> HIDE DEF T
  <2> QED
    BY <2>1, <2>2, SetInduction
<1>4. P(k)
  BY <1>3
<1> QED
  BY <1>4 DEF P

\* What the recursion computes: WritesIn is its value for the whole sequence.
LEMMA UpToDef ==
  ASSUME NEW msgs \in Seq(Msg)
  PROVE  /\ UpTo(msgs) \in [0 .. Len(msgs) -> Seq(Nat)]
         /\ UpTo(msgs)[0] = <<>>
         /\ \A i \in 1 .. Len(msgs) : UpTo(msgs)[i] = Take(UpTo(msgs), msgs, i)
         /\ WritesIn(msgs) = UpTo(msgs)[Len(msgs)]
<1> DEFINE n == Len(msgs)
           Body(f) == [i \in 0 .. n |->
              IF i = 0 THEN <<>>
              ELSE IF msgs[i].type = "write" THEN Append(f[i - 1], msgs[i].n)
              ELSE f[i - 1]]
<1>1. n \in Nat /\ n <= Len(msgs)
  OBVIOUS
<1>2. PICK f \in [0 .. n -> Seq(Nat)] : f[0] = <<>> /\ \A i \in 1 .. n : f[i] = Take(f, msgs, i)
  BY <1>1, UpToExists
<1>8. UpTo(msgs) = CHOOSE h : h = Body(h)
  BY DEF UpTo
<1>9. WritesIn(msgs) = UpTo(msgs)[n]
  BY DEF WritesIn, UpTo
<1> HIDE DEF n
<1>3. f = Body(f)
  <2>1. ASSUME NEW i \in 0 .. n PROVE f[i] = Body(f)[i]
    <3>1. CASE i = 0
      BY <1>2, <3>1
    <3>2. CASE i \in 1 .. n
      BY <1>2, <3>2 DEF Take
    <3> QED
      BY <1>1, <3>1, <3>2
  <2>2. f = [i \in 0 .. n |-> f[i]]
    BY <1>2
  <2> QED
    BY <2>1, <2>2
<1> DEFINE u == UpTo(msgs)
<1>4. u = Body(u)
  <2> HIDE DEF Body
  <2> QED
    BY <1>3, <1>8
<1> HIDE DEF u
<1>6. DOMAIN u = 0 .. n /\ u[0] = <<>> /\ \A i \in 1 .. n : u[i] = Take(u, msgs, i)
  <2>1. DOMAIN u = 0 .. n /\ u[0] = <<>>
    BY <1>1, <1>4
  <2>2. ASSUME NEW i \in 1 .. n PROVE u[i] = Take(u, msgs, i)
    <3>1. i # 0 /\ i \in 0 .. n
      BY <1>1
    <3> QED
      BY <1>4, <3>1 DEF Take
  <2> QED
    BY <2>1, <2>2
<1>7. u \in [0 .. n -> Seq(Nat)]
  <2> DEFINE P(i) == i <= n => u[i] \in Seq(Nat)
             T == {i \in Nat : P(i)}
  <2>1. P(0)
    BY <1>6
  <2>2. ASSUME NEW i \in Nat, P(i) PROVE P(i + 1)
    <3> SUFFICES ASSUME i + 1 <= n PROVE u[i + 1] \in Seq(Nat)
      OBVIOUS
    <3>1. u[i] \in Seq(Nat)
      BY <1>1, <2>2
    <3>2. i + 1 \in 1 .. n /\ (i + 1) - 1 = i
      BY <1>1
    <3>3. u[i + 1] = Take(u, msgs, i + 1)
      BY <1>6, <3>2
    <3>4. msgs[i + 1] \in Msg
      BY <3>2 DEF n
    <3>5. msgs[i + 1].type = "write" => msgs[i + 1].n \in Nat
      BY <3>4 DEF Msg
    <3> QED
      BY <3>1, <3>2, <3>3, <3>5 DEF Take
  <2> HIDE DEF P
  <2>3. T = Nat
    <3>1. T \in SUBSET Nat /\ 0 \in T
      BY <2>1
    <3>2. \A i \in T : i + 1 \in T
      BY <2>2
    <3> HIDE DEF T
    <3> QED
      BY <3>1, <3>2, SetInduction
  <2>6. \A i \in Nat : P(i)
    BY <2>3
  <2>4. \A i \in 0 .. n : u[i] \in Seq(Nat)
    BY <1>1, <2>6 DEF P
  <2>5. u = [i \in 0 .. n |-> u[i]]
    BY <1>4
  <2> QED
    BY <2>4, <2>5
<1> QED
  BY <1>6, <1>7, <1>9 DEF u, n

\* The writes of some messages are numbers.
LEMMA WritesInType ==
  ASSUME NEW msgs \in Seq(Msg)
  PROVE  WritesIn(msgs) \in Seq(Nat)
BY UpToDef

\* No message, no write.
LEMMA WritesInEmpty == WritesIn(<<>>) = <<>>
<1>1. <<>> \in Seq(Msg) /\ Len(<<>>) = 0
  OBVIOUS
<1> QED
  BY <1>1, UpToDef

\* A message at the end.
LEMMA WritesInAppend ==
  ASSUME NEW s \in Seq(Msg), NEW m \in Msg
  PROVE  WritesIn(Append(s, m)) = IF m.type = "write" THEN Append(WritesIn(s), m.n) ELSE WritesIn(s)
<1> DEFINE t == Append(s, m)
           u == UpTo(s)
           v == UpTo(t)
           n == Len(s)
<1>1. t \in Seq(Msg) /\ Len(t) = n + 1 /\ n \in Nat /\ t[n + 1] = m /\ \A i \in 1 .. n : t[i] = s[i]
  OBVIOUS
<1> HIDE DEF t
<1>2. /\ u[0] = <<>> /\ \A i \in 1 .. n : u[i] = Take(u, s, i)
      /\ WritesIn(s) = u[n]
  BY UpToDef
<1>3. /\ v[0] = <<>> /\ \A i \in 1 .. n + 1 : v[i] = Take(v, t, i)
      /\ WritesIn(t) = v[n + 1]
  BY <1>1, UpToDef
<1> HIDE DEF u, v
<1> DEFINE T == {i \in Nat : i <= n => v[i] = u[i]}
<1>4. 0 \in T
  BY <1>2, <1>3
<1>5. ASSUME NEW i \in T PROVE i + 1 \in T
  <2> SUFFICES ASSUME i + 1 <= n PROVE v[i + 1] = u[i + 1]
    OBVIOUS
  <2>1. v[i] = u[i] /\ i + 1 \in 1 .. n /\ i + 1 \in 1 .. n + 1 /\ (i + 1) - 1 = i
    BY <1>1, <1>5
  <2>2. v[i + 1] = Take(v, t, i + 1) /\ u[i + 1] = Take(u, s, i + 1)
    BY <1>2, <1>3, <2>1
  <2> QED
    BY <1>1, <2>1, <2>2 DEF Take
<1>6. v[n] = u[n]
  <2>1. T = Nat
    BY <1>4, <1>5, SetInduction
  <2> QED
    BY <1>1, <2>1
<1>7. v[n + 1] = Take(v, t, n + 1)
  BY <1>1, <1>3
<1>8. v[n + 1] = IF m.type = "write" THEN Append(u[n], m.n) ELSE u[n]
  BY <1>1, <1>6, <1>7 DEF Take
<1> QED
  BY <1>2, <1>3, <1>8 DEF t

\* The end of the second part is the end of the whole.
LEMMA AppendConcat ==
  ASSUME NEW a \in Seq(Nat), NEW b \in Seq(Nat), NEW e \in Nat
  PROVE  Append(a \o b, e) = a \o Append(b, e)
<1> DEFINE l == Append(a \o b, e)
           r == a \o Append(b, e)
<1>1. l \in Seq(Nat) /\ r \in Seq(Nat) /\ Len(l) = Len(a) + Len(b) + 1 /\ Len(r) = Len(l)
  OBVIOUS
<1>2. ASSUME NEW i \in 1 .. Len(a) + Len(b) + 1 PROVE l[i] = r[i]
  OBVIOUS
<1> HIDE DEF l, r
<1>3. l = r
  BY <1>1, <1>2, SeqEqual
<1> QED
  BY <1>3 DEF l, r

\* The writes of two parts.
LEMMA WritesInConcat ==
  ASSUME NEW s \in Seq(Msg), NEW t \in Seq(Msg)
  PROVE  WritesIn(s \o t) = WritesIn(s) \o WritesIn(t)
<1> DEFINE T == {n \in Nat : \A u \in Seq(Msg) : Len(u) = n => WritesIn(s \o u) = WritesIn(s) \o WritesIn(u)}
<1>1. 0 \in T
  <2> SUFFICES ASSUME NEW u \in Seq(Msg), Len(u) = 0
               PROVE  WritesIn(s \o u) = WritesIn(s) \o WritesIn(u)
    OBVIOUS
  <2>1. u = <<>> /\ s \o u = s
    OBVIOUS
  <2>2. WritesIn(s) \in Seq(Nat)
    BY WritesInType
  <2>3. WritesIn(s) \o <<>> = WritesIn(s)
    BY <2>2
  <2> QED
    BY <2>1, <2>3, WritesInEmpty
<1>2. ASSUME NEW n \in T PROVE n + 1 \in T
  <2> SUFFICES ASSUME NEW u \in Seq(Msg), Len(u) = n + 1
               PROVE  WritesIn(s \o u) = WritesIn(s) \o WritesIn(u)
    OBVIOUS
  <2> DEFINE m == u[n + 1]
             w == SubSeq(u, 1, n)
  <2>1. m \in Msg /\ w \in Seq(Msg) /\ Len(w) = n /\ u = Append(w, m)
    <3>1. n \in Nat /\ \A i \in 1 .. n : u[i] \in Msg
      BY <1>2
    <3>2. w \in Seq(Msg) /\ Len(w) = n /\ \A i \in 1 .. n : w[i] = u[i]
      BY <3>1
    <3>3. m \in Msg
      BY <3>1
    <3> HIDE DEF w, m
    <3>4. Append(w, m) \in Seq(Msg) /\ Len(Append(w, m)) = n + 1
      BY <3>2, <3>3
    <3>5. ASSUME NEW i \in 1 .. n + 1 PROVE Append(w, m)[i] = u[i]
      BY <3>1, <3>2, <3>3 DEF m
    <3> QED
      BY <3>1, <3>2, <3>3, <3>4, <3>5, SeqEqual
  <2> HIDE DEF m, w
  <2>2. s \o u = Append(s \o w, m) /\ s \o w \in Seq(Msg)
    BY <2>1
  <2>3. WritesIn(s \o w) = WritesIn(s) \o WritesIn(w)
    BY <1>2, <2>1
  <2> HIDE DEF m, w
  <2> DEFINE x == s \o w
  <2>4. /\ WritesIn(s \o u) = IF m.type = "write" THEN Append(WritesIn(x), m.n) ELSE WritesIn(x)
        /\ WritesIn(u) = IF m.type = "write" THEN Append(WritesIn(w), m.n) ELSE WritesIn(w)
    <3>1. x \in Seq(Msg) /\ s \o u = Append(x, m)
      BY <2>2
    <3> HIDE DEF x
    <3> QED
      BY <2>1, <3>1, WritesInAppend
  <2>5. WritesIn(s) \in Seq(Nat) /\ WritesIn(w) \in Seq(Nat) /\ (m.type = "write" => m.n \in Nat)
    BY <2>1, WritesInType DEF Msg
  <2>6. CASE m.type = "write"
    <3>1. Append(WritesIn(s) \o WritesIn(w), m.n) = WritesIn(s) \o Append(WritesIn(w), m.n)
      <4> DEFINE a == WritesIn(s)
                 b == WritesIn(w)
                 e == m.n
      <4>1. a \in Seq(Nat) /\ b \in Seq(Nat) /\ e \in Nat
        BY <2>5, <2>6
      <4> HIDE DEF a, b, e
      <4>2. Append(a \o b, e) = a \o Append(b, e)
        BY <4>1, AppendConcat
      <4> QED
        BY <4>2 DEF a, b, e
    <3>2. WritesIn(x) = WritesIn(s) \o WritesIn(w)
      BY <2>3
    <3>3. WritesIn(s \o u) = Append(WritesIn(x), m.n) /\ WritesIn(u) = Append(WritesIn(w), m.n)
      BY <2>4, <2>6
    <3> HIDE DEF x
    <3> QED
      BY <3>1, <3>2, <3>3, Zenon
  <2>7. CASE m.type # "write"
    BY <2>3, <2>4, <2>7
  <2> QED
    BY <2>6, <2>7
<1>3. T = Nat
  BY <1>1, <1>2, SetInduction
<1> QED
  BY <1>3

\* A message at the front.
LEMMA WritesInHead ==
  ASSUME NEW s \in Seq(Msg), s # <<>>
  PROVE  /\ Head(s) \in Msg /\ Tail(s) \in Seq(Msg)
         /\ WritesIn(s) = (IF Head(s).type = "write" THEN <<Head(s).n>> ELSE <<>>) \o WritesIn(Tail(s))
<1> DEFINE m == Head(s)
           t == Tail(s)
<1>1. m \in Msg /\ t \in Seq(Msg) /\ s = <<m>> \o t /\ <<m>> \in Seq(Msg)
  OBVIOUS
<1>2. <<m>> = Append(<<>>, m) /\ <<>> \in Seq(Msg)
  OBVIOUS
<1> HIDE DEF m, t
<1>3. WritesIn(<<m>>) = IF m.type = "write" THEN <<m.n>> ELSE <<>>
  <2>1. WritesIn(<<m>>) = IF m.type = "write" THEN Append(<<>>, m.n) ELSE <<>>
    BY <1>1, <1>2, WritesInAppend, WritesInEmpty
  <2> QED
    BY <2>1
<1>4. WritesIn(s) = WritesIn(<<m>>) \o WritesIn(t)
  BY <1>1, WritesInConcat
<1> QED
  BY <1>1, <1>3, <1>4 DEF m, t

-----------------------------------------------------------------------------
(* The inductive invariant.                                                *)

\* Types that TypeOK leaves to the shape of the specification.
Types ==
  /\ hasMaster \in BOOLEAN /\ armed \in BOOLEAN /\ replId \in BOOLEAN
  /\ out \in Seq(Msg)
  /\ toMaster \in [Links -> Seq(Msg)] /\ toReplica \in [Links -> Seq(Msg)]
  /\ mOut \in [Links -> Seq(Msg)]
  /\ replicas \in Seq(Links)
  /\ links \in 0 .. MaxLinks /\ writes \in 0 .. MaxWrites
  /\ syncedAt \in [Links -> 0 .. writes]

\* What the replica has sent on a connection and the master has not read.
Sent(l) == toMaster[l] \o (IF masterClient = l THEN out ELSE <<>>)

\* The positions of PSYNC.
Asks(s) == {i \in DOMAIN s : s[i].text = "PSYNC"}
OneAsk(s) == \A i, j \in Asks(s) : i = j

\* A connection carries PSYNC once: not before REPLCONF is answered, and never again once the
\* master lists it in replicas_.
PsyncOnce ==
  \A l \in Links :
    /\ OneAsk(Sent(l))
    /\ l \in ToSet(replicas) => Asks(Sent(l)) = {}
    /\ masterClient = l /\ replState \in {"RECEIVE_PONG", "SEND_PSYNC"}
         => Asks(Sent(l)) = {} /\ l \notin ToSet(replicas)

\* Nothing has travelled on connections to come.
Unused == \A l \in Links : l > links => toMaster[l] = <<>> /\ toReplica[l] = <<>>

Plain(s) == \A i \in DOMAIN s : s[i].text \notin {"FULLRESYNC", "RDB", "write"}

\* Before PSYNC a connection carries neither snapshot nor writes, and the replica is not past it.
NothingBeforePsync ==
  \A l \in clients \ ToSet(replicas) :
    /\ Plain(toReplica[l]) /\ Plain(mOut[l])
    /\ masterClient = l => replState \in {"RECEIVE_PONG", "SEND_PSYNC", "RECEIVE_PSYNC"}

\* The writes of a connection: applied since the snapshot, under way, and buffered.
Part(l) == IF masterClient = l /\ replState = "CONNECTED" THEN applied ELSE <<>>
Stream(l) == Part(l) \o WritesIn(toReplica[l]) \o WritesIn(mOut[l])

\* Numbers that follow each other.
Consecutive(s, from) == \A i \in DOMAIN s : s[i] = from + i

\* They follow each other from the PSYNC on, and reach the last write while the master feeds the
\* connection.  A connection both ends have given up is of no interest.
StreamsAreRuns ==
  \A l \in Links : l \notin broken \/ masterClient = l =>
    /\ Consecutive(Stream(l), syncedAt[l])
    /\ syncedAt[l] + Len(Stream(l)) <= writes
    /\ l \in ToSet(replicas) => syncedAt[l] + Len(Stream(l)) = writes

\* Invariants that need each other: that PSYNC is sent once makes replicas_ injective and the
\* stream start empty; that nothing but handshake replies precedes it makes a database follow its
\* snapshot.
IInv ==
  /\ TypeOK /\ Types
  /\ ReplicasAreConnected
  /\ PsyncOnce /\ Unused /\ NothingBeforePsync
  /\ StreamsAreRuns /\ AppliedIsARun
  /\ BacklogHoldsTheLastBytes

-----------------------------------------------------------------------------
(* Sequences of messages.                                                  *)

\* A command or reply of the handshake is a message.
LEMMA TextIsMsg ==
  ASSUME NEW t \in Words
  PROVE  /\ Text(t) \in Msg /\ Text(t).type = "text" /\ Text(t).text = t
         /\ <<Text(t)>> \in Seq(Msg)
BY DEF Text, Msg

\* A propagated write is a message.
LEMMA WriteIsMsg ==
  ASSUME NEW n \in Nat
  PROVE  Write(n) \in Msg /\ Write(n).type = "write" /\ Write(n).n = n /\ Write(n).text = "write"
BY DEF Write, Msg

\* The text of a message tells whether it is a write.
LEMMA MsgKind ==
  ASSUME NEW m \in Msg
  PROVE  (m.type = "write" <=> m.text = "write") /\ (m.type = "write" => m.n \in Nat)
BY DEF Msg, Words

\* The buffers of a connection one behind the other.
LEMMA ConcatAssoc ==
  ASSUME NEW S, NEW a \in Seq(S), NEW b \in Seq(S), NEW c \in Seq(S)
  PROVE  (a \o b) \o c = a \o (b \o c)
BY ConcatAssociative

\* The front of a queue of messages has no more PSYNCs than the queue.
LEMMA AsksFront ==
  ASSUME NEW s \in Seq(Msg), NEW t \in Seq(Msg)
  PROVE  Asks(s) \subseteq Asks(s \o t)
BY DEF Asks

\* A reply that is no PSYNC adds none.
LEMMA AsksReply ==
  ASSUME NEW s \in Seq(Msg), NEW m \in Msg, m.text # "PSYNC"
  PROVE  Asks(s \o <<m>>) = Asks(s)
BY DEF Asks

\* The PSYNC of a connection that had none.
LEMMA AsksPsync ==
  ASSUME NEW s \in Seq(Msg), NEW m \in Msg, Asks(s) = {}
  PROVE  OneAsk(s \o <<m>>)
<1>1. \A i \in Asks(s \o <<m>>) : i = Len(s) + 1
  BY DEF Asks
<1> QED
  BY <1>1 DEF OneAsk

\* Reading the first message.
LEMMA AsksTail ==
  ASSUME NEW s \in Seq(Msg), s # <<>>, OneAsk(s)
  PROVE  /\ OneAsk(Tail(s))
         /\ Asks(s) = {} => Asks(Tail(s)) = {}
         /\ Head(s).text = "PSYNC" => Asks(Tail(s)) = {}
<1>1. \A i \in Asks(Tail(s)) : i + 1 \in Asks(s) /\ i \in Nat \ {0}
  BY DEF Asks
<1>2. Head(s).text = "PSYNC" => 1 \in Asks(s)
  BY DEF Asks
<1> QED
  BY <1>1, <1>2 DEF OneAsk

\* The first message of two queues one behind the other is the first queue's.
LEMMA TailConcat ==
  ASSUME NEW s \in Seq(Msg), NEW t \in Seq(Msg), s # <<>>
  PROVE  Tail(s \o t) = Tail(s) \o t /\ Head(s \o t) = Head(s) /\ s \o t # <<>>
<1> DEFINE a == Tail(s \o t)
           b == Tail(s) \o t
<1>1. a \in Seq(Msg) /\ b \in Seq(Msg) /\ Len(a) = Len(b) /\ Len(a) = Len(s) + Len(t) - 1
  OBVIOUS
<1>2. ASSUME NEW i \in 1 .. Len(s) + Len(t) - 1 PROVE a[i] = b[i]
  OBVIOUS
<1> HIDE DEF a, b
<1>3. a = b
  BY <1>1, <1>2, SeqEqual
<1> QED
  BY <1>3 DEF a, b

\* A reply that is no write changes no stream.
LEMMA WritesInReply ==
  ASSUME NEW s \in Seq(Msg), NEW m \in Msg, m.text # "write"
  PROVE  WritesIn(s \o <<m>>) = WritesIn(s)
<1>1. s \o <<m>> = Append(s, m)
  OBVIOUS
<1> QED
  BY <1>1, WritesInAppend, MsgKind

\* Reading a plain message.
LEMMA PlainTail ==
  ASSUME NEW s \in Seq(Msg), s # <<>>, Plain(s)
  PROVE  Plain(Tail(s)) /\ Head(s).text \notin {"FULLRESYNC", "RDB", "write"}
BY DEF Plain

\* Buffering a plain message.
LEMMA PlainReply ==
  ASSUME NEW s \in Seq(Msg), NEW m \in Msg, Plain(s), m.text \notin {"FULLRESYNC", "RDB", "write"}
  PROVE  Plain(s \o <<m>>)
BY DEF Plain

\* Sending plain messages.
LEMMA PlainConcat ==
  ASSUME NEW s \in Seq(Msg), NEW t \in Seq(Msg), Plain(s), Plain(t)
  PROVE  Plain(s \o t)
BY DEF Plain

\* Plain messages hold no writes.
LEMMA PlainHasNoWrites ==
  ASSUME NEW s \in Seq(Msg), Plain(s)
  PROVE  WritesIn(s) = <<>>
<1> DEFINE P(n) == \A u \in Seq(Msg) : Len(u) = n /\ Plain(u) => WritesIn(u) = <<>>
           T == {n \in Nat : P(n)}
<1>1. P(0)
  <2>1. \A u \in Seq(Msg) : Len(u) = 0 => u = <<>>
    OBVIOUS
  <2> QED
    BY <2>1, WritesInEmpty
<1>2. ASSUME NEW n \in Nat, P(n) PROVE P(n + 1)
  <2> SUFFICES ASSUME NEW u \in Seq(Msg), Len(u) = n + 1, Plain(u)
               PROVE  WritesIn(u) = <<>>
    OBVIOUS
  <2>1. u # <<>> /\ Tail(u) \in Seq(Msg) /\ Len(Tail(u)) = n
    OBVIOUS
  <2>2. Plain(Tail(u)) /\ Head(u) \in Msg /\ Head(u).type # "write"
    BY <2>1, PlainTail, MsgKind
  <2>3. WritesIn(Tail(u)) = <<>>
    BY <1>2, <2>1, <2>2
  <2>4. WritesIn(u) = <<>> \o WritesIn(Tail(u))
    BY <2>1, <2>2, WritesInHead
  <2> QED
    BY <2>3, <2>4
<1> HIDE DEF P
<1>3. T = Nat
  <2>1. T \in SUBSET Nat /\ 0 \in T
    BY <1>1
  <2>2. \A n \in T : n + 1 \in T
    BY <1>2
  <2> HIDE DEF T
  <2> QED
    BY <2>1, <2>2, SetInduction
<1>4. P(Len(s))
  BY <1>3
<1> QED
  BY <1>4 DEF P

\* removeReplica.
LEMMA RemoveFirstIs ==
  ASSUME NEW S, NEW s \in Seq(S), NEW e, IsInjective(s)
  PROVE  /\ RemoveFirst(s, e) \in Seq(S)
         /\ IsInjective(RemoveFirst(s, e))
         /\ ToSet(RemoveFirst(s, e)) = ToSet(s) \ {e}
<1>1. CASE \E i \in 1 .. Len(s) : s[i] = e
  <2>1. PICK k \in 1 .. Len(s) : s[k] = e
    BY <1>1
  <2>2. {i \in 1 .. Len(s) : s[i] = e} = {k}
    BY <2>1 DEF IsInjective
  <2>3. SelectInSeq(s, LAMBDA v : v = e) = k
    BY <2>1, <2>2, MinIs DEF SelectInSeq
  <2>4. RemoveFirst(s, e) = RemoveAt(s, k)
    BY <1>1, <2>3 DEF RemoveFirst
  <2> DEFINE r == RemoveAt(s, k)
  <2>5. r \in Seq(S) /\ Len(r) = Len(s) - 1
        /\ \A i \in 1 .. Len(r) : r[i] = IF i < k THEN s[i] ELSE s[i + 1]
    <3> DEFINE a == SubSeq(s, 1, k - 1)
               b == SubSeq(s, k + 1, Len(s))
    <3>1. a \in Seq(S) /\ Len(a) = k - 1 /\ \A i \in 1 .. k - 1 : a[i] = s[i]
      BY <2>1
    <3>2. b \in Seq(S) /\ Len(b) = Len(s) - k /\ \A i \in 1 .. Len(s) - k : b[i] = s[k + i]
      BY <2>1
    <3>3. r = a \o b
      BY DEF RemoveAt
    <3> HIDE DEF a, b, r
    <3>4. r \in Seq(S) /\ Len(r) = Len(s) - 1
      BY <2>1, <3>1, <3>2, <3>3
    <3>5. ASSUME NEW i \in 1 .. Len(r) PROVE r[i] = IF i < k THEN s[i] ELSE s[i + 1]
      <4>1. CASE i < k
        BY <2>1, <3>1, <3>2, <3>3, <3>4, <4>1
      <4>2. CASE i >= k
        <5>1. i - (k - 1) \in 1 .. Len(s) - k /\ r[i] = b[i - (k - 1)]
          BY <2>1, <3>1, <3>2, <3>3, <3>4, <4>2
        <5>2. b[i - (k - 1)] = s[k + (i - (k - 1))] /\ k + (i - (k - 1)) = i + 1
          BY <2>1, <3>2, <3>4, <5>1
        <5> QED
          BY <4>2, <5>1, <5>2
      <4> QED
        BY <2>1, <4>1, <4>2
    <3> QED
      BY <3>4, <3>5
  <2> HIDE DEF r
  <2>6. IsInjective(r)
    <3> DEFINE at(i) == IF i < k THEN i ELSE i + 1
    <3>1. ASSUME NEW i \in DOMAIN r, NEW j \in DOMAIN r, r[i] = r[j] PROVE i = j
      <4>1. i \in 1 .. Len(s) - 1 /\ j \in 1 .. Len(s) - 1
        BY <2>5
      <4>2. r[i] = s[at(i)] /\ r[j] = s[at(j)] /\ at(i) \in DOMAIN s /\ at(j) \in DOMAIN s
        BY <2>1, <2>5, <4>1
      <4>3. at(i) = at(j)
        BY <3>1, <4>2 DEF IsInjective
      <4> QED
        BY <2>1, <4>1, <4>3
    <3> QED
      BY <3>1 DEF IsInjective
  <2>7. ToSet(r) = ToSet(s) \ {e}
    <3>1. ASSUME NEW i \in 1 .. Len(s), i # k PROVE s[i] \in ToSet(r)
      <4>1. CASE i < k
        BY <2>1, <2>5, <4>1 DEF ToSet
      <4>2. CASE i > k
        <5>1. i - 1 \in 1 .. Len(r) /\ r[i - 1] = s[i]
          BY <2>1, <2>5, <4>2
        <5> QED
          BY <2>5, <5>1 DEF ToSet
      <4> QED
        BY <2>1, <3>1, <4>1, <4>2
    <3>2. \A i \in 1 .. Len(r) : r[i] \in ToSet(s) \ {e}
      BY <2>1, <2>5 DEF ToSet, IsInjective
    <3> QED
      BY <2>1, <2>5, <3>1, <3>2 DEF ToSet
  <2> QED
    BY <2>4, <2>5, <2>6, <2>7 DEF r
<1>2. CASE ~ \E i \in 1 .. Len(s) : s[i] = e
  BY <1>2 DEF RemoveFirst, ToSet
<1> QED
  BY <1>1, <1>2

-----------------------------------------------------------------------------
(* The initial state.                                                      *)

\* Two servers that have just started.
LEMMA InitInv == Init => IInv
<1> SUFFICES ASSUME Init PROVE IInv
  OBVIOUS
<1>0. BacklogTypeOK /\ BacklogHoldsTheLastBytes
  BY BacklogInitHolds DEF Init
<1>1. TypeOK
  BY <1>0 DEF Init, TypeOK, Handshake, Links
<1>2. Types
  <2>1. <<>> \in Seq(Msg) /\ <<>> \in Seq(Links)
    OBVIOUS
  <2>2. /\ toMaster \in [Links -> Seq(Msg)] /\ toReplica \in [Links -> Seq(Msg)]
        /\ mOut \in [Links -> Seq(Msg)]
    BY <2>1 DEF Init
  <2>3. writes = 0 /\ links = 0 /\ syncedAt \in [Links -> 0 .. writes]
    BY DEF Init
  <2>4. hasMaster \in BOOLEAN /\ armed \in BOOLEAN /\ replId \in BOOLEAN
    BY DEF Init
  <2>5. out \in Seq(Msg) /\ replicas \in Seq(Links)
    BY <2>1 DEF Init
  <2>6. links \in 0 .. MaxLinks /\ writes \in 0 .. MaxWrites
    BY <2>3, LinksAssumption, WritesAssumption
  <2> QED
    BY <2>2, <2>3, <2>4, <2>5, <2>6 DEF Types
<1>3. ReplicasAreConnected /\ AppliedIsARun /\ Unused /\ NothingBeforePsync
  BY DEF Init, ReplicasAreConnected, AppliedIsARun, Unused, NothingBeforePsync, IsInjective, ToSet
<1>4. PsyncOnce
  <2>1. ASSUME NEW l \in Links PROVE Asks(Sent(l)) = {} /\ l \notin ToSet(replicas)
    BY DEF Init, Sent, Asks, ToSet, Links
  <2> QED
    BY <2>1 DEF PsyncOnce, OneAsk
<1>5. StreamsAreRuns
  <2>1. ASSUME NEW l \in Links PROVE Stream(l) = <<>> /\ syncedAt[l] = 0 /\ writes = 0
    BY WritesInEmpty DEF Init, Stream, Part, Links
  <2> QED
    BY <2>1 DEF StreamsAreRuns, Consecutive
<1> QED
  BY <1>0, <1>1, <1>2, <1>3, <1>4, <1>5 DEF IInv

\* What most steps leave alone.
LEMMA BacklogKept ==
  ASSUME IInv, UNCHANGED backlog
  PROVE  BacklogTypeOK' /\ BacklogHoldsTheLastBytes'
BY DEF IInv, TypeOK, backlog, BacklogTypeOK, BacklogHoldsTheLastBytes

\* The parts of a stream are sequences of numbers.
LEMMA StreamType ==
  ASSUME IInv, NEW l \in Links
  PROVE  /\ Part(l) \in Seq(Nat) /\ WritesIn(toReplica[l]) \in Seq(Nat)
         /\ WritesIn(mOut[l]) \in Seq(Nat) /\ Stream(l) \in Seq(Nat)
         /\ writes \in Nat /\ syncedAt[l] \in Nat
<1>1. Part(l) \in Seq(Nat)
  BY DEF IInv, TypeOK, Types, Part
<1>2. WritesIn(toReplica[l]) \in Seq(Nat) /\ WritesIn(mOut[l]) \in Seq(Nat)
  BY WritesInType DEF IInv, Types
<1>3. Stream(l) \in Seq(Nat)
  BY <1>1, <1>2 DEF Stream
<1> QED
  BY <1>1, <1>2, <1>3 DEF IInv, Types

\* What is under way to the master are messages, with the PSYNCs of the wire among them.
LEMMA SentType ==
  ASSUME IInv, NEW l \in Links
  PROVE  Sent(l) \in Seq(Msg) /\ toMaster[l] \in Seq(Msg) /\ Asks(toMaster[l]) \subseteq Asks(Sent(l))
<1> DEFINE x == IF masterClient = l THEN out ELSE <<>>
           t == toMaster[l]
<1>1. t \in Seq(Msg) /\ x \in Seq(Msg) /\ Sent(l) = t \o x
  BY DEF IInv, Types, Sent
<1> HIDE DEF x, t
<1>2. t \o x \in Seq(Msg) /\ Asks(t) \subseteq Asks(t \o x)
  BY <1>1, AsksFront
<1> QED
  BY <1>1, <1>2 DEF t

-----------------------------------------------------------------------------
(* The replica gives its connection up.                                    *)

\* disconnectFromMaster, whatever was under way and whatever message was the reason.
LEMMA DropInv ==
  ASSUME IInv, Disconnected, UNCHANGED <<toMaster, master, history, backlog>>,
         hasMaster' \in BOOLEAN, applied' = applied \/ applied' = <<>>,
         \/ toReplica' = toReplica
         \/ /\ masterClient # 0 /\ toReplica[masterClient] # <<>>
            /\ toReplica' = [toReplica EXCEPT ![masterClient] = Tail(@)]
  PROVE  IInv'
<1>0. BacklogTypeOK' /\ BacklogHoldsTheLastBytes'
  BY BacklogKept
<1>1. /\ 0 \notin Links /\ (masterClient # 0 => masterClient \in Links /\ masterClient \in 1 .. links)
      /\ clients \subseteq Links
  BY LinksAssumption DEF IInv, TypeOK, Types, Links
<1>2. /\ masterClient' = 0 /\ out' = <<>> /\ replState' = "CONNECT"
      /\ broken' = broken \cup ({masterClient} \ {0})
      /\ toMaster' = toMaster
      /\ clients' = clients /\ mOut' = mOut /\ mArmed' = mArmed /\ replicas' = replicas
      /\ links' = links /\ writes' = writes /\ syncedAt' = syncedAt
  BY DEF Disconnected, master, history
<1>3. armed' = FALSE /\ replId' = replId
  BY DEF Disconnected, master
<1>4. TypeOK'
  <2>1. broken' \subseteq 1 .. links
    BY <1>1, <1>2 DEF IInv, TypeOK
  <2>2. applied' \in Seq(1 .. writes)
    <3>1. applied \in Seq(1 .. writes) /\ <<>> \in Seq(1 .. writes)
      BY DEF IInv, TypeOK
    <3> QED
      BY <3>1
  <2>3. 0 \in 0 .. links
    BY DEF IInv, Types
  <2> QED
    BY <1>0, <1>2, <1>3, <2>1, <2>2, <2>3 DEF IInv, TypeOK, Handshake
<1>5. Types'
  <2>1. toReplica' \in [Links -> Seq(Msg)]
    <3>1. toReplica \in [Links -> Seq(Msg)]
      BY DEF IInv, Types
    <3>2. ASSUME NEW s \in Seq(Msg), s # <<>> PROVE Tail(s) \in Seq(Msg)
      BY <3>2
    <3> QED
      BY <1>1, <3>1, <3>2
  <2>2. out' \in Seq(Msg) /\ toMaster' \in [Links -> Seq(Msg)] /\ mOut' \in [Links -> Seq(Msg)]
    BY <1>2 DEF IInv, Types
  <2>3. armed' \in BOOLEAN /\ replId' \in BOOLEAN
    BY <1>3 DEF IInv, Types
  <2> QED
    BY <1>2, <2>1, <2>2, <2>3 DEF IInv, Types
<1>6. ReplicasAreConnected'
  BY <1>2 DEF IInv, ReplicasAreConnected
<1>7. PsyncOnce'
  <2> SUFFICES ASSUME NEW l \in Links
               PROVE  /\ OneAsk(Sent(l)')
                      /\ l \in ToSet(replicas) => Asks(Sent(l)') = {}
    BY <1>1, <1>2 DEF PsyncOnce
  <2>1. Sent(l)' = toMaster[l]
    BY <1>1, <1>2, SentType DEF Sent
  <2>2. Asks(Sent(l)') \subseteq Asks(Sent(l))
    BY <2>1, SentType
  <2> QED
    BY <2>2 DEF IInv, PsyncOnce, OneAsk
<1>8. Unused'
  <2>1. \A l \in Links : l > links => toMaster[l] = <<>> /\ toReplica[l] = <<>>
    BY DEF IInv, Unused
  <2>2. \A l \in Links : l > links => toReplica'[l] = toReplica[l]
    BY <1>1 DEF IInv, Types
  <2> QED
    BY <1>2, <2>1, <2>2 DEF Unused
<1>9. NothingBeforePsync'
  <2> SUFFICES ASSUME NEW l \in clients \ ToSet(replicas)
               PROVE  Plain(toReplica'[l]) /\ Plain(mOut[l])
    BY <1>1, <1>2 DEF NothingBeforePsync
  <2>1. l \in Links /\ Plain(toReplica[l]) /\ Plain(mOut[l]) /\ toReplica[l] \in Seq(Msg)
    BY <1>1 DEF IInv, Types, NothingBeforePsync
  <2>2. toReplica'[l] = toReplica[l] \/ (toReplica[l] # <<>> /\ toReplica'[l] = Tail(toReplica[l]))
    BY <1>1, <2>1 DEF IInv, Types
  <2> QED
    BY <2>1, <2>2, PlainTail
<1>10. StreamsAreRuns'
  <2>1. ASSUME NEW l \in Links, l \notin broken' \/ masterClient' = l
        PROVE  Stream(l)' = Stream(l) /\ l \notin broken
    <3>1. l # masterClient /\ l \notin broken
      BY <1>1, <1>2, <2>1
    <3>2. toReplica'[l] = toReplica[l] /\ Part(l)' = Part(l)
      BY <1>1, <1>2, <3>1 DEF Part, IInv, Types
    <3> QED
      BY <1>2, <3>1, <3>2 DEF Stream
  <2> QED
    BY <1>2, <2>1 DEF StreamsAreRuns, IInv
<1>11. AppliedIsARun'
  BY DEF IInv, AppliedIsARun
<1> QED
  BY <1>0, <1>4, <1>5, <1>6, <1>7, <1>8, <1>9, <1>10, <1>11 DEF IInv

-----------------------------------------------------------------------------
(* The replica reads.                                                      *)

\* What a message read by the replica must not disturb.
LEMMA ReadInv ==
  ASSUME IInv, NEW reply \in Seq(Msg), NEW s \in Handshake \cup {"CONNECTED"},
         NEW c \in Links, masterClient = c, toReplica[c] # <<>>, Read(reply, s),
         applied' \in Seq(1 .. writes), AppliedIsARun',
         Stream(c)' = Stream(c),
         OneAsk(Sent(c) \o reply),
         c \in ToSet(replicas) => Asks(Sent(c) \o reply) = {},
         s \in {"RECEIVE_PONG", "SEND_PSYNC"}
           => Asks(Sent(c) \o reply) = {} /\ c \notin ToSet(replicas),
         c \in clients \ ToSet(replicas)
           => s \in {"RECEIVE_PONG", "SEND_PSYNC", "RECEIVE_PSYNC"}
  PROVE  IInv'
<1>0. BacklogTypeOK' /\ BacklogHoldsTheLastBytes'
  BY BacklogKept DEF Read
<1>1. c \in Links /\ c \in 1 .. links /\ clients \subseteq Links /\ 0 \notin Links
  BY LinksAssumption DEF IInv, TypeOK, Types, Links
<1>2. /\ masterClient' = c /\ replState' = s /\ out' = out \o reply
      /\ broken' = broken /\ toMaster' = toMaster
      /\ toReplica' = [toReplica EXCEPT ![c] = Tail(@)]
      /\ clients' = clients /\ mOut' = mOut /\ mArmed' = mArmed /\ replicas' = replicas
      /\ links' = links /\ writes' = writes /\ syncedAt' = syncedAt
  BY DEF Read, master, history
<1>3. hasMaster' = hasMaster /\ armed' \in BOOLEAN /\ replId' = replId
  BY DEF Read, master, IInv, Types
<1>4. TypeOK'
  BY <1>0, <1>1, <1>2 DEF IInv, TypeOK
<1>5. Types'
  <2>1. toReplica' \in [Links -> Seq(Msg)] /\ out' \in Seq(Msg)
    <3>1. toReplica \in [Links -> Seq(Msg)] /\ out \in Seq(Msg)
      BY DEF IInv, Types
    <3>2. Tail(toReplica[c]) \in Seq(Msg)
      BY <1>1, <3>1
    <3> QED
      BY <1>1, <1>2, <3>1, <3>2
  <2>2. hasMaster' \in BOOLEAN /\ armed' \in BOOLEAN /\ replId' \in BOOLEAN
    BY <1>3 DEF IInv, Types
  <2> QED
    BY <1>2, <2>1, <2>2 DEF IInv, Types
<1>6. ReplicasAreConnected'
  BY <1>2 DEF IInv, ReplicasAreConnected
<1>7. PsyncOnce'
  <2>1. ASSUME NEW l \in Links
        PROVE  Sent(l)' = IF l = c THEN Sent(c) \o reply ELSE Sent(l)
    <3>1. CASE l = c
      <4> DEFINE t == toMaster[c]
                 o == out
      <4>1. t \in Seq(Msg) /\ o \in Seq(Msg)
        BY <1>1 DEF IInv, Types
      <4>2. Sent(c) = t \o o /\ Sent(l)' = t \o (o \o reply)
        BY <1>2, <3>1 DEF Sent
      <4> HIDE DEF t, o
      <4> QED
        BY <3>1, <4>1, <4>2, ConcatAssoc
    <3>2. CASE l # c
      BY <1>2, <3>2 DEF Sent
    <3> QED
      BY <3>1, <3>2
  <2>2. ASSUME NEW l \in Links
        PROVE  /\ OneAsk(Sent(l)')
               /\ l \in ToSet(replicas) => Asks(Sent(l)') = {}
               /\ c = l /\ s \in {"RECEIVE_PONG", "SEND_PSYNC"}
                    => Asks(Sent(l)') = {} /\ l \notin ToSet(replicas)
    <3>1. CASE l = c
      BY <2>1, <3>1
    <3>2. CASE l # c
      BY <2>1, <3>2 DEF IInv, PsyncOnce
    <3> QED
      BY <3>1, <3>2
  <2> QED
    BY <1>2, <2>2 DEF PsyncOnce
<1>8. Unused'
  <2>1. \A l \in Links : l > links => toReplica'[l] = toReplica[l]
    BY <1>1, <1>2 DEF IInv, Types
  <2> QED
    BY <1>2, <2>1 DEF IInv, Unused
<1>9. NothingBeforePsync'
  <2> SUFFICES ASSUME NEW l \in clients \ ToSet(replicas)
               PROVE  /\ Plain(toReplica'[l]) /\ Plain(mOut[l])
                      /\ c = l => s \in {"RECEIVE_PONG", "SEND_PSYNC", "RECEIVE_PSYNC"}
    BY <1>2 DEF NothingBeforePsync
  <2>1. l \in Links /\ Plain(toReplica[l]) /\ Plain(mOut[l]) /\ toReplica[l] \in Seq(Msg)
    BY <1>1 DEF IInv, Types, NothingBeforePsync
  <2>2. toReplica'[l] = toReplica[l] \/ (toReplica[l] # <<>> /\ toReplica'[l] = Tail(toReplica[l]))
    BY <1>1, <1>2, <2>1 DEF IInv, Types
  <2> QED
    BY <2>1, <2>2, PlainTail
<1>10. StreamsAreRuns'
  <2>1. ASSUME NEW l \in Links PROVE Stream(l)' = Stream(l)
    <3>1. CASE l # c
      <4>1. toReplica'[l] = toReplica[l] /\ Part(l)' = Part(l)
        BY <1>1, <1>2, <3>1 DEF Part, IInv, Types
      <4> QED
        BY <1>2, <4>1 DEF Stream
    <3> QED
      BY <3>1
  <2> QED
    BY <1>2, <2>1 DEF StreamsAreRuns, IInv
<1> QED
  BY <1>0, <1>4, <1>5, <1>6, <1>7, <1>8, <1>9, <1>10 DEF IInv

\* The connection the replica reads from.
LEMMA Reading ==
  ASSUME IInv, Incoming # <<>>
  PROVE  /\ masterClient \in Links /\ masterClient # 0
         /\ Incoming = toReplica[masterClient] /\ toReplica[masterClient] \in Seq(Msg)
         /\ toReplica[masterClient] # <<>>
         /\ Head(Incoming) \in Msg
<1>1. masterClient \in Links /\ masterClient # 0 /\ Incoming = toReplica[masterClient]
  BY LinksAssumption DEF IInv, TypeOK, Types, Links, Incoming
<1>2. toReplica[masterClient] \in Seq(Msg)
  BY <1>1 DEF IInv, Types
<1> QED
  BY <1>1, <1>2

\* A message that is no write, read outside of CONNECTED or with an empty database.
LEMMA StreamKept ==
  ASSUME IInv, NEW l \in Links, toReplica[l] # <<>>, Head(toReplica[l]).text # "write",
         toReplica' = [toReplica EXCEPT ![l] = Tail(@)], mOut' = mOut, Part(l)' = Part(l)
  PROVE  Stream(l)' = Stream(l)
<1> DEFINE t == toReplica[l]
<1>1. t \in Seq(Msg) /\ toReplica'[l] = Tail(t) /\ t # <<>> /\ Head(t) \in Msg
  BY DEF IInv, Types
<1>2. WritesIn(t) = (IF Head(t).type = "write" THEN <<Head(t).n>> ELSE <<>>) \o WritesIn(Tail(t))
  BY <1>1, WritesInHead
<1>3. Head(t).type # "write" /\ Tail(t) \in Seq(Msg)
  BY <1>1, MsgKind
<1>4. WritesIn(Tail(t)) \in Seq(Nat)
  BY <1>3, WritesInType
<1>5. WritesIn(t) = WritesIn(Tail(t))
  BY <1>2, <1>3, <1>4
<1> HIDE DEF t
<1> QED
  BY <1>1, <1>5 DEF Stream, t

\* The handshake: PING, REPLCONF and PSYNC go out once each, in this order.
LEMMA SyncWithMasterInv == ASSUME IInv, SyncWithMaster PROVE IInv'
<1> DEFINE m == Head(Incoming)
<1>1. Incoming # <<>> /\ replState \in {"RECEIVE_PONG", "SEND_PSYNC", "RECEIVE_PSYNC"}
  BY DEF SyncWithMaster, Expected
<1>0. PICK c \in Links : c = masterClient
  BY <1>1, Reading
<1>2. /\ c # 0 /\ Incoming = toReplica[c] /\ toReplica[c] \in Seq(Msg)
      /\ toReplica[c] # <<>> /\ m \in Msg
  BY <1>0, <1>1, Reading
<1>3. applied' = applied
  BY DEF SyncWithMaster
<1>4. CASE m.text # Expected[replState]
  <2>1. Disconnected /\ UNCHANGED <<hasMaster, toMaster, master, history, backlog>>
        /\ toReplica' = [toReplica EXCEPT ![c] = Tail(@)]
    BY <1>0, <1>4 DEF SyncWithMaster
  <2>2. hasMaster' \in BOOLEAN
    BY <2>1 DEF IInv, Types
  <2> QED
    BY <1>0, <1>2, <1>3, <2>1, <2>2, DropInv
<1>5. CASE m.text = Expected[replState]
  <2>1. Read(Answer[replState], NextStep[replState])
    BY <1>5 DEF SyncWithMaster
  <2>2. m.text # "write" /\ (replState = "RECEIVE_PSYNC" => m.text = "FULLRESYNC")
    BY <1>1, <1>5 DEF Expected
  <2>3. Stream(c)' = Stream(c)
    <3>1. Part(c) = <<>>
      BY <1>1 DEF Part
    <3>2. NextStep[replState] # "CONNECTED"
      BY <1>1 DEF NextStep
    <3>3. Part(c)' = <<>>
      BY <2>1, <3>2 DEF Part, Read
    <3> QED
      BY <1>2, <2>1, <2>2, <3>1, <3>3, StreamKept, <1>0 DEF Read, master
  <2>4. applied' \in Seq(1 .. writes) /\ AppliedIsARun'
    BY <1>3 DEF IInv, TypeOK, AppliedIsARun
  <2>5. /\ Sent(c) \in Seq(Msg) /\ OneAsk(Sent(c))
        /\ c \in ToSet(replicas) => Asks(Sent(c)) = {}
        /\ replState \in {"RECEIVE_PONG", "SEND_PSYNC"}
             => Asks(Sent(c)) = {} /\ c \notin ToSet(replicas)
    BY <1>0, <1>2, SentType DEF IInv, PsyncOnce
  <2> DEFINE u == Sent(c)
  <2> HIDE DEF u
  <2>6. CASE replState = "RECEIVE_PONG"
    <3> DEFINE r == <<Text("REPLCONF")>>
    <3>1. Answer[replState] = r /\ NextStep[replState] = "SEND_PSYNC"
      BY <2>6 DEF Answer, NextStep
    <3>0. Text("REPLCONF") \in Msg /\ Text("REPLCONF").text # "PSYNC"
      BY TextIsMsg DEF Words
    <3>2. r \in Seq(Msg) /\ "SEND_PSYNC" \in Handshake \cup {"CONNECTED"}
      BY <3>0 DEF Handshake
    <3>3. Asks(u \o r) = {} /\ c \notin ToSet(replicas)
      <4>2. Asks(u \o r) = Asks(u)
        BY <2>5, <3>0, AsksReply DEF u
      <4> QED
        BY <2>5, <2>6, <4>2 DEF u
    <3>4. OneAsk(u \o r)
      BY <3>3 DEF OneAsk
    <3>5. Read(r, "SEND_PSYNC")
      BY <2>1, <3>1
    <3> HIDE DEF r
    <3> QED
      BY <1>0, <1>2, <2>3, <2>4, <3>2, <3>3, <3>4, <3>5, ReadInv DEF u
  <2>7. CASE replState = "SEND_PSYNC"
    <3> DEFINE r == <<Text("PSYNC")>>
    <3>1. Answer[replState] = r /\ NextStep[replState] = "RECEIVE_PSYNC"
      BY <2>7 DEF Answer, NextStep
    <3>0. Text("PSYNC") \in Msg
      BY TextIsMsg DEF Words
    <3>2. r \in Seq(Msg) /\ "RECEIVE_PSYNC" \in Handshake \cup {"CONNECTED"}
      BY <3>0 DEF Handshake
    <3>3. OneAsk(u \o r) /\ c \notin ToSet(replicas)
      BY <2>5, <2>7, <3>0, AsksPsync DEF u
    <3>5. Read(r, "RECEIVE_PSYNC")
      BY <2>1, <3>1
    <3> HIDE DEF r
    <3> QED
      BY <1>0, <1>2, <2>3, <2>4, <3>2, <3>3, <3>5, ReadInv DEF u
  <2>8. CASE replState = "RECEIVE_PSYNC"
    <3> DEFINE r == <<>>
    <3>1. Answer[replState] = r /\ NextStep[replState] = "RECEIVE_RDB"
      BY <2>8 DEF Answer, NextStep
    <3>2. r \in Seq(Msg) /\ "RECEIVE_RDB" \in Handshake \cup {"CONNECTED"}
      BY DEF Handshake
    <3>3. u \o r = u
      BY <2>5 DEF u
    <3>4. c \notin clients \ ToSet(replicas)
      BY <1>0, <1>2, <2>2, <2>8, PlainTail DEF IInv, NothingBeforePsync
    <3>5. Read(r, "RECEIVE_RDB")
      BY <2>1, <3>1
    <3>6. OneAsk(u \o r) /\ (c \in ToSet(replicas) => Asks(u \o r) = {})
      BY <2>5, <3>3 DEF u
    <3> HIDE DEF r
    <3> QED
      BY <1>0, <1>2, <2>3, <2>4, <3>2, <3>4, <3>5, <3>6, ReadInv DEF u
  <2> QED
    BY <1>1, <2>6, <2>7, <2>8
<1> QED
  BY <1>4, <1>5

\* The snapshot, whatever the checksum is compared with.
LEMMA LoadSnapshotInv == ASSUME IInv, NEW ok \in BOOLEAN, LoadSnapshot(ok) PROVE IInv'
<1> DEFINE m == Head(Incoming)
<1>1. Incoming # <<>> /\ replState = "RECEIVE_RDB"
  BY DEF LoadSnapshot
<1>0. PICK c \in Links : c = masterClient
  BY <1>1, Reading
<1>2. /\ c # 0 /\ Incoming = toReplica[c] /\ toReplica[c] \in Seq(Msg)
      /\ toReplica[c] # <<>> /\ m \in Msg
  BY <1>0, <1>1, Reading
<1>3. CASE m.text # "RDB" \/ ~ok
  <2>1. Disconnected /\ UNCHANGED <<hasMaster, toMaster, master, history, backlog>>
        /\ toReplica' = [toReplica EXCEPT ![c] = Tail(@)]
    BY <1>0, <1>3 DEF LoadSnapshot
  <2>2. applied' = applied \/ applied' = <<>>
    BY <1>3 DEF LoadSnapshot
  <2>3. hasMaster' \in BOOLEAN
    BY <2>1 DEF IInv, Types
  <2> QED
    BY <1>0, <1>2, <2>1, <2>2, <2>3, DropInv
<1>4. CASE m.text = "RDB" /\ ok
  <2> DEFINE r == <<>>
  <2>1. Read(r, "CONNECTED") /\ applied' = <<>>
    BY <1>4 DEF LoadSnapshot
  <2>3. Stream(c)' = Stream(c)
    <3>1. Part(c) = <<>> /\ Part(c)' = <<>> /\ m.text # "write"
      BY <1>0, <1>1, <1>4, <2>1 DEF Part
    <3> QED
      BY <1>2, <2>1, <3>1, StreamKept, <1>0 DEF Read, master
  <2>4. applied' \in Seq(1 .. writes) /\ AppliedIsARun'
    BY <2>1 DEF AppliedIsARun
  <2>5. /\ Sent(c) \in Seq(Msg) /\ OneAsk(Sent(c))
        /\ c \in ToSet(replicas) => Asks(Sent(c)) = {}
    BY <1>0, <1>2, SentType DEF IInv, PsyncOnce
  <2>6. Sent(c) \o r = Sent(c) /\ r \in Seq(Msg)
    BY <2>5
  <2>7. c \notin clients \ ToSet(replicas)
    BY <1>0, <1>1 DEF IInv, NothingBeforePsync
  <2> HIDE DEF r
  <2> QED
    BY <1>0, <1>2, <2>1, <2>3, <2>4, <2>5, <2>6, <2>7, ReadInv
<1> QED
  BY <1>3, <1>4

\* A function on 1 .. n is a sequence.
LEMMA SeqIs ==
  ASSUME NEW R, NEW n \in Nat, NEW a \in [1 .. n -> R]
  PROVE  a \in Seq(R)
OBVIOUS

\* A run of writes, and its first part.
LEMMA RunIs ==
  ASSUME NEW a \in Seq(Nat), NEW from \in Nat, Consecutive(a, from)
  PROVE  a = Run(from, from + Len(a))
<1> DEFINE r == Run(from, from + Len(a))
           n == Len(a)
<1>1. n \in Nat /\ r = [i \in 1 .. n |-> from + i]
  BY DEF Run
<1>2. r \in Seq(Nat) /\ Len(r) = n /\ \A i \in 1 .. n : r[i] = from + i
  BY <1>1
<1>3. \A i \in 1 .. n : a[i] = from + i
  BY DEF Consecutive
<1> HIDE DEF r
<1> QED
  BY <1>2, <1>3, SeqEqual DEF r

\* The first part of a run of writes is one, of writes the master has made.
LEMMA RunStart ==
  ASSUME NEW a \in Seq(Nat), NEW b \in Seq(Nat), NEW from \in Nat, NEW w \in Nat,
         Consecutive(a \o b, from), from + Len(a \o b) <= w
  PROVE  /\ Consecutive(a, from)
         /\ a \in Seq(1 .. w)
         /\ a # <<>> => a = Run(a[1] - 1, a[1] - 1 + Len(a))
<1>1. ASSUME NEW i \in 1 .. Len(a) PROVE a[i] = from + i /\ i + from <= w
  <2> DEFINE s == a \o b
  <2>1. i \in DOMAIN s /\ s[i] = a[i] /\ Len(a) <= Len(s) /\ Len(s) \in Nat /\ Len(a) \in Nat
    OBVIOUS
  <2>2. Consecutive(s, from) /\ from + Len(s) <= w
    OBVIOUS
  <2> HIDE DEF s
  <2>3. s[i] = from + i
    BY <2>1, <2>2 DEF Consecutive
  <2> QED
    BY <2>1, <2>2, <2>3
<1>2. Consecutive(a, from)
  BY <1>1 DEF Consecutive
<1>3. a \in Seq(1 .. w)
  <2>1. \A i \in 1 .. Len(a) : a[i] \in 1 .. w
    BY <1>1
  <2>2. a \in [1 .. Len(a) -> 1 .. w] /\ Len(a) \in Nat
    BY <2>1
  <2> QED
    BY <2>2, SeqIs
<1>4. a # <<>> => a[1] - 1 = from
  BY <1>1
<1> QED
  BY <1>2, <1>3, <1>4, RunIs

\* A write that goes from the wire to the database keeps its place in the stream.
LEMMA MoveFirst ==
  ASSUME NEW a \in Seq(Nat), NEW b \in Seq(Nat), NEW e \in Nat
  PROVE  a \o (<<e>> \o b) = Append(a, e) \o b
<1> DEFINE l == a \o (<<e>> \o b)
           r == Append(a, e) \o b
<1>1. l \in Seq(Nat) /\ r \in Seq(Nat) /\ Len(l) = Len(a) + Len(b) + 1 /\ Len(r) = Len(l)
  OBVIOUS
<1>2. ASSUME NEW i \in 1 .. Len(a) + Len(b) + 1 PROVE l[i] = r[i]
  OBVIOUS
<1> HIDE DEF l, r
<1>3. l = r
  BY <1>1, <1>2, SeqEqual
<1> QED
  BY <1>3 DEF l, r

\* The replica executes what its master sends.
LEMMA ApplyCommandInv == ASSUME IInv, ApplyCommand PROVE IInv'
<1> DEFINE m == Head(Incoming)
           r == <<Text(IF m.type = "write" THEN "OK" ELSE "error")>>
<1>1. Incoming # <<>> /\ replState = "CONNECTED"
  BY DEF ApplyCommand
<1>0. PICK c \in Links : c = masterClient
  BY <1>1, Reading
<1> DEFINE t == toReplica[c]
<1>2. /\ c # 0 /\ Incoming = t /\ t \in Seq(Msg)
      /\ t # <<>> /\ m \in Msg /\ m = Head(t)
  BY <1>0, <1>1, Reading
<1>3. /\ applied' = IF m.type = "write" THEN Append(applied, m.n) ELSE applied
      /\ Read(r, "CONNECTED")
  BY <1>1 DEF ApplyCommand
<1>4. r \in Seq(Msg) /\ \E x \in Msg : r = <<x>> /\ x.text # "PSYNC"
  <2>1. "OK" \in Words /\ "error" \in Words /\ "OK" # "PSYNC" /\ "error" # "PSYNC"
    BY DEF Words
  <2> DEFINE w == IF m.type = "write" THEN "OK" ELSE "error"
  <2>2. w \in Words /\ w # "PSYNC"
    BY <2>1
  <2> HIDE DEF w
  <2>3. Text(w) \in Msg /\ Text(w).text = w /\ <<Text(w)>> \in Seq(Msg)
    BY <2>2, TextIsMsg
  <2> QED
    BY <2>2, <2>3 DEF w
<1> HIDE DEF r
<1>5. /\ Sent(c) \in Seq(Msg) /\ OneAsk(Sent(c))
      /\ c \in ToSet(replicas) => Asks(Sent(c)) = {}
  BY <1>0, SentType DEF IInv, PsyncOnce
<1>6. Asks(Sent(c) \o r) = Asks(Sent(c))
  BY <1>4, <1>5, AsksReply
<1>7. c \notin clients \ ToSet(replicas)
  BY <1>0, <1>1 DEF IInv, NothingBeforePsync
<1>8. /\ toReplica' = [toReplica EXCEPT ![c] = Tail(@)] /\ mOut' = mOut
      /\ masterClient' = c /\ replState' = "CONNECTED"
      /\ toReplica'[c] = Tail(t)
  BY <1>0, <1>3 DEF Read, master, IInv, Types
<1>9. /\ Part(c) = applied /\ Part(c)' = applied' /\ applied \in Seq(Nat)
      /\ Stream(c) \in Seq(Nat) /\ writes \in Nat /\ syncedAt[c] \in Nat
      /\ Consecutive(Stream(c), syncedAt[c]) /\ syncedAt[c] + Len(Stream(c)) <= writes
  <2>1. Part(c) = applied /\ Part(c)' = applied'
    BY <1>0, <1>1, <1>8 DEF Part
  <2>2. Part(c) \in Seq(Nat) /\ Stream(c) \in Seq(Nat) /\ writes \in Nat /\ syncedAt[c] \in Nat
    BY StreamType
  <2> QED
    BY <1>0, <2>1, <2>2 DEF IInv, StreamsAreRuns
<1>10. Stream(c)' = Stream(c) /\ applied' \in Seq(1 .. writes) /\ AppliedIsARun'
  <2>1. CASE m.type = "write"
    <3> DEFINE n == m.n
               w == WritesIn(Tail(t))
               o == WritesIn(mOut[c])
    <3>1. n \in Nat /\ w \in Seq(Nat) /\ o \in Seq(Nat) /\ WritesIn(t) = <<n>> \o w
      <4>1. n \in Nat
        BY <1>2, <2>1, MsgKind
      <4>2. Tail(t) \in Seq(Msg) /\ WritesIn(t) = <<n>> \o w
        BY <1>2, <2>1, WritesInHead
      <4>3. w \in Seq(Nat)
        BY <4>2, WritesInType
      <4>4. o \in Seq(Nat)
        BY StreamType
      <4> QED
        BY <4>1, <4>2, <4>3, <4>4
    <3>2. Stream(c) = (applied \o (<<n>> \o w)) \o o
      BY <1>9, <3>1 DEF Stream
    <3>3. applied' = Append(applied, n)
      BY <1>3, <2>1
    <3>4. Stream(c)' = (applied' \o w) \o o
      BY <1>8, <1>9 DEF Stream
    <3> HIDE DEF n, w, o
    <3>5. applied \o (<<n>> \o w) = Append(applied, n) \o w
      BY <1>9, <3>1, MoveFirst
    <3>6. Stream(c)' = Stream(c)
      BY <3>2, <3>3, <3>4, <3>5
    <3> DEFINE a == applied'
               b == w \o o
    <3>7. a \in Seq(Nat) /\ b \in Seq(Nat)
      BY <1>9, <3>1, <3>3
    <3>8. Stream(c) = a \o b
      <4>1. Stream(c) = (a \o w) \o o
        BY <3>4, <3>6
      <4>2. a \in Seq(Nat)
        BY <3>7
      <4> HIDE DEF a
      <4>3. (a \o w) \o o = a \o (w \o o)
        BY <3>1, <4>2, ConcatAssoc
      <4> QED
        BY <4>1, <4>3, Zenon
    <3> DEFINE k == syncedAt[c]
    <3>10. Consecutive(a \o b, k) /\ k + Len(a \o b) <= writes /\ k \in Nat
      BY <1>9, <3>8
    <3> HIDE DEF a, b, k
    <3>9. a \in Seq(1 .. writes) /\ (a # <<>> => a = Run(a[1] - 1, a[1] - 1 + Len(a)))
      BY <1>9, <3>7, <3>10, RunStart
    <3> QED
      BY <3>6, <3>9 DEF AppliedIsARun, a
  <2>2. CASE m.type # "write"
    <3>1. m.text # "write" /\ applied' = applied
      BY <1>2, <1>3, <2>2, MsgKind
    <3>2. Stream(c)' = Stream(c)
      BY <1>2, <1>8, <1>9, <3>1, StreamKept
    <3> QED
      BY <3>1, <3>2 DEF IInv, TypeOK, AppliedIsARun
  <2> QED
    BY <2>1, <2>2
<1>11. OneAsk(Sent(c) \o r) /\ (c \in ToSet(replicas) => Asks(Sent(c) \o r) = {})
  BY <1>5, <1>6 DEF OneAsk
<1> HIDE DEF m
<1> QED
  BY <1>0, <1>2, <1>3, <1>4, <1>7, <1>10, <1>11, ReadInv

-----------------------------------------------------------------------------
(* The other steps of the replica.                                         *)

\* REPLICAOF host port.
LEMMA ReplicaOfInv == ASSUME IInv, ReplicaOf PROVE IInv'
<1>1. hasMaster' \in BOOLEAN
  BY DEF ReplicaOf
<1> QED
  BY <1>1, DropInv DEF ReplicaOf

\* REPLICAOF NO ONE.
LEMMA ReplicaOfNoOneInv == ASSUME IInv, ReplicaOfNoOne PROVE IInv'
<1>1. hasMaster' \in BOOLEAN
  BY DEF ReplicaOfNoOne, IInv, Types
<1> QED
  BY <1>1, DropInv DEF ReplicaOfNoOne

\* The replica learns of a broken connection.
LEMMA ReplicaSeesCloseInv == ASSUME IInv, ReplicaSeesClose PROVE IInv'
<1>1. hasMaster' \in BOOLEAN
  BY DEF ReplicaSeesClose, IInv, Types
<1> QED
  BY <1>1, DropInv DEF ReplicaSeesClose

\* The replica's output goes to the wire.
LEMMA ReplicaWritableInv == ASSUME IInv, ReplicaWritable PROVE IInv'
<1>0. BacklogTypeOK' /\ BacklogHoldsTheLastBytes'
  BY BacklogKept DEF ReplicaWritable
<1>1. PICK c \in Links : c = masterClient /\ c \in 1 .. links
  BY LinksAssumption DEF IInv, TypeOK, Types, Links, ReplicaWritable
<1>2. /\ masterClient' = c /\ replState' = replState /\ out' = <<>> /\ applied' = applied
      /\ broken' = broken /\ toReplica' = toReplica
      /\ toMaster' = [toMaster EXCEPT ![c] = @ \o out]
      /\ clients' = clients /\ mOut' = mOut /\ mArmed' = mArmed /\ replicas' = replicas
      /\ links' = links /\ writes' = writes /\ syncedAt' = syncedAt
  BY <1>1 DEF ReplicaWritable, master, history
<1>3. hasMaster' = hasMaster /\ armed' = FALSE /\ replId' = replId
  BY DEF ReplicaWritable, master
<1>4. TypeOK'
  BY <1>0, <1>1, <1>2, <1>3 DEF IInv, TypeOK
<1>5. Types'
  <2>1. toMaster' \in [Links -> Seq(Msg)] /\ out' \in Seq(Msg)
    <3>1. toMaster \in [Links -> Seq(Msg)] /\ out \in Seq(Msg)
      BY DEF IInv, Types
    <3>2. toMaster[c] \o out \in Seq(Msg)
      BY <3>1
    <3> QED
      BY <1>2, <3>1, <3>2
  <2>2. hasMaster' \in BOOLEAN /\ armed' \in BOOLEAN /\ replId' \in BOOLEAN
    BY <1>3 DEF IInv, Types
  <2> QED
    BY <1>2, <2>1, <2>2 DEF IInv, Types
<1>6. PsyncOnce'
  <2>1. ASSUME NEW l \in Links PROVE Sent(l)' = Sent(l)
    <3>1. CASE l = c
      <4>1. toMaster[c] \o out \in Seq(Msg) /\ toMaster'[c] = toMaster[c] \o out
        BY <1>2 DEF IInv, Types
      <4> DEFINE s == toMaster[c] \o out
      <4> HIDE DEF s
      <4>2. s \in Seq(Msg) /\ toMaster'[c] = s
        BY <4>1 DEF s
      <4>3. Sent(l)' = s \o <<>>
        BY <1>2, <3>1, <4>2 DEF Sent
      <4>4. Sent(l) = s
        BY <1>1, <3>1 DEF Sent, s
      <4> QED
        BY <4>2, <4>3, <4>4
    <3>2. CASE l # c
      BY <1>1, <1>2, <3>2 DEF Sent, IInv, Types
    <3> QED
      BY <3>1, <3>2
  <2> QED
    BY <1>1, <1>2, <2>1 DEF IInv, PsyncOnce
<1>7. Unused'
  <2>1. \A l \in Links : l > links => toMaster'[l] = toMaster[l]
    BY <1>1, <1>2 DEF IInv, Types
  <2> QED
    BY <1>2, <2>1 DEF IInv, Unused
<1>8. StreamsAreRuns'
  <2>1. ASSUME NEW l \in Links PROVE Stream(l)' = Stream(l)
    BY <1>1, <1>2 DEF Stream, Part
  <2> QED
    BY <1>1, <1>2, <2>1 DEF StreamsAreRuns, IInv
<1>9. ReplicasAreConnected' /\ NothingBeforePsync' /\ AppliedIsARun'
  BY <1>1, <1>2 DEF IInv, ReplicasAreConnected, NothingBeforePsync, AppliedIsARun
<1> QED
  BY <1>0, <1>4, <1>5, <1>6, <1>7, <1>8, <1>9 DEF IInv

\* A fresh connection, on which nothing has travelled.
LEMMA connectToMasterInv == ASSUME IInv, connectToMaster PROVE IInv'
<1>0. BacklogTypeOK' /\ BacklogHoldsTheLastBytes'
  BY BacklogKept DEF connectToMaster
<1>1. PICK c \in Links : c = links + 1 /\ c \notin 1 .. links /\ c > links /\ c # 0 /\ c \in 1 .. c
  BY LinksAssumption DEF IInv, Types, Links, connectToMaster
<1>2. /\ masterClient' = c /\ replState' = "RECEIVE_PONG" /\ out' = <<Text("PING")>>
      /\ applied' = applied /\ broken' = broken /\ toReplica' = toReplica /\ toMaster' = toMaster
      /\ clients' = clients \cup {c} /\ mOut' = mOut /\ mArmed' = mArmed /\ replicas' = replicas
      /\ links' = c /\ writes' = writes /\ syncedAt' = syncedAt
      /\ replState = "CONNECT" /\ links < MaxLinks
  BY <1>1 DEF connectToMaster, network
<1>3. hasMaster' = hasMaster /\ armed' = TRUE /\ replId' = replId
  BY DEF connectToMaster
<1>4. masterClient = 0 /\ clients \subseteq 1 .. links /\ broken \subseteq 1 .. links
      /\ links \in Nat /\ clients \subseteq Links
  <2>1. masterClient = 0
    BY <1>2 DEF IInv, TypeOK, Handshake
  <2> QED
    BY <2>1, LinksAssumption DEF IInv, TypeOK, Types, Links
<1>5. c \notin ToSet(replicas) /\ c \notin clients /\ c \notin broken
      /\ mOut[c] = <<>> /\ toMaster[c] = <<>> /\ toReplica[c] = <<>>
  BY <1>1, <1>4 DEF IInv, TypeOK, ReplicasAreConnected, Unused
<1>6. out' = <<Text("PING")>> /\ out' \in Seq(Msg) /\ Asks(out') = {} /\ Text("PING") \in Msg
  <2>1. Text("PING") \in Msg /\ Text("PING").text = "PING"
    BY TextIsMsg DEF Words
  <2> QED
    BY <1>2, <2>1 DEF Asks
<1>7. TypeOK'
  <2>1. 1 .. links \subseteq 1 .. c
    BY <1>1, <1>4
  <2>2. broken \subseteq 1 .. c /\ clients \cup {c} \subseteq 1 .. c /\ c \in 0 .. c
    BY <1>1, <1>4, <2>1
  <2>3. "RECEIVE_PONG" \in Handshake
    BY DEF Handshake
  <2> QED
    BY <1>0, <1>1, <1>2, <2>2, <2>3 DEF IInv, TypeOK
<1>8. Types'
  <2>1. c \in 0 .. MaxLinks
    BY <1>1, <1>4, LinksAssumption DEF Links
  <2>2. hasMaster' \in BOOLEAN /\ armed' \in BOOLEAN /\ replId' \in BOOLEAN
    BY <1>3 DEF IInv, Types
  <2> QED
    BY <1>2, <1>6, <2>1, <2>2 DEF IInv, Types
<1>9. ReplicasAreConnected' /\ AppliedIsARun'
  BY <1>2 DEF IInv, ReplicasAreConnected, AppliedIsARun
<1>10. PsyncOnce'
  <2>1. ASSUME NEW l \in Links, l # c PROVE Sent(l)' = Sent(l)
    <3>1. masterClient # l
      BY <1>4, LinksAssumption DEF Links
    <3> QED
      BY <1>2, <2>1, <3>1 DEF Sent
  <2>2. Sent(c)' = out' /\ Asks(Sent(c)') = {}
    <3>1. Sent(c)' = <<>> \o out'
      BY <1>2, <1>5 DEF Sent
    <3> QED
      BY <1>6, <3>1
  <2>3. ASSUME NEW l \in Links
        PROVE  /\ OneAsk(Sent(l)')
               /\ l \in ToSet(replicas) => Asks(Sent(l)') = {}
               /\ c = l => Asks(Sent(l)') = {} /\ l \notin ToSet(replicas)
    <3>1. CASE l = c
      BY <1>5, <2>2, <3>1 DEF OneAsk
    <3>2. CASE l # c
      BY <2>1, <3>2 DEF IInv, PsyncOnce
    <3> QED
      BY <3>1, <3>2
  <2> QED
    BY <1>2, <2>3 DEF PsyncOnce
<1>11. Unused'
  BY <1>1, <1>2, <1>4 DEF IInv, Unused, Links
<1>12. NothingBeforePsync'
  <2>1. Plain(toReplica[c]) /\ Plain(mOut[c])
    BY <1>5 DEF Plain
  <2> QED
    BY <1>2, <1>5, <2>1 DEF IInv, NothingBeforePsync
<1>13. StreamsAreRuns'
  <2>1. ASSUME NEW l \in Links PROVE Stream(l)' = Stream(l)
    <3>1. Part(l) = <<>> /\ Part(l)' = <<>>
      BY <1>2 DEF Part
    <3> QED
      BY <1>2, <3>1 DEF Stream
  <2> QED
    BY <1>2, <1>4, <1>5, <2>1, LinksAssumption DEF StreamsAreRuns, IInv, Links
<1> QED
  BY <1>0, <1>7, <1>8, <1>9, <1>10, <1>11, <1>12, <1>13 DEF IInv

-----------------------------------------------------------------------------
(* The master.                                                             *)

\* Types that the steps of the master need.
LEMMA MasterFacts ==
  ASSUME IInv, NEW l \in Links
  PROVE  /\ toMaster[l] \in Seq(Msg) /\ toReplica[l] \in Seq(Msg) /\ mOut[l] \in Seq(Msg)
         /\ links \in 0 .. MaxLinks /\ writes \in 0 .. MaxWrites /\ clients \subseteq Links
         /\ MaxLinks \in Nat /\ MaxWrites \in Nat
BY LinksAssumption, WritesAssumption DEF IInv, TypeOK, Types, Links

\* A connection is lost; neither end knows.
LEMMA LoseConnectionInv == ASSUME IInv, NEW l \in Links, LoseConnection(l) PROVE IInv'
<1>0. BacklogTypeOK' /\ BacklogHoldsTheLastBytes'
  BY BacklogKept DEF LoseConnection
<1>1. /\ masterClient' = masterClient /\ replState' = replState /\ out' = out /\ applied' = applied
      /\ broken' = broken \cup {l} /\ l \in 1 .. links
      /\ toReplica' = toReplica /\ toMaster' = toMaster
      /\ clients' = clients /\ mOut' = mOut /\ mArmed' = mArmed /\ replicas' = replicas
      /\ links' = links /\ writes' = writes /\ syncedAt' = syncedAt
  BY DEF LoseConnection, replica, master, history
<1>2. hasMaster' = hasMaster /\ armed' = armed /\ replId' = replId
  BY DEF LoseConnection, replica, master
<1>3. TypeOK'
  BY <1>0, <1>1, <1>2 DEF IInv, TypeOK
<1>4. Types'
  BY <1>1, <1>2 DEF IInv, Types
<1>5. PsyncOnce'
  BY <1>1 DEF IInv, PsyncOnce, Sent
<1>6. StreamsAreRuns'
  <2>1. ASSUME NEW k \in Links PROVE Stream(k)' = Stream(k)
    BY <1>1 DEF Stream, Part
  <2> QED
    BY <1>1, <2>1 DEF StreamsAreRuns, IInv
<1>7. ReplicasAreConnected' /\ NothingBeforePsync' /\ AppliedIsARun' /\ Unused'
  BY <1>1 DEF IInv, ReplicasAreConnected, NothingBeforePsync, AppliedIsARun, Unused
<1> QED
  BY <1>0, <1>3, <1>4, <1>5, <1>6, <1>7 DEF IInv

\* The master's output goes to the wire, behind what is there.
LEMMA MasterWritableInv == ASSUME IInv, NEW l \in Links, MasterWritable(l) PROVE IInv'
<1>0. BacklogTypeOK' /\ BacklogHoldsTheLastBytes'
  BY BacklogKept DEF MasterWritable
<1>1. /\ masterClient' = masterClient /\ replState' = replState /\ out' = out /\ applied' = applied
      /\ broken' = broken /\ toMaster' = toMaster
      /\ toReplica' = [toReplica EXCEPT ![l] = @ \o mOut[l]]
      /\ mOut' = [mOut EXCEPT ![l] = <<>>] /\ mArmed' = mArmed \ {l} /\ l \in mArmed
      /\ clients' = clients /\ replicas' = replicas
      /\ links' = links /\ writes' = writes /\ syncedAt' = syncedAt
  BY DEF MasterWritable, replica, history
<1>2. hasMaster' = hasMaster /\ armed' = armed /\ replId' = replId
  BY DEF MasterWritable, replica
<1> DEFINE t == toReplica[l]
           o == mOut[l]
<1>3. t \in Seq(Msg) /\ o \in Seq(Msg) /\ t \o o \in Seq(Msg)
  BY MasterFacts
<1>4. /\ toReplica'[l] = t \o o /\ mOut'[l] = <<>>
      /\ \A k \in Links : k # l => toReplica'[k] = toReplica[k] /\ mOut'[k] = mOut[k]
  BY <1>1 DEF IInv, Types
<1> HIDE DEF t, o
<1>5. l \in clients /\ l \in 1 .. links
  BY <1>1 DEF IInv, TypeOK
<1>6. TypeOK'
  <2>1. \A k \in Links : mOut'[k] # <<>> => k \in clients
    BY <1>4 DEF IInv, TypeOK
  <2> QED
    BY <1>0, <1>1, <1>2, <2>1 DEF IInv, TypeOK
<1>7. Types'
  <2>1. toReplica' \in [Links -> Seq(Msg)] /\ mOut' \in [Links -> Seq(Msg)]
    BY <1>1, <1>3 DEF IInv, Types, t, o
  <2>2. hasMaster' \in BOOLEAN /\ armed' \in BOOLEAN /\ replId' \in BOOLEAN
    BY <1>2 DEF IInv, Types
  <2> QED
    BY <1>1, <2>1, <2>2 DEF IInv, Types
<1>8. PsyncOnce'
  BY <1>1 DEF IInv, PsyncOnce, Sent
<1>9. Unused'
  BY <1>1, <1>4, <1>5 DEF IInv, Unused, Types
<1>10. NothingBeforePsync'
  <2> SUFFICES ASSUME NEW k \in clients \ ToSet(replicas)
               PROVE  Plain(toReplica'[k]) /\ Plain(mOut'[k])
    BY <1>1 DEF IInv, NothingBeforePsync
  <2>1. k \in Links /\ Plain(toReplica[k]) /\ Plain(mOut[k])
    BY MasterFacts DEF IInv, NothingBeforePsync
  <2>2. CASE k = l
    <3>1. Plain(t \o o)
      BY <1>3, <2>1, <2>2, PlainConcat DEF t, o
    <3>2. Plain(<<>>)
      BY DEF Plain
    <3> QED
      BY <1>4, <2>2, <3>1, <3>2
  <2>3. CASE k # l
    BY <1>4, <2>1, <2>3
  <2> QED
    BY <2>2, <2>3
<1>11. StreamsAreRuns'
  <2>1. ASSUME NEW k \in Links PROVE Stream(k)' = Stream(k)
    <3>1. CASE k = l
      <4> DEFINE a == Part(l)
                 b == WritesIn(t)
                 d == WritesIn(o)
      <4>1. a \in Seq(Nat) /\ b \in Seq(Nat) /\ d \in Seq(Nat)
        BY StreamType DEF t, o
      <4>2. Stream(l) = (a \o b) \o d
        BY DEF Stream, t, o
      <4>3. WritesIn(t \o o) = b \o d
        BY <1>3, WritesInConcat
      <4>4. Stream(l)' = (a \o (b \o d)) \o <<>>
        BY <1>1, <1>4, <4>3, WritesInEmpty DEF Stream, Part
      <4> HIDE DEF a, b, d
      <4>5. (a \o b) \o d = a \o (b \o d)
        BY <4>1, ConcatAssoc
      <4>6. a \o (b \o d) \in Seq(Nat)
        BY <4>1
      <4> DEFINE s == a \o (b \o d)
      <4> HIDE DEF s
      <4>7. s \o <<>> = s
        BY <4>6 DEF s
      <4> QED
        BY <3>1, <4>2, <4>4, <4>5, <4>7 DEF s
    <3>2. CASE k # l
      BY <1>1, <1>4, <3>2 DEF Stream, Part
    <3> QED
      BY <3>1, <3>2
  <2> QED
    BY <1>1, <2>1 DEF StreamsAreRuns, IInv
<1>12. ReplicasAreConnected' /\ AppliedIsARun'
  BY <1>1 DEF IInv, ReplicasAreConnected, AppliedIsARun
<1> QED
  BY <1>0, <1>6, <1>7, <1>8, <1>9, <1>10, <1>11, <1>12 DEF IInv

\* closeClient of the master: the connection leaves replicas_, its stream is cut at the end.
LEMMA MasterSeesCloseInv == ASSUME IInv, NEW l \in Links, MasterSeesClose(l) PROVE IInv'
<1>0. BacklogTypeOK' /\ BacklogHoldsTheLastBytes'
  BY BacklogKept DEF MasterSeesClose
<1>1. /\ masterClient' = masterClient /\ replState' = replState /\ out' = out /\ applied' = applied
      /\ broken' = broken /\ toMaster' = toMaster /\ toReplica' = toReplica /\ l \in broken
      /\ mOut' = [mOut EXCEPT ![l] = <<>>] /\ mArmed' = mArmed \ {l}
      /\ clients' = clients \ {l} /\ replicas' = RemoveFirst(replicas, l)
      /\ links' = links /\ writes' = writes /\ syncedAt' = syncedAt
  BY DEF MasterSeesClose, closeClient, replica, network, history
<1>2. hasMaster' = hasMaster /\ armed' = armed /\ replId' = replId
  BY DEF MasterSeesClose, replica
<1>3. /\ mOut'[l] = <<>> /\ mOut' \in [Links -> Seq(Msg)]
      /\ \A k \in Links : k # l => mOut'[k] = mOut[k]
  BY <1>1 DEF IInv, Types
<1>4. /\ replicas' \in Seq(Links) /\ IsInjective(replicas')
      /\ ToSet(replicas') = ToSet(replicas) \ {l}
  BY <1>1, RemoveFirstIs DEF IInv, Types, ReplicasAreConnected
<1>5. TypeOK'
  <2>1. \A k \in Links : mOut'[k] # <<>> => k \in clients \ {l}
    BY <1>3 DEF IInv, TypeOK
  <2> QED
    BY <1>0, <1>1, <1>2, <2>1 DEF IInv, TypeOK
<1>6. Types'
  <2>2. hasMaster' \in BOOLEAN /\ armed' \in BOOLEAN /\ replId' \in BOOLEAN
    BY <1>2 DEF IInv, Types
  <2> QED
    BY <1>1, <1>3, <1>4, <2>2 DEF IInv, Types
<1>7. ReplicasAreConnected' /\ AppliedIsARun' /\ Unused'
  BY <1>1, <1>4 DEF IInv, ReplicasAreConnected, AppliedIsARun, Unused
<1>8. PsyncOnce'
  BY <1>1, <1>4 DEF IInv, PsyncOnce, Sent
<1>9. NothingBeforePsync'
  <2>1. \A k \in clients \ {l} : k \in Links /\ k # l
    BY MasterFacts
  <2> QED
    BY <1>1, <1>3, <1>4, <2>1 DEF IInv, NothingBeforePsync
<1>10. StreamsAreRuns'
  <2> SUFFICES ASSUME NEW k \in Links, k \notin broken \/ masterClient = k
               PROVE  /\ Consecutive(Stream(k)', syncedAt[k])
                      /\ syncedAt[k] + Len(Stream(k)') <= writes
                      /\ k \in ToSet(replicas) \ {l} => syncedAt[k] + Len(Stream(k)') = writes
    BY <1>1, <1>4 DEF StreamsAreRuns
  <2>1. CASE k # l
    <3>1. Stream(k)' = Stream(k)
      BY <1>1, <1>3, <2>1 DEF Stream, Part
    <3> QED
      BY <3>1 DEF IInv, StreamsAreRuns
  <2>2. CASE k = l
    <3> DEFINE a == Part(k) \o WritesIn(toReplica[k])
               b == WritesIn(mOut[k])
               s == syncedAt[k]
    <3>1. a \in Seq(Nat) /\ b \in Seq(Nat) /\ s \in Nat /\ writes \in Nat
      BY StreamType
    <3>2. Stream(k) = a \o b /\ Stream(k)' = a \o <<>>
      BY <1>1, <1>3, <2>2, WritesInEmpty DEF Stream, Part
    <3>3. Consecutive(Stream(k), s) /\ s + Len(Stream(k)) <= writes
      BY DEF IInv, StreamsAreRuns
    <3> HIDE DEF a, b, s
    <3>4. Stream(k)' = a /\ Len(a) <= Len(a \o b) /\ Len(a \o b) \in Nat /\ Len(a) \in Nat
      BY <3>1, <3>2
    <3>5. Consecutive(a, s)
      BY <3>1, <3>2, <3>3, RunStart
    <3>6. s + Len(a) <= writes
      BY <3>1, <3>2, <3>3, <3>4
    <3> QED
      BY <2>2, <3>4, <3>5, <3>6 DEF s
  <2> QED
    BY <2>1, <2>2
<1> QED
  BY <1>0, <1>5, <1>6, <1>7, <1>8, <1>9, <1>10 DEF IInv

\* What a message read by the master must not disturb: answer is what it replies.
LEMMA MasterReplyInv ==
  ASSUME IInv, NEW l \in Links, NEW answer \in Seq(Msg),
         l \in clients, toMaster[l] # <<>>, Reply(l, answer),
         UNCHANGED <<replica, toReplica, broken, clients, links, writes, backlog>>,
         replId' \in BOOLEAN, replicas' \in Seq(Links), IsInjective(replicas'),
         ToSet(replicas') = ToSet(replicas) \/ ToSet(replicas') = ToSet(replicas) \cup {l},
         l \in ToSet(replicas') => Asks(Tail(Sent(l))) = {},
         masterClient = l /\ replState \in {"RECEIVE_PONG", "SEND_PSYNC"} => l \notin ToSet(replicas'),
         l \notin ToSet(replicas') => Plain(mOut[l] \o answer),
         WritesIn(mOut[l] \o answer) = WritesIn(mOut[l]),
         \/ syncedAt' = syncedAt /\ ToSet(replicas') = ToSet(replicas)
         \/ syncedAt' = [syncedAt EXCEPT ![l] = writes] /\ Stream(l) = <<>>
  PROVE  IInv'
<1>0. BacklogTypeOK' /\ BacklogHoldsTheLastBytes'
  BY BacklogKept
<1>1. /\ masterClient' = masterClient /\ replState' = replState /\ out' = out /\ applied' = applied
      /\ broken' = broken /\ toReplica' = toReplica
      /\ toMaster' = [toMaster EXCEPT ![l] = Tail(@)]
      /\ mOut' = [mOut EXCEPT ![l] = @ \o answer]
      /\ (mArmed' = mArmed \/ mArmed' = mArmed \cup {l})
      /\ clients' = clients /\ links' = links /\ writes' = writes
  BY DEF Reply, replica
<1>2. hasMaster' = hasMaster /\ armed' = armed
  BY DEF replica
<1>3. /\ toMaster[l] \in Seq(Msg) /\ mOut[l] \in Seq(Msg) /\ mOut[l] \o answer \in Seq(Msg)
      /\ Tail(toMaster[l]) \in Seq(Msg) /\ clients \subseteq Links /\ writes \in 0 .. MaxWrites
  BY MasterFacts
<1>4. /\ toMaster'[l] = Tail(toMaster[l]) /\ mOut'[l] = mOut[l] \o answer
      /\ \A k \in Links : k # l => toMaster'[k] = toMaster[k] /\ mOut'[k] = mOut[k]
      /\ toMaster' \in [Links -> Seq(Msg)] /\ mOut' \in [Links -> Seq(Msg)]
  BY <1>1, <1>3 DEF IInv, Types
<1>5. TypeOK'
  <2>1. \A k \in Links : mOut'[k] # <<>> => k \in clients
    BY <1>4 DEF IInv, TypeOK
  <2>2. mArmed' \subseteq clients
    BY <1>1 DEF IInv, TypeOK
  <2> QED
    BY <1>0, <1>1, <1>2, <2>1, <2>2 DEF IInv, TypeOK
<1>6. Types'
  <2>1. hasMaster' \in BOOLEAN /\ armed' \in BOOLEAN
    BY <1>2 DEF IInv, Types
  <2>2. syncedAt' \in [Links -> 0 .. writes]
    <3>1. syncedAt \in [Links -> 0 .. writes] /\ writes \in 0 .. writes
      BY <1>3, WritesAssumption DEF IInv, Types
    <3> QED
      BY <3>1
  <2> QED
    BY <1>1, <1>4, <2>1, <2>2 DEF IInv, Types
<1>7. ReplicasAreConnected' /\ AppliedIsARun'
  BY <1>1 DEF IInv, ReplicasAreConnected, AppliedIsARun
<1>8. PsyncOnce'
  <2>1. ASSUME NEW k \in Links, k # l
        PROVE  Sent(k)' = Sent(k) /\ (k \in ToSet(replicas') <=> k \in ToSet(replicas))
    BY <1>1, <1>4, <2>1 DEF Sent
  <2>2. Sent(l)' = Tail(Sent(l)) /\ OneAsk(Tail(Sent(l))) /\ (Asks(Sent(l)) = {} => Asks(Tail(Sent(l))) = {})
    <3> DEFINE t == toMaster[l]
               o == IF masterClient = l THEN out ELSE <<>>
               u == Sent(l)
    <3>1. t \in Seq(Msg) /\ t # <<>> /\ o \in Seq(Msg)
      BY <1>3 DEF IInv, Types
    <3>2. u = t \o o /\ Sent(l)' = Tail(t) \o o
      BY <1>1, <1>4 DEF Sent
    <3>3. u \in Seq(Msg) /\ OneAsk(u)
      BY SentType DEF IInv, PsyncOnce
    <3> HIDE DEF t, o, u
    <3>4. Tail(t \o o) = Tail(t) \o o /\ t \o o # <<>>
      BY <3>1, TailConcat
    <3>5. OneAsk(Tail(u)) /\ (Asks(u) = {} => Asks(Tail(u)) = {})
      BY <3>2, <3>3, <3>4, AsksTail
    <3> QED
      BY <3>2, <3>4, <3>5 DEF u
  <2>3. ASSUME NEW k \in Links
        PROVE  /\ OneAsk(Sent(k)')
               /\ k \in ToSet(replicas') => Asks(Sent(k)') = {}
               /\ masterClient = k /\ replState \in {"RECEIVE_PONG", "SEND_PSYNC"}
                    => Asks(Sent(k)') = {} /\ k \notin ToSet(replicas')
    <3>1. CASE k = l
      BY <2>2, <3>1 DEF IInv, PsyncOnce
    <3>2. CASE k # l
      BY <2>1, <3>2 DEF IInv, PsyncOnce
    <3> QED
      BY <3>1, <3>2
  <2> QED
    BY <1>1, <2>3 DEF PsyncOnce
<1>9. Unused'
  <2>1. l \in 1 .. links
    BY DEF IInv, TypeOK
  <2> QED
    BY <1>1, <1>4, <2>1 DEF IInv, Unused, Types
<1>10. NothingBeforePsync'
  <2> SUFFICES ASSUME NEW k \in clients, k \notin ToSet(replicas')
               PROVE  /\ Plain(toReplica[k]) /\ Plain(mOut'[k])
                      /\ masterClient = k => replState \in {"RECEIVE_PONG", "SEND_PSYNC", "RECEIVE_PSYNC"}
    BY <1>1 DEF NothingBeforePsync
  <2>1. k \in clients \ ToSet(replicas) /\ k \in Links
    BY <1>3
  <2>2. CASE k = l
    BY <1>4, <2>1, <2>2 DEF IInv, NothingBeforePsync
  <2>3. CASE k # l
    BY <1>4, <2>1, <2>3 DEF IInv, NothingBeforePsync
  <2> QED
    BY <2>2, <2>3
<1>11. StreamsAreRuns'
  <2>1. ASSUME NEW k \in Links PROVE Stream(k)' = Stream(k)
    <3>1. WritesIn(mOut'[k]) = WritesIn(mOut[k])
      BY <1>4
    <3> QED
      BY <1>1, <3>1 DEF Stream, Part
  <2> SUFFICES ASSUME NEW k \in Links, k \notin broken \/ masterClient = k
               PROVE  /\ Consecutive(Stream(k), syncedAt'[k])
                      /\ syncedAt'[k] + Len(Stream(k)) <= writes
                      /\ k \in ToSet(replicas') => syncedAt'[k] + Len(Stream(k)) = writes
    BY <1>1, <2>1 DEF StreamsAreRuns
  <2>2. CASE syncedAt' = syncedAt /\ ToSet(replicas') = ToSet(replicas)
    BY <2>2 DEF IInv, StreamsAreRuns
  <2>3. CASE syncedAt' = [syncedAt EXCEPT ![l] = writes] /\ Stream(l) = <<>>
    <3>1. CASE k = l
      <4>1. syncedAt'[k] = writes /\ Stream(k) = <<>> /\ writes \in Nat
        BY <1>3, <2>3, <3>1, WritesAssumption DEF IInv, Types
      <4> QED
        BY <4>1 DEF Consecutive
    <3>2. CASE k # l
      <4>1. syncedAt'[k] = syncedAt[k] /\ (k \in ToSet(replicas') => k \in ToSet(replicas))
        BY <2>3, <3>2 DEF IInv, Types
      <4> QED
        BY <4>1 DEF IInv, StreamsAreRuns
    <3> QED
      BY <3>1, <3>2
  <2> QED
    BY <2>2, <2>3
<1> QED
  BY <1>0, <1>5, <1>6, <1>7, <1>8, <1>9, <1>10, <1>11 DEF IInv

\* The master executes PING, REPLCONF and PSYNC and refuses replies.
LEMMA MasterReadsInv == ASSUME IInv, NEW l \in Links, MasterReads(l) PROVE IInv'
<1> DEFINE text == Head(toMaster[l]).text
<1>1. /\ l \in clients /\ toMaster[l] # <<>>
      /\ UNCHANGED <<replica, toReplica, broken, clients, links, writes, backlog>>
  BY DEF MasterReads
<1>2. toMaster[l] \in Seq(Msg) /\ mOut[l] \in Seq(Msg) /\ toReplica[l] \in Seq(Msg)
  BY MasterFacts
<1> DEFINE o == mOut[l]
           u == Sent(l)
<1>3. /\ u \in Seq(Msg) /\ u # <<>> /\ OneAsk(u) /\ Head(u).text = text
      /\ l \in ToSet(replicas) => Asks(u) = {}
      /\ masterClient = l /\ replState \in {"RECEIVE_PONG", "SEND_PSYNC"}
           => Asks(u) = {} /\ l \notin ToSet(replicas)
  <2>1. u \in Seq(Msg) /\ OneAsk(u)
    BY SentType DEF IInv, PsyncOnce
  <2> DEFINE t == toMaster[l]
             x == IF masterClient = l THEN out ELSE <<>>
  <2>2. t \in Seq(Msg) /\ t # <<>> /\ x \in Seq(Msg) /\ u = t \o x /\ text = Head(t).text
    BY <1>1, <1>2 DEF Sent, IInv, Types
  <2> HIDE DEF t, x, u, text
  <2>3. Head(u) = Head(t) /\ u # <<>>
    BY <2>2, TailConcat
  <2>4. /\ l \in ToSet(replicas) => Asks(u) = {}
        /\ masterClient = l /\ replState \in {"RECEIVE_PONG", "SEND_PSYNC"}
           => Asks(u) = {} /\ l \notin ToSet(replicas)
    BY DEF IInv, PsyncOnce, u
  <2> QED
    BY <2>1, <2>2, <2>3, <2>4
<1>4. /\ OneAsk(Tail(u)) /\ (Asks(u) = {} => Asks(Tail(u)) = {})
      /\ (text = "PSYNC" => Asks(Tail(u)) = {} /\ Asks(u) # {})
  <2> HIDE DEF u
  <2>1. Head(u).text = "PSYNC" => 1 \in Asks(u)
    BY <1>3 DEF Asks
  <2> QED
    BY <1>3, <2>1, AsksTail
<1>5. CASE text = "PSYNC"
  <2> DEFINE f == Text("FULLRESYNC")
             d == Text("RDB")
             answer == <<f, d>>
  <2>1. /\ Reply(l, answer) /\ replicas' = Append(replicas, l)
        /\ syncedAt' = [syncedAt EXCEPT ![l] = writes]
    BY <1>5 DEF MasterReads, Psync
  <2>2. replId' \in BOOLEAN
    BY <1>5 DEF MasterReads, Psync
  <2>3. l \notin ToSet(replicas)
    BY <1>3, <1>4, <1>5
  <2>4. replicas \in Seq(Links) /\ IsInjective(replicas)
    BY DEF IInv, Types, ReplicasAreConnected
  <2>5. /\ replicas' \in Seq(Links) /\ IsInjective(replicas')
        /\ ToSet(replicas') = ToSet(replicas) \cup {l}
    BY <2>1, <2>3, <2>4 DEF IsInjective, ToSet
  <2>6. ~(masterClient = l /\ replState \in {"RECEIVE_PONG", "SEND_PSYNC"})
    BY <1>3, <1>4, <1>5
  <2>7. f \in Msg /\ f.text # "write" /\ d \in Msg /\ d.text # "write"
    BY TextIsMsg DEF Words
  <2>8. answer \in Seq(Msg) /\ WritesIn(o \o answer) = WritesIn(o)
    <3> HIDE DEF o, f, d
    <3> DEFINE p == o \o <<f>>
    <3>1. p \in Seq(Msg) /\ answer \in Seq(Msg) /\ o \in Seq(Msg)
      BY <1>2, <2>7 DEF o
    <3>4. o \o answer = p \o <<d>>
      <4> DEFINE a == <<f>>
                 b == <<d>>
      <4>0. a \in Seq(Msg) /\ b \in Seq(Msg) /\ a \o b \in Seq(Msg) /\ Len(a \o b) = 2
            /\ (a \o b)[1] = f /\ (a \o b)[2] = d
        BY <2>7
      <4>3. Len(answer) = 2 /\ answer[1] = f /\ answer[2] = d
        OBVIOUS
      <4>1. answer = a \o b
        <5> HIDE DEF answer
        <5> DEFINE e == a \o b
        <5>1. e \in Seq(Msg) /\ Len(e) = Len(answer) /\ \A i \in 1 .. Len(answer) : answer[i] = e[i]
          BY <4>0, <4>3
        <5> HIDE DEF e
        <5> QED
          BY <3>1, <5>1, SeqEqual DEF e
      <4> HIDE DEF a, b, answer
      <4>2. (o \o a) \o b = o \o (a \o b)
        BY <3>1, <4>0, ConcatAssoc
      <4> QED
        BY <4>1, <4>2 DEF a, b
    <3>2. WritesIn(p) = WritesIn(o)
      BY <2>7, <3>1, WritesInReply
    <3> HIDE DEF p
    <3>3. WritesIn(p \o <<d>>) = WritesIn(p)
      BY <2>7, <3>1, WritesInReply
    <3> QED
      BY <3>1, <3>2, <3>3, <3>4
  <2>9. Stream(l) = <<>>
    <3>1. /\ Plain(toReplica[l]) /\ Plain(mOut[l])
          /\ masterClient = l => replState \in {"RECEIVE_PONG", "SEND_PSYNC", "RECEIVE_PSYNC"}
      BY <1>1, <2>3 DEF IInv, NothingBeforePsync
    <3>2. WritesIn(toReplica[l]) = <<>> /\ WritesIn(mOut[l]) = <<>> /\ Part(l) = <<>>
      BY <1>2, <3>1, PlainHasNoWrites DEF Part
    <3> QED
      BY <3>2 DEF Stream
  <2> HIDE DEF answer, u
  <2> QED
    BY <1>1, <1>4, <1>5, <2>1, <2>2, <2>5, <2>6, <2>8, <2>9, MasterReplyInv DEF u
<1>6. CASE text # "PSYNC"
  <2> DEFINE w == CASE text = "PING" -> "PONG" [] text = "REPLCONF" -> "OK" [] OTHER -> "error"
             m == Text(w)
             answer == <<m>>
  <2>1. Reply(l, answer) /\ replicas' = replicas /\ syncedAt' = syncedAt
    BY <1>6 DEF MasterReads
  <2>2. replId' \in BOOLEAN
    BY <1>6 DEF MasterReads, IInv, Types
  <2>3. w \in Words /\ w \notin {"FULLRESYNC", "RDB", "write"}
    <3>1. w = "PONG" \/ w = "OK" \/ w = "error"
      OBVIOUS
    <3> HIDE DEF w
    <3> QED
      BY <3>1 DEF Words
  <2> HIDE DEF w
  <2>4. m \in Msg /\ m.text = w /\ answer \in Seq(Msg)
    BY <2>3, TextIsMsg
  <2> HIDE DEF m
  <2>5. replicas' \in Seq(Links) /\ IsInjective(replicas') /\ ToSet(replicas') = ToSet(replicas)
    BY <2>1 DEF IInv, Types, ReplicasAreConnected
  <2>6. WritesIn(o \o answer) = WritesIn(o)
    BY <1>2, <2>3, <2>4, WritesInReply
  <2>7. l \notin ToSet(replicas) => Plain(o \o answer)
    BY <1>1, <1>2, <2>3, <2>4, PlainReply DEF IInv, NothingBeforePsync
  <2> HIDE DEF answer, u
  <2> QED
    BY <1>1, <1>3, <1>4, <2>1, <2>2, <2>4, <2>5, <2>6, <2>7, MasterReplyInv DEF u
<1> QED
  BY <1>5, <1>6

\* A write reaches the backlog and the buffer of every replica.
LEMMA ClientWriteInv == ASSUME IInv, ClientWrite PROVE IInv'
<1> DEFINE n == writes + 1
<1>1. /\ masterClient' = masterClient /\ replState' = replState /\ out' = out /\ applied' = applied
      /\ broken' = broken /\ toMaster' = toMaster /\ toReplica' = toReplica
      /\ mArmed' = mArmed /\ clients' = clients /\ replicas' = replicas
      /\ links' = links /\ writes' = n /\ syncedAt' = syncedAt /\ writes < MaxWrites
  BY DEF ClientWrite, replica, network
<1>2. hasMaster' = hasMaster /\ armed' = armed /\ replId' = replId
  BY DEF ClientWrite, replica
<1>3. /\ writes \in Nat /\ n \in 0 .. MaxWrites /\ n \in 1 .. MaxWrites /\ n \in Nat /\ n \in Bytes
      /\ 0 .. writes \subseteq 0 .. n /\ 1 .. writes \subseteq 1 .. n
  <2>1. writes \in 0 .. MaxWrites
    BY DEF IInv, Types
  <2> QED
    BY <1>1, <2>1, WritesAssumption
<1> DEFINE Kept == mOut' = mOut /\ backlog' = backlog /\ replicas = <<>>
           Fed == /\ Feed(Encode(n))
                  /\ mOut' = [l \in Links |-> IF l \in ToSet(replicas) THEN Append(mOut[l], Write(n))
                                              ELSE mOut[l]]
<1>4. Kept \/ Fed
  BY <1>1 DEF ClientWrite, propagateToReplicas
<1>5. BacklogTypeOK' /\ BacklogHoldsTheLastBytes'
  <2>1. CASE Kept
    BY <2>1, BacklogKept
  <2>2. CASE Fed
    <3> DEFINE e == Encode(n)
    <3>1. e \in Seq(Bytes)
      BY <1>3, WriteSizeAssumption DEF Encode
    <3>2. Feed(e)
      BY <2>2
    <3> HIDE DEF e
    <3>3. BacklogTypeOK /\ BacklogHoldsTheLastBytes
      BY DEF IInv, TypeOK
    <3> QED
      BY <3>1, <3>2, <3>3, FeedType, FeedHolds
  <2> QED
    BY <1>4, <2>1, <2>2
<1>6. Write(n) \in Msg /\ Write(n).type = "write" /\ Write(n).n = n
  BY <1>3, WriteIsMsg
<1>7. ASSUME NEW l \in Links
      PROVE  mOut'[l] = IF l \in ToSet(replicas) THEN Append(mOut[l], Write(n)) ELSE mOut[l]
  <2>1. CASE Kept
    <3>1. l \notin ToSet(replicas)
      BY <2>1 DEF ToSet
    <3> QED
      BY <2>1, <3>1
  <2>2. CASE Fed
    BY <2>2
  <2> QED
    BY <1>4, <2>1, <2>2
<1>8. mOut' \in [Links -> Seq(Msg)]
  <2>0. \A l \in Links : mOut[l] \in Seq(Msg) /\ Append(mOut[l], Write(n)) \in Seq(Msg)
    BY <1>6 DEF IInv, Types
  <2>1. CASE Kept
    BY <2>1 DEF IInv, Types
  <2>2. CASE Fed
    BY <2>0, <2>2
  <2> QED
    BY <1>4, <2>1, <2>2
<1> HIDE DEF Kept, Fed
<1>9. TypeOK'
  <2>1. \A l \in Links : mOut'[l] # <<>> => l \in clients
    BY <1>7 DEF IInv, TypeOK, ReplicasAreConnected
  <2>2. applied \in Seq(1 .. n)
    BY <1>3, SeqMonotonic DEF IInv, TypeOK
  <2> QED
    BY <1>1, <1>2, <1>5, <2>1, <2>2 DEF IInv, TypeOK
<1>10. Types'
  <2>1. hasMaster' \in BOOLEAN /\ armed' \in BOOLEAN /\ replId' \in BOOLEAN
    BY <1>2 DEF IInv, Types
  <2>2. syncedAt \in [Links -> 0 .. n]
    <3>1. syncedAt \in [Links -> 0 .. writes]
      BY DEF IInv, Types
    <3> QED
      BY <1>3, <3>1
  <2> QED
    BY <1>1, <1>3, <1>8, <2>1, <2>2 DEF IInv, Types
<1>11. PsyncOnce' /\ Unused' /\ ReplicasAreConnected' /\ AppliedIsARun'
  BY <1>1 DEF IInv, PsyncOnce, Sent, Unused, ReplicasAreConnected, AppliedIsARun
<1>12. NothingBeforePsync'
  <2>1. clients \subseteq Links
    BY LinksAssumption DEF IInv, TypeOK, Types, Links
  <2> QED
    BY <1>1, <1>7, <2>1 DEF IInv, NothingBeforePsync
<1>13. StreamsAreRuns'
  <2> SUFFICES ASSUME NEW l \in Links, l \notin broken \/ masterClient = l
               PROVE  /\ Consecutive(Stream(l)', syncedAt[l])
                      /\ syncedAt[l] + Len(Stream(l)') <= n
                      /\ l \in ToSet(replicas) => syncedAt[l] + Len(Stream(l)') = n
    BY <1>1 DEF StreamsAreRuns
  <2> DEFINE a == Part(l) \o WritesIn(toReplica[l])
             b == WritesIn(mOut[l])
             s == syncedAt[l]
             x == Stream(l)
             y == Stream(l)'
  <2>1. a \in Seq(Nat) /\ b \in Seq(Nat) /\ s \in Nat /\ x = a \o b /\ x \in Seq(Nat)
    <3>1. /\ Part(l) \in Seq(Nat) /\ WritesIn(toReplica[l]) \in Seq(Nat) /\ b \in Seq(Nat)
          /\ s \in Nat /\ x \in Seq(Nat)
      BY StreamType
    <3>2. x = a \o b
      BY DEF Stream
    <3> QED
      BY <3>1, <3>2
  <2>2. /\ Consecutive(x, s) /\ s + Len(x) <= writes
        /\ l \in ToSet(replicas) => s + Len(x) = writes
    BY DEF IInv, StreamsAreRuns
  <2>3. y = a \o WritesIn(mOut'[l])
    BY <1>1 DEF Stream, Part
  <2>4. CASE l \in ToSet(replicas)
    <3>1. WritesIn(mOut'[l]) = Append(b, n)
      <4>1. mOut[l] \in Seq(Msg) /\ mOut'[l] = Append(mOut[l], Write(n))
        BY <1>7, <2>4 DEF IInv, Types
      <4> QED
        BY <1>6, <4>1, WritesInAppend
    <3> HIDE DEF a, b, s, x, y, n
    <3>2. Append(a \o b, n) = a \o Append(b, n)
      BY <1>3, <2>1, AppendConcat
    <3>3. y = Append(x, n)
      BY <2>1, <2>3, <3>1, <3>2
    <3>4. Len(y) = Len(x) + 1 /\ Len(x) \in Nat /\ y[Len(x) + 1] = n /\ \A i \in 1 .. Len(x) : y[i] = x[i]
      BY <1>3, <2>1, <3>3
    <3>5. s + Len(x) = writes /\ n = writes + 1
      BY <2>2, <2>4 DEF n
    <3>6. DOMAIN y = 1 .. Len(x) + 1 /\ DOMAIN x = 1 .. Len(x)
      BY <1>3, <2>1, <3>3
    <3>7. Consecutive(y, s)
      <4> SUFFICES ASSUME NEW i \in 1 .. Len(x) + 1 PROVE y[i] = s + i
        BY <3>6 DEF Consecutive
      <4>1. CASE i \in 1 .. Len(x)
        BY <2>2, <3>4, <3>6, <4>1 DEF Consecutive
      <4>2. CASE i = Len(x) + 1
        BY <2>1, <3>4, <3>5, <4>2
      <4> QED
        BY <3>4, <4>1, <4>2
    <3>8. s + Len(y) = n
      BY <2>1, <3>4, <3>5
    <3> QED
      BY <1>3, <3>7, <3>8 DEF s, y
  <2>5. CASE l \notin ToSet(replicas)
    <3>1. y = x
      BY <1>7, <2>1, <2>3, <2>5
    <3>2. Len(x) \in Nat
      BY <2>1
    <3> HIDE DEF x, s
    <3>3. s + Len(x) <= n
      BY <1>3, <2>1, <2>2, <3>2
    <3> QED
      BY <2>2, <2>5, <3>1, <3>3 DEF s
  <2> QED
    BY <2>4, <2>5
<1> QED
  BY <1>5, <1>9, <1>10, <1>11, <1>12, <1>13 DEF IInv

-----------------------------------------------------------------------------

\* The stream of a connection in replicas_, as the runs check it.
LEMMA Implications == IInv => StreamIntact
<1> SUFFICES ASSUME IInv, NEW l \in ToSet(replicas) \ broken
             PROVE  (IF masterClient = l /\ replState = "CONNECTED" THEN applied ELSE <<>>)
                      \o WritesIn(toReplica[l]) \o WritesIn(mOut[l]) = Run(syncedAt[l], writes)
  BY DEF StreamIntact
<1> DEFINE x == Stream(l)
           s == syncedAt[l]
<1>1. l \in Links
  BY DEF IInv, Types, ToSet
<1>2. x \in Seq(Nat) /\ s \in Nat
  BY <1>1, StreamType
<1>3. Consecutive(x, s) /\ s + Len(x) = writes
  BY <1>1 DEF IInv, StreamsAreRuns
<1> HIDE DEF x, s
<1>4. x = Run(s, writes)
  BY <1>2, <1>3, RunIs
<1> QED
  BY <1>4 DEF x, s, Stream, Part

\* The inductive invariant holds in every state of two servers that replicate.
THEOREM Invariance == Spec => []IInv
<1>1. IInv /\ [Next]_vars => IInv'
  <2> SUFFICES ASSUME IInv, [Next]_vars PROVE IInv'
    OBVIOUS
  <2>1. ASSUME NEW ok \in BOOLEAN, LoadSnapshot(ok) PROVE IInv'
    BY <2>1, LoadSnapshotInv
  <2>2. ASSUME NEW l \in Links,
               MasterReads(l) \/ MasterWritable(l) \/ MasterSeesClose(l) \/ LoseConnection(l)
        PROVE  IInv'
    BY <2>2, MasterReadsInv, MasterWritableInv, MasterSeesCloseInv, LoseConnectionInv
  <2>3. CASE UNCHANGED vars
    <3>1. /\ UNCHANGED <<masterClient, out, replState, applied, broken, toMaster, toReplica>>
          /\ UNCHANGED <<clients, mOut, mArmed, replicas, links, writes, syncedAt>>
          /\ UNCHANGED backlog
      BY <2>3 DEF vars, replica, network, master, history
    <3>2. UNCHANGED <<hasMaster, armed, replId>>
      BY <2>3 DEF vars, replica, master
    <3>3. BacklogTypeOK' /\ BacklogHoldsTheLastBytes'
      BY <3>1, BacklogKept
    <3>4. TypeOK'
      BY <3>1, <3>2, <3>3 DEF IInv, TypeOK
    <3>5. Types'
      BY <3>1, <3>2 DEF IInv, Types
    <3>6. PsyncOnce' /\ Unused' /\ NothingBeforePsync' /\ ReplicasAreConnected' /\ AppliedIsARun'
      BY <3>1 DEF IInv, PsyncOnce, Sent, Unused, NothingBeforePsync, ReplicasAreConnected, AppliedIsARun
    <3>7. StreamsAreRuns'
      BY <3>1 DEF IInv, StreamsAreRuns, Stream, Part
    <3> QED
      BY <3>3, <3>4, <3>5, <3>6, <3>7 DEF IInv
  <2> QED
    BY <2>1, <2>2, <2>3, ReplicaOfInv, ReplicaOfNoOneInv, connectToMasterInv, SyncWithMasterInv,
       ApplyCommandInv, ReplicaWritableInv, ReplicaSeesCloseInv, ClientWriteInv DEF Next
<1> QED
  BY <1>1, InitInv, PTL DEF Spec

\* The replica has a connection exactly in the states that need one, and the master buffers
\* output for open connections only (disconnectFromMaster, closeClient).
THEOREM Typed == Spec => []TypeOK
<1>1. IInv => TypeOK
  BY DEF IInv
<1> QED
  BY <1>1, Invariance, PTL

\* propagateToReplicas never follows the pointer of a client that is gone: replicas_ lists open
\* connections, each once, for any number of connections (replicaofCommand's PSYNC, removeReplica).
THEOREM Connected == Spec => []ReplicasAreConnected
<1>1. IInv => ReplicasAreConnected
  BY DEF IInv
<1> QED
  BY <1>1, Invariance, PTL

\* A replica's stream has no gap, no repetition and no swap: applied, on the wire and buffered are
\* the writes since its PSYNC (propagateToReplicas, syncWithMaster).
THEOREM Intact == Spec => []StreamIntact
BY Implications, Invariance, PTL

\* A database that a replica answers from is a run of its master's writes, whatever connections
\* were lost on the way (syncWithMaster, disconnectFromMaster).
THEOREM DatabaseIsARun == Spec => []AppliedIsARun
<1>1. IInv => AppliedIsARun
  BY DEF IInv
<1> QED
  BY <1>1, Invariance, PTL

\* The backlog of a master holds the last bytes of what it propagated, under their offsets, for
\* any size of the ring and of a write (feedReplicationBacklog).
THEOREM BacklogHolds == Spec => []BacklogHoldsTheLastBytes
<1>1. IInv => BacklogHoldsTheLastBytes
  BY DEF IInv
<1> QED
  BY <1>1, Invariance, PTL
=============================================================================
