--------------------------- MODULE BlockingProofs ---------------------------
(***************************************************************************)
(* Theorems about blocking commands (commands/list_commands.cpp,           *)
(* server/server.cpp): blockedClients_ holds exactly the clients that wait; *)
(* no client waits for elements that are there, or beyond its timeout; no  *)
(* element is lost or handed out twice; for any clients, databases, keys,  *)
(* key lists and timeouts.  The last three hold under hypotheses that name *)
(* the commands and clocks for which the code does not keep them.          *)
(***************************************************************************)
EXTENDS Blocking, FiniteSetTheorems, WellFoundedInduction, SequenceTheorems, TLAPS

-----------------------------------------------------------------------------
(* Induction, and what the operators on sequences compute.                 *)

\* A set of natural numbers that is not empty has a least element.
LEMMA LeastElement ==
  ASSUME NEW T \in SUBSET Nat, T # {}
  PROVE  \E x \in T : \A y \in T : x <= y
<1>1. PICK x \in T : \A y \in T : ~ (<<y, x>> \in OpToRel(<, Nat))
  BY NatLessThanWellFounded, WFMin
<1>2. \A y \in T : ~ (y < x)
  BY <1>1 DEF OpToRel
<1> QED
  BY <1>2

\* Induction, for sets of natural numbers.
LEMMA SetInduction ==
  ASSUME NEW T \in SUBSET Nat, 0 \in T, \A n \in T : n + 1 \in T
  PROVE  T = Nat
<1> SUFFICES ASSUME Nat \ T # {} PROVE FALSE
  OBVIOUS
<1>1. PICK x \in Nat \ T : \A y \in Nat \ T : x <= y
  BY LeastElement
<1>2. x # 0 /\ x - 1 \in Nat /\ x - 1 \in T
  BY <1>1
<1> QED
  BY <1>2

\* The recursion of Without by itself.
UpTo(q, C) ==
  CHOOSE upTo : upTo = [i \in 0 .. Len(q) |->
        IF i = 0 THEN <<>>
        ELSE IF q[i] \in C THEN upTo[i - 1]
        ELSE Append(upTo[i - 1], q[i])]

\* One turn of the recursion.
Turn(f, q, C, i) == IF q[i] \in C THEN f[i - 1] ELSE Append(f[i - 1], q[i])

\* The recursion of Without has a solution for every prefix.
LEMMA UpToExists ==
  ASSUME NEW q \in Seq(Clients), NEW C, NEW k \in Nat, k <= Len(q)
  PROVE  \E f \in [0 .. k -> Seq(Clients)] :
            f[0] = <<>> /\ \A i \in 1 .. k : f[i] = Turn(f, q, C, i)
<1> DEFINE Good(n, f) == f[0] = <<>> /\ \A i \in 1 .. n : f[i] = Turn(f, q, C, i)
           P(n) == n <= Len(q) => \E f \in [0 .. n -> Seq(Clients)] : Good(n, f)
           T == {n \in Nat : P(n)}
<1>1. P(0)
  <2> DEFINE f == [i \in 0 .. 0 |-> <<>>]
  <2>1. f \in [0 .. 0 -> Seq(Clients)] /\ f[0] = <<>>
    OBVIOUS
  <2>2. Good(0, f)
    BY <2>1
  <2> HIDE DEF f, Good
  <2> QED
    BY <2>1, <2>2
<1>2. ASSUME NEW n \in Nat, P(n) PROVE P(n + 1)
  <2> SUFFICES ASSUME n + 1 <= Len(q)
               PROVE  \E f \in [0 .. n + 1 -> Seq(Clients)] : Good(n + 1, f)
    OBVIOUS
  <2>0. n <= Len(q) /\ Len(q) \in Nat
    OBVIOUS
  <2>1. PICK f \in [0 .. n -> Seq(Clients)] : Good(n, f)
    BY <1>2, <2>0
  <2> DEFINE m == q[n + 1]
             last == IF m \in C THEN f[n] ELSE Append(f[n], m)
             g == [i \in 0 .. n + 1 |-> IF i <= n THEN f[i] ELSE last]
  <2>2. m \in Clients /\ f[n] \in Seq(Clients)
    BY <2>0
  <2> HIDE DEF m
  <2>3. last \in Seq(Clients)
    BY <2>2
  <2> HIDE DEF last
  <2>4. g \in [0 .. n + 1 -> Seq(Clients)]
    BY <2>3
  <2>7. g[n + 1] = last /\ \A i \in 0 .. n : g[i] = f[i]
    OBVIOUS
  <2> HIDE DEF g
  <2>5. ASSUME NEW i \in 1 .. n + 1 PROVE g[i] = Turn(g, q, C, i)
    <3>1. CASE i <= n
      <4>1. i \in 1 .. n /\ i \in 0 .. n /\ i - 1 \in 0 .. n
        BY <3>1
      <4> QED
        BY <2>1, <2>7, <4>1 DEF Turn
    <3>2. CASE i = n + 1
      <4>1. i - 1 = n /\ n \in 0 .. n
        BY <3>2
      <4> QED
        BY <2>7, <3>2, <4>1 DEF Turn, last, m
    <3> QED
      BY <3>1, <3>2
  <2>8. Good(n + 1, g)
    BY <2>1, <2>5, <2>7
  <2> HIDE DEF Good
  <2> QED
    BY <2>4, <2>8
<1> HIDE DEF P
<1>3. T = Nat
  <2>1. T \in SUBSET Nat /\ 0 \in T
    BY <1>1
  <2>2. \A n \in T : n + 1 \in T
    BY <1>2
  <2> HIDE DEF T
  <2> QED
    BY <2>1, <2>2, SetInduction
<1>4. P(k)
  BY <1>3
<1> QED
  BY <1>4 DEF P

\* What the recursion computes: Without is its value for the whole queue.
LEMMA UpToDef ==
  ASSUME NEW q \in Seq(Clients), NEW C
  PROVE  /\ UpTo(q, C)[0] = <<>>
         /\ \A i \in 1 .. Len(q) : UpTo(q, C)[i] = Turn(UpTo(q, C), q, C, i)
         /\ Without(q, C) = UpTo(q, C)[Len(q)]
<1> DEFINE n == Len(q)
           Body(f) == [i \in 0 .. n |->
              IF i = 0 THEN <<>>
              ELSE IF q[i] \in C THEN f[i - 1]
              ELSE Append(f[i - 1], q[i])]
<1>1. n \in Nat /\ n <= Len(q)
  OBVIOUS
<1>2. PICK f \in [0 .. n -> Seq(Clients)] :
         f[0] = <<>> /\ \A i \in 1 .. n : f[i] = Turn(f, q, C, i)
  BY <1>1, UpToExists
<1>8. UpTo(q, C) = CHOOSE h : h = Body(h)
  BY DEF UpTo
<1>9. Without(q, C) = UpTo(q, C)[n]
  BY DEF Without, UpTo
<1> HIDE DEF n
<1>3. f = Body(f)
  <2>1. ASSUME NEW i \in 0 .. n PROVE f[i] = Body(f)[i]
    <3>1. CASE i = 0
      BY <1>2, <3>1
    <3>2. CASE i \in 1 .. n
      BY <1>2, <3>2 DEF Turn
    <3> QED
      BY <1>1, <3>1, <3>2
  <2>2. f = [i \in 0 .. n |-> f[i]]
    BY <1>2
  <2> QED
    BY <2>1, <2>2
<1> DEFINE u == UpTo(q, C)
<1>4. u = Body(u)
  <2> HIDE DEF Body
  <2> QED
    BY <1>3, <1>8
<1> HIDE DEF u
<1>5. u[0] = <<>>
  BY <1>1, <1>4
<1>6. ASSUME NEW i \in 1 .. n PROVE u[i] = Turn(u, q, C, i)
  <2>1. i # 0 /\ i \in 0 .. n
    BY <1>1
  <2> QED
    BY <1>4, <2>1 DEF Turn
<1> QED
  BY <1>5, <1>6, <1>9 DEF u, n

\* What is left of a queue: the clients that were in it, without the ones removed.
LEMMA WithoutDef ==
  ASSUME NEW q \in Seq(Clients), NEW C
  PROVE  /\ Without(q, C) \in Seq(Clients)
         /\ ToSet(Without(q, C)) = ToSet(q) \ C
<1> DEFINE u == UpTo(q, C)
           n == Len(q)
           In(x, i) == \E j \in 1 .. i : q[j] = x
           P(i) == i <= n => /\ u[i] \in Seq(Clients)
                             /\ \A x : x \in ToSet(u[i]) <=> In(x, i) /\ x \notin C
           T == {i \in Nat : P(i)}
<1>1. u[0] = <<>> /\ n \in Nat /\ Without(q, C) = u[n]
  BY UpToDef
<1>2. \A i \in 1 .. n : u[i] = Turn(u, q, C, i)
  BY UpToDef
<1>7. DOMAIN q = 1 .. n
  OBVIOUS
<1> HIDE DEF u, n
<1>3. P(0)
  <2>1. ToSet(<<>>) = {}
    BY DEF ToSet
  <2> QED
    BY <1>1, <2>1
<1>4. ASSUME NEW i \in Nat, P(i) PROVE P(i + 1)
  <2> SUFFICES ASSUME i + 1 <= n
               PROVE  /\ u[i + 1] \in Seq(Clients)
                      /\ \A x : x \in ToSet(u[i + 1]) <=> In(x, i + 1) /\ x \notin C
    OBVIOUS
  <2>1. i + 1 \in 1 .. n /\ (i + 1) - 1 = i /\ i <= n
    BY <1>1
  <2>2. u[i + 1] = IF q[i + 1] \in C THEN u[i] ELSE Append(u[i], q[i + 1])
    BY <1>2, <2>1 DEF Turn
  <2>3. PICK w \in Seq(Clients) : w = u[i]
    BY <1>4, <2>1
  <2>4. \A x : x \in ToSet(w) <=> In(x, i) /\ x \notin C
    BY <1>4, <2>1, <2>3
  <2>5. PICK m \in Clients : m = q[i + 1]
    BY <2>1 DEF n
  <2>6. \A x : In(x, i + 1) <=> In(x, i) \/ x = m
    <3>1. 1 .. (i + 1) = (1 .. i) \cup {i + 1}
      OBVIOUS
    <3> QED
      BY <2>5, <3>1
  <2> HIDE DEF In
  <2>7. CASE m \in C
    <3>1. u[i + 1] = w
      BY <2>2, <2>3, <2>5, <2>7
    <3> QED
      BY <2>4, <2>6, <2>7, <3>1
  <2>8. CASE m \notin C
    <3> DEFINE a == Append(w, m)
    <3>1. u[i + 1] = a
      BY <2>2, <2>3, <2>5, <2>8
    <3>2. a \in Seq(Clients)
      OBVIOUS
    <3>3. ToSet(a) = ToSet(w) \cup {m}
      <4>1. /\ DOMAIN a = 1 .. Len(w) + 1 /\ DOMAIN w = 1 .. Len(w) /\ Len(w) \in Nat
            /\ a[Len(w) + 1] = m /\ \A j \in 1 .. Len(w) : a[j] = w[j]
        OBVIOUS
      <4>2. 1 .. Len(w) + 1 = (1 .. Len(w)) \cup {Len(w) + 1}
        BY <4>1
      <4> HIDE DEF a
      <4>3. \A x : x \in ToSet(a) <=> \E j \in 1 .. Len(w) + 1 : a[j] = x
        BY <4>1 DEF ToSet
      <4>4. \A x : x \in ToSet(w) <=> \E j \in 1 .. Len(w) : w[j] = x
        BY <4>1 DEF ToSet
      <4>5. \A x : x \in ToSet(a) <=> x \in ToSet(w) \/ x = m
        BY <4>1, <4>2, <4>3, <4>4
      <4> QED
        BY <4>5
    <3> HIDE DEF a
    <3> QED
      BY <2>4, <2>6, <2>8, <3>1, <3>2, <3>3
  <2> QED
    BY <2>7, <2>8
<1> HIDE DEF P
<1>5. P(n)
  <2>1. T \in SUBSET Nat /\ 0 \in T
    BY <1>3
  <2>2. \A i \in T : i + 1 \in T
    BY <1>4
  <2>3. T = Nat
    <3> HIDE DEF T
    <3> QED
      BY <2>1, <2>2, SetInduction
  <2> QED
    BY <1>1, <2>3
<1>6. u[n] \in Seq(Clients) /\ \A x : x \in ToSet(u[n]) <=> In(x, n) /\ x \notin C
  BY <1>1, <1>5 DEF P
<1>8. \A x : x \in ToSet(q) <=> In(x, n)
  BY <1>7 DEF ToSet
<1> QED
  BY <1>1, <1>6, <1>8

\* A key occurs among the keys of a call if it is counted.
LEMMA OccurrencesDef ==
  ASSUME NEW keys \in Seq(Keys), NEW k
  PROVE  /\ Occurrences(keys, k) \in Nat
         /\ Occurrences(keys, k) > 0 <=> k \in ToSet(keys)
<1> DEFINE at == {i \in DOMAIN keys : keys[i] = k}
<1>1. IsFiniteSet(1 .. Len(keys))
  BY FS_Interval
<1>2. IsFiniteSet(at)
  BY <1>1, FS_Subset
<1>3. Cardinality(at) \in Nat /\ (Cardinality(at) = 0 <=> at = {})
  BY <1>2, FS_CardinalityType, FS_EmptySet
<1>4. at # {} <=> k \in ToSet(keys)
  BY DEF ToSet
<1> QED
  BY <1>3, <1>4 DEF Occurrences

\* Joining a queue once per occurrence of its key.
LEMMA JoinDef ==
  ASSUME NEW q \in Seq(Clients), NEW c \in Clients, NEW n \in Nat
  PROVE  /\ q \o [i \in 1 .. n |-> c] \in Seq(Clients)
         /\ ToSet(q \o [i \in 1 .. n |-> c]) = ToSet(q) \cup (IF n > 0 THEN {c} ELSE {})
<1> DEFINE w == [i \in 1 .. n |-> c]
<1>1. w \in Seq(Clients) /\ Len(w) = n /\ \A i \in 1 .. n : w[i] = c
  OBVIOUS
<1> HIDE DEF w
<1>2. q \o w \in Seq(Clients)
  BY <1>1
<1>3. ToSet(q \o w) = ToSet(q) \cup ToSet(w)
  <2>1. Range(q \o w) = Range(q) \cup Range(w)
    BY <1>1, RangeConcatenation
  <2>2. \A v : Range(v) = ToSet(v)
    BY DEF ToSet, Range
  <2> QED
    BY <2>1, <2>2
<1>4. ToSet(w) = IF n > 0 THEN {c} ELSE {}
  <2>1. DOMAIN w = 1 .. n
    BY <1>1
  <2>2. CASE n > 0
    <3>1. 1 \in 1 .. n
      BY <2>2
    <3> QED
      BY <1>1, <2>1, <2>2, <3>1 DEF ToSet
  <2>3. CASE n = 0
    BY <2>1, <2>3 DEF ToSet
  <2> QED
    BY <2>2, <2>3
<1> QED
  BY <1>2, <1>3, <1>4 DEF w

\* The least index of a set of indices is one of them.
LEMMA MinIn ==
  ASSUME NEW T \in SUBSET Nat, T # {}
  PROVE  Min(T) \in T
  BY LeastElement DEF Min

-----------------------------------------------------------------------------
(* The types of the server's members, and what its methods change.         *)

\* Which end of a list a pop takes from: the left one, or not.
Sides == BOOLEAN

\* The members of a Client that serve a blocked call.
CallType ==
  [keys : Seq(Keys), left : Sides, timeout : Nat, timer : Nat, waited : Nat]

\* The members of the server.
SrvType ==
  [lists   : [Dbs -> [Keys -> Seq(Elems)]],
   waiting : [Keys -> Seq(Clients)],
   call    : [Clients -> CallType],
   pending : SUBSET Clients,
   armed   : SUBSET Clients,
   handed  : [Elems -> Nat]]

\* The queue of a key holds the clients whose call names it.
Matched(s) ==
  \A k \in Keys, c \in Clients :
    c \in ToSet(s.waiting[k]) <=> k \in ToSet(s.call[c].keys)

\* A client that is not blocked has no call, nor has one that is not connected.
Calls(s, conn) ==
  \A c \in Clients : /\ s.call[c].keys = <<>> => s.call[c] = NoCall
                     /\ c \notin conn => s.call[c] = NoCall

\* What every method of the server keeps, for the connected clients conn.
Sane(s, conn) ==
  /\ s \in SrvType
  /\ Matched(s)
  /\ Calls(s, conn)
  /\ s.pending \subseteq conn
  /\ s.armed \subseteq conn

\* The call of a client that is not blocked has the type of a call, and no keys.
LEMMA NoCallType == NoCall \in CallType /\ NoCall.keys = <<>> /\ ToSet(<<>>) = {}
  BY DEF NoCall, CallType, ToSet, Sides

\* addReply changes the output of the client only.
LEMMA AddReplyDef ==
  ASSUME NEW s \in SrvType, NEW c \in Clients, NEW r, r = addReply(s, c)
  PROVE  /\ r \in SrvType
         /\ r.pending = s.pending \cup {c}
         /\ r.lists = s.lists /\ r.waiting = s.waiting /\ r.call = s.call
         /\ r.armed = s.armed /\ r.handed = s.handed
  BY DEF addReply, SrvType

\* The element a pop takes and what it leaves.
Taken(q, left) == IF left THEN Head(q) ELSE Last(q)
Rest(q, left) == IF left THEN Tail(q) ELSE Front(q)

\* What popFront and popBack take and leave: an element, and the list one shorter, the other
\* elements in their order.
LEMMA EndsDef ==
  ASSUME NEW q \in Seq(Elems), q # <<>>, NEW left \in Sides
  PROVE  /\ Taken(q, left) \in Elems
         /\ Rest(q, left) \in Seq(Elems)
         /\ Len(q) \in Nat \ {0}
         /\ Len(Rest(q, left)) = Len(q) - 1
         /\ left => /\ Taken(q, left) = q[1]
                    /\ \A i \in 1 .. Len(q) - 1 : Rest(q, left)[i] = q[i + 1]
         /\ ~left => /\ Taken(q, left) = q[Len(q)]
                     /\ \A i \in 1 .. Len(q) - 1 : Rest(q, left)[i] = q[i]
<1>1. Len(q) \in Nat \ {0} /\ 1 \in 1 .. Len(q) /\ Len(q) \in 1 .. Len(q)
  BY EmptySeq
<1>2. CASE left
  <2>1. Taken(q, left) = Head(q) /\ Rest(q, left) = Tail(q)
    BY <1>2 DEF Taken, Rest
  <2> QED
    <3>1. /\ Head(q) \in Elems /\ Tail(q) \in Seq(Elems)
          /\ Len(Tail(q)) = Len(q) - 1
          /\ \A i \in 1 .. Len(Tail(q)) : Tail(q)[i] = q[i + 1]
      BY HeadTailProperties
    <3>2. Head(q) = q[1]
      BY <1>1
    <3> QED
      BY <1>1, <1>2, <2>1, <3>1, <3>2
<1>3. CASE ~left
  <2>1. Taken(q, left) = q[Len(q)] /\ Rest(q, left) = SubSeq(q, 1, Len(q) - 1)
    BY <1>3 DEF Taken, Rest, Last, Front
  <2>2. PICK n \in Nat : n = Len(q) - 1
    BY <1>1
  <2>3. \A i \in 1 .. n : q[i] \in Elems
    BY <1>1, <2>2
  <2>4. /\ SubSeq(q, 1, n) \in Seq(Elems)
        /\ Len(SubSeq(q, 1, n)) = n
        /\ \A i \in 1 .. n : SubSeq(q, 1, n)[i] = q[i]
    BY <2>3, SubSeqProperties
  <2>5. q[Len(q)] \in Elems
    BY <1>1
  <2> QED
    BY <1>1, <1>3, <2>1, <2>2, <2>4, <2>5
<1> QED
  BY <1>2, <1>3 DEF Sides

\* What a pop does to the server: one element leaves one list, for client c.
Popped(s, r, c, d, k, left) ==
  /\ r.pending = s.pending \cup {c}
  /\ r.waiting = s.waiting /\ r.call = s.call /\ r.armed = s.armed
  /\ r.lists = [s.lists EXCEPT ![d][k] = Rest(s.lists[d][k], left)]
  /\ r.handed = [s.handed EXCEPT ![Taken(s.lists[d][k], left)] = @ + 1]

\* A pop takes one element of one list.
LEMMA PopDef ==
  ASSUME NEW s \in SrvType, NEW c \in Clients, NEW d \in Dbs, NEW k \in Keys,
         NEW left \in Sides, s.lists[d][k] # <<>>,
         NEW r, r = pop(s, c, d, k, left)
  PROVE  r \in SrvType /\ Popped(s, r, c, d, k, left)
<1>1. PICK q \in Seq(Elems) : q = s.lists[d][k]
  BY DEF SrvType
<1>2. PICK e \in Elems : e = Taken(q, left)
  BY <1>1, EndsDef
<1>3. PICK rest \in Seq(Elems) : rest = Rest(q, left)
  BY <1>1, EndsDef
<1>4. PICK a \in SrvType : a = addReply(s, c)
  BY AddReplyDef
<1>5. a.pending = s.pending \cup {c} /\ a.lists = s.lists /\ a.waiting = s.waiting
      /\ a.call = s.call /\ a.armed = s.armed /\ a.handed = s.handed
  BY <1>4, AddReplyDef
<1>6. r = [a EXCEPT !.lists[d][k] = rest, !.handed[e] = @ + 1]
  BY <1>1, <1>2, <1>3, <1>4 DEF pop, Taken, Rest
<1>7. r \in SrvType
  <2>1. PICK lists \in [Dbs -> [Keys -> Seq(Elems)]] :
           lists = [a.lists EXCEPT ![d][k] = rest]
    BY DEF SrvType
  <2>4. a.handed \in [Elems -> Nat] /\ a.handed[e] + 1 \in Nat
    BY DEF SrvType
  <2>2. PICK handed \in [Elems -> Nat] : handed = [a.handed EXCEPT ![e] = @ + 1]
    BY <2>4
  <2>3. r = [a EXCEPT !.lists = lists, !.handed = handed]
    BY <1>6, <2>1, <2>2
  <2> QED
    BY <2>3 DEF SrvType
<1>8. /\ r.pending = a.pending /\ r.waiting = a.waiting /\ r.call = a.call /\ r.armed = a.armed
      /\ r.lists = [a.lists EXCEPT ![d][k] = rest]
      /\ r.handed = [a.handed EXCEPT ![e] = @ + 1]
  BY <1>6 DEF SrvType
<1> QED
  BY <1>1, <1>2, <1>3, <1>5, <1>7, <1>8 DEF Popped

\* The call blockClient saves.
NewCall(keys, left, timeout, waited) ==
  [keys |-> keys, left |-> left, timeout |-> timeout,
   timer |-> IF timeout > 0 THEN timeout + ClockSkew ELSE 0,
   waited |-> waited]

\* What blockClient saves has the type of a call.
LEMMA NewCallType ==
  ASSUME NEW keys \in Seq(Keys), NEW left \in Sides, NEW timeout \in Nat, NEW waited \in Nat
  PROVE  NewCall(keys, left, timeout, waited) \in CallType
  BY ClockSkewAssumption DEF NewCall, CallType

\* What blocking does to the server: client c has the call x and is in the queues of its keys.
Queued(s, r, c, x) ==
  /\ r.lists = s.lists /\ r.pending = s.pending
  /\ r.armed = s.armed /\ r.handed = s.handed
  /\ r.call = [s.call EXCEPT ![c] = x]
  /\ \A k \in Keys : ToSet(r.waiting[k]) =
        ToSet(s.waiting[k]) \cup (IF k \in ToSet(x.keys) THEN {c} ELSE {})

\* blockClient saves the call and joins the queues of its keys.
LEMMA BlockDef ==
  ASSUME NEW s \in SrvType, NEW c \in Clients, NEW keys \in Seq(Keys), NEW left \in Sides,
         NEW timeout \in Nat, NEW waited \in Nat,
         NEW r, r = blockClient(s, c, keys, left, timeout, waited)
  PROVE  r \in SrvType /\ Queued(s, r, c, NewCall(keys, left, timeout, waited))
<1> DEFINE new == NewCall(keys, left, timeout, waited)
           Queue(k) == s.waiting[k] \o [i \in 1 .. Occurrences(keys, k) |-> c]
           queues == [k \in Keys |-> Queue(k)]
<1>1. new \in CallType
  BY NewCallType
<1>7. new.keys = keys
  BY DEF NewCall
<1>2. r = [s EXCEPT !.call[c] = new, !.waiting = queues]
  BY DEF blockClient, NewCall
<1>3. ASSUME NEW k \in Keys
      PROVE  /\ Queue(k) \in Seq(Clients)
             /\ ToSet(Queue(k)) = ToSet(s.waiting[k]) \cup (IF k \in ToSet(keys) THEN {c} ELSE {})
  <2>1. PICK q \in Seq(Clients) : q = s.waiting[k]
    BY DEF SrvType
  <2>2. PICK n \in Nat : n = Occurrences(keys, k) /\ (n > 0 <=> k \in ToSet(keys))
    BY OccurrencesDef
  <2> QED
    BY <2>1, <2>2, JoinDef
<1> HIDE DEF new, Queue
<1>4. queues \in [Keys -> Seq(Clients)] /\ \A k \in Keys : queues[k] = Queue(k)
  BY <1>3
<1> HIDE DEF queues
<1>5. r \in SrvType
  <2>1. PICK calls \in [Clients -> CallType] : calls = [s.call EXCEPT ![c] = new]
    BY <1>1 DEF SrvType
  <2>2. r = [s EXCEPT !.call = calls, !.waiting = queues]
    BY <1>2, <2>1
  <2> QED
    BY <1>4, <2>2 DEF SrvType
<1>6. /\ r.lists = s.lists /\ r.pending = s.pending
      /\ r.armed = s.armed /\ r.handed = s.handed
      /\ r.call = [s.call EXCEPT ![c] = new] /\ r.waiting = queues
  BY <1>2 DEF SrvType
<1> QED
  <2>1. Queued(s, r, c, new)
    BY <1>3, <1>4, <1>6, <1>7 DEF Queued
  <2> QED
    BY <1>5, <2>1 DEF new

\* What unblocking does to the server: client c has no call and is in no queue.
Unqueued(s, r, c) ==
  /\ r.lists = s.lists /\ r.pending = s.pending
  /\ r.armed = s.armed /\ r.handed = s.handed
  /\ r.call = [s.call EXCEPT ![c] = NoCall]
  /\ \A k \in Keys : ToSet(r.waiting[k]) = ToSet(s.waiting[k]) \ {c}

\* unblockClient ends the call and leaves every queue.
LEMMA UnblockDef ==
  ASSUME NEW s, NEW conn, Sane(s, conn), NEW c \in Clients,
         NEW r, r = unblockClient(s, c)
  PROVE  r \in SrvType /\ Unqueued(s, r, c)
<1>0. s \in SrvType /\ Matched(s) /\ s.call \in [Clients -> CallType]
  BY DEF Sane, SrvType
<1>1. CASE ~Blocked(s, c)
  <2>1. r = s /\ s.call[c].keys = <<>>
    BY <1>1 DEF unblockClient, Blocked
  <2>2. s.call[c] = NoCall
    BY <2>1 DEF Sane, Calls
  <2>3. \A k \in Keys : c \notin ToSet(s.waiting[k])
    BY <1>0, <2>1, NoCallType DEF Matched
  <2>4. s.call = [s.call EXCEPT ![c] = NoCall]
    BY <1>0, <2>2
  <2> QED
    BY <1>0, <2>1, <2>3, <2>4 DEF Unqueued
<1>2. CASE Blocked(s, c)
  <2> DEFINE Queue(k) == IF k \in ToSet(s.call[c].keys)
                         THEN Without(s.waiting[k], {c})
                         ELSE s.waiting[k]
             queues == [k \in Keys |-> Queue(k)]
  <2>1. r = [s EXCEPT !.call[c] = NoCall, !.waiting = queues]
    BY <1>2 DEF unblockClient
  <2>2. ASSUME NEW k \in Keys
        PROVE  Queue(k) \in Seq(Clients) /\ ToSet(Queue(k)) = ToSet(s.waiting[k]) \ {c}
    <3>1. PICK q \in Seq(Clients) : q = s.waiting[k]
      BY <1>0 DEF SrvType
    <3>2. CASE k \in ToSet(s.call[c].keys)
      BY <3>1, <3>2, WithoutDef
    <3>3. CASE k \notin ToSet(s.call[c].keys)
      <4>1. c \notin ToSet(q)
        BY <1>0, <3>1, <3>3 DEF Matched
      <4> QED
        BY <3>1, <3>3, <4>1
    <3> QED
      BY <3>2, <3>3
  <2> HIDE DEF Queue
  <2>3. queues \in [Keys -> Seq(Clients)] /\ \A k \in Keys : queues[k] = Queue(k)
    BY <2>2
  <2> HIDE DEF queues
  <2>4. r \in SrvType
    <3>1. PICK calls \in [Clients -> CallType] : calls = [s.call EXCEPT ![c] = NoCall]
      BY <1>0, NoCallType
    <3>2. r = [s EXCEPT !.call = calls, !.waiting = queues]
      BY <2>1, <3>1
    <3> QED
      BY <1>0, <2>3, <3>2 DEF SrvType
  <2>5. /\ r.lists = s.lists /\ r.pending = s.pending
        /\ r.armed = s.armed /\ r.handed = s.handed
        /\ r.call = [s.call EXCEPT ![c] = NoCall] /\ r.waiting = queues
    BY <1>0, <2>1 DEF SrvType
  <2> QED
    BY <2>2, <2>3, <2>4, <2>5 DEF Unqueued
<1> QED
  BY <1>1, <1>2

-----------------------------------------------------------------------------
(* The methods that pop, block and wake keep the server sane.              *)

\* Calls and queues agree with what a step does to one client's call and to the queues.
LEMMA MatchedAfter ==
  ASSUME NEW s \in SrvType, Matched(s), NEW c \in Clients, NEW x \in CallType, NEW r \in SrvType,
         r.call = [s.call EXCEPT ![c] = x],
         \A k \in Keys : /\ ToSet(r.waiting[k]) \cup {c} = ToSet(s.waiting[k]) \cup {c}
                         /\ c \in ToSet(r.waiting[k]) <=> k \in ToSet(x.keys)
  PROVE  Matched(r)
<1>1. s.call \in [Clients -> CallType]
  BY DEF SrvType
<1>2. ASSUME NEW k \in Keys, NEW b \in Clients
      PROVE  b \in ToSet(r.waiting[k]) <=> k \in ToSet(r.call[b].keys)
  <2>1. CASE b = c
    BY <1>1, <2>1
  <2>2. CASE b # c
    <3>1. r.call[b] = s.call[b]
      BY <1>1, <2>2
    <3>2. b \in ToSet(r.waiting[k]) <=> b \in ToSet(s.waiting[k])
      BY <2>2
    <3> QED
      BY <3>1, <3>2 DEF Matched
  <2> QED
    BY <2>1, <2>2
<1> QED
  BY <1>2 DEF Matched

\* addReply keeps the server sane.
LEMMA AddReplySane ==
  ASSUME NEW s, NEW conn, Sane(s, conn), NEW c \in Clients, c \in conn
  PROVE  Sane(addReply(s, c), conn)
<1>1. PICK r : r = addReply(s, c)
  OBVIOUS
<1>2. s \in SrvType
  BY DEF Sane
<1>3. /\ r \in SrvType /\ r.pending = s.pending \cup {c}
      /\ r.waiting = s.waiting /\ r.call = s.call /\ r.armed = s.armed
  BY <1>1, <1>2, AddReplyDef
<1> QED
  BY <1>1, <1>3 DEF Sane, Matched, Calls

\* A pop keeps the server sane.
LEMMA PopSane ==
  ASSUME NEW s, NEW conn, Sane(s, conn), NEW c \in Clients, c \in conn,
         NEW d \in Dbs, NEW k \in Keys, NEW left \in Sides, s.lists[d][k] # <<>>
  PROVE  Sane(pop(s, c, d, k, left), conn)
<1>1. PICK r : r = pop(s, c, d, k, left)
  OBVIOUS
<1>2. s \in SrvType
  BY DEF Sane
<1>3. /\ r \in SrvType /\ r.pending = s.pending \cup {c}
      /\ r.waiting = s.waiting /\ r.call = s.call /\ r.armed = s.armed
  <2>1. r \in SrvType /\ Popped(s, r, c, d, k, left)
    BY <1>1, <1>2, PopDef
  <2> QED
    BY <2>1 DEF Popped
<1> QED
  BY <1>1, <1>3 DEF Sane, Matched, Calls

\* unblockClient keeps the server sane.
LEMMA UnblockSane ==
  ASSUME NEW s, NEW conn, Sane(s, conn), NEW c \in Clients,
         NEW r, r = unblockClient(s, c)
  PROVE  Sane(r, conn) /\ r.call[c] = NoCall
<1>1. s \in SrvType /\ Matched(s) /\ s.call \in [Clients -> CallType]
  BY DEF Sane, SrvType
<1>2. /\ r \in SrvType /\ r.pending = s.pending /\ r.armed = s.armed
      /\ r.call = [s.call EXCEPT ![c] = NoCall]
      /\ \A k \in Keys : ToSet(r.waiting[k]) = ToSet(s.waiting[k]) \ {c}
  BY UnblockDef DEF Unqueued
<1>3. NoCall \in CallType /\ ToSet(NoCall.keys) = {}
  BY NoCallType
<1>4. Matched(r)
  <2>1. \A k \in Keys : /\ ToSet(r.waiting[k]) \cup {c} = ToSet(s.waiting[k]) \cup {c}
                        /\ c \in ToSet(r.waiting[k]) <=> k \in ToSet(NoCall.keys)
    BY <1>2, <1>3
  <2> QED
    BY <1>1, <1>2, <1>3, <2>1, MatchedAfter
<1>5. r.call[c] = NoCall /\ \A b \in Clients : b # c => r.call[b] = s.call[b]
  BY <1>1, <1>2
<1>6. Calls(r, conn)
  BY <1>5 DEF Sane, Calls
<1> QED
  BY <1>2, <1>4, <1>5, <1>6 DEF Sane

\* blockClient keeps the server sane.
LEMMA BlockSane ==
  ASSUME NEW s, NEW conn, Sane(s, conn), NEW c \in Clients, c \in conn, s.call[c] = NoCall,
         NEW keys \in Seq(Keys), keys # <<>>, NEW left \in Sides,
         NEW timeout \in Nat, NEW waited \in Nat,
         NEW r, r = blockClient(s, c, keys, left, timeout, waited)
  PROVE  Sane(r, conn)
<1>1. s \in SrvType /\ Matched(s) /\ s.call \in [Clients -> CallType]
  BY DEF Sane, SrvType
<1>2. PICK x \in CallType : x = NewCall(keys, left, timeout, waited)
  BY NewCallType
<1>3. x.keys = keys
  BY <1>2 DEF NewCall
<1>4. /\ r \in SrvType /\ r.pending = s.pending /\ r.armed = s.armed
      /\ r.call = [s.call EXCEPT ![c] = x]
      /\ \A k \in Keys : ToSet(r.waiting[k]) =
               ToSet(s.waiting[k]) \cup (IF k \in ToSet(x.keys) THEN {c} ELSE {})
  <2>1. r \in SrvType /\ Queued(s, r, c, x)
    BY <1>1, <1>2, BlockDef
  <2> QED
    BY <2>1 DEF Queued
<1>5. \A k \in Keys : c \notin ToSet(s.waiting[k])
  BY <1>1, NoCallType DEF Matched
<1>6. Matched(r)
  <2>1. \A k \in Keys : /\ ToSet(r.waiting[k]) \cup {c} = ToSet(s.waiting[k]) \cup {c}
                        /\ c \in ToSet(r.waiting[k]) <=> k \in ToSet(x.keys)
    BY <1>4, <1>5
  <2> QED
    BY <1>1, <1>4, <2>1, MatchedAfter
<1>7. r.call[c].keys # <<>> /\ \A b \in Clients : b # c => r.call[b] = s.call[b]
  BY <1>1, <1>3, <1>4
<1>8. Calls(r, conn)
  BY <1>7 DEF Sane, Calls
<1> QED
  BY <1>4, <1>6, <1>8 DEF Sane

\* Every list of the keys is empty.
AllEmpty(s, d, keys) == \A i \in DOMAIN keys : s.lists[d][keys[i]] = <<>>

\* One list of the keys is popped.
PopsOne(s, r, c, d, keys, left) ==
  \E i \in DOMAIN keys : s.lists[d][keys[i]] # <<>> /\ r = pop(s, c, d, keys[i], left)

\* BLPOP and BRPOP either block the client, when every list is empty, or pop a list that is not.
LEMMA BpopDef ==
  ASSUME NEW s, NEW c, NEW d, NEW keys \in Seq(Keys), NEW left, NEW timeout, NEW waited,
         NEW r, r = bpopGeneric(s, c, d, keys, left, timeout, waited)
  PROVE  \/ AllEmpty(s, d, keys) /\ r = blockClient(s, c, keys, left, timeout, waited)
         \/ PopsOne(s, r, c, d, keys, left)
<1> DEFINE full == {i \in DOMAIN keys : s.lists[d][keys[i]] # <<>>}
<1>1. r = IF full = {} THEN blockClient(s, c, keys, left, timeout, waited)
          ELSE pop(s, c, d, keys[Min(full)], left)
  BY DEF bpopGeneric
<1>2. full \in SUBSET Nat
  OBVIOUS
<1>3. full # {} => Min(full) \in full
  <2> HIDE DEF full
  <2> QED
    BY <1>2, MinIn
<1>4. CASE full = {}
  BY <1>1, <1>4 DEF AllEmpty
<1>5. CASE full # {}
  <2>1. PICK i \in full : i = Min(full)
    BY <1>3, <1>5
  <2> QED
    BY <1>1, <1>5, <2>1 DEF PopsOne
<1> QED
  BY <1>4, <1>5

\* BLPOP and BRPOP keep the server sane.
LEMMA BpopSane ==
  ASSUME NEW s, NEW conn, Sane(s, conn), NEW c \in Clients, c \in conn, s.call[c] = NoCall,
         NEW d \in Dbs, NEW keys \in Seq(Keys), keys # <<>>, NEW left \in Sides,
         NEW timeout \in Nat, NEW waited \in Nat,
         NEW r, r = bpopGeneric(s, c, d, keys, left, timeout, waited)
  PROVE  Sane(r, conn)
<1>1. CASE r = blockClient(s, c, keys, left, timeout, waited)
  BY <1>1, BlockSane
<1>2. ASSUME NEW i \in DOMAIN keys, s.lists[d][keys[i]] # <<>>, r = pop(s, c, d, keys[i], left)
      PROVE  Sane(r, conn)
  <2>1. PICK k \in Keys : k = keys[i]
    OBVIOUS
  <2> QED
    BY <1>2, <2>1, PopSane
<1>3. \/ r = blockClient(s, c, keys, left, timeout, waited)
      \/ PopsOne(s, r, c, d, keys, left)
  BY BpopDef
<1> QED
  BY <1>1, <1>2, <1>3 DEF PopsOne

\* The server with a write handler for the clients of T.
Armed(s, T) == [s EXCEPT !.armed = @ \cup T]

\* The methods that waking client c comes to.
Wakes(s, r, c) ==
  \E a, b : /\ a = unblockClient(s, c)
            /\ b = bpopGeneric(a, c, selectedDb[c], s.call[c].keys, s.call[c].left,
                               s.call[c].timeout, s.call[c].waited)
            /\ r = Armed(b, {c})

\* What waking the first client of a key's queue comes to.
LEMMA WakeDef ==
  ASSUME NEW s, NEW conn, Sane(s, conn), NEW k \in Keys, s.waiting[k] # <<>>,
         NEW r, r = handleClientsBlockedOnKey(s, k)
  PROVE  \E c \in Clients :
           /\ c \in conn /\ s.call[c] \in CallType
           /\ k \in ToSet(s.call[c].keys) /\ s.call[c].keys # <<>>
           /\ Wakes(s, r, c)
<1>1. s \in SrvType /\ Matched(s) /\ s.call \in [Clients -> CallType]
  BY DEF Sane, SrvType
<1>2. PICK q \in Seq(Clients) : q = s.waiting[k]
  BY <1>1 DEF SrvType
<1>3. q # <<>> /\ 1 \in DOMAIN q /\ Head(q) = q[1]
  <2>1. Len(q) \in Nat \ {0}
    BY <1>2, EmptySeq
  <2> QED
    BY <1>2, <2>1
<1>4. PICK c \in Clients : c = Head(q)
  BY <1>3
<1>5. c \in ToSet(q)
  BY <1>3, <1>4 DEF ToSet
<1>6. k \in ToSet(s.call[c].keys)
  BY <1>1, <1>2, <1>5 DEF Matched
<1>7. s.call[c].keys # <<>>
  BY <1>6, NoCallType
<1>8. c \in conn
  BY <1>7, NoCallType DEF Sane, Calls
<1>9. PICK a : a = unblockClient(s, c)
  OBVIOUS
<1>10. PICK b : b = bpopGeneric(a, c, selectedDb[c], s.call[c].keys, s.call[c].left,
                                s.call[c].timeout, s.call[c].waited)
  OBVIOUS
<1>11. r = Armed(b, {c})
  BY <1>2, <1>4, <1>9, <1>10 DEF handleClientsBlockedOnKey, Armed
<1> QED
  <2>1. Wakes(s, r, c)
    BY <1>9, <1>10, <1>11 DEF Wakes
  <2> QED
    BY <1>1, <1>6, <1>7, <1>8, <2>1

\* A write handler keeps the server sane.
LEMMA ArmSane ==
  ASSUME NEW s, NEW conn, Sane(s, conn), NEW T, T \subseteq conn, T \subseteq Clients,
         NEW r, r = Armed(s, T)
  PROVE  /\ Sane(r, conn)
         /\ r.lists = s.lists /\ r.waiting = s.waiting /\ r.call = s.call
         /\ r.pending = s.pending /\ r.handed = s.handed
<1>1. s \in SrvType
  BY DEF Sane
<1>2. /\ r \in SrvType /\ r.lists = s.lists /\ r.waiting = s.waiting /\ r.call = s.call
      /\ r.pending = s.pending /\ r.handed = s.handed /\ r.armed = s.armed \cup T
  BY <1>1 DEF SrvType, Armed
<1> QED
  BY <1>2 DEF Sane, Matched, Calls

\* Waking the first client of a key's queue keeps the server sane.
LEMMA HandleSane ==
  ASSUME NEW s, NEW conn, Sane(s, conn), NEW k \in Keys, selectedDb \in [Clients -> Dbs],
         NEW r, r = handleClientsBlockedOnKey(s, k)
  PROVE  Sane(r, conn)
<1>1. CASE s.waiting[k] = <<>>
  BY <1>1 DEF handleClientsBlockedOnKey
<1>2. CASE s.waiting[k] # <<>>
  <2>1. PICK c \in Clients :
           /\ c \in conn /\ s.call[c] \in CallType /\ s.call[c].keys # <<>>
           /\ Wakes(s, r, c)
    BY <1>2, WakeDef
  <2>2. PICK a, b : /\ a = unblockClient(s, c)
                    /\ b = bpopGeneric(a, c, selectedDb[c], s.call[c].keys, s.call[c].left,
                                       s.call[c].timeout, s.call[c].waited)
                    /\ r = Armed(b, {c})
    BY <2>1 DEF Wakes
  <2>3. Sane(a, conn) /\ a.call[c] = NoCall
    BY <2>2, UnblockSane
  <2>4. PICK keys \in Seq(Keys), left \in Sides, timeout \in Nat, waited \in Nat :
           keys = s.call[c].keys /\ left = s.call[c].left
           /\ timeout = s.call[c].timeout /\ waited = s.call[c].waited
    BY <2>1 DEF CallType
  <2>5. selectedDb[c] \in Dbs
    OBVIOUS
  <2>6. b = bpopGeneric(a, c, selectedDb[c], keys, left, timeout, waited) /\ keys # <<>>
    BY <2>1, <2>2, <2>4
  <2>7. Sane(b, conn)
    BY <2>1, <2>3, <2>5, <2>6, BpopSane
  <2>8. {c} \subseteq conn /\ {c} \subseteq Clients /\ r = Armed(b, {c})
    BY <2>1, <2>2
  <2> QED
    BY <2>7, <2>8, ArmSane
<1> QED
  BY <1>1, <1>2

-----------------------------------------------------------------------------
(* Pushes, the end of a read, and the timeout pass.                        *)

\* A list with the values of a push.
Longer(q, vals, left) == IF left THEN Reverse(vals) \o q ELSE q \o vals

\* What a push does to the server before a client is woken.
Stocked(s, r, c, d, k, vals, left) ==
  /\ r.pending = s.pending \cup {c}
  /\ r.waiting = s.waiting /\ r.call = s.call
  /\ r.armed = s.armed /\ r.handed = s.handed
  /\ r.lists = [s.lists EXCEPT ![d][k] = Longer(s.lists[d][k], vals, left)]

\* The values and the elements that were there.
LEMMA LongerDef ==
  ASSUME NEW q \in Seq(Elems), NEW vals \in Seq(Elems), NEW left \in Sides
  PROVE  /\ Longer(q, vals, left) \in Seq(Elems)
         /\ Len(Longer(q, vals, left)) = Len(q) + Len(vals)
<1>1. PICK w \in Seq(Elems) : w = Reverse(vals) /\ Len(w) = Len(vals)
  <2> DEFINE w == [i \in 1 .. Len(vals) |-> vals[(Len(vals) - i) + 1]]
  <2>1. w \in Seq(Elems) /\ Len(w) = Len(vals)
    <3>1. Len(vals) \in Nat
      OBVIOUS
    <3>2. \A i \in 1 .. Len(vals) : vals[(Len(vals) - i) + 1] \in Elems
      <4>1. \A i \in 1 .. Len(vals) : (Len(vals) - i) + 1 \in 1 .. Len(vals)
        BY <3>1
      <4> QED
        BY <4>1
    <3> QED
      BY <3>1, <3>2
  <2> QED
    BY <2>1 DEF Reverse
<1>2. CASE left
  BY <1>1, <1>2 DEF Longer
<1>3. CASE ~left
  BY <1>1, <1>3 DEF Longer
<1> QED
  BY <1>2, <1>3 DEF Sides

\* A push adds its values and the reply, then wakes.
LEMMA PushDef ==
  ASSUME NEW s, NEW conn, Sane(s, conn), NEW c \in Clients, c \in conn,
         NEW d \in Dbs, NEW k \in Keys, NEW vals \in Seq(Elems), NEW left \in Sides,
         NEW r, r = pushGeneric(s, c, d, k, vals, left)
  PROVE  \E t : /\ Sane(t, conn)
                /\ Stocked(s, t, c, d, k, vals, left)
                /\ r = handleClientsBlockedOnKey(t, k)
<1>0. s \in SrvType
  BY DEF Sane
<1>1. PICK a : a = addReply(s, c)
  OBVIOUS
<1>2. a \in SrvType /\ Sane(a, conn)
  BY <1>0, <1>1, AddReplyDef, AddReplySane
<1>3. /\ a.pending = s.pending \cup {c}
      /\ a.lists = s.lists /\ a.waiting = s.waiting /\ a.call = s.call
      /\ a.armed = s.armed /\ a.handed = s.handed
  BY <1>0, <1>1, AddReplyDef
<1>4. PICK q \in Seq(Elems) : q = s.lists[d][k]
  BY <1>0 DEF SrvType
<1>5. PICK new \in Seq(Elems) : new = Longer(q, vals, left)
  BY LongerDef
<1>6. PICK lists \in [Dbs -> [Keys -> Seq(Elems)]] : lists = [s.lists EXCEPT ![d][k] = new]
  BY <1>0 DEF SrvType
<1>7. PICK t : t = [a EXCEPT !.lists = lists]
  OBVIOUS
<1>8. /\ t \in SrvType /\ t.lists = lists
      /\ t.pending = a.pending /\ t.waiting = a.waiting /\ t.call = a.call
      /\ t.armed = a.armed /\ t.handed = a.handed
  BY <1>2, <1>7 DEF SrvType
<1>9. Sane(t, conn)
  BY <1>2, <1>8 DEF Sane, Matched, Calls
<1>10. Stocked(s, t, c, d, k, vals, left)
  BY <1>3, <1>4, <1>5, <1>6, <1>8 DEF Stocked
<1>11. r = handleClientsBlockedOnKey(t, k)
  <2>1. t = [a EXCEPT !.lists[d][k] = IF left THEN Reverse(vals) \o @ ELSE @ \o vals]
    BY <1>3, <1>4, <1>5, <1>6, <1>7 DEF Longer
  <2> QED
    BY <1>1, <2>1 DEF pushGeneric
<1> QED
  BY <1>9, <1>10, <1>11

\* A push keeps the server sane.
LEMMA PushSane ==
  ASSUME NEW s, NEW conn, Sane(s, conn), NEW c \in Clients, c \in conn,
         NEW d \in Dbs, NEW k \in Keys, NEW vals \in Seq(Elems), NEW left \in Sides,
         selectedDb \in [Clients -> Dbs],
         NEW r, r = pushGeneric(s, c, d, k, vals, left)
  PROVE  Sane(r, conn)
<1>1. PICK t : Sane(t, conn) /\ r = handleClientsBlockedOnKey(t, k)
  BY PushDef
<1> QED
  BY <1>1, HandleSane

\* The end of onReadable adds write handlers at most.
LEMMA AfterReadDef ==
  ASSUME NEW s, NEW conn, Sane(s, conn), NEW c \in Clients,
         NEW r, r = afterRead(s, c)
  PROVE  /\ Sane(r, conn)
         /\ r.lists = s.lists /\ r.waiting = s.waiting /\ r.call = s.call
         /\ r.pending = s.pending /\ r.handed = s.handed
<1>1. PICK T : T = IF c \in s.pending THEN {c} ELSE {}
  OBVIOUS
<1>2. T \subseteq conn /\ T \subseteq Clients
  BY <1>1 DEF Sane
<1>3. r = Armed(s, T)
  <2>1. s.armed \cup T = IF c \in s.pending THEN s.armed \cup {c} ELSE s.armed
    BY <1>1
  <2> QED
    BY <2>1 DEF afterRead, Armed
<1> QED
  BY <1>2, <1>3, ArmSane

\* The larger and the smaller of two numbers.
LEMMA MaxMin ==
  ASSUME NEW a \in Int, NEW b \in Int
  PROVE  /\ Max({a, b}) = IF a >= b THEN a ELSE b
         /\ Min({a, b}) = IF a <= b THEN a ELSE b
<1>1. \E x \in {a, b} : \A y \in {a, b} : x >= y
  OBVIOUS
<1>2. \E x \in {a, b} : \A y \in {a, b} : x <= y
  OBVIOUS
<1>3. Max({a, b}) \in {a, b} /\ \A y \in {a, b} : Max({a, b}) >= y
  BY <1>1 DEF Max
<1>4. Min({a, b}) \in {a, b} /\ \A y \in {a, b} : Min({a, b}) <= y
  BY <1>2 DEF Min
<1> QED
  BY <1>3, <1>4

\* MaxWait exceeds every timeout.
LEMMA MaxWaitDef == MaxWait \in Nat /\ \A t \in Timeouts : t < MaxWait
<1>1. \E x \in Timeouts : \A y \in Timeouts : x >= y
  BY TimeoutsAssumption
<1>2. PICK m \in Timeouts : m = Max(Timeouts) /\ \A y \in Timeouts : m >= y
  BY <1>1 DEF Max
<1>3. m \in Nat /\ MaxWait = m + 1 /\ \A y \in Timeouts : y \in Nat
  BY <1>2, TimeoutsAssumption DEF MaxWait
<1> QED
  BY <1>2, <1>3

\* What a period does to a call.
LEMMA OlderDef ==
  ASSUME NEW x \in CallType
  PROVE  /\ Older(x) \in CallType
         /\ Older(x).keys = x.keys /\ Older(x).timeout = x.timeout
         /\ Older(x).timer = (IF x.timer > 0 THEN x.timer - 1 ELSE 0)
         /\ Older(x).waited = (IF x.waited + 1 <= MaxWait THEN x.waited + 1 ELSE MaxWait)
<1>1. PICK timer \in Nat : timer = x.timer
  BY DEF CallType
<1>2. PICK waited \in Nat : waited = x.waited
  BY DEF CallType
<1>3. PICK less \in Nat : less = Max({0, timer - 1}) /\ less = IF timer > 0 THEN timer - 1 ELSE 0
  BY MaxMin
<1>6. PICK max \in Nat : max = MaxWait
  BY MaxWaitDef
<1>4. PICK more \in Nat : /\ more = Min({max, waited + 1})
                          /\ more = IF waited + 1 <= max THEN waited + 1 ELSE max
  <2>1. PICK next \in Nat : next = waited + 1
    OBVIOUS
  <2>2. Min({max, next}) = IF max <= next THEN max ELSE next
    BY MaxMin
  <2> QED
    BY <2>1, <2>2
<1>5. Older(x) = [x EXCEPT !.timer = less, !.waited = more]
  BY <1>1, <1>2, <1>3, <1>4, <1>6 DEF Older
<1> QED
  BY <1>1, <1>2, <1>3, <1>4, <1>5, <1>6 DEF CallType

\* The server after a period, before the timeouts.
Aged(s, r) ==
  /\ r.lists = s.lists /\ r.waiting = s.waiting
  /\ r.pending = s.pending /\ r.armed = s.armed /\ r.handed = s.handed
  /\ \A c \in Clients : r.call[c] = IF Blocked(s, c) THEN Older(s.call[c]) ELSE s.call[c]

\* What the timeouts do to the server: the clients of T have no call and are in no queue.
TimedOut(s, r, T) ==
  /\ r.lists = s.lists /\ r.armed = s.armed /\ r.handed = s.handed
  /\ r.pending = s.pending \cup T
  /\ \A c \in Clients : r.call[c] = IF c \in T THEN NoCall ELSE s.call[c]
  /\ \A k \in Keys : ToSet(r.waiting[k]) = ToSet(s.waiting[k]) \ T

\* The passing of a period.
LEMMA AgedSane ==
  ASSUME NEW s, NEW conn, Sane(s, conn),
         NEW r, r = [s EXCEPT !.call = [c \in Clients |->
                       IF Blocked(s, c) THEN Older(s.call[c]) ELSE s.call[c]]]
  PROVE  Sane(r, conn) /\ Aged(s, r)
<1>0. s \in SrvType /\ Matched(s) /\ s.call \in [Clients -> CallType]
  BY DEF Sane, SrvType
<1> DEFINE New(c) == IF Blocked(s, c) THEN Older(s.call[c]) ELSE s.call[c]
           calls == [c \in Clients |-> New(c)]
<1>1. r = [s EXCEPT !.call = calls]
  OBVIOUS
<1>2. ASSUME NEW c \in Clients
      PROVE  New(c) \in CallType /\ New(c).keys = s.call[c].keys
  <2>1. PICK x \in CallType : x = s.call[c]
    BY <1>0
  <2> QED
    BY <2>1, OlderDef
<1>3. \A c \in Clients : ~Blocked(s, c) => New(c) = s.call[c]
  OBVIOUS
<1> HIDE DEF New
<1>4. calls \in [Clients -> CallType] /\ \A c \in Clients : calls[c] = New(c)
  BY <1>2
<1> HIDE DEF calls
<1>5. /\ r \in SrvType /\ r.lists = s.lists /\ r.waiting = s.waiting /\ r.call = calls
      /\ r.pending = s.pending /\ r.armed = s.armed /\ r.handed = s.handed
  BY <1>0, <1>1, <1>4 DEF SrvType
<1>6. Aged(s, r)
  BY <1>4, <1>5 DEF Aged, New
<1>7. Matched(r)
  BY <1>0, <1>2, <1>4, <1>5 DEF Matched
<1>8. Calls(r, conn)
  <2> SUFFICES ASSUME NEW c \in Clients, r.call[c].keys = <<>> \/ c \notin conn
               PROVE  r.call[c] = NoCall
    BY DEF Calls
  <2>1. s.call[c].keys = <<>> \/ c \notin conn
    BY <1>2, <1>4, <1>5
  <2>2. s.call[c] = NoCall
    BY <2>1 DEF Sane, Calls
  <2>3. ~Blocked(s, c)
    BY <2>2, NoCallType DEF Blocked
  <2> QED
    BY <1>3, <1>4, <1>5, <2>2, <2>3
<1> QED
  BY <1>5, <1>6, <1>7, <1>8 DEF Sane

\* The timeouts of clients.
LEMMA TimeOutSane ==
  ASSUME NEW s, NEW conn, Sane(s, conn), NEW T, T \subseteq conn, T \subseteq Clients,
         NEW r, r = timeOut(s, T)
  PROVE  Sane(r, conn) /\ TimedOut(s, r, T)
<1>0. s \in SrvType /\ Matched(s) /\ s.call \in [Clients -> CallType]
  BY DEF Sane, SrvType
<1> DEFINE Queue(k) == Without(s.waiting[k], T)
           queues == [k \in Keys |-> Queue(k)]
           calls == [c \in Clients |-> IF c \in T THEN NoCall ELSE s.call[c]]
<1>1. r = [s EXCEPT !.pending = @ \cup T, !.call = calls, !.waiting = queues]
  BY DEF timeOut
<1>2. ASSUME NEW k \in Keys
      PROVE  Queue(k) \in Seq(Clients) /\ ToSet(Queue(k)) = ToSet(s.waiting[k]) \ T
  <2>1. PICK q \in Seq(Clients) : q = s.waiting[k]
    BY <1>0 DEF SrvType
  <2> QED
    BY <2>1, WithoutDef
<1> HIDE DEF Queue
<1>3. /\ calls \in [Clients -> CallType]
      /\ \A c \in Clients : calls[c] = IF c \in T THEN NoCall ELSE s.call[c]
  BY <1>0, NoCallType
<1>4. queues \in [Keys -> Seq(Clients)] /\ \A k \in Keys : queues[k] = Queue(k)
  BY <1>2
<1> HIDE DEF queues, calls
<1>5. /\ r \in SrvType /\ r.lists = s.lists /\ r.waiting = queues /\ r.call = calls
      /\ r.pending = s.pending \cup T /\ r.armed = s.armed /\ r.handed = s.handed
  BY <1>0, <1>1, <1>3, <1>4 DEF SrvType
<1>6. TimedOut(s, r, T)
  BY <1>2, <1>3, <1>4, <1>5 DEF TimedOut
<1>7. Matched(r)
  <2> SUFFICES ASSUME NEW k \in Keys, NEW c \in Clients
               PROVE  c \in ToSet(r.waiting[k]) <=> k \in ToSet(r.call[c].keys)
    BY DEF Matched
  <2>1. c \in ToSet(r.waiting[k]) <=> c \in ToSet(s.waiting[k]) /\ c \notin T
    BY <1>6 DEF TimedOut
  <2>2. CASE c \in T
    <3>1. r.call[c] = NoCall
      BY <1>6, <2>2 DEF TimedOut
    <3> QED
      BY <2>1, <2>2, <3>1, NoCallType
  <2>3. CASE c \notin T
    <3>1. r.call[c] = s.call[c]
      BY <1>6, <2>3 DEF TimedOut
    <3> QED
      BY <1>0, <2>1, <2>3, <3>1 DEF Matched
  <2> QED
    BY <2>2, <2>3
<1>8. Calls(r, conn)
  BY <1>6 DEF TimedOut, Sane, Calls
<1> QED
  BY <1>5, <1>6, <1>7, <1>8 DEF Sane

-----------------------------------------------------------------------------
(* The queues agree with the calls.                                        *)

\* The inductive invariant of the types and of the queues.
Core ==
  /\ Sane(srv, connected)
  /\ connected \subseteq Clients
  /\ selectedDb \in [Clients -> Dbs]
  /\ pushed \in 0 .. MaxElems

\* The values of a push are elements.
LEMMA FreshDef ==
  ASSUME Core, NEW n \in PushSizes, pushed + n <= MaxElems
  PROVE  /\ Fresh(n) \in Seq(Elems) /\ Len(Fresh(n)) = n /\ n \in Nat \ {0}
         /\ pushed + n \in 0 .. MaxElems
         /\ \A i \in 1 .. n : Fresh(n)[i] = pushed + i
<1>1. n \in Nat \ {0} /\ pushed \in Nat /\ MaxElems \in Nat
  BY PushAssumption DEF Core
<1>2. \A i \in 1 .. n : pushed + i \in Elems
  BY <1>1 DEF Elems
<1> QED
  BY <1>1, <1>2 DEF Fresh

\* A client that can run a command is connected and has no call.
LEMMA Runs ==
  ASSUME Core, NEW c \in Clients, NEW op, CanRun(c, op)
  PROVE  op \in Ops /\ c \in connected /\ srv.call[c] = NoCall /\ selectedDb[c] \in Dbs
  BY DEF Core, CanRun, Blocked, Sane, Calls

\* LPUSH keeps Core: the values, the reply and the served waiter change no queue wrongly.
LEMMA LPushCore ==
  ASSUME Core, NEW c \in Clients, NEW k \in Keys, NEW n \in PushSizes, LPush(c, k, n)
  PROVE  Core'
<1>1. c \in connected /\ selectedDb[c] \in Dbs
  BY Runs DEF LPush
<1>2. PICK left \in Sides : left = TRUE
  BY DEF Sides
<1>3. PICK r : r = pushGeneric(srv, c, selectedDb[c], k, Fresh(n), left)
  OBVIOUS
<1>4. srv' = afterRead(r, c) /\ pushed' = pushed + n /\ UNCHANGED <<selectedDb, connected>>
  BY <1>2, <1>3 DEF LPush
<1>5. Fresh(n) \in Seq(Elems) /\ pushed + n \in 0 .. MaxElems
  BY FreshDef DEF LPush
<1>6. Sane(r, connected)
  BY <1>1, <1>3, <1>5, PushSane DEF Core
<1>7. Sane(srv', connected)
  BY <1>4, <1>6, AfterReadDef
<1> QED
  BY <1>4, <1>5, <1>7 DEF Core

\* RPUSH keeps Core: it is pushGeneric twice.
LEMMA RPushCore ==
  ASSUME Core, NEW c \in Clients, NEW k \in Keys, NEW n \in PushSizes, RPush(c, k, n)
  PROVE  Core'
<1>1. c \in connected /\ selectedDb[c] \in Dbs
  BY Runs DEF RPush
<1>2. PICK left \in Sides : left = FALSE
  BY DEF Sides
<1>3. PICK once : once = pushGeneric(srv, c, selectedDb[c], k, Fresh(n), left)
  OBVIOUS
<1>4. PICK r : r = pushGeneric(once, c, selectedDb[c], k, Fresh(n), left)
  OBVIOUS
<1>5. srv' = afterRead(r, c) /\ pushed' = pushed + n /\ UNCHANGED <<selectedDb, connected>>
  BY <1>2, <1>3, <1>4 DEF RPush
<1>6. Fresh(n) \in Seq(Elems) /\ pushed + n \in 0 .. MaxElems
  BY FreshDef DEF RPush
<1>7. Sane(once, connected)
  BY <1>1, <1>3, <1>6, PushSane DEF Core
<1>8. Sane(r, connected)
  BY <1>1, <1>4, <1>6, <1>7, PushSane DEF Core
<1>9. Sane(srv', connected)
  BY <1>5, <1>8, AfterReadDef
<1> QED
  BY <1>5, <1>6, <1>9 DEF Core

\* LPOP and RPOP keep Core, on a missing list and on one with elements.
LEMMA PopCore ==
  ASSUME Core, NEW c \in Clients, NEW k \in Keys, NEW left \in Sides, Pop(c, k, left)
  PROVE  Core'
<1>1. c \in connected /\ selectedDb[c] \in Dbs
  BY Runs DEF Pop
<1>2. PICK r : r = IF srv.lists[selectedDb[c]][k] = <<>> THEN addReply(srv, c)
                   ELSE pop(srv, c, selectedDb[c], k, left)
  OBVIOUS
<1>3. srv' = afterRead(r, c) /\ UNCHANGED <<selectedDb, connected, pushed>>
  BY <1>2 DEF Pop
<1>4. Sane(r, connected)
  <2>1. CASE srv.lists[selectedDb[c]][k] = <<>>
    BY <1>1, <1>2, <2>1, AddReplySane DEF Core
  <2>2. CASE srv.lists[selectedDb[c]][k] # <<>>
    BY <1>1, <1>2, <2>2, PopSane DEF Core
  <2> QED
    BY <2>1, <2>2
<1>5. Sane(srv', connected)
  BY <1>3, <1>4, AfterReadDef
<1> QED
  BY <1>3, <1>5 DEF Core

\* BLPOP and BRPOP keep Core, whether they pop or block.
LEMMA BPopCore ==
  ASSUME Core, NEW c \in Clients, NEW keys \in KeyLists, NEW left \in Sides,
         NEW timeout \in Timeouts, BPop(c, keys, left, timeout)
  PROVE  Core'
<1>1. c \in connected /\ selectedDb[c] \in Dbs /\ srv.call[c] = NoCall
  BY Runs DEF BPop
<1>2. keys \in Seq(Keys) /\ keys # <<>> /\ timeout \in Nat /\ 0 \in Nat
  BY KeyListsAssumption, TimeoutsAssumption
<1>3. PICK r : r = bpopGeneric(srv, c, selectedDb[c], keys, left, timeout, 0)
  OBVIOUS
<1>4. srv' = afterRead(r, c) /\ UNCHANGED <<selectedDb, connected, pushed>>
  BY <1>3 DEF BPop
<1>5. Sane(r, connected)
  BY <1>1, <1>2, <1>3, BpopSane DEF Core
<1>6. Sane(srv', connected)
  BY <1>4, <1>5, AfterReadDef
<1> QED
  BY <1>4, <1>6 DEF Core

\* Other lists, and nothing else.
LEMMA ListsSane ==
  ASSUME NEW s, NEW conn, Sane(s, conn), NEW r \in SrvType,
         r.waiting = s.waiting, r.call = s.call, r.pending = s.pending, r.armed = s.armed
  PROVE  Sane(r, conn)
  BY DEF Sane, Matched, Calls

\* RENAME keeps Core: it moves a list and touches no queue.
LEMMA RenameCore ==
  ASSUME Core, NEW c \in Clients, NEW k \in Keys, NEW new \in Keys, Rename(c, k, new)
  PROVE  Core'
<1>1. c \in connected /\ selectedDb[c] \in Dbs /\ srv \in SrvType /\ Sane(srv, connected)
  BY Runs DEF Rename, Core, Sane
<1>2. PICK d \in Dbs : d = selectedDb[c]
  BY <1>1
<1>3. PICK list \in Seq(Elems) : list = srv.lists[d][k]
  BY <1>1 DEF SrvType
<1>4. PICK r : r = IF list = <<>> THEN srv
          ELSE [srv EXCEPT !.lists[d] = [@ EXCEPT ![k] = <<>>, ![new] = list]]
  OBVIOUS
<1>5. srv' = afterRead(addReply(r, c), c) /\ UNCHANGED <<selectedDb, connected, pushed>>
  BY <1>2, <1>3, <1>4 DEF Rename
<1>6. Sane(r, connected)
  <2>1. CASE list = <<>>
    BY <1>1, <1>4, <2>1
  <2>2. CASE list # <<>>
    <3>1. PICK lists \in [Dbs -> [Keys -> Seq(Elems)]] :
             lists = [srv.lists EXCEPT ![d] = [srv.lists[d] EXCEPT ![k] = <<>>, ![new] = list]]
      <4>1. PICK row \in [Keys -> Seq(Elems)] :
               row = [srv.lists[d] EXCEPT ![k] = <<>>, ![new] = list]
        <5>1. PICK was \in [Keys -> Seq(Elems)] : was = srv.lists[d]
          BY <1>1 DEF SrvType
        <5>2. <<>> \in Seq(Elems)
          OBVIOUS
        <5> QED
          BY <5>1, <5>2
      <4> QED
        BY <1>1, <4>1 DEF SrvType
    <3>2. r = [srv EXCEPT !.lists = lists]
      BY <1>4, <2>2, <3>1
    <3>3. /\ r \in SrvType /\ r.waiting = srv.waiting /\ r.call = srv.call
          /\ r.pending = srv.pending /\ r.armed = srv.armed
      BY <1>1, <3>2 DEF SrvType
    <3> QED
      BY <1>1, <3>3, ListsSane
  <2> QED
    BY <2>1, <2>2
<1>7. Sane(addReply(r, c), connected)
  BY <1>1, <1>6, AddReplySane
<1>8. Sane(srv', connected)
  BY <1>5, <1>7, AfterReadDef
<1> QED
  BY <1>5, <1>8 DEF Core

\* SELECT keeps Core.
LEMMA SelectCore ==
  ASSUME Core, NEW c \in Clients, NEW d \in Dbs, Select(c, d)
  PROVE  Core'
<1>1. c \in connected
  BY Runs DEF Select
<1>2. Sane(addReply(srv, c), connected)
  BY <1>1, AddReplySane DEF Core
<1>3. Sane(srv', connected)
  BY <1>2, AfterReadDef DEF Select
<1>4. selectedDb' \in [Clients -> Dbs]
  BY DEF Select, Core
<1> QED
  BY <1>3, <1>4 DEF Core, Select

\* Input of a blocked client keeps Core: it is consumed and not executed.
LEMMA ReadBlockedCore ==
  ASSUME Core, NEW c \in Clients, ReadBlocked(c)
  PROVE  Core'
<1>1. Sane(srv', connected)
  BY AfterReadDef DEF ReadBlocked, Core
<1> QED
  BY <1>1 DEF Core, ReadBlocked

\* The server when the output of client c and its handler are gone.
Sent(s, c) == [s EXCEPT !.pending = @ \ {c}, !.armed = @ \ {c}]

\* Output leaves the server.
LEMMA SentSane ==
  ASSUME NEW s, NEW conn, Sane(s, conn), NEW c \in Clients,
         NEW r, r = Sent(s, c)
  PROVE  /\ Sane(r, conn)
         /\ r.lists = s.lists /\ r.waiting = s.waiting /\ r.call = s.call /\ r.handed = s.handed
         /\ r.pending = s.pending \ {c} /\ r.armed = s.armed \ {c}
<1>1. s \in SrvType
  BY DEF Sane
<1>2. /\ r \in SrvType
      /\ r.lists = s.lists /\ r.waiting = s.waiting /\ r.call = s.call /\ r.handed = s.handed
      /\ r.pending = s.pending \ {c} /\ r.armed = s.armed \ {c}
  BY <1>1 DEF SrvType, Sent
<1> QED
  BY <1>2 DEF Sane, Matched, Calls

\* onWritable keeps Core: output and handler go, for one client.
LEMMA WritableCore ==
  ASSUME Core, NEW c \in Clients, Writable(c)
  PROVE  Core'
<1>1. PICK s : s = srv /\ Sane(s, connected)
  BY DEF Core
<1>2. PICK r : r = Sent(s, c)
  OBVIOUS
<1>3. srv' = r
  BY <1>1, <1>2 DEF Writable, Sent
<1>4. Sane(r, connected)
  BY <1>1, <1>2, SentSane
<1> QED
  BY <1>3, <1>4 DEF Core, Writable

\* closeClient keeps Core for the clients that stay: the closed one leaves the queues, the
\* output and the handlers with it.
LEMMA CloseClientCore ==
  ASSUME Core, NEW c \in Clients, CloseClient(c)
  PROVE  Core'
<1>1. PICK s : s = unblockClient(srv, c)
  OBVIOUS
<1>2. Sane(s, connected) /\ s.call[c] = NoCall
  BY <1>1, UnblockSane DEF Core
<1>3. PICK r : r = Sent(s, c)
  OBVIOUS
<1>4. srv' = r /\ connected' = connected \ {c} /\ selectedDb' = [selectedDb EXCEPT ![c] = 0]
      /\ pushed' = pushed
  BY <1>1, <1>3 DEF CloseClient, Sent
<1>5. /\ Sane(r, connected) /\ r.call = s.call
      /\ r.pending = s.pending \ {c} /\ r.armed = s.armed \ {c}
  BY <1>2, <1>3, SentSane
<1>6. Sane(r, connected \ {c})
  BY <1>2, <1>5 DEF Sane, Calls
<1>7. selectedDb' \in [Clients -> Dbs]
  BY <1>4, DbsAssumption DEF Core
<1> QED
  BY <1>4, <1>6, <1>7 DEF Core

\* A new connection keeps Core: it has no call yet.
LEMMA ConnectCore ==
  ASSUME Core, NEW c \in Clients, Connect(c)
  PROVE  Core'
<1>1. Sane(srv, connected \cup {c})
  BY DEF Core, Sane, Calls
<1> QED
  BY <1>1 DEF Core, Connect

\* What a period does: the blocked calls are older, and those that are due end.
LEMMA CronDef ==
  ASSUME Core, Cron
  PROVE  \E a : /\ Aged(srv, a) /\ Sane(a, connected)
                /\ Due(a) \subseteq connected /\ Due(a) \subseteq Clients
                /\ TimedOut(a, srv', Due(a)) /\ Sane(srv', connected)
                /\ UNCHANGED <<selectedDb, connected, pushed>>
<1>1. PICK s : s = srv /\ Sane(s, connected)
  BY DEF Core
<1>2. PICK a : a = [s EXCEPT !.call = [c \in Clients |->
                       IF Blocked(s, c) THEN Older(s.call[c]) ELSE s.call[c]]]
  OBVIOUS
<1>3. srv' = timeOut(a, Due(a)) /\ UNCHANGED <<selectedDb, connected, pushed>>
  BY <1>1, <1>2 DEF Cron
<1>4. Sane(a, connected) /\ Aged(s, a)
  BY <1>1, <1>2, AgedSane
<1>5. Due(a) \subseteq Clients
  BY DEF Due
<1>6. Due(a) \subseteq connected
  <2> SUFFICES ASSUME NEW c \in Clients, c \in Due(a), c \notin connected PROVE FALSE
    BY <1>5
  <2>1. a.call[c] = NoCall
    BY <1>4 DEF Sane, Calls
  <2> QED
    BY <2>1 DEF Due, NoCall
<1>7. PICK T : T = Due(a)
  OBVIOUS
<1>8. Sane(srv', connected) /\ TimedOut(a, srv', T)
  BY <1>3, <1>4, <1>5, <1>6, <1>7, TimeOutSane
<1> QED
  BY <1>1, <1>3, <1>4, <1>5, <1>6, <1>7, <1>8

\* serverCron keeps Core: a client that times out leaves every queue.
LEMMA CronCore ==
  ASSUME Core, Cron
  PROVE  Core'
<1>1. Sane(srv', connected) /\ UNCHANGED <<selectedDb, connected, pushed>>
  BY CronDef
<1> QED
  BY <1>1 DEF Core

\* The server starts in Core.
LEMMA InitCore ==
  ASSUME Init
  PROVE  Core
<1>1. srv = InitSrv /\ connected = Clients /\ pushed = 0
  BY DEF Init
<1>2. srv.lists \in [Dbs -> [Keys -> Seq(Elems)]] /\ srv.waiting \in [Keys -> Seq(Clients)]
  BY <1>1 DEF InitSrv
<1>3. srv.call \in [Clients -> CallType] /\ \A c \in Clients : srv.call[c] = NoCall
  BY <1>1, NoCallType DEF InitSrv
<1>4. /\ srv.pending = {} /\ srv.armed = {} /\ srv.handed \in [Elems -> Nat]
      /\ \A k \in Keys : srv.waiting[k] = <<>>
  BY <1>1 DEF InitSrv
<1>5. srv \in SrvType
  BY <1>1, <1>2, <1>3, <1>4 DEF SrvType, InitSrv
<1>6. Matched(srv)
  BY <1>3, <1>4, NoCallType DEF Matched
<1>7. Sane(srv, connected)
  BY <1>3, <1>4, <1>5, <1>6 DEF Sane, Calls
<1>8. selectedDb \in [Clients -> Dbs]
  BY DbsAssumption DEF Init
<1> QED
  BY <1>1, <1>7, <1>8, PushAssumption DEF Core

\* Every step keeps Core.
LEMMA NextCore ==
  ASSUME Core, [Next]_vars
  PROVE  Core'
<1>1. CASE UNCHANGED vars
  BY <1>1 DEF Core, vars
<1>2. ASSUME NEW c \in Clients, NEW k \in Keys, NEW n \in PushSizes, LPush(c, k, n) \/ RPush(c, k, n)
      PROVE  Core'
  BY <1>2, LPushCore, RPushCore
<1>3. ASSUME NEW c \in Clients, NEW k \in Keys, NEW left \in BOOLEAN, Pop(c, k, left)
      PROVE  Core'
  <2>1. left \in Sides
    BY DEF Sides
  <2> QED
    BY <1>3, <2>1, PopCore
<1>4. ASSUME NEW c \in Clients, NEW keys \in KeyLists, NEW left \in BOOLEAN,
             NEW timeout \in Timeouts, BPop(c, keys, left, timeout)
      PROVE  Core'
  <2>1. left \in Sides
    BY DEF Sides
  <2> QED
    BY <1>4, <2>1, BPopCore
<1>5. ASSUME NEW c \in Clients,
             \/ \E k, new \in Keys : Rename(c, k, new)
             \/ \E d \in Dbs : Select(c, d)
             \/ ReadBlocked(c) \/ Writable(c) \/ CloseClient(c) \/ Connect(c)
      PROVE  Core'
  BY <1>5, RenameCore, SelectCore, ReadBlockedCore, WritableCore, CloseClientCore, ConnectCore
<1>6. CASE Cron
  BY <1>6, CronCore
<1> QED
  BY <1>1, <1>2, <1>3, <1>4, <1>5, <1>6 DEF Next

\* In every state Core holds: calls, queues, output and handlers agree with each other and with
\* the connected clients, for any clients, keys, databases, key lists, timeouts and clocks.
THEOREM Invariance == Spec => []Core
<1>1. Init => Core
  BY InitCore
<1>2. Core /\ [Next]_vars => Core'
  BY NextCore
<1> QED
  BY <1>1, <1>2, PTL DEF Spec

\* Queues, calls, replies and handlers keep their types, and only a connected client has output
\* or a write handler (Server::closeClient and ConnectionManager leave nothing behind).
THEOREM Typed == Spec => []TypeOK
<1>1. Core => TypeOK
  BY DEF Core, TypeOK, Sane, SrvType
<1> QED
  BY <1>1, Invariance, PTL

\* blockedClients_ holds under each key exactly the connected clients blocked on it: neither a
\* wake-up nor a timeout nor closeClient leaves the pointer of a client that no longer waits.
THEOREM QueuesAgree == Spec => []QueuesMatchCalls
<1>1. Core => QueuesMatchCalls
  <2> SUFFICES ASSUME Core, NEW k \in Keys, NEW c \in Clients
               PROVE  c \in ToSet(srv.waiting[k])
                        <=> c \in connected /\ k \in ToSet(srv.call[c].keys)
    BY DEF QueuesMatchCalls
  <2>1. c \in ToSet(srv.waiting[k]) <=> k \in ToSet(srv.call[c].keys)
    BY DEF Core, Sane, Matched
  <2>2. c \notin connected => k \notin ToSet(srv.call[c].keys)
    BY NoCallType DEF Core, Sane, Calls
  <2> QED
    BY <2>1, <2>2
<1> QED
  BY <1>1, Invariance, PTL

-----------------------------------------------------------------------------
(* Lists that somebody waits for are empty.                                *)

\* Nobody waits in database 0 for a list that has elements.
Idle(s) == \A c \in Clients : AllEmpty(s, 0, s.call[c].keys)

\* Every client has the call it had or none.
Kept(s, r) == \A c \in Clients : r.call[c] = s.call[c] \/ r.call[c] = NoCall

\* Every client has database 0.
OneDb == selectedDb = [c \in Clients |-> 0]

\* The lists of a call's keys are empty, key by key.
LEMMA AllEmptyKey ==
  ASSUME NEW s, NEW d, NEW keys \in Seq(Keys)
  PROVE  AllEmpty(s, d, keys) <=> \A k \in ToSet(keys) : s.lists[d][k] = <<>>
  BY DEF AllEmpty, ToSet

\* The saved call of a client and its keys have their types.
LEMMA CallKeys ==
  ASSUME NEW s, NEW conn, Sane(s, conn), NEW c \in Clients
  PROVE  s.call[c] \in CallType /\ s.call[c].keys \in Seq(Keys)
         /\ ToSet(s.call[c].keys) \subseteq Keys
<1>1. s.call[c] \in CallType
  BY DEF Sane, SrvType
<1>2. PICK keys \in Seq(Keys) : keys = s.call[c].keys
  BY <1>1 DEF CallType
<1>3. ToSet(keys) \subseteq Keys
  BY DEF ToSet
<1> QED
  BY <1>1, <1>2, <1>3

\* No list that somebody waits for gets elements, and calls only end.
LEMMA IdleAfter ==
  ASSUME NEW s, NEW conn, Sane(s, conn), Idle(s), NEW r, Kept(s, r),
         \A k \in Keys : s.lists[0][k] = <<>> => r.lists[0][k] = <<>>
  PROVE  Idle(r)
<1> SUFFICES ASSUME NEW c \in Clients PROVE AllEmpty(r, 0, r.call[c].keys)
  BY DEF Idle
<1>1. CASE r.call[c] = NoCall
  BY <1>1, NoCallType DEF AllEmpty
<1>2. CASE r.call[c] = s.call[c]
  <2>1. PICK keys \in Seq(Keys) : keys = s.call[c].keys /\ ToSet(keys) \subseteq Keys
    BY CallKeys
  <2>2. \A k \in ToSet(keys) : s.lists[0][k] = <<>>
    BY <2>1, AllEmptyKey DEF Idle
  <2>3. \A k \in ToSet(keys) : r.lists[0][k] = <<>>
    BY <2>1, <2>2
  <2> QED
    BY <1>2, <2>1, <2>3, AllEmptyKey
<1> QED
  BY <1>1, <1>2 DEF Kept

\* A pop changes the list it takes from.
LEMMA PopLists ==
  ASSUME NEW s \in SrvType, NEW c \in Clients, NEW d \in Dbs, NEW k \in Keys, NEW left \in Sides,
         s.lists[d][k] # <<>>, NEW r, r = pop(s, c, d, k, left)
  PROVE  /\ r \in SrvType /\ r.call = s.call /\ r.waiting = s.waiting
         /\ Len(s.lists[d][k]) \in Nat /\ Len(r.lists[d][k]) = Len(s.lists[d][k]) - 1
         /\ \A e \in Dbs, j \in Keys : (e # d \/ j # k) => r.lists[e][j] = s.lists[e][j]
<1>1. r \in SrvType /\ Popped(s, r, c, d, k, left)
  BY PopDef
<1>2. PICK q \in Seq(Elems) : q = s.lists[d][k]
  BY DEF SrvType
<1>3. PICK rest \in Seq(Elems) : rest = Rest(q, left) /\ Len(rest) = Len(q) - 1 /\ Len(q) \in Nat
  BY <1>2, EndsDef
<1>4. r.lists = [s.lists EXCEPT ![d][k] = rest] /\ r.call = s.call /\ r.waiting = s.waiting
  BY <1>1, <1>2, <1>3 DEF Popped
<1>5. s.lists \in [Dbs -> [Keys -> Seq(Elems)]]
  BY DEF SrvType
<1>6. r.lists[d][k] = rest
      /\ \A e \in Dbs, j \in Keys : (e # d \/ j # k) => r.lists[e][j] = s.lists[e][j]
  BY <1>4, <1>5
<1> QED
  BY <1>1, <1>2, <1>3, <1>4, <1>6

\* A pop gives nobody a reason to have waited: it fills no list and ends no call.
LEMMA PopIdle ==
  ASSUME NEW s, NEW conn, Sane(s, conn), Idle(s), NEW c \in Clients, NEW k \in Keys,
         NEW left \in Sides, s.lists[0][k] # <<>>, NEW r, r = pop(s, c, 0, k, left)
  PROVE  Idle(r) /\ Kept(s, r)
<1>1. s \in SrvType /\ 0 \in Dbs
  BY DbsAssumption DEF Sane
<1>2. r.call = s.call /\ \A j \in Keys : j # k => r.lists[0][j] = s.lists[0][j]
  BY <1>1, PopLists
<1>3. Kept(s, r)
  BY <1>2 DEF Kept
<1>4. \A j \in Keys : s.lists[0][j] = <<>> => r.lists[0][j] = <<>>
  BY <1>2
<1> QED
  BY <1>3, <1>4, IdleAfter

\* A push of one value leaves nobody waiting for it, and blocks nobody.
LEMMA PushServes ==
  ASSUME NEW s, NEW conn, Sane(s, conn), Idle(s), OneDb, NEW c \in Clients, c \in conn,
         NEW k \in Keys, NEW vals \in Seq(Elems), Len(vals) = 1, NEW left \in Sides,
         NEW r, r = pushGeneric(s, c, 0, k, vals, left)
  PROVE  Sane(r, conn) /\ Idle(r) /\ Kept(s, r)
<1>0. 0 \in Dbs /\ selectedDb \in [Clients -> Dbs] /\ s \in SrvType
  BY DbsAssumption DEF OneDb, Sane
<1>1. Sane(r, conn)
  BY <1>0, PushSane
<1>2. PICK t : /\ Sane(t, conn)
               /\ Stocked(s, t, c, 0, k, vals, left)
               /\ r = handleClientsBlockedOnKey(t, k)
  BY <1>0, PushDef
<1>3. PICK q \in Seq(Elems) : q = s.lists[0][k]
  BY <1>0 DEF SrvType
<1>4. PICK long \in Seq(Elems) : long = Longer(q, vals, left) /\ Len(long) = Len(q) + 1
  <2>1. Longer(q, vals, left) \in Seq(Elems) /\ Len(Longer(q, vals, left)) = Len(q) + Len(vals)
    BY LongerDef
  <2> QED
    BY <2>1
<1>5. t.lists = [s.lists EXCEPT ![0][k] = long] /\ t.call = s.call /\ t.waiting = s.waiting
  BY <1>2, <1>3, <1>4 DEF Stocked
<1>6. t.lists[0][k] = long /\ \A j \in Keys : j # k => t.lists[0][j] = s.lists[0][j]
  <2>1. s.lists \in [Dbs -> [Keys -> Seq(Elems)]]
    BY <1>0 DEF SrvType
  <2> QED
    BY <1>0, <1>5, <2>1
<1>7. \A b \in Clients : \A j \in ToSet(s.call[b].keys) : s.lists[0][j] = <<>>
  <2> SUFFICES ASSUME NEW b \in Clients
               PROVE  \A j \in ToSet(s.call[b].keys) : s.lists[0][j] = <<>>
    OBVIOUS
  <2>1. PICK keys \in Seq(Keys) : keys = s.call[b].keys
    BY CallKeys
  <2> QED
    BY <2>1, AllEmptyKey DEF Idle
<1>8. CASE t.waiting[k] = <<>>
  <2>1. r = t
    BY <1>2, <1>8 DEF handleClientsBlockedOnKey
  <2>2. \A b \in Clients : k \notin ToSet(s.call[b].keys)
    BY <1>5, <1>8, NoCallType DEF Sane, Matched
  <2>3. ASSUME NEW b \in Clients PROVE AllEmpty(t, 0, t.call[b].keys)
    <3>1. PICK keys \in Seq(Keys) : keys = s.call[b].keys /\ ToSet(keys) \subseteq Keys
      BY CallKeys
    <3>2. \A j \in ToSet(keys) : t.lists[0][j] = <<>>
      BY <1>6, <1>7, <2>2, <3>1
    <3> QED
      BY <1>5, <3>1, <3>2, AllEmptyKey
  <2> QED
    BY <1>1, <1>5, <2>1, <2>3 DEF Idle, Kept
<1>9. CASE t.waiting[k] # <<>>
  <2>1. PICK w \in Clients : /\ w \in conn /\ t.call[w] \in CallType
                             /\ k \in ToSet(t.call[w].keys) /\ Wakes(t, r, w)
    BY <1>2, <1>9, WakeDef
  <2>2. PICK keys \in Seq(Keys), side \in Sides, timeout \in Nat, waited \in Nat :
           keys = t.call[w].keys /\ side = t.call[w].left
           /\ timeout = t.call[w].timeout /\ waited = t.call[w].waited
    BY <2>1 DEF CallType
  <2>3. selectedDb[w] = 0
    BY DEF OneDb
  <2>4. PICK a, b : /\ a = unblockClient(t, w)
                    /\ b = bpopGeneric(a, w, 0, keys, side, timeout, waited)
                    /\ r = Armed(b, {w})
    BY <2>1, <2>2, <2>3 DEF Wakes
  <2>5. Sane(a, conn) /\ a \in SrvType
    BY <1>2, <2>4, UnblockSane DEF Sane
  <2>6. a.lists = t.lists /\ a.call = [t.call EXCEPT ![w] = NoCall]
    <3>1. Unqueued(t, a, w)
      BY <1>2, <2>4, UnblockDef
    <3> QED
      BY <3>1 DEF Unqueued
  <2>7. q = <<>> /\ Len(long) = 1 /\ long # <<>>
    <3>1. q = <<>>
      BY <1>3, <1>5, <1>7, <2>1
    <3>2. Len(long) = 1
      BY <1>4, <3>1
    <3>3. PICK none \in Seq(Elems) : none = <<>> /\ Len(none) = 0
      BY EmptySeq
    <3>5. Len(long) # Len(none)
      BY <3>2, <3>3
    <3>4. long # none
      BY <3>5, Zenon
    <3> QED
      BY <3>1, <3>2, <3>3, <3>4
  <2>8. \A i \in DOMAIN keys : keys[i] \in Keys /\ (a.lists[0][keys[i]] # <<>> => keys[i] = k)
    <3> SUFFICES ASSUME NEW i \in DOMAIN keys
                 PROVE  keys[i] \in Keys /\ (a.lists[0][keys[i]] # <<>> => keys[i] = k)
      OBVIOUS
    <3>1. keys[i] \in ToSet(s.call[w].keys) /\ keys[i] \in Keys
      BY <1>5, <2>2 DEF ToSet
    <3> QED
      BY <1>6, <1>7, <2>6, <3>1
  <2>9. ~AllEmpty(a, 0, keys)
    BY <1>6, <2>1, <2>2, <2>6, <2>7, AllEmptyKey
  <2>10. PopsOne(a, b, w, 0, keys, side)
    BY <2>4, <2>9, BpopDef
  <2>11. PICK i \in DOMAIN keys : a.lists[0][keys[i]] # <<>> /\ b = pop(a, w, 0, keys[i], side)
    BY <2>10 DEF PopsOne
  <2>12. keys[i] = k /\ a.lists[0][k] # <<>> /\ b = pop(a, w, 0, k, side)
    BY <2>8, <2>11
  <2>13. /\ b \in SrvType /\ b.call = a.call
         /\ Len(b.lists[0][k]) = Len(a.lists[0][k]) - 1
         /\ \A j \in Keys : j # k => b.lists[0][j] = a.lists[0][j]
    BY <1>0, <2>5, <2>12, PopLists
  <2>14. b.lists[0][k] = <<>>
    <3>1. PICK rest \in Seq(Elems) : rest = b.lists[0][k]
      BY <1>0, <2>13 DEF SrvType
    <3>2. Len(rest) = 0
      BY <1>6, <2>6, <2>7, <2>13, <3>1
    <3> QED
      BY <3>1, <3>2, EmptySeq
  <2>15. r.lists = b.lists /\ r.call = b.call
    BY <2>4, <2>13 DEF Armed, SrvType
  <2>16. \A j \in Keys : r.lists[0][j] = s.lists[0][j]
    BY <1>3, <1>6, <2>6, <2>7, <2>13, <2>14, <2>15
  <2>17. Kept(s, r)
    <3>1. s.call \in [Clients -> CallType]
      BY <1>0 DEF SrvType
    <3> QED
      BY <1>5, <2>6, <2>13, <2>15, <3>1 DEF Kept
  <2>18. Idle(r)
    BY <2>16, <2>17, IdleAfter
  <2> QED
    BY <1>1, <2>17, <2>18
<1> QED
  BY <1>8, <1>9

-----------------------------------------------------------------------------
(* Every step keeps them empty, and timeouts.                              *)

\* The inductive invariant of the clients that wait.
Served == Core /\ Idle(srv) /\ OneDb

\* Every client has the call it had, none, or a new one.
Renewed(s, r) ==
  \A c \in Clients : \/ r.call[c] = s.call[c] \/ r.call[c] = NoCall
                     \/ \E keys, left : \E timeout \in Timeouts :
                          r.call[c] = NewCall(keys, left, timeout, 0)

\* A step that changes neither lists nor calls disturbs nobody who waits.
LEMMA SameCalls ==
  ASSUME NEW s, NEW r, NEW t, r.lists = s.lists, r.call = s.call
  PROVE  /\ Idle(s) => Idle(r)
         /\ Kept(t, s) => Kept(t, r)
         /\ Renewed(t, s) => Renewed(t, r)
  BY DEF Idle, AllEmpty, Kept, Renewed

\* Keeping or ending calls is a case of renewing them.
LEMMA KeptRenewed ==
  ASSUME NEW s, NEW r, Kept(s, r)
  PROVE  Renewed(s, r)
  BY DEF Kept, Renewed

\* LPUSH of one value leaves nobody waiting for it.
LEMMA LPushServed ==
  ASSUME PushSizes \subseteq {1}, Served,
         NEW c \in Clients, NEW k \in Keys, NEW n \in PushSizes, LPush(c, k, n)
  PROVE  Idle(srv') /\ Kept(srv, srv') /\ OneDb'
<1>1. c \in connected /\ selectedDb[c] = 0
  BY Runs DEF LPush, Served, OneDb
<1>2. PICK left \in Sides : left = TRUE
  BY DEF Sides
<1>3. PICK r : r = pushGeneric(srv, c, 0, k, Fresh(n), left)
  OBVIOUS
<1>4. srv' = afterRead(r, c) /\ UNCHANGED <<selectedDb, connected>>
  BY <1>1, <1>2, <1>3 DEF LPush
<1>5. Fresh(n) \in Seq(Elems) /\ Len(Fresh(n)) = 1
  BY FreshDef DEF LPush, Served
<1>6. Sane(r, connected) /\ Idle(r) /\ Kept(srv, r)
  BY <1>1, <1>3, <1>5, PushServes DEF Served, Core
<1>7. srv'.lists = r.lists /\ srv'.call = r.call
  BY <1>4, <1>6, AfterReadDef
<1> QED
  BY <1>4, <1>6, <1>7, SameCalls DEF Served, OneDb

\* RPUSH of one value leaves nobody waiting for it: each of its two pushes serves one waiter.
LEMMA RPushServed ==
  ASSUME PushSizes \subseteq {1}, Served,
         NEW c \in Clients, NEW k \in Keys, NEW n \in PushSizes, RPush(c, k, n)
  PROVE  Idle(srv') /\ Kept(srv, srv') /\ OneDb'
<1>1. c \in connected /\ selectedDb[c] = 0
  BY Runs DEF RPush, Served, OneDb
<1>2. PICK left \in Sides : left = FALSE
  BY DEF Sides
<1>3. PICK once : once = pushGeneric(srv, c, 0, k, Fresh(n), left)
  OBVIOUS
<1>4. PICK r : r = pushGeneric(once, c, 0, k, Fresh(n), left)
  OBVIOUS
<1>5. srv' = afterRead(r, c) /\ UNCHANGED <<selectedDb, connected>>
  BY <1>1, <1>2, <1>3, <1>4 DEF RPush
<1>6. Fresh(n) \in Seq(Elems) /\ Len(Fresh(n)) = 1
  BY FreshDef DEF RPush, Served
<1>7. Sane(once, connected) /\ Idle(once) /\ Kept(srv, once)
  BY <1>1, <1>3, <1>6, PushServes DEF Served, Core
<1>8. Sane(r, connected) /\ Idle(r) /\ Kept(once, r)
  BY <1>1, <1>4, <1>6, <1>7, PushServes DEF Served
<1>9. Kept(srv, r)
  BY <1>7, <1>8 DEF Kept
<1>10. srv'.lists = r.lists /\ srv'.call = r.call
  BY <1>5, <1>8, AfterReadDef
<1> QED
  BY <1>5, <1>8, <1>9, <1>10, SameCalls DEF Served, OneDb

\* LPOP and RPOP leave nobody waiting for elements.
LEMMA PopServed ==
  ASSUME Served, NEW c \in Clients, NEW k \in Keys, NEW left \in Sides, Pop(c, k, left)
  PROVE  Idle(srv') /\ Kept(srv, srv') /\ OneDb'
<1>1. c \in connected /\ selectedDb[c] = 0 /\ Sane(srv, connected) /\ srv \in SrvType /\ 0 \in Dbs
  BY Runs, DbsAssumption DEF Pop, Served, OneDb, Core, Sane
<1>2. PICK r : r = IF srv.lists[0][k] = <<>> THEN addReply(srv, c) ELSE pop(srv, c, 0, k, left)
  OBVIOUS
<1>3. srv' = afterRead(r, c) /\ UNCHANGED <<selectedDb, connected>>
  BY <1>1, <1>2 DEF Pop
<1>4. Sane(r, connected) /\ Idle(r) /\ Kept(srv, r)
  <2>1. CASE srv.lists[0][k] = <<>>
    <3>1. r.lists = srv.lists /\ r.call = srv.call
      BY <1>1, <1>2, <2>1, AddReplyDef
    <3>2. Sane(r, connected)
      BY <1>1, <1>2, <2>1, AddReplySane
    <3> QED
      BY <3>1, <3>2, SameCalls DEF Served, Kept
  <2>2. CASE srv.lists[0][k] # <<>>
    <3>1. r = pop(srv, c, 0, k, left)
      BY <1>2, <2>2
    <3>2. Sane(r, connected)
      BY <1>1, <2>2, <3>1, PopSane
    <3> QED
      BY <1>1, <2>2, <3>1, <3>2, PopIdle DEF Served
  <2> QED
    BY <2>1, <2>2
<1>5. srv'.lists = r.lists /\ srv'.call = r.call
  BY <1>3, <1>4, AfterReadDef
<1> QED
  BY <1>3, <1>4, <1>5, SameCalls DEF Served, OneDb

\* BLPOP and BRPOP block only when all their lists are empty.
LEMMA BPopServed ==
  ASSUME Served, NEW c \in Clients, NEW keys \in KeyLists, NEW left \in Sides,
         NEW timeout \in Timeouts, BPop(c, keys, left, timeout)
  PROVE  Idle(srv') /\ Renewed(srv, srv') /\ OneDb'
<1>1. /\ c \in connected /\ selectedDb[c] = 0 /\ srv.call[c] = NoCall
      /\ Sane(srv, connected) /\ srv \in SrvType /\ 0 \in Dbs
  BY Runs, DbsAssumption DEF BPop, Served, OneDb, Core, Sane
<1>2. keys \in Seq(Keys) /\ keys # <<>> /\ timeout \in Nat /\ 0 \in Nat
  BY KeyListsAssumption, TimeoutsAssumption
<1>3. PICK r : r = bpopGeneric(srv, c, 0, keys, left, timeout, 0)
  OBVIOUS
<1>4. srv' = afterRead(r, c) /\ UNCHANGED <<selectedDb, connected>>
  BY <1>1, <1>3 DEF BPop
<1>5. Sane(r, connected)
  BY <1>1, <1>2, <1>3, BpopSane
<1>6. \/ AllEmpty(srv, 0, keys) /\ r = blockClient(srv, c, keys, left, timeout, 0)
      \/ PopsOne(srv, r, c, 0, keys, left)
  BY <1>2, <1>3, BpopDef
<1>7. ASSUME AllEmpty(srv, 0, keys), r = blockClient(srv, c, keys, left, timeout, 0)
      PROVE  Idle(r) /\ Renewed(srv, r)
  <2>1. PICK x : x = NewCall(keys, left, timeout, 0)
    OBVIOUS
  <2>2. x.keys = keys
    BY <2>1 DEF NewCall
  <2>3. Queued(srv, r, c, x)
    BY <1>1, <1>2, <1>7, <2>1, BlockDef
  <2>4. srv.call \in [Clients -> CallType]
    BY <1>1 DEF SrvType
  <2>5. r.lists = srv.lists /\ r.call[c] = x /\ \A b \in Clients : b # c => r.call[b] = srv.call[b]
    BY <2>3, <2>4 DEF Queued
  <2>6. Idle(r)
    BY <1>7, <2>2, <2>5 DEF Served, Idle, AllEmpty
  <2>7. Renewed(srv, r)
    BY <2>1, <2>5 DEF Renewed
  <2> QED
    BY <2>6, <2>7
<1>8. ASSUME PopsOne(srv, r, c, 0, keys, left)
      PROVE  Idle(r) /\ Renewed(srv, r)
  <2>1. PICK i \in DOMAIN keys : srv.lists[0][keys[i]] # <<>> /\ r = pop(srv, c, 0, keys[i], left)
    BY <1>8 DEF PopsOne
  <2>2. PICK k \in Keys : k = keys[i]
    BY <1>2
  <2>3. Idle(r) /\ Kept(srv, r)
    BY <1>1, <2>1, <2>2, PopIdle DEF Served
  <2> QED
    BY <2>3, KeptRenewed
<1>9. Idle(r) /\ Renewed(srv, r)
  BY <1>6, <1>7, <1>8
<1>10. srv'.lists = r.lists /\ srv'.call = r.call
  BY <1>4, <1>5, AfterReadDef
<1> QED
  BY <1>4, <1>9, <1>10, SameCalls DEF Served, OneDb

\* The steps of a client that change no list, and end calls at most.
LEMMA OthersServed ==
  ASSUME Served, NEW c \in Clients, ReadBlocked(c) \/ Writable(c) \/ CloseClient(c) \/ Connect(c)
  PROVE  Idle(srv') /\ Kept(srv, srv') /\ OneDb'
<1>0. Sane(srv, connected) /\ Idle(srv) /\ Kept(srv, srv) /\ OneDb
  BY DEF Served, Core, Kept
<1>1. CASE ReadBlocked(c)
  <2>1. srv'.lists = srv.lists /\ srv'.call = srv.call
    BY <1>0, <1>1, AfterReadDef DEF ReadBlocked
  <2> QED
    BY <1>0, <1>1, <2>1, SameCalls DEF ReadBlocked, OneDb
<1>2. CASE Writable(c)
  <2>1. srv' = Sent(srv, c)
    BY <1>2 DEF Writable, Sent
  <2>2. srv'.lists = srv.lists /\ srv'.call = srv.call
    BY <1>0, <2>1, SentSane
  <2> QED
    BY <1>0, <1>2, <2>2, SameCalls DEF Writable, OneDb
<1>3. CASE CloseClient(c)
  <2>1. PICK s : s = unblockClient(srv, c)
    OBVIOUS
  <2>2. srv' = Sent(s, c) /\ selectedDb' = [selectedDb EXCEPT ![c] = 0]
    BY <1>3, <2>1 DEF CloseClient, Sent
  <2>3. Sane(s, connected) /\ Unqueued(srv, s, c)
    BY <1>0, <2>1, UnblockSane, UnblockDef
  <2>4. s.lists = srv.lists /\ s.call = [srv.call EXCEPT ![c] = NoCall]
    BY <2>3 DEF Unqueued
  <2>5. srv'.lists = s.lists /\ srv'.call = s.call
    BY <2>2, <2>3, SentSane
  <2>6. Kept(srv, srv')
    <3>1. srv.call \in [Clients -> CallType]
      BY <1>0 DEF Sane, SrvType
    <3> QED
      BY <2>4, <2>5, <3>1 DEF Kept
  <2>7. Idle(srv')
    BY <1>0, <2>4, <2>5, <2>6, IdleAfter
  <2>8. OneDb'
    BY <1>0, <2>2 DEF OneDb
  <2> QED
    BY <2>6, <2>7, <2>8
<1>4. CASE Connect(c)
  BY <1>0, <1>4 DEF Connect, OneDb
<1> QED
  BY <1>1, <1>2, <1>3, <1>4

\* serverCron changes no list and only ends calls.
LEMMA CronServed ==
  ASSUME Served, Cron
  PROVE  Idle(srv') /\ OneDb'
<1>1. PICK a : /\ Aged(srv, a) /\ Sane(a, connected)
               /\ TimedOut(a, srv', Due(a)) /\ UNCHANGED selectedDb
  BY CronDef DEF Served
<1>2. ASSUME NEW c \in Clients PROVE a.call[c].keys = srv.call[c].keys
  <2>1. srv.call[c] \in CallType
    BY CallKeys DEF Served, Core
  <2> QED
    BY <1>1, <2>1, OlderDef DEF Aged
<1>3. Idle(a)
  BY <1>1, <1>2 DEF Served, Idle, AllEmpty, Aged
<1>4. Kept(a, srv') /\ srv'.lists = a.lists
  BY <1>1 DEF TimedOut, Kept
<1>5. Idle(srv')
  BY <1>1, <1>3, <1>4, IdleAfter
<1> QED
  BY <1>1, <1>5 DEF Served, OneDb

\* A step of the system: nobody is left waiting for elements, and calls only end or begin.
LEMMA NextServed ==
  ASSUME PushSizes \subseteq {1}, "SELECT" \notin Ops, "RENAME" \notin Ops, Served, [Next]_vars
  PROVE  Served' /\ (Renewed(srv, srv') \/ Cron)
<1>0. Core'
  BY NextCore DEF Served
<1>1. CASE UNCHANGED vars
  BY <1>0, <1>1 DEF Served, OneDb, Renewed, vars
<1>2. ASSUME NEW c \in Clients, NEW k \in Keys, NEW n \in PushSizes, LPush(c, k, n) \/ RPush(c, k, n)
      PROVE  Idle(srv') /\ Kept(srv, srv') /\ OneDb'
  BY <1>2, LPushServed, RPushServed
<1>3. ASSUME NEW c \in Clients, NEW k \in Keys, NEW left \in BOOLEAN, Pop(c, k, left)
      PROVE  Idle(srv') /\ Kept(srv, srv') /\ OneDb'
  <2>1. left \in Sides
    BY DEF Sides
  <2> QED
    BY <1>3, <2>1, PopServed
<1>4. ASSUME NEW c \in Clients, NEW keys \in KeyLists, NEW left \in BOOLEAN,
             NEW timeout \in Timeouts, BPop(c, keys, left, timeout)
      PROVE  Idle(srv') /\ Renewed(srv, srv') /\ OneDb'
  <2>1. left \in Sides
    BY DEF Sides
  <2> QED
    BY <1>4, <2>1, BPopServed
<1>5. ASSUME NEW c \in Clients,
             \/ \E k, new \in Keys : Rename(c, k, new)
             \/ \E d \in Dbs : Select(c, d)
      PROVE  FALSE
  BY <1>5 DEF Rename, Select, CanRun
<1>6. ASSUME NEW c \in Clients, ReadBlocked(c) \/ Writable(c) \/ CloseClient(c) \/ Connect(c)
      PROVE  Idle(srv') /\ Kept(srv, srv') /\ OneDb'
  BY <1>6, OthersServed
<1>7. CASE Cron
  BY <1>0, <1>7, CronServed DEF Served
<1>8. Idle(srv') /\ OneDb' /\ (Renewed(srv, srv') \/ Cron)
  BY <1>0, <1>1, <1>2, <1>3, <1>4, <1>5, <1>6, <1>7, KeptRenewed DEF Next, Served
<1> QED
  BY <1>0, <1>8 DEF Served

\* Nobody waits when the server starts.
LEMMA InitServed ==
  ASSUME Init
  PROVE  Served
<1>1. Core /\ OneDb
  BY InitCore DEF Init, OneDb
<1>2. \A c \in Clients : srv.call[c] = NoCall
  BY DEF Init, InitSrv
<1>3. Idle(srv)
  BY <1>2, NoCallType DEF Idle, AllEmpty
<1> QED
  BY <1>1, <1>3 DEF Served

\* No client waits for a list that has elements, for any clients, keys, key lists and timeouts,
\* when pushes carry one value and clients use neither SELECT nor RENAME.  The code needs all
\* three: handleClientsBlockedOnKey serves one waiter however many values were pushed, executes
\* its command in the waiter's own database though the queue is shared by all of them, and
\* renameCommand does not call it.
THEOREM NobodyWaits ==
  ASSUME PushSizes \subseteq {1}, "SELECT" \notin Ops, "RENAME" \notin Ops
  PROVE  Spec => []NobodyWaitsForElements
<1>1. Init => Served
  BY InitServed
<1>2. Served /\ [Next]_vars => Served'
  BY NextServed
<1>3. Served => NobodyWaitsForElements
  BY DEF Served, OneDb, Idle, AllEmpty, NobodyWaitsForElements
<1> QED
  BY <1>1, <1>2, <1>3, PTL DEF Spec

\* The time a client has waited and the time it has left add up to its timeout.
Timed(s) ==
  \A c \in Clients : s.call[c].timeout > 0 =>
    /\ s.call[c].timeout \in Timeouts
    /\ s.call[c].timer > 0
    /\ s.call[c].timer + s.call[c].waited = s.call[c].timeout

\* A call that stays or begins has its whole time ahead: waited and timer add up.
LEMMA RenewedTimed ==
  ASSUME ClockSkew = 0, NEW s, NEW r, Timed(s), Renewed(s, r)
  PROVE  Timed(r)
<1> SUFFICES ASSUME NEW c \in Clients, r.call[c].timeout > 0
             PROVE  /\ r.call[c].timeout \in Timeouts
                    /\ r.call[c].timer > 0
                    /\ r.call[c].timer + r.call[c].waited = r.call[c].timeout
  BY DEF Timed
<1>1. CASE r.call[c] = s.call[c]
  BY <1>1 DEF Timed
<1>2. CASE r.call[c] = NoCall
  BY <1>2 DEF NoCall
<1>3. ASSUME NEW keys, NEW left, NEW timeout \in Timeouts, r.call[c] = NewCall(keys, left, timeout, 0)
      PROVE  /\ r.call[c].timeout \in Timeouts
             /\ r.call[c].timer > 0
             /\ r.call[c].timer + r.call[c].waited = r.call[c].timeout
  <2>1. /\ r.call[c].timeout = timeout /\ r.call[c].waited = 0
        /\ r.call[c].timer = IF timeout > 0 THEN timeout + ClockSkew ELSE 0
    BY <1>3 DEF NewCall
  <2>2. timeout \in Nat
    BY TimeoutsAssumption
  <2> QED
    BY <2>1, <2>2
<1> QED
  BY <1>1, <1>2, <1>3 DEF Renewed

\* A period of serverCron moves one unit from the timer of a call to the time it has waited, and
\* ends the call when none is left.
LEMMA CronTimed ==
  ASSUME Core, Timed(srv), Cron
  PROVE  Timed(srv')
<1>1. PICK a : /\ Aged(srv, a) /\ Sane(a, connected)
               /\ TimedOut(a, srv', Due(a))
  BY CronDef
<1> SUFFICES ASSUME NEW c \in Clients, srv'.call[c].timeout > 0
             PROVE  /\ srv'.call[c].timeout \in Timeouts
                    /\ srv'.call[c].timer > 0
                    /\ srv'.call[c].timer + srv'.call[c].waited = srv'.call[c].timeout
  BY DEF Timed
<1>2. c \notin Due(a) /\ srv'.call[c] = a.call[c]
  <2>1. NoCall.timeout = 0
    BY DEF NoCall
  <2>2. c \notin Due(a)
    BY <1>1, <2>1 DEF TimedOut
  <2> QED
    BY <1>1, <2>2 DEF TimedOut
<1>3. PICK x \in CallType : x = srv.call[c]
  BY CallKeys DEF Core
<1>4. a.call[c].timer # 0
  BY <1>2 DEF Due
<1>5. CASE ~Blocked(srv, c)
  <2>1. a.call[c] = srv.call[c]
    BY <1>1, <1>5 DEF Aged
  <2> QED
    BY <1>2, <2>1 DEF Timed
<1>6. CASE Blocked(srv, c)
  <2>1. a.call[c] = Older(x)
    BY <1>1, <1>3, <1>6 DEF Aged
  <2>2. PICK timeout \in Nat, timer \in Nat, waited \in Nat :
           timeout = x.timeout /\ timer = x.timer /\ waited = x.waited
    BY DEF CallType
  <2>3. /\ a.call[c].timeout = timeout
        /\ a.call[c].timer = (IF timer > 0 THEN timer - 1 ELSE 0)
        /\ a.call[c].waited = (IF waited + 1 <= MaxWait THEN waited + 1 ELSE MaxWait)
    BY <2>1, <2>2, OlderDef
  <2>4. timeout > 0 /\ timeout \in Timeouts /\ timer > 0 /\ timer + waited = timeout
    BY <1>2, <1>3, <2>2, <2>3 DEF Timed
  <2>5. PICK max \in Nat : max = MaxWait /\ timeout < max
    BY <2>4, MaxWaitDef
  <2>6. waited + 1 <= max
    BY <2>4, <2>5
  <2>7. a.call[c].timer = timer - 1 /\ a.call[c].waited = waited + 1 /\ timer - 1 # 0
    BY <1>4, <2>3, <2>4, <2>5, <2>6
  <2>8. timer - 1 > 0 /\ (timer - 1) + (waited + 1) = timeout
    BY <2>4, <2>7
  <2>9. a.call[c].timeout = timeout
    BY <2>3
  <2> QED
    BY <1>2, <2>4, <2>7, <2>8, <2>9
<1> QED
  BY <1>5, <1>6

\* A client that gave a timeout is never kept waiting up to it or longer, when both clocks have
\* the same epoch and a wake-up always succeeds (the hypotheses of NobodyWaits): serverCron
\* compares the two clocks, and a woken client that blocks again starts its timeout again.
THEOREM TimeoutsHonoured ==
  ASSUME PushSizes \subseteq {1}, "SELECT" \notin Ops, "RENAME" \notin Ops, ClockSkew = 0
  PROVE  Spec => []TimeoutHonoured
<1>1. Init => Served /\ Timed(srv)
  <2> SUFFICES ASSUME Init PROVE Served /\ Timed(srv)
    OBVIOUS
  <2>1. \A c \in Clients : srv.call[c] = NoCall
    BY DEF Init, InitSrv
  <2>2. Timed(srv)
    BY <2>1 DEF Timed, NoCall
  <2> QED
    BY <2>2, InitServed
<1>2. Served /\ Timed(srv) /\ [Next]_vars => (Served /\ Timed(srv))'
  <2> SUFFICES ASSUME Served, Timed(srv), [Next]_vars PROVE Served' /\ Timed(srv')
    OBVIOUS
  <2>1. Served' /\ (Renewed(srv, srv') \/ Cron)
    BY NextServed
  <2> QED
    BY <2>1, RenewedTimed, CronTimed DEF Served
<1>3. Served /\ Timed(srv) => TimeoutHonoured
  <2> SUFFICES ASSUME Served, Timed(srv), NEW c \in Clients, srv.call[c].timeout > 0
               PROVE  srv.call[c].waited < srv.call[c].timeout
    BY DEF TimeoutHonoured
  <2>1. srv.call[c] \in CallType
    BY CallKeys DEF Served, Core
  <2>2. PICK timeout \in Nat, timer \in Nat, waited \in Nat :
           timeout = srv.call[c].timeout /\ timer = srv.call[c].timer /\ waited = srv.call[c].waited
    BY <2>1 DEF CallType
  <2>3. timer > 0 /\ timer + waited = timeout
    BY <2>2 DEF Timed
  <2> QED
    BY <2>2, <2>3
<1> QED
  BY <1>1, <1>2, <1>3, PTL DEF Spec

-----------------------------------------------------------------------------
(* Where an element is, before and after a pop or a push.                  *)

\* The lists of all databases.
Lists == [Dbs -> [Keys -> Seq(Elems)]]

\* Element e is at place i of the list k of database d.
At(L, d, k, i, e) == i \in 1 .. Len(L[d][k]) /\ L[d][k][i] = e

\* Element e is in some list.
HeldIn(L, e) == \E d \in Dbs, k \in Keys, i \in Nat : At(L, d, k, i, e)

\* The elements in the lists are among the first n.
Known(L, n) ==
  \A d \in Dbs, k \in Keys, i \in Nat, e \in Elems : At(L, d, k, i, e) => e <= n

\* No element has two places.
Unique(L) ==
  \A d1, d2 \in Dbs, k1, k2 \in Keys, i1, i2 \in Nat, e \in Elems :
    At(L, d1, k1, i1, e) /\ At(L, d2, k2, i2, e) => d1 = d2 /\ k1 = k2 /\ i1 = i2

\* An element that was pushed was handed out once unless it is in a list.
Counted(L, H, n) ==
  \A e \in Elems : H[e] = IF e <= n /\ ~HeldIn(L, e) THEN 1 ELSE 0

\* Every pushed element is in one list or was handed out, once.
Once(L, H, n) == Known(L, n) /\ Unique(L) /\ Counted(L, H, n)

\* The list rest is q, of length z, without the element t at place p, the others o places further on in q.
Shifted(q, z, rest, t, o, p) ==
  /\ q[p] = t
  /\ \A i \in 1 .. z - 1 : i + o \in 1 .. z /\ i + o # p /\ rest[i] = q[i + o]
  /\ \A h \in 1 .. z : h # p => h - o \in 1 .. z - 1

\* What is left of a list, place by place.
LEMMA RestPlaces ==
  ASSUME NEW q \in Seq(Elems), q # <<>>, NEW left \in Sides
  PROVE  \E o \in Nat, p \in 1 .. Len(q) : Shifted(q, Len(q), Rest(q, left), Taken(q, left), o, p)
<1>0. Len(q) \in Nat \ {0}
  BY EndsDef
<1>1. CASE left
  <2>1. Taken(q, left) = q[1] /\ \A i \in 1 .. Len(q) - 1 : Rest(q, left)[i] = q[i + 1]
    BY <1>1, EndsDef
  <2>2. PICK o \in Nat, p \in 1 .. Len(q) : o = 1 /\ p = 1
    BY <1>0
  <2>3. Shifted(q, Len(q), Rest(q, left), Taken(q, left), o, p)
    BY <1>0, <2>1, <2>2 DEF Shifted
  <2> QED
    BY <2>3
<1>2. CASE ~left
  <2>1. Taken(q, left) = q[Len(q)] /\ \A i \in 1 .. Len(q) - 1 : Rest(q, left)[i] = q[i]
    BY <1>2, EndsDef
  <2>2. PICK o \in Nat, p \in 1 .. Len(q) : o = 0 /\ p = Len(q)
    BY <1>0
  <2>3. Shifted(q, Len(q), Rest(q, left), Taken(q, left), o, p)
    BY <1>0, <2>1, <2>2 DEF Shifted
  <2> QED
    BY <2>3
<1> QED
  BY <1>1, <1>2 DEF Sides

\* All other lists are as they were.
Elsewhere(L, M, d, k) == \A e \in Dbs, j \in Keys : (e # d \/ j # k) => M[e][j] = L[e][j]

\* One more delivery of t.
OneMore(H, G, t) == G[t] = H[t] + 1 /\ \A x \in Elems : x # t => G[x] = H[x]

\* What becomes of the places when element t leaves place p of list k of database d.
LEMMA ShiftOnce ==
  ASSUME NEW L, NEW H, NEW n \in Nat, Once(L, H, n), NEW d \in Dbs, NEW k \in Keys,
         NEW q, q = L[d][k], NEW z \in Nat, z = Len(q),
         NEW rest, Len(rest) = z - 1, NEW t \in Elems, NEW o \in Nat, NEW p \in 1 .. z,
         Shifted(q, z, rest, t, o, p),
         NEW M, M[d][k] = rest, Elsewhere(L, M, d, k), NEW G, OneMore(H, G, t)
  PROVE  Once(M, G, n)
<1>1. q[p] = t /\ p \in Nat
  BY DEF Shifted
<1>2. \A i \in 1 .. z - 1 : i + o \in 1 .. z /\ i + o # p /\ rest[i] = q[i + o]
  BY DEF Shifted
<1>3. \A h \in 1 .. z : h # p => h - o \in 1 .. z - 1
  BY DEF Shifted
<1>4. \A i, x : At(L, d, k, i, x) <=> i \in 1 .. z /\ q[i] = x
  BY DEF At
<1>5. \A i, x : At(M, d, k, i, x) <=> i \in 1 .. z - 1 /\ rest[i] = x
  BY DEF At
<1>6. \A e \in Dbs, j \in Keys : (e # d \/ j # k) => \A i, x : At(M, e, j, i, x) <=> At(L, e, j, i, x)
  BY DEF At, Elsewhere
<1>13. At(L, d, k, p, t)
  BY <1>1, <1>4
<1>14. t <= n
  BY <1>1, <1>13 DEF Once, Known
<1> DEFINE S(e, j, i) == IF e = d /\ j = k THEN i + o ELSE i
<1>7. ASSUME NEW e \in Dbs, NEW j \in Keys, NEW i \in Nat, NEW x \in Elems, At(M, e, j, i, x)
      PROVE  At(L, e, j, S(e, j, i), x) /\ S(e, j, i) \in Nat /\ x # t
  <2>1. At(L, e, j, S(e, j, i), x) /\ S(e, j, i) \in Nat
    <3>1. CASE e = d /\ j = k
      <4>1. i \in 1 .. z - 1 /\ rest[i] = x
        BY <1>5, <1>7, <3>1
      <4>2. i + o \in 1 .. z /\ q[i + o] = x /\ i + o \in Nat
        BY <1>2, <4>1
      <4> QED
        BY <1>4, <3>1, <4>2
    <3>2. CASE e # d \/ j # k
      BY <1>6, <1>7, <3>2
    <3> QED
      BY <3>1, <3>2
  <2>2. ASSUME x = t PROVE FALSE
    <3>1. e = d /\ j = k /\ S(e, j, i) = p
      <4> HIDE DEF S
      <4> QED
        BY <1>1, <1>13, <2>1, <2>2 DEF Once, Unique
    <3>2. i \in 1 .. z - 1
      BY <1>5, <1>7, <3>1
    <3> QED
      BY <1>2, <3>1, <3>2
  <2> QED
    BY <2>1, <2>2
<1>8. ASSUME NEW e \in Dbs, NEW j \in Keys, NEW h \in Nat, NEW x \in Elems, At(L, e, j, h, x), x # t
      PROVE  HeldIn(M, x)
  <2>1. CASE e = d /\ j = k
    <3>1. h \in 1 .. z /\ q[h] = x /\ h # p
      BY <1>1, <1>4, <1>8, <2>1
    <3>2. PICK i \in 1 .. z - 1 : i = h - o
      BY <1>3, <3>1
    <3>3. i + o = h /\ i \in Nat
      BY <3>2
    <3>4. rest[i] = x
      BY <1>2, <3>1, <3>3
    <3>5. At(M, d, k, i, x)
      BY <1>5, <3>4
    <3> QED
      BY <3>3, <3>5 DEF HeldIn
  <2>2. CASE e # d \/ j # k
    <3>1. At(M, e, j, h, x)
      BY <1>6, <1>8, <2>2
    <3> QED
      BY <3>1 DEF HeldIn
  <2> QED
    BY <2>1, <2>2
<1>9. \A x \in Elems : HeldIn(M, x) <=> HeldIn(L, x) /\ x # t
  <2> HIDE DEF S
  <2> QED
    BY <1>7, <1>8 DEF HeldIn
<1>10. Known(M, n)
  <2> HIDE DEF S
  <2> QED
    BY <1>7 DEF Known, Once
<1>11. Unique(M)
  <2> SUFFICES ASSUME NEW d1 \in Dbs, NEW d2 \in Dbs, NEW k1 \in Keys, NEW k2 \in Keys,
                      NEW i1 \in Nat, NEW i2 \in Nat, NEW e \in Elems,
                      At(M, d1, k1, i1, e), At(M, d2, k2, i2, e)
               PROVE  d1 = d2 /\ k1 = k2 /\ i1 = i2
    BY DEF Unique
  <2>1. d1 = d2 /\ k1 = k2 /\ S(d1, k1, i1) = S(d2, k2, i2)
    <3>1. At(L, d1, k1, S(d1, k1, i1), e) /\ S(d1, k1, i1) \in Nat
      BY <1>7
    <3>2. At(L, d2, k2, S(d2, k2, i2), e) /\ S(d2, k2, i2) \in Nat
      BY <1>7
    <3> HIDE DEF S
    <3> QED
      BY <3>1, <3>2 DEF Once, Unique
  <2> QED
    BY <2>1
<1>12. Counted(M, G, n)
  <2> SUFFICES ASSUME NEW x \in Elems
               PROVE  G[x] = IF x <= n /\ ~HeldIn(M, x) THEN 1 ELSE 0
    BY DEF Counted
  <2>2. H[x] = IF x <= n /\ ~HeldIn(L, x) THEN 1 ELSE 0
    BY DEF Once, Counted
  <2>3. CASE x = t
    <3>1. HeldIn(L, t)
      BY <1>1, <1>13 DEF HeldIn
    <3>2. H[t] = 0
      BY <2>2, <2>3, <3>1
    <3>3. ~HeldIn(M, t)
      BY <1>9
    <3> QED
      BY <1>14, <2>3, <3>2, <3>3 DEF OneMore
  <2>4. CASE x # t
    <3>1. G[x] = H[x] /\ (HeldIn(M, x) <=> HeldIn(L, x))
      BY <1>9, <2>4 DEF OneMore
    <3> QED
      BY <2>2, <3>1
  <2> QED
    BY <2>3, <2>4
<1> QED
  BY <1>10, <1>11, <1>12 DEF Once

\* A pop takes an element from its place and counts it.
LEMMA PopOnce ==
  ASSUME NEW s \in SrvType, NEW n \in Nat, Once(s.lists, s.handed, n),
         NEW c \in Clients, NEW d \in Dbs, NEW k \in Keys, NEW left \in Sides, s.lists[d][k] # <<>>,
         NEW r, r = pop(s, c, d, k, left)
  PROVE  Once(r.lists, r.handed, n)
<1>0. Popped(s, r, c, d, k, left)
  BY PopDef
<1>1. PICK q \in Seq(Elems) : q = s.lists[d][k]
  BY DEF SrvType
<1>2. PICK rest \in Seq(Elems) : rest = Rest(q, left) /\ Len(rest) = Len(q) - 1 /\ Len(q) \in Nat
  BY <1>1, EndsDef
<1>3. PICK t \in Elems : t = Taken(q, left)
  BY <1>1, EndsDef
<1>4. PICK z \in Nat : z = Len(q)
  BY <1>2
<1>5. PICK o \in Nat, p \in 1 .. z : Shifted(q, z, rest, t, o, p)
  BY <1>1, <1>2, <1>3, <1>4, RestPlaces
<1>6. r.lists = [s.lists EXCEPT ![d][k] = rest] /\ r.handed = [s.handed EXCEPT ![t] = s.handed[t] + 1]
  BY <1>0, <1>1, <1>2, <1>3 DEF Popped
<1>7. s.lists \in [Dbs -> [Keys -> Seq(Elems)]] /\ s.handed \in [Elems -> Nat]
  BY DEF SrvType
<1>8. r.lists[d][k] = rest /\ Elsewhere(s.lists, r.lists, d, k)
  BY <1>6, <1>7 DEF Elsewhere
<1>9. OneMore(s.handed, r.handed, t)
  BY <1>6, <1>7 DEF OneMore
<1>10. Len(rest) = z - 1
  BY <1>2, <1>4
<1> QED
  BY <1>1, <1>4, <1>5, <1>8, <1>9, <1>10, ShiftOnce

\* The places of m new elements, the last one first, and then those of q, of length z.
Prefixed(q, z, long, n, m) ==
  \A i \in 1 .. m + z : long[i] = IF i <= m THEN n + ((m - i) + 1) ELSE q[i - m]

\* The values of a push are the elements after n, and how a push to the left places them.
Numbered(vals, n, m) == Len(vals) = m /\ \A i \in 1 .. m : vals[i] = n + i
InFront(vals, q) == Reverse(vals) \o q

\* A list after an LPUSH, place by place: the new values in front, the old ones m further on.
LEMMA LongerPlaces ==
  ASSUME NEW q \in Seq(Elems), NEW n \in Nat, NEW m \in Nat,
         NEW vals \in Seq(Elems), Numbered(vals, n, m)
  PROVE  /\ Len(InFront(vals, q)) = m + Len(q)
         /\ Prefixed(q, Len(q), InFront(vals, q), n, m)
<1>0. PICK z \in Nat : z = Len(q)
  OBVIOUS
<1>1. PICK w : w = [i \in 1 .. m |-> vals[(m - i) + 1]]
  OBVIOUS
<1>2. \A i \in 1 .. m : (m - i) + 1 \in 1 .. m
  OBVIOUS
<1>11. Len(vals) = m /\ \A i \in 1 .. m : vals[i] = n + i
  BY DEF Numbered
<1>3. \A i \in 1 .. m : vals[(m - i) + 1] = n + ((m - i) + 1) /\ vals[(m - i) + 1] \in Elems
  BY <1>2, <1>11
<1>4. w \in Seq(Elems) /\ Len(w) = m
  BY <1>1, <1>3
<1>5. \A i \in 1 .. m : w[i] = n + ((m - i) + 1)
  BY <1>1, <1>3
<1>6. InFront(vals, q) = w \o q
  BY <1>1, <1>11 DEF Reverse, InFront
<1>7. /\ Len(w \o q) = Len(w) + Len(q)
      /\ \A i \in 1 .. Len(w) + Len(q) : (w \o q)[i] = IF i <= Len(w) THEN w[i] ELSE q[i - Len(w)]
  BY <1>4, ConcatProperties
<1>8. PICK long : long = w \o q
  OBVIOUS
<1>9. Len(long) = m + z /\ \A i \in 1 .. m + z : long[i] = IF i <= m THEN w[i] ELSE q[i - m]
  BY <1>0, <1>4, <1>7, <1>8
<1>10. Prefixed(q, z, long, n, m)
  <2> SUFFICES ASSUME NEW i \in 1 .. m + z
               PROVE  long[i] = IF i <= m THEN n + ((m - i) + 1) ELSE q[i - m]
    BY DEF Prefixed
  <2>1. CASE i <= m
    BY <1>5, <1>9, <2>1
  <2>2. CASE ~(i <= m)
    BY <1>9, <2>2
  <2> QED
    BY <2>1, <2>2
<1> QED
  BY <1>0, <1>6, <1>8, <1>9, <1>10

\* What becomes of the places when m new elements come before those of list k of database d.
LEMMA PrefixOnce ==
  ASSUME NEW L, NEW H, NEW n \in Nat, Once(L, H, n), NEW m \in Nat,
         NEW d \in Dbs, NEW k \in Keys, NEW q, q = L[d][k], NEW z \in Nat, z = Len(q),
         NEW long, Len(long) = m + z, Prefixed(q, z, long, n, m),
         NEW M, M[d][k] = long, Elsewhere(L, M, d, k)
  PROVE  Once(M, H, n + m)
<1>1. \A i, x : At(L, d, k, i, x) <=> i \in 1 .. z /\ q[i] = x
  BY DEF At
<1>2. \A i, x : At(M, d, k, i, x) <=> i \in 1 .. m + z /\ long[i] = x
  BY DEF At
<1>3. \A e \in Dbs, j \in Keys : (e # d \/ j # k) => \A i, x : At(M, e, j, i, x) <=> At(L, e, j, i, x)
  BY DEF At, Elsewhere
<1>4. \A i \in 1 .. m + z : long[i] = IF i <= m THEN n + ((m - i) + 1) ELSE q[i - m]
  BY DEF Prefixed
<1>6. ASSUME NEW e \in Dbs, NEW j \in Keys, NEW i \in Nat, NEW x \in Elems, At(M, e, j, i, x)
      PROVE  \/ e = d /\ j = k /\ i \in 1 .. m /\ x = n + ((m - i) + 1)
             \/ e = d /\ j = k /\ i - m \in Nat /\ At(L, e, j, i - m, x)
             \/ (e # d \/ j # k) /\ At(L, e, j, i, x)
  <2>1. CASE e = d /\ j = k
    <3>1. i \in 1 .. m + z /\ long[i] = x
      BY <1>2, <1>6, <2>1
    <3>2. CASE i <= m
      <4>1. i \in 1 .. m /\ x = n + ((m - i) + 1)
        BY <1>4, <3>1, <3>2
      <4> QED
        BY <2>1, <4>1
    <3>3. CASE ~(i <= m)
      <4>1. PICK h \in Nat : h = i - m /\ h \in 1 .. z /\ q[h] = x
        BY <1>4, <3>1, <3>3
      <4>2. At(L, e, j, h, x)
        BY <1>1, <2>1, <4>1
      <4> QED
        BY <2>1, <4>1, <4>2
    <3> QED
      BY <3>2, <3>3
  <2>2. CASE e # d \/ j # k
    BY <1>3, <1>6, <2>2
  <2> QED
    BY <2>1, <2>2
<1>7. ASSUME NEW e \in Dbs, NEW j \in Keys, NEW h \in Nat, NEW x \in Elems, At(L, e, j, h, x)
      PROVE  HeldIn(M, x)
  <2>1. CASE e = d /\ j = k
    <3>1. h \in 1 .. z /\ q[h] = x
      BY <1>1, <1>7, <2>1
    <3>2. PICK i \in 1 .. m + z : i = h + m
      BY <3>1
    <3>3. ~(i <= m) /\ i - m = h /\ i \in Nat
      BY <3>1, <3>2
    <3>4. long[i] = x
      BY <1>4, <3>1, <3>3
    <3>5. At(M, d, k, i, x)
      BY <1>2, <3>4
    <3> QED
      BY <3>3, <3>5 DEF HeldIn
  <2>2. CASE e # d \/ j # k
    <3>1. At(M, e, j, h, x)
      BY <1>3, <1>7, <2>2
    <3> QED
      BY <3>1 DEF HeldIn
  <2> QED
    BY <2>1, <2>2
<1>8. ASSUME NEW x \in Elems, n < x, x <= n + m PROVE HeldIn(M, x)
  <2>1. PICK y \in Nat : y = x
    BY DEF Elems
  <2>2. PICK i \in 1 .. m : i = ((n + m) - y) + 1
    BY <1>8, <2>1
  <2>3. n + ((m - i) + 1) = y /\ i \in 1 .. m + z /\ i <= m /\ i \in Nat
    BY <2>2
  <2>4. long[i] = x
    BY <1>4, <2>1, <2>3
  <2>5. At(M, d, k, i, x)
    BY <1>2, <2>3, <2>4
  <2> QED
    BY <2>3, <2>5 DEF HeldIn
<1>9. \A x \in Elems : x \in Nat
  BY DEF Elems
<1>10. Known(M, n + m)
  <2> SUFFICES ASSUME NEW e \in Dbs, NEW j \in Keys, NEW i \in Nat, NEW x \in Elems, At(M, e, j, i, x)
               PROVE  x <= n + m
    BY DEF Known
  <2>1. (x = n + ((m - i) + 1) /\ i \in 1 .. m) \/ x <= n
    BY <1>6 DEF Once, Known
  <2> QED
    BY <1>9, <2>1
<1>11. Unique(M)
  <2> SUFFICES ASSUME NEW d1 \in Dbs, NEW d2 \in Dbs, NEW k1 \in Keys, NEW k2 \in Keys,
                      NEW i1 \in Nat, NEW i2 \in Nat, NEW e \in Elems,
                      At(M, d1, k1, i1, e), At(M, d2, k2, i2, e)
               PROVE  d1 = d2 /\ k1 = k2 /\ i1 = i2
    BY DEF Unique
  <2> DEFINE New(dd, kk, i) == dd = d /\ kk = k /\ i \in 1 .. m /\ e = n + ((m - i) + 1)
             Old(dd, kk, i) == dd = d /\ kk = k /\ i - m \in Nat /\ At(L, dd, kk, i - m, e)
             Far(dd, kk, i) == (dd # d \/ kk # k) /\ At(L, dd, kk, i, e)
  <2>1. New(d1, k1, i1) \/ Old(d1, k1, i1) \/ Far(d1, k1, i1)
    BY <1>6
  <2>2. New(d2, k2, i2) \/ Old(d2, k2, i2) \/ Far(d2, k2, i2)
    BY <1>6
  <2>3. \A dd \in Dbs, kk \in Keys, i \in Nat : Old(dd, kk, i) \/ Far(dd, kk, i) => e <= n
    BY DEF Once, Known
  <2>4. \A dd, kk, i : New(dd, kk, i) => e > n
    BY <1>9
  <2>5. ~(e <= n /\ e > n)
    BY <1>9
  <2>6. CASE New(d1, k1, i1) /\ New(d2, k2, i2)
    BY <2>6
  <2>7. CASE Old(d1, k1, i1) /\ Old(d2, k2, i2)
    <3>1. i1 - m = i2 - m
      BY <2>7 DEF Once, Unique
    <3> QED
      BY <2>7, <3>1
  <2>8. CASE Far(d1, k1, i1) /\ Far(d2, k2, i2)
    BY <2>8 DEF Once, Unique
  <2>9. ~(Old(d1, k1, i1) /\ Far(d2, k2, i2)) /\ ~(Far(d1, k1, i1) /\ Old(d2, k2, i2))
    BY DEF Once, Unique
  <2> HIDE DEF New, Old, Far
  <2> QED
    BY <2>1, <2>2, <2>3, <2>4, <2>5, <2>6, <2>7, <2>8, <2>9
<1>12. Counted(M, H, n + m)
  <2> SUFFICES ASSUME NEW x \in Elems
               PROVE  H[x] = IF x <= n + m /\ ~HeldIn(M, x) THEN 1 ELSE 0
    BY DEF Counted
  <2>1. H[x] = IF x <= n /\ ~HeldIn(L, x) THEN 1 ELSE 0
    BY DEF Once, Counted
  <2>2. HeldIn(L, x) => HeldIn(M, x)
    BY <1>7 DEF HeldIn
  <2>3. HeldIn(M, x) /\ x <= n => HeldIn(L, x)
    <3> SUFFICES ASSUME HeldIn(M, x), x <= n PROVE HeldIn(L, x)
      OBVIOUS
    <3>1. PICK e \in Dbs, j \in Keys, i \in Nat : At(M, e, j, i, x)
      BY DEF HeldIn
    <3>2. ~(i \in 1 .. m /\ x = n + ((m - i) + 1))
      BY <1>9
    <3>3. (i - m \in Nat /\ At(L, e, j, i - m, x)) \/ At(L, e, j, i, x)
      BY <1>6, <3>1, <3>2
    <3> QED
      BY <3>3 DEF HeldIn
  <2>4. CASE x <= n
    <3>1. x <= n + m
      BY <1>9, <2>4
    <3> QED
      BY <2>1, <2>2, <2>3, <2>4, <3>1
  <2>5. CASE ~(x <= n)
    <3>1. x <= n + m => HeldIn(M, x)
      <4>1. n < x
        BY <1>9, <2>5
      <4> QED
        BY <1>8, <4>1
    <3> QED
      BY <2>1, <2>5, <3>1
  <2> QED
    BY <2>4, <2>5
<1> QED
  BY <1>10, <1>11, <1>12 DEF Once

-----------------------------------------------------------------------------
(* No element is lost or handed out twice.                                 *)

\* Every element is once in the server.
OnceIn(s, n) == Once(s.lists, s.handed, n)

\* BLPOP and BRPOP keep every element once.
LEMMA BpopOnce ==
  ASSUME NEW s \in SrvType, NEW n \in Nat, OnceIn(s, n), NEW c \in Clients, NEW d \in Dbs,
         NEW keys \in Seq(Keys), NEW left \in Sides, NEW timeout \in Nat, NEW waited \in Nat,
         NEW r, r = bpopGeneric(s, c, d, keys, left, timeout, waited)
  PROVE  OnceIn(r, n)
<1>1. r = blockClient(s, c, keys, left, timeout, waited) \/ PopsOne(s, r, c, d, keys, left)
  BY BpopDef
<1>2. CASE r = blockClient(s, c, keys, left, timeout, waited)
  <2>1. Queued(s, r, c, NewCall(keys, left, timeout, waited))
    BY <1>2, BlockDef
  <2>2. r.lists = s.lists /\ r.handed = s.handed
    BY <2>1 DEF Queued
  <2> QED
    BY <2>2 DEF OnceIn
<1>3. CASE PopsOne(s, r, c, d, keys, left)
  <2>1. PICK i \in DOMAIN keys : s.lists[d][keys[i]] # <<>> /\ r = pop(s, c, d, keys[i], left)
    BY <1>3 DEF PopsOne
  <2>2. PICK k \in Keys : k = keys[i]
    OBVIOUS
  <2> QED
    BY <2>1, <2>2, PopOnce DEF OnceIn
<1> QED
  BY <1>1, <1>2, <1>3

\* Waking the first client of a queue keeps every element once.
LEMMA HandleOnce ==
  ASSUME NEW s, NEW conn, Sane(s, conn), NEW n \in Nat, OnceIn(s, n), NEW k \in Keys,
         selectedDb \in [Clients -> Dbs], NEW r, r = handleClientsBlockedOnKey(s, k)
  PROVE  OnceIn(r, n)
<1>1. CASE s.waiting[k] = <<>>
  BY <1>1 DEF handleClientsBlockedOnKey
<1>2. CASE s.waiting[k] # <<>>
  <2>1. PICK c \in Clients : /\ c \in conn /\ s.call[c] \in CallType /\ s.call[c].keys # <<>>
                             /\ Wakes(s, r, c)
    BY <1>2, WakeDef
  <2>2. PICK a, b : /\ a = unblockClient(s, c)
                    /\ b = bpopGeneric(a, c, selectedDb[c], s.call[c].keys, s.call[c].left,
                                       s.call[c].timeout, s.call[c].waited)
                    /\ r = Armed(b, {c})
    BY <2>1 DEF Wakes
  <2>3. Sane(a, conn) /\ a \in SrvType /\ a.call[c] = NoCall
    BY <2>2, UnblockSane DEF Sane
  <2>4. PICK keys \in Seq(Keys), left \in Sides, timeout \in Nat, waited \in Nat :
           keys = s.call[c].keys /\ left = s.call[c].left
           /\ timeout = s.call[c].timeout /\ waited = s.call[c].waited
    BY <2>1 DEF CallType
  <2>5. PICK d \in Dbs : d = selectedDb[c]
    OBVIOUS
  <2>6. b = bpopGeneric(a, c, d, keys, left, timeout, waited) /\ keys # <<>>
    BY <2>1, <2>2, <2>4, <2>5
  <2>7. Unqueued(s, a, c)
    BY <2>2, UnblockDef
  <2>8. OnceIn(a, n)
    BY <2>7 DEF Unqueued, OnceIn
  <2>9. OnceIn(b, n) /\ Sane(b, conn)
    BY <2>1, <2>3, <2>6, <2>8, BpopOnce, BpopSane
  <2>10. {c} \subseteq conn /\ {c} \subseteq Clients /\ r = Armed(b, {c})
    BY <2>1, <2>2
  <2>11. r.lists = b.lists /\ r.handed = b.handed
    BY <2>9, <2>10, ArmSane
  <2> QED
    BY <2>9, <2>11 DEF OnceIn
<1> QED
  BY <1>1, <1>2

\* The inductive invariant of the elements.
Delivered == Core /\ OnceIn(srv, pushed)

\* A push to the left brings new elements.
LEMMA LPushOnce ==
  ASSUME Delivered, NEW c \in Clients, NEW k \in Keys, NEW n \in PushSizes, LPush(c, k, n)
  PROVE  OnceIn(srv', pushed')
<1>1. c \in connected /\ selectedDb[c] \in Dbs /\ Core /\ Sane(srv, connected) /\ srv \in SrvType
  BY Runs DEF LPush, Delivered, Core, Sane
<1>2. PICK left \in Sides : left = TRUE
  BY DEF Sides
<1>3. PICK vals \in Seq(Elems) : /\ vals = Fresh(n) /\ Len(vals) = n
                                 /\ \A i \in 1 .. n : vals[i] = pushed + i
  BY <1>1, FreshDef DEF LPush
<1>4. PICK d \in Dbs : d = selectedDb[c]
  BY <1>1
<1>5. PICK r : r = pushGeneric(srv, c, d, k, vals, left)
  OBVIOUS
<1>6. srv' = afterRead(r, c) /\ pushed' = pushed + n
  BY <1>2, <1>3, <1>4, <1>5 DEF LPush
<1>7. PICK t : /\ Sane(t, connected)
               /\ Stocked(srv, t, c, d, k, vals, left)
               /\ r = handleClientsBlockedOnKey(t, k)
  BY <1>1, <1>5, PushDef
<1>8. n \in Nat /\ pushed \in Nat /\ pushed + n \in Nat /\ selectedDb \in [Clients -> Dbs]
  BY <1>1, PushAssumption DEF Core
<1>9. OnceIn(t, pushed + n)
  <2>1. PICK q \in Seq(Elems) : q = srv.lists[d][k]
    BY <1>1 DEF SrvType
  <2>2. PICK z \in Nat : z = Len(q)
    OBVIOUS
  <2>3. PICK long \in Seq(Elems) : long = Longer(q, vals, left)
    BY LongerDef
  <2>4. Len(long) = n + z /\ Prefixed(q, z, long, pushed, n)
    <3>1. long = InFront(vals, q)
      BY <1>2, <2>3 DEF Longer, InFront
    <3>2. PICK old \in Nat, m \in Nat : old = pushed /\ m = n
      BY <1>8
    <3>3. Numbered(vals, old, m)
      BY <1>3, <3>2 DEF Numbered
    <3>4. /\ Len(InFront(vals, q)) = m + Len(q)
          /\ Prefixed(q, Len(q), InFront(vals, q), old, m)
      BY <3>3, LongerPlaces
    <3> QED
      BY <2>2, <3>1, <3>2, <3>4
  <2>5. t.lists = [srv.lists EXCEPT ![d][k] = long] /\ t.handed = srv.handed
    BY <1>7, <2>1, <2>3 DEF Stocked
  <2>6. srv.lists \in [Dbs -> [Keys -> Seq(Elems)]]
    BY <1>1 DEF SrvType
  <2>7. t.lists[d][k] = long /\ Elsewhere(srv.lists, t.lists, d, k)
    BY <2>5, <2>6 DEF Elsewhere
  <2>8. Once(srv.lists, srv.handed, pushed)
    BY DEF Delivered, OnceIn
  <2>9. Once(t.lists, srv.handed, pushed + n)
    BY <1>8, <2>1, <2>2, <2>4, <2>7, <2>8, PrefixOnce
  <2> QED
    BY <2>5, <2>9 DEF OnceIn
<1>10. OnceIn(r, pushed + n) /\ Sane(r, connected)
  BY <1>7, <1>8, <1>9, HandleOnce, HandleSane
<1>11. srv'.lists = r.lists /\ srv'.handed = r.handed
  BY <1>6, <1>10, AfterReadDef
<1> QED
  BY <1>6, <1>10, <1>11 DEF OnceIn

\* LPOP and RPOP hand out the element they remove.
LEMMA PopActionOnce ==
  ASSUME Delivered, NEW c \in Clients, NEW k \in Keys, NEW left \in Sides, Pop(c, k, left)
  PROVE  OnceIn(srv', pushed')
<1>1. /\ c \in connected /\ selectedDb[c] \in Dbs /\ Sane(srv, connected) /\ srv \in SrvType
      /\ pushed \in Nat
  BY Runs DEF Pop, Delivered, Core, Sane
<1>2. PICK d \in Dbs : d = selectedDb[c]
  BY <1>1
<1>3. PICK r : r = IF srv.lists[d][k] = <<>> THEN addReply(srv, c) ELSE pop(srv, c, d, k, left)
  OBVIOUS
<1>4. srv' = afterRead(r, c) /\ pushed' = pushed
  BY <1>2, <1>3 DEF Pop
<1>5. Sane(r, connected) /\ OnceIn(r, pushed)
  <2>1. CASE srv.lists[d][k] = <<>>
    <3>1. r.lists = srv.lists /\ r.handed = srv.handed
      BY <1>1, <1>3, <2>1, AddReplyDef
    <3>2. Sane(r, connected)
      BY <1>1, <1>3, <2>1, AddReplySane
    <3> QED
      BY <3>1, <3>2 DEF Delivered, OnceIn
  <2>2. CASE srv.lists[d][k] # <<>>
    <3>1. r = pop(srv, c, d, k, left)
      BY <1>3, <2>2
    <3>2. Sane(r, connected)
      BY <1>1, <2>2, <3>1, PopSane
    <3>3. Once(srv.lists, srv.handed, pushed)
      BY DEF Delivered, OnceIn
    <3>4. Once(r.lists, r.handed, pushed)
      BY <1>1, <2>2, <3>1, <3>3, PopOnce
    <3> QED
      BY <3>2, <3>4 DEF OnceIn
  <2> QED
    BY <2>1, <2>2
<1>6. srv'.lists = r.lists /\ srv'.handed = r.handed
  BY <1>4, <1>5, AfterReadDef
<1> QED
  BY <1>4, <1>5, <1>6 DEF OnceIn

\* BLPOP and BRPOP hand out the element they remove, or block and move nothing.
LEMMA BPopActionOnce ==
  ASSUME Delivered, NEW c \in Clients, NEW keys \in KeyLists, NEW left \in Sides,
         NEW timeout \in Timeouts, BPop(c, keys, left, timeout)
  PROVE  OnceIn(srv', pushed')
<1>1. /\ c \in connected /\ selectedDb[c] \in Dbs /\ Sane(srv, connected) /\ srv \in SrvType
      /\ pushed \in Nat /\ srv.call[c] = NoCall
  BY Runs DEF BPop, Delivered, Core, Sane
<1>2. keys \in Seq(Keys) /\ keys # <<>> /\ timeout \in Nat /\ 0 \in Nat
  BY KeyListsAssumption, TimeoutsAssumption
<1>3. PICK d \in Dbs : d = selectedDb[c]
  BY <1>1
<1>4. PICK r : r = bpopGeneric(srv, c, d, keys, left, timeout, 0)
  OBVIOUS
<1>5. srv' = afterRead(r, c) /\ pushed' = pushed
  BY <1>3, <1>4 DEF BPop
<1>6. Sane(r, connected)
  BY <1>1, <1>2, <1>4, BpopSane
<1>7. OnceIn(r, pushed)
  BY <1>1, <1>2, <1>4, BpopOnce DEF Delivered
<1>8. srv'.lists = r.lists /\ srv'.handed = r.handed
  BY <1>5, <1>6, AfterReadDef
<1> QED
  BY <1>5, <1>7, <1>8 DEF OnceIn

\* The steps that touch no element.
LEMMA OthersOnce ==
  ASSUME Delivered, NEW c \in Clients,
         \/ \E d \in Dbs : Select(c, d)
         \/ ReadBlocked(c) \/ Writable(c) \/ CloseClient(c) \/ Connect(c)
  PROVE  OnceIn(srv', pushed')
<1>0. Sane(srv, connected) /\ srv \in SrvType /\ OnceIn(srv, pushed) /\ Core
  BY DEF Delivered, Core, Sane
<1>1. ASSUME NEW d \in Dbs, Select(c, d) PROVE srv'.lists = srv.lists /\ srv'.handed = srv.handed
  <2>1. PICK r : r = addReply(srv, c)
    OBVIOUS
  <2>2. c \in connected
    BY <1>0, <1>1, Runs DEF Select
  <2>3. Sane(r, connected) /\ r.lists = srv.lists /\ r.handed = srv.handed
    BY <1>0, <2>1, <2>2, AddReplySane, AddReplyDef
  <2>4. srv' = afterRead(r, c)
    BY <1>1, <2>1 DEF Select
  <2> QED
    BY <2>3, <2>4, AfterReadDef
<1>2. ASSUME ReadBlocked(c) PROVE srv'.lists = srv.lists /\ srv'.handed = srv.handed
  BY <1>0, <1>2, AfterReadDef DEF ReadBlocked
<1>3. ASSUME Writable(c) PROVE srv'.lists = srv.lists /\ srv'.handed = srv.handed
  <2>1. srv' = Sent(srv, c)
    BY <1>3 DEF Writable, Sent
  <2> QED
    BY <1>0, <2>1, SentSane
<1>4. ASSUME CloseClient(c) PROVE srv'.lists = srv.lists /\ srv'.handed = srv.handed
  <2>1. PICK s : s = unblockClient(srv, c)
    OBVIOUS
  <2>2. srv' = Sent(s, c)
    BY <1>4, <2>1 DEF CloseClient, Sent
  <2>3. Sane(s, connected) /\ Unqueued(srv, s, c)
    BY <1>0, <2>1, UnblockSane, UnblockDef
  <2>4. s.lists = srv.lists /\ s.handed = srv.handed
    BY <2>3 DEF Unqueued
  <2> QED
    BY <2>2, <2>3, <2>4, SentSane
<1>5. ASSUME Connect(c) PROVE srv'.lists = srv.lists /\ srv'.handed = srv.handed
  BY <1>5 DEF Connect
<1>6. srv'.lists = srv.lists /\ srv'.handed = srv.handed
  BY <1>1, <1>2, <1>3, <1>4, <1>5
<1>7. pushed' = pushed
  BY DEF Select, ReadBlocked, Writable, CloseClient, Connect
<1> QED
  BY <1>0, <1>6, <1>7 DEF OnceIn

\* Every step of a server without RPUSH and RENAME keeps Delivered.
LEMMA NextDelivered ==
  ASSUME "RPUSH" \notin Ops, "RENAME" \notin Ops, Delivered, [Next]_vars
  PROVE  Delivered'
<1>0. Core'
  BY NextCore DEF Delivered
<1>1. CASE UNCHANGED vars
  BY <1>0, <1>1 DEF Delivered, OnceIn, vars
<1>2. ASSUME NEW c \in Clients, NEW k \in Keys, NEW n \in PushSizes, LPush(c, k, n) \/ RPush(c, k, n)
      PROVE  OnceIn(srv', pushed')
  <2>1. ~RPush(c, k, n)
    BY DEF RPush, CanRun
  <2> QED
    BY <1>2, <2>1, LPushOnce
<1>3. ASSUME NEW c \in Clients, NEW k \in Keys, NEW left \in BOOLEAN, Pop(c, k, left)
      PROVE  OnceIn(srv', pushed')
  <2>1. left \in Sides
    BY DEF Sides
  <2> QED
    BY <1>3, <2>1, PopActionOnce
<1>4. ASSUME NEW c \in Clients, NEW keys \in KeyLists, NEW left \in BOOLEAN,
             NEW timeout \in Timeouts, BPop(c, keys, left, timeout)
      PROVE  OnceIn(srv', pushed')
  <2>1. left \in Sides
    BY DEF Sides
  <2> QED
    BY <1>4, <2>1, BPopActionOnce
<1>5. ASSUME NEW c \in Clients, \E k, new \in Keys : Rename(c, k, new)
      PROVE  FALSE
  BY <1>5 DEF Rename, CanRun
<1>6. ASSUME NEW c \in Clients,
             \/ \E d \in Dbs : Select(c, d)
             \/ ReadBlocked(c) \/ Writable(c) \/ CloseClient(c) \/ Connect(c)
      PROVE  OnceIn(srv', pushed')
  BY <1>6, OthersOnce
<1>7. CASE Cron
  <2>1. PICK a : Aged(srv, a) /\ TimedOut(a, srv', Due(a)) /\ UNCHANGED pushed
    BY <1>7, CronDef DEF Delivered
  <2>2. srv'.lists = srv.lists /\ srv'.handed = srv.handed
    BY <2>1 DEF Aged, TimedOut
  <2> QED
    BY <1>0, <2>1, <2>2 DEF Delivered, OnceIn
<1>8. OnceIn(srv', pushed')
  BY <1>1, <1>2, <1>3, <1>4, <1>5, <1>6, <1>7 DEF Next, Delivered
<1> QED
  BY <1>0, <1>8 DEF Delivered

\* No element is stored or handed out when the server starts.
LEMMA InitDelivered ==
  ASSUME Init
  PROVE  Delivered
<1>1. Core /\ pushed = 0
  BY InitCore DEF Init
<1>2. /\ \A d \in Dbs, k \in Keys : srv.lists[d][k] = <<>>
      /\ \A e \in Elems : srv.handed[e] = 0
  BY DEF Init, InitSrv
<1>3. \A d \in Dbs, k \in Keys, i \in Nat : \A e : ~At(srv.lists, d, k, i, e)
  <2>1. Len(<<>>) = 0 /\ \A i \in Nat : i \notin 1 .. 0
    OBVIOUS
  <2> QED
    BY <1>2, <2>1 DEF At
<1>4. \A e \in Elems : ~(e <= 0)
  BY DEF Elems
<1>5. Once(srv.lists, srv.handed, 0)
  BY <1>2, <1>3, <1>4 DEF Once, Known, Unique, Counted
<1> QED
  BY <1>1, <1>5 DEF Delivered, OnceIn

\* One place or none.
LEMMA StoredOnce ==
  ASSUME Delivered, NEW e \in 1 .. pushed
  PROVE  Stored(e) + srv.handed[e] = 1
<1>0. /\ Once(srv.lists, srv.handed, pushed) /\ e \in Elems /\ e <= pushed
      /\ srv.lists \in [Dbs -> [Keys -> Seq(Elems)]]
  BY PushAssumption DEF Delivered, OnceIn, Elems, Core, Sane, SrvType
<1> DEFINE at(d, k) == {i \in DOMAIN srv.lists[d][k] : srv.lists[d][k][i] = e}
           In(d, k) == {<<d, k, i>> : i \in at(d, k)}
           places == UNION {In(d, k) : d \in Dbs, k \in Keys}
<1>1. Stored(e) = Cardinality(places)
  BY DEF Stored
<1>2. ASSUME NEW d \in Dbs, NEW k \in Keys, NEW i
      PROVE  i \in at(d, k) <=> i \in Nat /\ At(srv.lists, d, k, i, e)
  <2>1. PICK q \in Seq(Elems) : q = srv.lists[d][k]
    BY <1>0
  <2> QED
    BY <2>1 DEF At
<1> HIDE DEF at
<1>3. \A x : x \in places <=> \E d \in Dbs, k \in Keys : \E i \in at(d, k) : x = <<d, k, i>>
  <2>1. \A d, k, x : x \in In(d, k) <=> \E i \in at(d, k) : x = <<d, k, i>>
    OBVIOUS
  <2> HIDE DEF In
  <2>2. \A x : x \in places <=> \E d \in Dbs, k \in Keys : x \in In(d, k)
    OBVIOUS
  <2> HIDE DEF places
  <2> QED
    BY <2>1, <2>2
<1>4. srv.handed[e] = IF ~HeldIn(srv.lists, e) THEN 1 ELSE 0
  BY <1>0 DEF Once, Counted
<1> HIDE DEF places, In
<1>5. CASE HeldIn(srv.lists, e)
  <2>1. PICK d \in Dbs, k \in Keys, i \in Nat : At(srv.lists, d, k, i, e)
    BY <1>5 DEF HeldIn
  <2>2. <<d, k, i>> \in places
    BY <1>2, <1>3, <2>1
  <2>3. ASSUME NEW x \in places PROVE x = <<d, k, i>>
    <3>1. PICK d2 \in Dbs, k2 \in Keys : \E i2 \in at(d2, k2) : x = <<d2, k2, i2>>
      BY <1>3, <2>3
    <3>2. PICK i2 \in at(d2, k2) : x = <<d2, k2, i2>>
      BY <3>1
    <3>3. i2 \in Nat /\ At(srv.lists, d2, k2, i2, e)
      BY <1>2
    <3>4. d2 = d /\ k2 = k /\ i2 = i
      BY <1>0, <2>1, <3>3 DEF Once, Unique
    <3> QED
      BY <3>2, <3>4
  <2>4. places = {<<d, k, i>>}
    BY <2>2, <2>3
  <2>5. Cardinality(places) = 1
    BY <2>4, FS_Singleton
  <2> QED
    BY <1>1, <1>4, <1>5, <2>5
<1>6. CASE ~HeldIn(srv.lists, e)
  <2>1. places = {}
    <3> SUFFICES ASSUME NEW x \in places PROVE FALSE
      OBVIOUS
    <3>1. PICK d \in Dbs, k \in Keys : \E i \in at(d, k) : x = <<d, k, i>>
      BY <1>3
    <3> QED
      BY <1>2, <1>6, <3>1 DEF HeldIn
  <2>2. Cardinality(places) = 0
    BY <2>1, FS_EmptySet
  <2> QED
    BY <1>1, <1>4, <1>6, <2>2
<1> QED
  BY <1>5, <1>6

\* Every element that was pushed is in one list or was handed to one client, never both, never
\* twice, for any interleaving of LPUSH with values of any number, pops, blocking pops,
\* wake-ups, timeouts and disconnections.  RPUSH is left out because rpushCommand pushes its
\* values twice, RENAME because it overwrites the list that has the new name.
THEOREM ElementsOnce ==
  ASSUME "RPUSH" \notin Ops, "RENAME" \notin Ops
  PROVE  Spec => []EveryElementOnce
<1>1. Init => Delivered
  BY InitDelivered
<1>2. Delivered /\ [Next]_vars => Delivered'
  BY NextDelivered
<1>3. Delivered => EveryElementOnce
  BY StoredOnce DEF EveryElementOnce
<1> QED
  BY <1>1, <1>2, <1>3, PTL DEF Spec
=============================================================================
