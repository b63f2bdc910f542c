------------------------- MODULE ConnectionsProofs -------------------------
(***************************************************************************)
(* Theorems about the event loop and its clients: replies go to the        *)
(* connection that asked, in order, and the loop watches exactly the       *)
(* descriptors of clients, for any number of connections, descriptors and  *)
(* requests.                                                               *)
(***************************************************************************)
EXTENDS Connections, SequenceTheorems, WellFoundedInduction, TLAPS

-----------------------------------------------------------------------------
(* The inductive invariant.                                                *)

\* What the peers and the master send, replies, sockets, clients and masks.
Letters  == Requests \cup Answers
Pairs    == Conns \X Nat
Sockets  == [status : {"new", "waiting", "open", "refused", "closed"}, arrived : Seq(Letters),
             full : BOOLEAN, hungUp : BOOLEAN, asked : Nat, got : Seq(Pairs)]
Records  == [conn : Conns, out : Seq(Pairs), closeAsap : BOOLEAN]
Marks    == SUBSET {"R", "W"}

\* The first n replies to connection c.
Reply(c, i) == <<c, i>>
FirstReplies(c, n) == [i \in 1 .. n |-> Reply(c, i)]

\* The replies to a client's requests, sent or pending.
Replied(k, s) == s.got \o k.out = FirstReplies(k.conn, s.asked)

\* The types.
Types ==
  /\ conn \in [Conns -> Sockets]
  /\ client \in [Fds -> {None} \cup Records]
  /\ waiting \in Seq(Conns)

\* A connection has one client at most, an open one.
OneClient ==
  /\ \A f, g \in Clients : client[f].conn = client[g].conn => f = g
  /\ \A f \in Clients : conn[client[f].conn].status = "open"

\* The backlog of the listener holds connections that wait, each once.
BacklogOK ==
  /\ \A i, j \in DOMAIN waiting : waiting[i] = waiting[j] => i = j
  /\ \A i \in DOMAIN waiting : conn[waiting[i]].status = "waiting"

\* A connection that was not accepted was not answered.
NotAnswered ==
  \A c \in Conns : conn[c].status \in {"new", "waiting"} => conn[c].asked = 0 /\ conn[c].got = <<>>

\* Every client has its replies.
AllReplied == \A f \in Clients : Replied(client[f], conn[client[f].conn])

\* What the handlers rely on.
Core == Types /\ OneClient /\ BacklogOK /\ NotAnswered /\ AllReplied

\* The list of fired events, and the event whose handlers are under way.
Fired    == [fd : Fds \cup {Listener}, mask : Marks]
Underways == [fd : Fds \cup {Listener}, mask : Marks, stage : {"accept", "combined", "write"}]
LoopTypes ==
  /\ events \in [Fds \cup {Listener} -> Marks]
  /\ fired \subseteq Fired
  /\ current = Quiet \/ current \in Underways
  /\ current # Quiet /\ current.stage # "accept" => current.fd \in Fds

\* The inductive invariant.
IInv == Core /\ LoopTypes

-----------------------------------------------------------------------------
(* Sequences of replies.                                                   *)

\* The least of some numbers is one of them.
LEMMA LeastElement ==
  ASSUME NEW T \in SUBSET Nat, T # {}
  PROVE  Min(T) \in T /\ \A y \in T : Min(T) <= y
<1>1. PICK x \in T : \A y \in T : ~ (<<y, x>> \in OpToRel(<, Nat))
  BY NatLessThanWellFounded, WFMin
<1>2. \A y \in T : ~ (y < x)
  BY <1>1 DEF OpToRel
<1>3. \A y \in T : x <= y
  BY <1>2
<1> QED
  BY <1>3 DEF Min

\* A function on 1 .. n is a sequence.
LEMMA FunSeq ==
  ASSUME NEW S, NEW n \in Nat, NEW f \in [1 .. n -> S]
  PROVE  f \in Seq(S) /\ Len(f) = n
OBVIOUS

\* Two sequences that are the beginning and the end of a third are it, one behind the other.
LEMMA Glue ==
  ASSUME NEW S, NEW f \in Seq(S), NEW r \in Seq(S), NEW F \in Seq(S), Len(F) = Len(f) + Len(r),
         \A i \in 1 .. Len(f) : f[i] = F[i], \A i \in 1 .. Len(r) : r[i] = F[Len(f) + i]
  PROVE  f \o r = F
<1> DEFINE a == Len(f)
           n == Len(r)
           g == f \o r
<1>1. /\ g \in Seq(S) /\ Len(g) = a + n /\ a \in Nat /\ n \in Nat
      /\ \A i \in 1 .. a + n : g[i] = IF i <= a THEN f[i] ELSE r[i - a]
  BY ConcatProperties
<1> HIDE DEF g
<1>2. ASSUME NEW i \in 1 .. a + n PROVE g[i] = F[i]
  <2>1. CASE i <= a
    <3>1. i \in 1 .. a
      BY <1>1, <2>1
    <3> QED
      BY <1>1, <2>1, <3>1
  <2>2. CASE ~(i <= a)
    <3>1. i - a \in 1 .. n /\ a + (i - a) = i
      BY <1>1, <2>2
    <3>2. r[i - a] = F[a + (i - a)]
      BY <3>1
    <3> QED
      BY <1>1, <2>2, <3>1, <3>2
  <2> QED
    BY <2>1, <2>2
<1>3. g = F
  BY <1>1, <1>2, SeqEqual
<1> QED
  BY <1>3 DEF g

\* The first replies to a connection, one by one.
LEMMA FirstRepliesIs ==
  ASSUME NEW c \in Conns, NEW a \in Nat
  PROVE  /\ FirstReplies(c, a) \in Seq(Pairs) /\ Len(FirstReplies(c, a)) = a
         /\ \A i \in 1 .. a : FirstReplies(c, a)[i] = Reply(c, i)
<1>1. \A i \in 1 .. a : Reply(c, i) \in Pairs
  BY DEF Pairs, Reply
<1>2. FirstReplies(c, a) \in [1 .. a -> Pairs] /\ \A i \in 1 .. a : FirstReplies(c, a)[i] = Reply(c, i)
  BY <1>1 DEF FirstReplies
<1> QED
  BY <1>2, FunSeq

\* The next n replies to connection c after the first a.
NextReplies(c, a, n) == [i \in 1 .. n |-> Reply(c, a + i)]

\* The next replies to a connection, one by one.
LEMMA NextRepliesIs ==
  ASSUME NEW c \in Conns, NEW a \in Nat, NEW n \in Nat
  PROVE  /\ NextReplies(c, a, n) \in Seq(Pairs) /\ Len(NextReplies(c, a, n)) = n
         /\ \A i \in 1 .. n : NextReplies(c, a, n)[i] = Reply(c, a + i)
<1>1. \A i \in 1 .. n : Reply(c, a + i) \in Pairs
  BY DEF Pairs, Reply
<1>2. NextReplies(c, a, n) \in [1 .. n -> Pairs]
      /\ \A i \in 1 .. n : NextReplies(c, a, n)[i] = Reply(c, a + i)
  BY <1>1 DEF NextReplies
<1> QED
  BY <1>2, FunSeq

\* The next replies come after the first ones.
LEMMA RepliesFollow ==
  ASSUME NEW c \in Conns, NEW a \in Nat, NEW n \in Nat
  PROVE  FirstReplies(c, a) \o NextReplies(c, a, n) = FirstReplies(c, a + n)
<1> DEFINE f == FirstReplies(c, a)
           r == NextReplies(c, a, n)
           F == FirstReplies(c, a + n)
<1>1. f \in Seq(Pairs) /\ Len(f) = a /\ \A i \in 1 .. a : f[i] = Reply(c, i)
  BY FirstRepliesIs
<1>2. r \in Seq(Pairs) /\ Len(r) = n /\ \A i \in 1 .. n : r[i] = Reply(c, a + i)
  BY NextRepliesIs
<1>3. F \in Seq(Pairs) /\ Len(F) = a + n /\ \A i \in 1 .. a + n : F[i] = Reply(c, i)
  <2>1. a + n \in Nat
    OBVIOUS
  <2> QED
    BY <2>1, FirstRepliesIs
<1> HIDE DEF f, r, F
<1>4. \A i \in 1 .. Len(f) : f[i] = F[i]
  BY <1>1, <1>3
<1>5. \A i \in 1 .. Len(r) : r[i] = F[Len(f) + i]
  <2>1. \A i \in 1 .. n : a + i \in 1 .. a + n
    OBVIOUS
  <2> QED
    BY <1>1, <1>2, <1>3, <2>1
<1>6. Len(F) = Len(f) + Len(r)
  BY <1>1, <1>2, <1>3
<1>7. f \o r = F
  BY <1>1, <1>2, <1>3, <1>4, <1>5, <1>6, Glue
<1> QED
  BY <1>7 DEF f, r, F

\* New replies at the end of the output keep the order.
LEMMA MoreReplies ==
  ASSUME NEW c \in Conns, NEW a \in Nat, NEW n \in Nat, NEW s \in Seq(Pairs), NEW t \in Seq(Pairs)
  PROVE  /\ t \o NextReplies(c, a, n) \in Seq(Pairs)
         /\ s \o t = FirstReplies(c, a) => s \o (t \o NextReplies(c, a, n)) = FirstReplies(c, a + n)
<1> DEFINE r == NextReplies(c, a, n)
<1>1. r \in Seq(Pairs)
  BY NextRepliesIs
<1>2. s \o t = FirstReplies(c, a) => (s \o t) \o r = FirstReplies(c, a + n)
  BY RepliesFollow
<1> HIDE DEF r
<1>3. (s \o t) \o r = s \o (t \o r)
  BY <1>1, ConcatAssociative
<1>4. t \o r \in Seq(Pairs)
  BY <1>1, ConcatProperties
<1> QED
  BY <1>2, <1>3, <1>4 DEF r

\* A sequence that is cut in two.
LEMMA Cut ==
  ASSUME NEW S, NEW t \in Seq(S), NEW n \in 1 .. Len(t) - 1
  PROVE  /\ SubSeq(t, 1, n) \in Seq(S) /\ SubSeq(t, n + 1, Len(t)) \in Seq(S)
         /\ SubSeq(t, 1, n) \o SubSeq(t, n + 1, Len(t)) = t
<1> DEFINE m == Len(t)
           a == SubSeq(t, 1, n)
           v == SubSeq(t, n + 1, m)
<1>1. m \in Nat /\ n \in Nat /\ n + 1 \in Int /\ 1 \in Int /\ 1 <= n /\ n + 1 <= m
      /\ \A i \in 1 .. m : t[i] \in S
  OBVIOUS
<1> HIDE DEF m
<1>2. a \in Seq(S) /\ Len(a) = n /\ \A i \in 1 .. n : a[i] = t[i]
  <2>1. /\ a \in Seq(S) /\ Len(a) = (IF 1 <= n THEN n - 1 + 1 ELSE 0)
        /\ \A i \in 1 .. n - 1 + 1 : a[i] = t[1 + i - 1]
    BY <1>1, SubSeqProperties
  <2>2. n - 1 + 1 = n /\ \A i \in 1 .. n : 1 + i - 1 = i
    BY <1>1
  <2> QED
    BY <1>1, <2>1, <2>2
<1>3. v \in Seq(S) /\ Len(v) = m - n /\ \A i \in 1 .. m - n : v[i] = t[n + i]
  <2>1. /\ v \in Seq(S) /\ Len(v) = (IF n + 1 <= m THEN m - (n + 1) + 1 ELSE 0)
        /\ \A i \in 1 .. m - (n + 1) + 1 : v[i] = t[n + 1 + i - 1]
    BY <1>1, SubSeqProperties
  <2>2. m - (n + 1) + 1 = m - n /\ \A i \in 1 .. m - n : n + 1 + i - 1 = n + i
    BY <1>1
  <2> QED
    BY <1>1, <2>1, <2>2
<1> HIDE DEF a, v
<1>4. Len(t) = Len(a) + Len(v)
  BY <1>1, <1>2, <1>3 DEF m
<1>5. \A i \in 1 .. Len(a) : a[i] = t[i]
  BY <1>2
<1>6. \A i \in 1 .. Len(v) : v[i] = t[Len(a) + i]
  BY <1>2, <1>3
<1>7. a \o v = t
  BY <1>2, <1>3, <1>4, <1>5, <1>6, Glue
<1> QED
  BY <1>2, <1>3, <1>7 DEF a, v, m

\* What is written leaves the output at its beginning.
LEMMA WrittenPart ==
  ASSUME NEW s \in Seq(Pairs), NEW t \in Seq(Pairs), NEW n \in 1 .. Len(t) - 1
  PROVE  /\ s \o SubSeq(t, 1, n) \in Seq(Pairs) /\ SubSeq(t, n + 1, Len(t)) \in Seq(Pairs)
         /\ (s \o SubSeq(t, 1, n)) \o SubSeq(t, n + 1, Len(t)) = s \o t
<1> DEFINE a == SubSeq(t, 1, n)
           v == SubSeq(t, n + 1, Len(t))
<1>1. a \in Seq(Pairs) /\ v \in Seq(Pairs)
  BY Cut
<1>4. a \o v = t
  BY Cut
<1> HIDE DEF a, v
<1>2. (s \o a) \o v = s \o (a \o v)
  BY <1>1, ConcatAssociative
<1>3. s \o a \in Seq(Pairs)
  BY <1>1, ConcatProperties
<1> QED
  BY <1>1, <1>2, <1>3, <1>4 DEF a, v

-----------------------------------------------------------------------------
(* Clients and their connections.                                          *)

\* A client is not None.
LEMMA RecordIs ==
  ASSUME NEW k \in Records
  PROVE  k # None /\ k.conn \in Conns /\ k.out \in Seq(Pairs) /\ k.closeAsap \in BOOLEAN
BY ConnsAssumption DEF Records, None, Conns

\* The parts of a client.
LEMMA ClientIs ==
  ASSUME Types, NEW f \in Fds, client[f] # None
  PROVE  /\ client[f] \in Records /\ client[f].conn \in Conns /\ client[f].out \in Seq(Pairs)
         /\ client[f].closeAsap \in BOOLEAN /\ f \in Clients
<1>1. client[f] \in Records
  BY DEF Types
<1> QED
  BY <1>1, RecordIs DEF Clients

\* A fresh socket.
LEMMA SocketIs ==
  ASSUME NEW x \in {"new", "waiting", "open", "refused", "closed"}
  PROVE  /\ Socket(x) \in Sockets /\ Socket(x).status = x /\ Socket(x).asked = 0
         /\ Socket(x).got = <<>> /\ Socket(x).arrived = <<>>
BY DEF Socket, Sockets

\* The parts of a socket.
LEMMA SocketParts ==
  ASSUME NEW s \in Sockets
  PROVE  /\ s.arrived \in Seq(Letters) /\ s.full \in BOOLEAN /\ s.hungUp \in BOOLEAN
         /\ s.asked \in Nat /\ s.got \in Seq(Pairs)
BY DEF Sockets

\* A socket whose requests were read and answered by n replies.
Answered(s, n) == [s EXCEPT !.arrived = <<>>, !.asked = @ + n]

\* What reading and answering changes of a socket.
LEMMA AnsweredSocket ==
  ASSUME NEW s \in Sockets, NEW n \in Nat, NEW t, t = Answered(s, n)
  PROVE  t \in Sockets /\ t.status = s.status /\ t.got = s.got /\ t.asked = s.asked + n
<1>1. s.asked + n \in Nat /\ <<>> \in Seq(Letters)
  BY SocketParts
<1>2. PICK a \in Nat, e \in Seq(Letters) : a = s.asked + n /\ e = <<>>
  BY <1>1
<1>3. t = [s EXCEPT !.arrived = e, !.asked = a]
  BY <1>2 DEF Answered
<1> QED
  BY <1>2, <1>3 DEF Sockets

\* What a handler may do to connections and clients.
LEMMA CoreStep ==
  ASSUME Core, Types', waiting' = waiting,
         \A f \in Fds : client'[f] # None =>
           /\ client[f] # None /\ client'[f].conn = client[f].conn
           /\ conn'[client[f].conn].status = "open"
           /\ Replied(client'[f], conn'[client[f].conn]),
         \A c \in Conns : conn[c].status = "waiting" => conn'[c].status = "waiting",
         \A c \in Conns : conn'[c].status \in {"new", "waiting"} =>
           conn'[c].asked = 0 /\ conn'[c].got = <<>>
  PROVE  Core'
<1>1. \A f \in Clients' : f \in Clients /\ client'[f].conn = client[f].conn
  BY DEF Clients
<1>2. OneClient'
  BY <1>1 DEF Core, OneClient, Clients
<1>3. \A i \in DOMAIN waiting : waiting[i] \in Conns
  BY DEF Core, Types
<1>4. BacklogOK'
  BY <1>3 DEF Core, BacklogOK
<1>5. NotAnswered'
  BY DEF NotAnswered
<1>6. AllReplied'
  BY <1>1 DEF AllReplied, Clients
<1> QED
  BY <1>2, <1>4, <1>5, <1>6 DEF Core

\* Clients that go, with their sockets.
Gone(S) ==
  /\ client' = [fd \in Fds |-> IF fd \in S THEN None ELSE client[fd]]
  /\ conn' = [c \in Conns |-> IF \E fd \in S : client[fd].conn = c THEN Socket("closed") ELSE conn[c]]

\* removeClient, for some clients.
LEMMA RemoveInv ==
  ASSUME Core, NEW S \in SUBSET Clients, Gone(S), waiting' = waiting
  PROVE  Core'
<1>1. /\ client' = [fd \in Fds |-> IF fd \in S THEN None ELSE client[fd]]
      /\ conn' = [c \in Conns |-> IF \E fd \in S : client[fd].conn = c THEN Socket("closed") ELSE conn[c]]
  BY DEF Gone
<1>2. Types
  BY DEF Core
<1>3. Socket("closed") \in Sockets /\ Socket("closed").status = "closed"
  BY SocketIs
<1>4. Types'
  BY <1>1, <1>2, <1>3 DEF Types
<1>5. ASSUME NEW f \in Fds, client'[f] # None
      PROVE  /\ client[f] # None /\ client'[f].conn = client[f].conn
             /\ conn'[client[f].conn].status = "open"
             /\ Replied(client'[f], conn'[client[f].conn])
  <2>1. f \notin S /\ client'[f] = client[f] /\ f \in Clients
    BY <1>1, <1>5 DEF Clients
  <2>2. client[f].conn \in Conns
    BY <1>2, <1>5, <2>1, ClientIs
  <2>3. ~ \E g \in S : client[g].conn = client[f].conn
    BY <2>1 DEF Core, OneClient
  <2>4. conn'[client[f].conn] = conn[client[f].conn]
    BY <1>1, <2>2, <2>3
  <2> QED
    BY <1>5, <2>1, <2>4 DEF Core, OneClient, AllReplied
<1>6. ASSUME NEW c \in Conns, conn[c].status = "waiting" PROVE conn'[c].status = "waiting"
  <2>1. ~ \E g \in S : client[g].conn = c
    BY <1>6 DEF Core, OneClient
  <2> QED
    BY <1>1, <1>6, <2>1
<1>7. ASSUME NEW c \in Conns, conn'[c].status \in {"new", "waiting"}
      PROVE  conn'[c].asked = 0 /\ conn'[c].got = <<>>
  <2>1. conn'[c] = conn[c]
    BY <1>1, <1>3, <1>7
  <2> QED
    BY <1>7, <2>1 DEF Core, NotAnswered
<1> QED
  BY <1>4, <1>5, <1>6, <1>7, CoreStep

\* What is executed of what has arrived.
LEMMA ExecutedIs ==
  ASSUME NEW k, NEW input \in Seq(Letters)
  PROVE  Executed(k, input) \in Seq(Letters) /\ Len(Executed(k, input)) \in Nat
<1> DEFINE stops == {i \in DOMAIN input : k.closeAsap \/ input[i] = "QUIT"}
<1>1. stops \subseteq 1 .. Len(input)
  OBVIOUS
<1>2. Executed(k, input) = IF stops = {} THEN input ELSE SubSeq(input, 1, Min(stops))
  BY DEF Executed
<1> HIDE DEF stops
<1>3. CASE stops = {}
  BY <1>2, <1>3
<1>4. CASE stops # {}
  <2>0. stops \in SUBSET Nat
    BY <1>1
  <2>1. Min(stops) \in 1 .. Len(input)
    BY <1>1, <1>4, <2>0, LeastElement
  <2>2. PICK n \in 1 .. Len(input) : n = Min(stops)
    BY <2>1
  <2>3. SubSeq(input, 1, n) \in Seq(Letters)
    OBVIOUS
  <2> QED
    BY <1>2, <1>4, <2>2, <2>3
<1> QED
  BY <1>3, <1>4

\* onReadable with data; REPLICAOF closes the client of the master as well.
LEMMA ReadDataInv ==
  ASSUME Core, NEW fd \in Fds, client[fd] # None, readData(fd), waiting' = waiting
  PROVE  Core'
<1> DEFINE done == Executed(client[fd], conn[client[fd].conn].arrived)
           quit == "QUIT" \in ToSet(done)
<1>0. PICK k, n, gone, out, asap :
        /\ k = client[fd] /\ n = Len(done)
        /\ gone = (IF "REPLICAOF" \in ToSet(done) THEN Master ELSE {})
        /\ out = k.out \o NextReplies(k.conn, conn[k.conn].asked, n)
        /\ asap = (k.closeAsap \/ quit)
  OBVIOUS
<1>1. /\ client' = [f \in Fds |->
           IF f = fd THEN [k EXCEPT !.out = out, !.closeAsap = asap]
           ELSE IF f \in gone THEN None ELSE client[f]]
      /\ conn' = [c \in Conns |->
           IF c = k.conn THEN [conn[c] EXCEPT !.arrived = <<>>, !.asked = @ + n]
           ELSE IF \E f \in gone : client[f].conn = c THEN Socket("closed") ELSE conn[c]]
  BY <1>0 DEF readData, Replies, NextReplies, Reply
<1>2. Types
  BY DEF Core
<1>3. k \in Records /\ k.conn \in Conns /\ k.out \in Seq(Pairs) /\ k.closeAsap \in BOOLEAN
  BY <1>0, <1>2, ClientIs
<1>4. PICK s \in Sockets : s = conn[k.conn]
  BY <1>2, <1>3 DEF Types
<1>5. n \in Nat /\ s.asked \in Nat /\ s.got \in Seq(Pairs)
  BY <1>0, <1>4, ExecutedIs, SocketParts
<1>6. s.got \o k.out = FirstReplies(k.conn, s.asked) /\ s.status = "open"
  BY <1>0, <1>4 DEF Core, AllReplied, Replied, OneClient, Clients
<1>7. out \in Seq(Pairs) /\ s.got \o out = FirstReplies(k.conn, s.asked + n)
  <2>1. PICK c, o, g, a : c = k.conn /\ o = k.out /\ g = s.got /\ a = s.asked
    OBVIOUS
  <2>2. out = o \o NextReplies(c, a, n)
    BY <1>0, <1>4, <2>1
  <2>3. c \in Conns /\ o \in Seq(Pairs) /\ g \in Seq(Pairs) /\ a \in Nat /\ n \in Nat
    BY <1>3, <1>5, <2>1
  <2>4. g \o o = FirstReplies(c, a)
    BY <1>6, <2>1
  <2>5. o \o NextReplies(c, a, n) \in Seq(Pairs) /\ g \o (o \o NextReplies(c, a, n)) = FirstReplies(c, a + n)
    BY <2>3, <2>4, MoreReplies
  <2> QED
    BY <2>1, <2>2, <2>5
<1>8. asap \in BOOLEAN
  BY <1>0, <1>3
<1>9. gone \subseteq Clients
  BY <1>0 DEF Master
<1>10. PICK l \in Records : l = [k EXCEPT !.out = out, !.closeAsap = asap]
  BY <1>3, <1>7, <1>8 DEF Records
<1>11. l.conn = k.conn /\ l.out = out
  BY <1>3, <1>10 DEF Records
<1>12. PICK t : t = Answered(s, n)
  OBVIOUS
<1>13. t \in Sockets /\ t.status = "open" /\ t.got = s.got /\ t.asked = s.asked + n
  <2>1. n \in Nat
    BY <1>5
  <2>2. t \in Sockets /\ t.status = s.status /\ t.got = s.got /\ t.asked = s.asked + n
    BY <1>12, <2>1, AnsweredSocket
  <2> QED
    BY <1>6, <2>2
<1>14. Socket("closed") \in Sockets /\ Socket("closed").status = "closed"
  BY SocketIs
<1>15. /\ client' = [f \in Fds |-> IF f = fd THEN l ELSE IF f \in gone THEN None ELSE client[f]]
       /\ conn' = [c \in Conns |->
            IF c = k.conn THEN t
            ELSE IF \E f \in gone : client[f].conn = c THEN Socket("closed") ELSE conn[c]]
  BY <1>1, <1>4, <1>10, <1>12 DEF Answered
<1>16. Types'
  BY <1>2, <1>13, <1>14, <1>15 DEF Types
<1>17. ASSUME NEW f \in Fds, client'[f] # None
       PROVE  /\ client[f] # None /\ client'[f].conn = client[f].conn
              /\ conn'[client[f].conn].status = "open"
              /\ Replied(client'[f], conn'[client[f].conn])
  <2>1. CASE f = fd
    <3>1. client'[f] = l /\ conn'[client[f].conn] = t /\ client[f] = k
      BY <1>0, <1>3, <1>15, <2>1
    <3> QED
      BY <1>7, <1>11, <1>13, <2>1, <3>1 DEF Replied
  <2>2. CASE f # fd
    <3>1. f \notin gone /\ client'[f] = client[f] /\ f \in Clients /\ fd \in Clients
      BY <1>15, <1>17, <2>2 DEF Clients
    <3>2. client[f].conn \in Conns
      BY <1>2, <3>1, ClientIs DEF Clients
    <3>3. client[f].conn # k.conn /\ ~ \E g \in gone : client[g].conn = client[f].conn
      BY <1>0, <1>9, <2>2, <3>1 DEF Core, OneClient
    <3>4. conn'[client[f].conn] = conn[client[f].conn]
      BY <1>15, <3>2, <3>3
    <3> QED
      BY <1>17, <3>1, <3>4 DEF Core, OneClient, AllReplied
  <2> QED
    BY <2>1, <2>2
<1>18. ASSUME NEW c \in Conns, conn[c].status = "waiting" PROVE conn'[c].status = "waiting"
  <2>1. c # k.conn /\ ~ \E g \in gone : client[g].conn = c
    BY <1>4, <1>6, <1>9, <1>18 DEF Core, OneClient
  <2> QED
    BY <1>15, <1>18, <2>1
<1>19. ASSUME NEW c \in Conns, conn'[c].status \in {"new", "waiting"}
       PROVE  conn'[c].asked = 0 /\ conn'[c].got = <<>>
  <2>1. conn'[c] = conn[c]
    BY <1>13, <1>14, <1>15, <1>19
  <2> QED
    BY <1>19, <2>1 DEF Core, NotAnswered
<1> QED
  BY <1>16, <1>17, <1>18, <1>19, CoreStep

-----------------------------------------------------------------------------
(* Handlers.                                                               *)

\* A function with one value replaced.
Assign(f, x, y) == [f EXCEPT ![x] = y]

\* One client and its socket change, and the replies stay in order.
LEMMA OneWritten ==
  ASSUME Core, NEW fd \in Fds, client[fd] # None, NEW c, c = client[fd].conn,
         NEW l \in Records, l.conn = c, NEW t \in Sockets, t.status = "open", Replied(l, t),
         client' = Assign(client, fd, l), conn' = Assign(conn, c, t), waiting' = waiting
  PROVE  Core'
<1>1. Types /\ c \in Conns /\ fd \in Clients
  BY ClientIs DEF Core
<1>2. /\ conn' \in [Conns -> Sockets] /\ conn'[c] = t
      /\ \A d \in Conns : d # c => conn'[d] = conn[d]
  BY <1>1 DEF Types, Assign
<1>3. /\ client' \in [Fds -> {None} \cup Records] /\ client'[fd] = l
      /\ \A f \in Fds : f # fd => client'[f] = client[f]
  BY <1>1 DEF Types, Assign
<1>4. Types'
  BY <1>1, <1>2, <1>3 DEF Types
<1>5. ASSUME NEW f \in Fds, client'[f] # None
      PROVE  /\ client[f] # None /\ client'[f].conn = client[f].conn
             /\ conn'[client[f].conn].status = "open"
             /\ Replied(client'[f], conn'[client[f].conn])
  <2>1. CASE f = fd
    BY <1>2, <1>3, <2>1
  <2>2. CASE f # fd
    <3>1. client'[f] = client[f] /\ f \in Clients
      BY <1>3, <1>5, <2>2 DEF Clients
    <3>2. client[f].conn \in Conns
      BY <1>1, <3>1, ClientIs DEF Clients
    <3>3. client[f].conn # c
      BY <1>1, <2>2, <3>1 DEF Core, OneClient
    <3>4. conn'[client[f].conn] = conn[client[f].conn]
      BY <1>2, <3>2, <3>3
    <3> QED
      BY <1>5, <3>1, <3>4 DEF Core, OneClient, AllReplied
  <2> QED
    BY <2>1, <2>2
<1>6. conn[c].status = "open"
  BY <1>1 DEF Core, OneClient
<1>7. ASSUME NEW d \in Conns, conn[d].status = "waiting" PROVE conn'[d].status = "waiting"
  BY <1>2, <1>6, <1>7
<1>8. ASSUME NEW d \in Conns, conn'[d].status \in {"new", "waiting"}
      PROVE  conn'[d].asked = 0 /\ conn'[d].got = <<>>
  <2>1. conn'[d] = conn[d]
    BY <1>2, <1>8
  <2> QED
    BY <1>8, <2>1 DEF Core, NotAnswered
<1> QED
  BY <1>4, <1>5, <1>7, <1>8, CoreStep

\* A socket that was sent replies, and a client whose output has become shorter.
Sent(s, g, b) == [s EXCEPT !.got = g, !.full = b]
Left(k, o) == [k EXCEPT !.out = o]

\* What sending changes of a socket.
LEMMA SentIs ==
  ASSUME NEW s \in Sockets, NEW g \in Seq(Pairs), NEW b \in BOOLEAN, NEW t, t = Sent(s, g, b)
  PROVE  t \in Sockets /\ t.status = s.status /\ t.got = g /\ t.asked = s.asked
BY DEF Sockets, Sent

\* What sending changes of a client.
LEMMA LeftIs ==
  ASSUME NEW k \in Records, NEW o \in Seq(Pairs), NEW l, l = Left(k, o)
  PROVE  l \in Records /\ l.conn = k.conn /\ l.out = o
BY DEF Records, Left

\* writeToSocket of a part.
LEMMA WriteInv ==
  ASSUME Core, NEW fd \in Fds, client[fd] # None, NEW n \in 1 .. Len(client[fd].out) - 1,
         writeToSocket(fd, n), waiting' = waiting
  PROVE  Core'
<1>1. Types
  BY DEF Core
<1>2. PICK k \in Records : k = client[fd] /\ k.conn \in Conns /\ k.out \in Seq(Pairs)
  BY <1>1, ClientIs
<1>3. PICK s \in Sockets : s = conn[k.conn] /\ s.got \in Seq(Pairs)
  BY <1>1, <1>2, SocketParts DEF Types
<1>4. s.got \o k.out = FirstReplies(k.conn, s.asked) /\ s.status = "open"
  BY <1>2, <1>3 DEF Core, AllReplied, Replied, OneClient, Clients
<1>5. PICK g, o, c : g = s.got /\ o = k.out /\ c = k.conn
  OBVIOUS
<1>6. g \in Seq(Pairs) /\ o \in Seq(Pairs) /\ n \in 1 .. Len(o) - 1 /\ c \in Conns
      /\ g \o o = FirstReplies(c, s.asked)
  BY <1>2, <1>3, <1>4, <1>5
<1>7. PICK u, v : u = g \o SubSeq(o, 1, n) /\ v = SubSeq(o, n + 1, Len(o))
  OBVIOUS
<1>8. u \in Seq(Pairs) /\ v \in Seq(Pairs) /\ u \o v = g \o o
  BY <1>6, <1>7, WrittenPart
<1>e. PICK b \in BOOLEAN : b = TRUE
  OBVIOUS
<1>9. PICK t, l : t = Sent(s, u, b) /\ l = Left(k, v)
  OBVIOUS
<1>10. t \in Sockets /\ t.status = "open" /\ t.got = u /\ t.asked = s.asked
  <2>1. t \in Sockets /\ t.status = s.status /\ t.got = u /\ t.asked = s.asked
    BY <1>8, <1>9, SentIs
  <2> QED
    BY <1>4, <2>1
<1>11. l \in Records /\ l.conn = c /\ l.out = v
  BY <1>5, <1>8, <1>9, LeftIs
<1>12. conn' = Assign(conn, c, t) /\ client' = Assign(client, fd, l)
  <2>1. conn' = [conn EXCEPT ![c] = [conn[c] EXCEPT !.got = @ \o SubSeq(o, 1, n), !.full = TRUE]]
    BY <1>1, <1>2, <1>5, <1>6 DEF writeToSocket, Types
  <2>2. client' = [client EXCEPT ![fd] = [client[fd] EXCEPT !.out = v]]
    BY <1>1, <1>2, <1>5, <1>7 DEF writeToSocket, Types
  <2> QED
    BY <1>2, <1>3, <1>5, <1>7, <1>e, <1>9, <2>1, <2>2 DEF Assign, Sent, Left
<1>13. Replied(l, t)
  BY <1>6, <1>8, <1>10, <1>11 DEF Replied
<1> QED
  BY <1>2, <1>5, <1>10, <1>11, <1>12, <1>13, OneWritten

\* The end of onWritable, which may close the client.
LEMMA WrittenAllInv ==
  ASSUME Core, NEW fd \in Fds, client[fd] # None, writtenAll(fd), waiting' = waiting
  PROVE  Core'
<1>1. Types /\ fd \in Clients
  BY ClientIs DEF Core
<1>2. CASE client[fd].closeAsap
  <2>1. Gone({fd}) /\ {fd} \in SUBSET Clients
    BY <1>1, <1>2 DEF writtenAll, removeClients, Gone
  <2> QED
    BY <2>1, RemoveInv
<1>3. CASE ~client[fd].closeAsap
  <2>2. PICK k \in Records : k = client[fd] /\ k.conn \in Conns /\ k.out \in Seq(Pairs)
    BY <1>1, ClientIs
  <2>3. PICK s \in Sockets : s = conn[k.conn] /\ s.got \in Seq(Pairs) /\ s.full \in BOOLEAN /\ s.asked \in Nat
    BY <1>1, <2>2, SocketParts DEF Types
  <2>4. s.got \o k.out = FirstReplies(k.conn, s.asked) /\ s.status = "open"
    BY <2>2, <2>3 DEF Core, AllReplied, Replied, OneClient, Clients
  <2>5. PICK u, v, c : u = s.got \o k.out /\ v = <<>> /\ c = k.conn
    OBVIOUS
  <2>6. u \in Seq(Pairs) /\ v \in Seq(Pairs) /\ c \in Conns
    BY <2>2, <2>3, <2>5
  <2>7. u \o v = u
    BY <2>5, <2>6, ConcatEmptySeq
  <2>e. PICK b \in BOOLEAN : b = s.full
    BY <2>3
  <2>9. PICK t, l : t = Sent(s, u, b) /\ l = Left(k, v)
    OBVIOUS
  <2>10. t \in Sockets /\ t.status = "open" /\ t.got = u /\ t.asked = s.asked
    <3>1. t \in Sockets /\ t.status = s.status /\ t.got = u /\ t.asked = s.asked
      BY <2>6, <2>9, SentIs
    <3> QED
      BY <2>4, <3>1
  <2>11. l \in Records /\ l.conn = c /\ l.out = v
    BY <2>5, <2>6, <2>9, LeftIs
  <2>12. conn' = Assign(conn, c, t) /\ client' = Assign(client, fd, l)
    <3>1. conn' = [conn EXCEPT ![c] = [conn[c] EXCEPT !.got = @ \o k.out]]
      BY <1>1, <1>3, <2>2, <2>5, <2>6 DEF writtenAll, Types
    <3>2. client' = [client EXCEPT ![fd] = [client[fd] EXCEPT !.out = v]]
      BY <1>1, <1>3, <2>5 DEF writtenAll, Types
    <3>3. [s EXCEPT !.got = u] = Sent(s, u, b)
      BY <2>e DEF Sockets, Sent
    <3> QED
      BY <2>2, <2>3, <2>5, <2>9, <3>1, <3>2, <3>3 DEF Assign, Left
  <2>13. Replied(l, t)
    BY <2>4, <2>5, <2>7, <2>10, <2>11 DEF Replied
  <2> QED
    BY <2>2, <2>5, <2>10, <2>11, <2>12, <2>13, OneWritten
<1> QED
  BY <1>2, <1>3

\* A step that leaves connections and clients alone.
LEMMA CoreKept ==
  ASSUME Core, conn' = conn, client' = client, waiting' = waiting
  PROVE  Core'
BY DEF Core, Types, OneClient, BacklogOK, NotAnswered, AllReplied, Clients

\* onReadable keeps the replies in order.
LEMMA OnReadableCore ==
  ASSUME Core, NEW fd \in Fds, onReadable(fd), waiting' = waiting
  PROVE  Core'
<1>1. CASE UNCHANGED handled
  BY <1>1, CoreKept DEF handled, server
<1>2. CASE client[fd] # None /\ readData(fd)
  BY <1>2, ReadDataInv
<1>3. CASE client[fd] # None /\ readUnexpected(fd)
  <2>1. Types /\ fd \in Clients /\ client[fd].conn \in Conns
    BY <1>3, ClientIs DEF Core
  <2>2. Gone({fd}) /\ {fd} \in SUBSET Clients
    BY <1>3, <2>1 DEF readUnexpected, Gone, Types
  <2> QED
    BY <2>2, RemoveInv
<1>4. CASE client[fd] # None /\ removeClients({fd})
  <2>2. Gone({fd}) /\ {fd} \in SUBSET Clients
    BY <1>4 DEF removeClients, Gone, Clients
  <2> QED
    BY <2>2, RemoveInv
<1> QED
  BY <1>1, <1>2, <1>3, <1>4 DEF onReadable

\* onWritable keeps the replies in order.
LEMMA OnWritableCore ==
  ASSUME Core, NEW fd \in Fds, onWritable(fd), waiting' = waiting
  PROVE  Core'
<1>1. CASE UNCHANGED handled
  BY <1>1, CoreKept DEF handled, server
<1>2. CASE client[fd] # None /\ writtenAll(fd)
  BY <1>2, WrittenAllInv
<1>3. CASE client[fd] # None /\ \E n \in 1 .. Len(client[fd].out) - 1 : writeToSocket(fd, n)
  BY <1>3, WriteInv
<1>4. CASE client[fd] # None /\ removeClients({fd})
  <2>2. Gone({fd}) /\ {fd} \in SUBSET Clients
    BY <1>4 DEF removeClients, Gone, Clients
  <2> QED
    BY <2>2, RemoveInv
<1> QED
  BY <1>1, <1>2, <1>3, <1>4 DEF onWritable

-----------------------------------------------------------------------------
(* Connections that come and change.                                       *)

\* The peer's side of a socket changes.
LEMMA PeerCore ==
  ASSUME Core, NEW c \in Conns, NEW t \in Sockets, t.status = conn[c].status,
         t.got = conn[c].got, t.asked = conn[c].asked,
         conn' = Assign(conn, c, t), client' = client, waiting' = waiting
  PROVE  Core'
<1>1. /\ conn' \in [Conns -> Sockets] /\ conn'[c] = t
      /\ \A d \in Conns : d # c => conn'[d] = conn[d]
  BY DEF Core, Types, Assign
<1>2. \A d \in Conns : conn'[d].status = conn[d].status /\ conn'[d].got = conn[d].got
                       /\ conn'[d].asked = conn[d].asked
  BY <1>1
<1>3. Types'
  BY <1>1 DEF Core, Types
<1>4. ASSUME NEW f \in Fds, client'[f] # None
      PROVE  /\ client[f] # None /\ client'[f].conn = client[f].conn
             /\ conn'[client[f].conn].status = "open"
             /\ Replied(client'[f], conn'[client[f].conn])
  <2>1. f \in Clients /\ client[f].conn \in Conns
    BY <1>4, ClientIs DEF Core
  <2> QED
    BY <1>2, <1>4, <2>1 DEF Core, OneClient, AllReplied, Replied
<1>5. ASSUME NEW d \in Conns, conn[d].status = "waiting" PROVE conn'[d].status = "waiting"
  BY <1>2, <1>5
<1>6. ASSUME NEW d \in Conns, conn'[d].status \in {"new", "waiting"}
      PROVE  conn'[d].asked = 0 /\ conn'[d].got = <<>>
  BY <1>2, <1>6 DEF Core, NotAnswered
<1> QED
  BY <1>3, <1>4, <1>5, <1>6, CoreStep

\* A request or an answer arrives.
LEMMA SendCore ==
  ASSUME Core, NEW c \in Conns, NEW r \in Letters, Send(c, r)
  PROVE  Core'
<1>1. PICK s \in Sockets : s = conn[c]
  BY DEF Core, Types
<1>2. PICK a \in Seq(Letters) : a = Append(s.arrived, r)
  <2>1. s.arrived \in Seq(Letters)
    BY SocketParts
  <2>2. Append(s.arrived, r) \in Seq(Letters)
    BY <2>1
  <2> QED
    BY <2>2
<1>3. PICK t : t = [s EXCEPT !.arrived = a]
  OBVIOUS
<1>4. t \in Sockets /\ t.status = s.status /\ t.got = s.got /\ t.asked = s.asked
  BY <1>3 DEF Sockets
<1>5. conn' = Assign(conn, c, t) /\ client' = client /\ waiting' = waiting
  BY <1>1, <1>2, <1>3 DEF Send, Peer, server, Assign
<1> QED
  BY <1>1, <1>4, <1>5, PeerCore

\* A peer reads.
LEMMA DrainCore ==
  ASSUME Core, NEW c \in Conns, Drain(c)
  PROVE  Core'
<1>1. PICK s \in Sockets : s = conn[c]
  BY DEF Core, Types
<1>3. PICK t : t = [s EXCEPT !.full = FALSE]
  OBVIOUS
<1>4. t \in Sockets /\ t.status = s.status /\ t.got = s.got /\ t.asked = s.asked
  BY <1>3 DEF Sockets
<1>5. conn' = Assign(conn, c, t) /\ client' = client /\ waiting' = waiting
  BY <1>1, <1>3 DEF Drain, Peer, server, Assign
<1> QED
  BY <1>1, <1>4, <1>5, PeerCore

\* A peer hangs up.
LEMMA HangUpCore ==
  ASSUME Core, NEW c \in Conns, HangUp(c)
  PROVE  Core'
<1>1. PICK s \in Sockets : s = conn[c]
  BY DEF Core, Types
<1>3. PICK t : t = [s EXCEPT !.hungUp = TRUE]
  OBVIOUS
<1>4. t \in Sockets /\ t.status = s.status /\ t.got = s.got /\ t.asked = s.asked
  BY <1>3 DEF Sockets
<1>5. conn' = Assign(conn, c, t) /\ client' = client /\ waiting' = waiting
  BY <1>1, <1>3 DEF HangUp, Peer, server, Assign
<1> QED
  BY <1>1, <1>4, <1>5, PeerCore

\* A peer waits to be accepted.
LEMMA ConnectCore ==
  ASSUME Core, NEW c \in Conns, Connect(c)
  PROVE  Core'
<1>1. PICK s \in Sockets : s = conn[c] /\ s.status = "new"
  BY DEF Core, Types, Connect
<1>2. PICK t : t = [s EXCEPT !.status = "waiting"]
  OBVIOUS
<1>3. t \in Sockets /\ t.status = "waiting" /\ t.got = s.got /\ t.asked = s.asked
  BY <1>2 DEF Sockets
<1>4. conn' = Assign(conn, c, t) /\ client' = client /\ waiting' = Append(waiting, c)
  BY <1>1, <1>2 DEF Connect, Peer, server, Assign
<1>5. /\ conn' \in [Conns -> Sockets] /\ conn'[c] = t
      /\ \A d \in Conns : d # c => conn'[d] = conn[d]
  BY <1>3, <1>4 DEF Core, Types, Assign
<1>6. waiting \in Seq(Conns) /\ Types'
  BY <1>4, <1>5 DEF Core, Types
<1>7. ASSUME NEW f \in Clients
      PROVE  client[f].conn \in Conns /\ client[f].conn # c
  <2>1. client[f].conn \in Conns
    BY ClientIs DEF Core, Clients
  <2> QED
    BY <1>1, <2>1 DEF Core, OneClient
<1>8. OneClient' /\ AllReplied'
  <2>1. Clients' = Clients
    BY <1>4 DEF Clients
  <2> QED
    BY <1>4, <1>5, <1>7, <2>1 DEF Core, OneClient, AllReplied
<1>9. NotAnswered'
  BY <1>1, <1>3, <1>5 DEF Core, NotAnswered
<1>10. BacklogOK'
  <2>1. \A i \in DOMAIN waiting : waiting[i] # c /\ waiting[i] \in Conns
    BY <1>1, <1>6 DEF Core, BacklogOK
  <2>2. /\ DOMAIN waiting' = 1 .. Len(waiting) + 1 /\ waiting'[Len(waiting) + 1] = c
        /\ \A i \in DOMAIN waiting : waiting'[i] = waiting[i]
        /\ DOMAIN waiting = 1 .. Len(waiting) /\ Len(waiting) \in Nat
    BY <1>4, <1>6
  <2>3. \A i \in DOMAIN waiting' : i \in DOMAIN waiting \/ i = Len(waiting) + 1
    BY <2>2
  <2>4. \A i, j \in DOMAIN waiting' : waiting'[i] = waiting'[j] => i = j
    BY <2>1, <2>2, <2>3 DEF Core, BacklogOK
  <2>5. \A i \in DOMAIN waiting' : conn'[waiting'[i]].status = "waiting"
    BY <1>3, <1>5, <2>1, <2>2, <2>3 DEF Core, BacklogOK
  <2> QED
    BY <2>4, <2>5 DEF BacklogOK
<1> QED
  BY <1>6, <1>8, <1>9, <1>10 DEF Core

\* A client for a connection that has none.
LEMMA NewClientCore ==
  ASSUME Core, NEW c \in Conns, conn[c].status \in {"new", "waiting"}, NEW fd \in Fds, client[fd] = None,
         NEW l \in Records, l.conn = c, NEW t \in Sockets, t.status = "open", Replied(l, t),
         client' = Assign(client, fd, l), conn' = Assign(conn, c, t),
         waiting' \in Seq(Conns),
         \A i, j \in DOMAIN waiting' : waiting'[i] = waiting'[j] => i = j,
         \A i \in DOMAIN waiting' : waiting'[i] # c /\ conn[waiting'[i]].status = "waiting"
  PROVE  Core'
<1>1. Types
  BY DEF Core
<1>2. /\ conn' \in [Conns -> Sockets] /\ conn'[c] = t
      /\ \A d \in Conns : d # c => conn'[d] = conn[d]
  BY <1>1 DEF Types, Assign
<1>3. /\ client' \in [Fds -> {None} \cup Records] /\ client'[fd] = l
      /\ \A f \in Fds : f # fd => client'[f] = client[f]
  BY <1>1 DEF Types, Assign
<1>4. Types'
  BY <1>1, <1>2, <1>3 DEF Types
<1>5. ASSUME NEW f \in Clients', f # fd
      PROVE  /\ f \in Clients /\ client'[f] = client[f] /\ client[f].conn # c
             /\ conn'[client[f].conn] = conn[client[f].conn]
  <2>1. f \in Clients /\ client'[f] = client[f]
    BY <1>3, <1>5 DEF Clients
  <2>2. client[f].conn \in Conns
    BY <1>1, <2>1, ClientIs DEF Clients
  <2>3. client[f].conn # c
    BY <2>1 DEF Core, OneClient
  <2> QED
    BY <1>2, <2>1, <2>2, <2>3
<1>6. OneClient'
  <2>1. ASSUME NEW f \in Clients', NEW g \in Clients', client'[f].conn = client'[g].conn PROVE f = g
    <3>1. CASE f = fd
      BY <1>3, <1>5, <2>1, <3>1
    <3>2. CASE f # fd
      <4>1. CASE g = fd
        BY <1>3, <1>5, <2>1, <3>2, <4>1
      <4>2. CASE g # fd
        BY <1>5, <2>1, <3>2, <4>2 DEF Core, OneClient
      <4> QED
        BY <4>1, <4>2
    <3> QED
      BY <3>1, <3>2
  <2>2. ASSUME NEW f \in Clients' PROVE conn'[client'[f].conn].status = "open"
    BY <1>2, <1>3, <1>5 DEF Core, OneClient
  <2> QED
    BY <2>1, <2>2 DEF OneClient
<1>7. BacklogOK'
  BY <1>2 DEF BacklogOK
<1>8. NotAnswered'
  BY <1>2 DEF Core, NotAnswered
<1>9. AllReplied'
  <2>1. ASSUME NEW f \in Clients' PROVE Replied(client'[f], conn'[client'[f].conn])
    BY <1>2, <1>3, <1>5 DEF Core, AllReplied
  <2> QED
    BY <2>1 DEF AllReplied
<1> QED
  BY <1>4, <1>6, <1>7, <1>8, <1>9 DEF Core

\* The head of the backlog leaves it.
LEMMA BacklogTail ==
  ASSUME Core, waiting # <<>>
  PROVE  /\ Head(waiting) \in Conns /\ conn[Head(waiting)].status = "waiting"
         /\ Tail(waiting) \in Seq(Conns)
         /\ \A i, j \in DOMAIN Tail(waiting) : Tail(waiting)[i] = Tail(waiting)[j] => i = j
         /\ \A i \in DOMAIN Tail(waiting) :
              Tail(waiting)[i] # Head(waiting) /\ conn[Tail(waiting)[i]].status = "waiting"
<1>1. waiting \in Seq(Conns)
  BY DEF Core, Types
<1>2. /\ Head(waiting) = waiting[1] /\ 1 \in DOMAIN waiting /\ Tail(waiting) \in Seq(Conns)
      /\ \A i \in DOMAIN Tail(waiting) : i \in Nat /\ i >= 1 /\ i + 1 \in DOMAIN waiting
                                         /\ Tail(waiting)[i] = waiting[i + 1]
  BY <1>1
<1>3. ASSUME NEW i \in DOMAIN Tail(waiting), NEW j \in DOMAIN Tail(waiting), Tail(waiting)[i] = Tail(waiting)[j]
      PROVE i = j
  <2>1. i + 1 = j + 1
    BY <1>2, <1>3 DEF Core, BacklogOK
  <2> QED
    BY <1>2, <2>1
<1>4. ASSUME NEW i \in DOMAIN Tail(waiting)
      PROVE  Tail(waiting)[i] # Head(waiting) /\ conn[Tail(waiting)[i]].status = "waiting"
  <2>1. i + 1 # 1
    BY <1>2
  <2> QED
    BY <1>2, <2>1 DEF Core, BacklogOK
<1> QED
  BY <1>1, <1>2, <1>3, <1>4 DEF Core, BacklogOK

\* A descriptor that is free.
LEMMA FreeFd ==
  ASSUME Free # {}
  PROVE  Min(Free) \in Fds /\ client[Min(Free)] = None
<1>1. Free \in SUBSET Nat
  BY FdsAssumption DEF Free
<1>2. Min(Free) \in Free
  BY <1>1, LeastElement
<1> QED
  BY <1>2 DEF Free, Clients

\* No reply to no request.
LEMMA NothingSaid ==
  ASSUME NEW c \in Conns
  PROVE  <<>> \o <<>> = FirstReplies(c, 0)
<1>1. FirstReplies(c, 0) \in Seq(Pairs) /\ Len(FirstReplies(c, 0)) = 0
  BY FirstRepliesIs
<1>2. FirstReplies(c, 0) = <<>>
  BY <1>1
<1> QED
  BY <1>2

\* addClient, or a refusal.
LEMMA AddClientCore ==
  ASSUME Core, waiting # <<>>, NEW fd \in Fds, client[fd] = None,
         addClient(Head(waiting), fd), waiting' = Tail(waiting)
  PROVE  Core'
<1>0. PICK c \in Conns : c = Head(waiting) /\ conn[c].status = "waiting"
  BY BacklogTail
<1>1. PICK s \in Sockets : s = conn[c]
  BY DEF Core, Types
<1>2. s.asked = 0 /\ s.got = <<>>
  BY <1>0, <1>1 DEF Core, NotAnswered
<1>3. /\ waiting' \in Seq(Conns)
      /\ \A i, j \in DOMAIN waiting' : waiting'[i] = waiting'[j] => i = j
      /\ \A i \in DOMAIN waiting' : waiting'[i] # c /\ conn[waiting'[i]].status = "waiting"
  BY <1>0, BacklogTail
<1>4. CASE Cardinality(Clients) >= MaxClients
  <2>1. conn' = Assign(conn, c, Socket("refused")) /\ client' = client
    BY <1>0, <1>4 DEF addClient, server, Assign
  <2>2. Socket("refused") \in Sockets /\ Socket("refused").status = "refused"
    BY SocketIs
  <2>3. /\ conn' \in [Conns -> Sockets] /\ conn'[c] = Socket("refused")
        /\ \A d \in Conns : d # c => conn'[d] = conn[d]
    BY <2>1, <2>2 DEF Core, Types, Assign
  <2>4. Types'
    BY <1>3, <2>1, <2>3 DEF Core, Types
  <2>5. ASSUME NEW f \in Clients PROVE client[f].conn \in Conns /\ client[f].conn # c
    <3>1. client[f].conn \in Conns
      BY ClientIs DEF Core, Clients
    <3> QED
      BY <1>0, <3>1 DEF Core, OneClient
  <2>6. OneClient' /\ AllReplied'
    <3>1. Clients' = Clients
      BY <2>1 DEF Clients
    <3> QED
      BY <2>1, <2>3, <2>5, <3>1 DEF Core, OneClient, AllReplied
  <2>7. NotAnswered'
    BY <2>2, <2>3 DEF Core, NotAnswered
  <2>8. BacklogOK'
    BY <1>3, <2>3 DEF BacklogOK
  <2> QED
    BY <2>4, <2>6, <2>7, <2>8 DEF Core
<1>5. CASE ~(Cardinality(Clients) >= MaxClients)
  <2>1. PICK t, l : t = [s EXCEPT !.status = "open"] /\ l = [conn |-> c, out |-> <<>>, closeAsap |-> FALSE]
    OBVIOUS
  <2>2. t \in Sockets /\ t.status = "open" /\ t.got = <<>> /\ t.asked = 0
    BY <1>2, <2>1 DEF Sockets
  <2>3. l \in Records /\ l.conn = c /\ l.out = <<>>
    BY <2>1 DEF Records
  <2>4. conn' = Assign(conn, c, t) /\ client' = Assign(client, fd, l)
    BY <1>0, <1>1, <1>5, <2>1 DEF addClient, Assign
  <2>5. Replied(l, t)
    BY <2>2, <2>3, NothingSaid DEF Replied
  <2> QED
    BY <1>0, <1>3, <2>2, <2>3, <2>4, <2>5, NewClientCore
<1> QED
  BY <1>4, <1>5

\* connectToMaster: the descriptor of a client that has gone may be taken again.
LEMMA ConnectToMasterCore ==
  ASSUME Core, NEW c \in Conns, connectToMaster(c)
  PROVE  Core'
<1>1. conn[c].status = "new" /\ Free # {} /\ waiting' = waiting
  BY DEF connectToMaster
<1>2. PICK fd \in Fds : fd = Min(Free) /\ client[fd] = None
  BY <1>1, FreeFd
<1>3. PICK s \in Sockets : s = conn[c]
  BY DEF Core, Types
<1>4. s.asked = 0 /\ s.got = <<>>
  BY <1>1, <1>3 DEF Core, NotAnswered
<1>5. PICK t, l, o : /\ t = [s EXCEPT !.status = "open", !.asked = 1]
                     /\ o = NextReplies(c, 0, 1)
                     /\ l = [conn |-> c, out |-> o, closeAsap |-> FALSE]
  OBVIOUS
<1>6. t \in Sockets /\ t.status = "open" /\ t.got = <<>> /\ t.asked = 1
  BY <1>4, <1>5 DEF Sockets
<1>7. o \in Seq(Pairs)
  BY <1>5, NextRepliesIs
<1>8. l \in Records /\ l.conn = c /\ l.out = o
  BY <1>5, <1>7 DEF Records
<1>9. conn' = Assign(conn, c, t) /\ client' = Assign(client, fd, l)
  <2>1. Replies(c, 1) = o
    BY <1>3, <1>4, <1>5 DEF Replies, NextReplies, Reply
  <2>2. client' = [client EXCEPT ![fd] = l]
    BY <1>2, <1>5, <2>1 DEF connectToMaster
  <2>3. conn' = [conn EXCEPT ![c] = t]
    BY <1>3, <1>5 DEF connectToMaster, Core, Types
  <2> QED
    BY <2>2, <2>3 DEF Assign
<1>10. Replied(l, t)
  <2>1. <<>> \o o = o
    BY <1>7, ConcatEmptySeq
  <2>2. o = FirstReplies(c, 1)
    BY <1>5 DEF NextReplies, FirstReplies
  <2> QED
    BY <1>6, <1>8, <2>1, <2>2 DEF Replied
<1>11. /\ waiting' \in Seq(Conns)
       /\ \A i, j \in DOMAIN waiting' : waiting'[i] = waiting'[j] => i = j
       /\ \A i \in DOMAIN waiting' : waiting'[i] # c /\ conn[waiting'[i]].status = "waiting"
  BY <1>1 DEF Core, Types, BacklogOK
<1> QED
  BY <1>1, <1>2, <1>6, <1>8, <1>9, <1>10, <1>11, NewClientCore

-----------------------------------------------------------------------------
(* Events.                                                                 *)

\* EventsMatchClients for one descriptor.
Matched(f) ==
  /\ client[f] = None <=> events[f] = {}
  /\ client[f] # None => "R" \in events[f] /\ (client[f].out # <<>> => "W" \in events[f])

\* No master answers with anything the handshake does not expect.
Expected == "ERR" \notin Letters

\* EventsMatchClients, one descriptor at a time.
LEMMA MatchedIs == EventsMatchClients <=> \A f \in Fds : Matched(f)
BY DEF EventsMatchClients, Matched

\* The masks.
EventTypes == events \in [Fds \cup {Listener} -> Marks]

\* onReadable keeps events and clients together.
LEMMA ReadableEvents ==
  ASSUME Core, EventTypes, NEW fd \in Fds, onReadable(fd)
  PROVE  /\ EventTypes'
         /\ Expected /\ EventsMatchClients => EventsMatchClients'
<1>1. CASE UNCHANGED handled
  BY <1>1 DEF handled, server, EventTypes, EventsMatchClients
<1>2. CASE client[fd] # None /\ readData(fd)
  <2> DEFINE done == Executed(client[fd], conn[client[fd].conn].arrived)
             quit == "QUIT" \in ToSet(done)
  <2>a. PICK k, gone, out, asap :
          /\ k = client[fd]
          /\ gone = (IF "REPLICAOF" \in ToSet(done) THEN Master ELSE {})
          /\ out = k.out \o Replies(k.conn, Len(done))
          /\ asap = (k.closeAsap \/ quit)
    OBVIOUS
  <2>b. PICK l : l = [k EXCEPT !.out = out, !.closeAsap = asap]
    OBVIOUS
  <2>1. /\ client' = [f \in Fds |-> IF f = fd THEN l ELSE IF f \in gone THEN None ELSE client[f]]
        /\ events' = [f \in DOMAIN events |->
             IF f = fd THEN events[f] \cup {"W"} ELSE IF f \in gone THEN {} ELSE events[f]]
    BY <1>2, <2>a, <2>b DEF readData
  <2> HIDE DEF done, quit
  <2>2. EventTypes'
    BY <2>1 DEF EventTypes, Marks
  <2>3. l # None
    <3>1. k \in Records /\ k.conn \in Conns
      BY <1>2, <2>a, ClientIs DEF Core
    <3>2. l.conn = k.conn
      BY <2>b, <3>1 DEF Records
    <3> QED
      BY <3>1, <3>2, ConnsAssumption DEF None, Conns
  <2>4. ASSUME EventsMatchClients, NEW f \in Fds PROVE Matched(f)'
    <3>1. Matched(f) /\ f \in DOMAIN events
      BY <2>4 DEF EventsMatchClients, Matched, EventTypes
    <3>2. CASE f = fd
      <4>1. client'[f] = l /\ events'[f] = events[f] \cup {"W"} /\ "R" \in events[f]
        BY <1>2, <2>1, <3>1, <3>2 DEF Matched
      <4> QED
        BY <2>3, <4>1 DEF Matched
    <3>3. CASE f # fd /\ f \in gone
      BY <2>1, <3>1, <3>3 DEF Matched
    <3>4. CASE f # fd /\ f \notin gone
      <4>1. client'[f] = client[f] /\ events'[f] = events[f]
        BY <2>1, <3>1, <3>4
      <4> QED
        BY <3>1, <4>1 DEF Matched
    <3> QED
      BY <3>2, <3>3, <3>4
  <2> QED
    BY <2>2, <2>4, MatchedIs DEF Matched, EventsMatchClients
<1>3. CASE client[fd] # None /\ conn[client[fd].conn].arrived # <<>>
           /\ "ERR" \in ToSet(conn[client[fd].conn].arrived) /\ readUnexpected(fd)
  <2>1. EventTypes'
    BY <1>3 DEF readUnexpected, EventTypes, Marks
  <2>2. conn[client[fd].conn] \in Sockets
    BY <1>3, ClientIs DEF Core, Types
  <2>3. "ERR" \in Letters
    <3>1. conn[client[fd].conn].arrived \in Seq(Letters)
      BY <2>2, SocketParts
    <3> QED
      BY <1>3, <3>1 DEF ToSet
  <2> QED
    BY <2>1, <2>3 DEF Expected
<1>4. CASE removeClients({fd})
  <2>1. EventTypes'
    BY <1>4 DEF removeClients, EventTypes, Marks
  <2>2. EventsMatchClients => EventsMatchClients'
    BY <1>4 DEF removeClients, EventTypes, EventsMatchClients
  <2> QED
    BY <2>1, <2>2
<1> QED
  BY <1>1, <1>2, <1>3, <1>4 DEF onReadable

\* onWritable keeps events and clients together.
LEMMA WritableEvents ==
  ASSUME Core, EventTypes, NEW fd \in Fds, onWritable(fd)
  PROVE  /\ EventTypes'
         /\ EventsMatchClients => EventsMatchClients'
<1>1. CASE UNCHANGED handled
  BY <1>1 DEF handled, server, EventTypes, EventsMatchClients
<1>4. CASE removeClients({fd})
  <2>1. EventTypes'
    BY <1>4 DEF removeClients, EventTypes, Marks
  <2>2. EventsMatchClients => EventsMatchClients'
    BY <1>4 DEF removeClients, EventTypes, EventsMatchClients
  <2> QED
    BY <2>1, <2>2
<1>2. CASE client[fd] # None /\ writtenAll(fd) /\ ~client[fd].closeAsap
  <2>0. client[fd] \in Records /\ client \in [Fds -> {None} \cup Records]
    BY <1>2, ClientIs DEF Core, Types
  <2>1. PICK l : l = Left(client[fd], <<>>)
    OBVIOUS
  <2>2. client' = [client EXCEPT ![fd] = l] /\ events' = [events EXCEPT ![fd] = @ \ {"W"}]
    BY <1>2, <2>0, <2>1 DEF writtenAll, Left
  <2>3. l # None /\ l.out = <<>>
    <3>1. <<>> \in Seq(Pairs)
      OBVIOUS
    <3>2. l \in Records /\ l.out = <<>>
      BY <2>0, <2>1, <3>1, LeftIs
    <3> QED
      BY <3>2, RecordIs
  <2>4. EventTypes'
    BY <2>2 DEF EventTypes, Marks
  <2>5. ASSUME EventsMatchClients, NEW f \in Fds PROVE Matched(f)'
    <3>1. Matched(f) /\ f \in DOMAIN events /\ f \in DOMAIN client
      BY <2>0, <2>5 DEF EventsMatchClients, Matched, EventTypes
    <3>2. CASE f = fd
      BY <1>2, <2>2, <2>3, <3>1, <3>2 DEF Matched
    <3>3. CASE f # fd
      BY <2>2, <3>1, <3>3 DEF Matched
    <3> QED
      BY <3>2, <3>3
  <2> QED
    BY <2>4, <2>5, MatchedIs DEF Matched, EventsMatchClients
<1>3. ASSUME client[fd] # None, NEW n \in 1 .. Len(client[fd].out) - 1, writeToSocket(fd, n)
      PROVE  EventTypes' /\ (EventsMatchClients => EventsMatchClients')
  <2>0. client[fd] \in Records /\ client \in [Fds -> {None} \cup Records]
    BY <1>3, ClientIs DEF Core, Types
  <2>1. PICK o, l : o = SubSeq(client[fd].out, n + 1, Len(client[fd].out)) /\ l = Left(client[fd], o)
    OBVIOUS
  <2>2. client' = [client EXCEPT ![fd] = l] /\ events' = events
    BY <1>3, <2>0, <2>1 DEF writeToSocket, Left
  <2>3. l # None /\ client[fd].out # <<>>
    <3>1. client[fd].out \in Seq(Pairs)
      BY <2>0, RecordIs
    <3>2. o \in Seq(Pairs)
      BY <2>1, <3>1, WrittenPart
    <3>3. l \in Records
      BY <2>0, <2>1, <3>2, LeftIs
    <3>4. client[fd].out # <<>>
      BY <3>1
    <3> QED
      BY <3>3, <3>4, RecordIs
  <2>5. ASSUME EventsMatchClients, NEW f \in Fds PROVE Matched(f)'
    <3>1. Matched(f) /\ f \in DOMAIN client
      BY <2>0, <2>5 DEF EventsMatchClients, Matched
    <3>2. CASE f = fd
      BY <1>3, <2>2, <2>3, <3>1, <3>2 DEF Matched
    <3>3. CASE f # fd
      BY <2>2, <3>1, <3>3 DEF Matched
    <3> QED
      BY <3>2, <3>3
  <2> QED
    BY <2>2, <2>5, MatchedIs DEF Matched, EventsMatchClients, EventTypes
<1> QED
  BY <1>1, <1>2, <1>3, <1>4 DEF onWritable, writtenAll

-----------------------------------------------------------------------------
(* Steps.                                                                  *)

\* What a step keeps.
Kept == IInv' /\ (Expected /\ EventsMatchClients => EventsMatchClients')

\* A step that leaves events and the loop alone, and no client changes.
LEMMA QuietStep ==
  ASSUME IInv, Core', UNCHANGED <<client, events, fired, current>>
  PROVE  Kept
BY DEF Kept, IInv, LoopTypes, EventsMatchClients

\* Steps of the peers.
LEMMA PeersKeep ==
  ASSUME IInv, NEW c \in Conns,
         Connect(c) \/ (\E r \in Letters : Send(c, r)) \/ Drain(c) \/ HangUp(c)
  PROVE  Kept
<1>1. Core'
  BY ConnectCore, SendCore, DrainCore, HangUpCore DEF IInv
<1>2. UNCHANGED <<client, events, fired, current>>
  BY DEF Connect, Send, Drain, HangUp, Peer, server, loop
<1> QED
  BY <1>1, <1>2, QuietStep

\* The list of fired events.
LEMMA SelectKeeps ==
  ASSUME IInv, Select
  PROVE  Kept
<1>1. UNCHANGED <<conn, waiting, client, events, current>>
  BY DEF Select, network, server
<1>2. Core'
  BY <1>1, CoreKept DEF IInv
<1>3. fired' \subseteq Fired
  <2>1. fired' \subseteq [fd : DOMAIN events, mask : SUBSET {"R", "W"}]
    BY DEF Select
  <2>2. DOMAIN events = Fds \cup {Listener}
    BY DEF IInv, LoopTypes
  <2> QED
    BY <2>1, <2>2 DEF Fired, Marks
<1> QED
  BY <1>1, <1>2, <1>3 DEF Kept, IInv, LoopTypes, EventsMatchClients

\* A read handler, of a descriptor that is looked up again.
LEMMA DispatchReadKeeps ==
  ASSUME IInv, DispatchRead
  PROVE  Kept
<1>1. PICK e \in fired :
       /\ fired' = fired \ {e}
       /\ \/ events[e.fd] = {} /\ UNCHANGED <<handled, current>>
          \/ /\ events[e.fd] # {}
             /\ current' = [fd |-> e.fd, mask |-> e.mask,
                            stage |-> IF e.fd = Listener THEN "accept"
                                      ELSE IF e.fd \in Master /\ e.mask = {"R", "W"} THEN "combined"
                                      ELSE "write"]
             /\ IF e.fd # Listener /\ "R" \in e.mask \cap events[e.fd]
                THEN onReadable(e.fd) ELSE UNCHANGED handled
  BY DEF DispatchRead
<1>2. waiting' = waiting /\ Core /\ EventTypes /\ e \in Fired
  BY DEF DispatchRead, IInv, LoopTypes, EventTypes
<1>3. e.fd \in Fds \cup {Listener} /\ e.mask \in Marks
  BY <1>2 DEF Fired
<1>4. Core' /\ EventTypes' /\ (Expected /\ EventsMatchClients => EventsMatchClients')
  <2>1. CASE UNCHANGED handled
    <3>1. conn' = conn /\ client' = client /\ events' = events
      BY <2>1 DEF handled, server
    <3>2. Core'
      BY <1>2, <3>1, CoreKept
    <3> QED
      BY <1>2, <3>1, <3>2 DEF EventTypes, EventsMatchClients
  <2>2. CASE e.fd # Listener /\ onReadable(e.fd)
    <3>1. e.fd \in Fds
      BY <1>3, <2>2
    <3>2. PICK fd \in Fds : fd = e.fd
      BY <3>1
    <3>3. onReadable(fd)
      BY <2>2, <3>2
    <3> QED
      BY <1>2, <3>3, OnReadableCore, ReadableEvents
  <2> QED
    BY <1>1, <2>1, <2>2
<1>5. fired' \subseteq Fired
  BY <1>1 DEF IInv, LoopTypes
<1>6. (current' = Quiet \/ current' \in Underways) /\ (current' # Quiet /\ current'.stage # "accept" => current'.fd \in Fds)
  <2>1. CASE UNCHANGED current
    BY <2>1 DEF IInv, LoopTypes
  <2>2. CASE current' = [fd |-> e.fd, mask |-> e.mask,
                         stage |-> IF e.fd = Listener THEN "accept"
                                   ELSE IF e.fd \in Master /\ e.mask = {"R", "W"} THEN "combined"
                                   ELSE "write"]
    BY <1>3, <2>2 DEF Underways
  <2> QED
    BY <1>1, <2>1, <2>2
<1> QED
  BY <1>4, <1>5, <1>6 DEF Kept, IInv, LoopTypes, EventTypes

\* The event whose handlers are under way.
LEMMA UnderwayIs ==
  ASSUME IInv, NEW x \in {"accept", "combined", "write"}, Underway(x)
  PROVE  current \in Underways /\ current.stage = x /\ (x # "accept" => current.fd \in Fds)
BY DEF IInv, LoopTypes, Underway

\* One turn of the accept loop.
LEMMA AcceptKeeps ==
  ASSUME IInv, Accept
  PROVE  Kept
<1>1. CASE waiting # <<>> /\ Free # {} /\ addClient(Head(waiting), Min(Free)) /\ waiting' = Tail(waiting)
           /\ UNCHANGED current
  <2>1. PICK fd \in Fds : fd = Min(Free) /\ client[fd] = None
    BY <1>1, FreeFd
  <2>2. PICK c \in Conns : c = Head(waiting)
    BY <1>1, BacklogTail DEF IInv
  <2>3. addClient(c, fd)
    BY <1>1, <2>1, <2>2
  <2>4. Core'
    BY <1>1, <2>1, AddClientCore DEF IInv
  <2>5. EventTypes' /\ (EventsMatchClients => EventsMatchClients')
    <3>1. CASE UNCHANGED server
      BY <3>1 DEF server, EventTypes, EventsMatchClients, IInv, LoopTypes
    <3>2. CASE /\ client' = [client EXCEPT ![fd] = [conn |-> c, out |-> <<>>, closeAsap |-> FALSE]]
               /\ events' = [events EXCEPT ![fd] = {"R"}]
      <4>1. PICK l : l = [conn |-> c, out |-> <<>>, closeAsap |-> FALSE]
        OBVIOUS
      <4>2. l # None /\ l.out = <<>>
        BY <4>1, ConnsAssumption DEF None, Conns
      <4>3. client \in [Fds -> {None} \cup Records] /\ EventTypes
        BY DEF IInv, Core, Types, LoopTypes, EventTypes
      <4>4. client' = [client EXCEPT ![fd] = l]
        BY <3>2, <4>1
      <4>5. EventTypes'
        BY <3>2, <4>3 DEF EventTypes, Marks
      <4>6. ASSUME EventsMatchClients, NEW f \in Fds PROVE Matched(f)'
        BY <3>2, <4>2, <4>3, <4>4, <4>6 DEF EventsMatchClients, Matched, EventTypes
      <4> QED
        BY <4>5, <4>6, MatchedIs DEF Matched, EventsMatchClients
    <3> QED
      BY <2>3, <3>1, <3>2 DEF addClient
  <2>6. UNCHANGED <<fired, current>>
    BY <1>1 DEF Accept
  <2> QED
    BY <2>4, <2>5, <2>6 DEF Kept, IInv, LoopTypes, EventTypes
<1>2. CASE current' = Quiet /\ UNCHANGED <<handled, waiting>>
  <2>1. UNCHANGED <<conn, waiting, client, events, fired>>
    BY <1>2 DEF handled, server, Accept
  <2>2. Core'
    BY <2>1, CoreKept DEF IInv
  <2> QED
    BY <1>2, <2>1, <2>2 DEF Kept, IInv, LoopTypes, EventsMatchClients
<1> QED
  BY <1>1, <1>2 DEF Accept

\* The second half of the handler of a connection to the master.
LEMMA CombinedKeeps ==
  ASSUME IInv, DispatchCombined
  PROVE  Kept
<1>1. current \in Underways /\ current.fd \in Fds
  BY UnderwayIs DEF DispatchCombined
<1>2. PICK fd \in Fds : fd = current.fd /\ onWritable(fd)
  BY <1>1 DEF DispatchCombined
<1>3. Core' /\ EventTypes' /\ (EventsMatchClients => EventsMatchClients')
  <2>1. waiting' = waiting /\ Core /\ EventTypes
    BY DEF DispatchCombined, IInv, LoopTypes, EventTypes
  <2> QED
    BY <1>2, <2>1, OnWritableCore, WritableEvents
<1>4. current' \in Underways /\ current'.fd = current.fd
  BY <1>1 DEF DispatchCombined, Underways
<1>5. fired' = fired
  BY DEF DispatchCombined
<1> QED
  BY <1>1, <1>3, <1>4, <1>5 DEF Kept, IInv, LoopTypes, EventTypes

\* A write handler, of a descriptor that is looked up again.
LEMMA WriteKeeps ==
  ASSUME IInv, DispatchWrite
  PROVE  Kept
<1>1. current.fd \in Fds
  BY UnderwayIs DEF DispatchWrite
<1>2. waiting' = waiting /\ Core /\ EventTypes /\ fired' = fired /\ current' = Quiet
  BY DEF DispatchWrite, IInv, LoopTypes, EventTypes
<1>3. Core' /\ EventTypes' /\ (EventsMatchClients => EventsMatchClients')
  <2>1. CASE onWritable(current.fd)
    <3>1. PICK fd \in Fds : fd = current.fd /\ onWritable(fd)
      BY <1>1, <2>1
    <3> QED
      BY <1>2, <3>1, OnWritableCore, WritableEvents
  <2>2. CASE UNCHANGED handled
    <3>1. conn' = conn /\ client' = client /\ events' = events
      BY <2>2 DEF handled, server
    <3>2. Core'
      BY <1>2, <3>1, CoreKept
    <3> QED
      BY <1>2, <3>1, <3>2 DEF EventTypes, EventsMatchClients
  <2> QED
    BY <2>1, <2>2 DEF DispatchWrite
<1> QED
  BY <1>2, <1>3 DEF Kept, IInv, LoopTypes, EventTypes

\* closeIdleClients.
LEMMA IdleKeeps ==
  ASSUME IInv, closeIdleClients
  PROVE  Kept
<1>1. PICK S \in SUBSET (Clients \ Master) : removeClients(S)
  BY DEF closeIdleClients
<1>2. waiting' = waiting /\ fired' = fired /\ current' = current
  BY DEF closeIdleClients, loop
<1>3. Core'
  <2>1. Gone(S) /\ S \in SUBSET Clients
    BY <1>1 DEF removeClients, Gone
  <2> QED
    BY <1>2, <2>1, RemoveInv DEF IInv
<1>4. EventTypes'
  BY <1>1 DEF removeClients, EventTypes, IInv, LoopTypes, Marks
<1>5. EventsMatchClients => EventsMatchClients'
  BY <1>1 DEF removeClients, EventsMatchClients, IInv, LoopTypes
<1> QED
  BY <1>2, <1>3, <1>4, <1>5 DEF Kept, IInv, LoopTypes, EventTypes

\* connectToMaster.
LEMMA MasterKeeps ==
  ASSUME IInv, NEW c \in Conns, connectToMaster(c)
  PROVE  Kept
<1>1. Core'
  BY ConnectToMasterCore DEF IInv
<1>2. PICK fd \in Fds : fd = Min(Free) /\ client[fd] = None
  BY FreeFd DEF connectToMaster
<1>3. PICK l : l = [conn |-> c, out |-> Replies(c, 1), closeAsap |-> FALSE]
  OBVIOUS
<1>4. client' = [client EXCEPT ![fd] = l] /\ events' = [events EXCEPT ![fd] = {"R", "W"}]
      /\ fired' = fired /\ current' = current
  BY <1>2, <1>3 DEF connectToMaster, loop
<1>5. l # None
  BY <1>3, ConnsAssumption DEF None, Conns
<1>6. client \in [Fds -> {None} \cup Records] /\ EventTypes
  BY DEF IInv, Core, Types, LoopTypes, EventTypes
<1>7. EventTypes'
  BY <1>4, <1>6 DEF EventTypes, Marks
<1>8. ASSUME EventsMatchClients, NEW f \in Fds PROVE Matched(f)'
  BY <1>4, <1>5, <1>6, <1>8 DEF EventsMatchClients, Matched, EventTypes
<1>9. EventsMatchClients => EventsMatchClients'
  BY <1>8, MatchedIs DEF Matched, EventsMatchClients
<1> QED
  BY <1>1, <1>4, <1>7, <1>9 DEF Kept, IInv, LoopTypes, EventTypes

\* Every step.
LEMMA NextKeeps ==
  ASSUME IInv, [Next]_vars
  PROVE  Kept
<1>1. CASE \E c \in Peers : Connect(c) \/ \E r \in Requests : Send(c, r)
  BY <1>1, PeersKeep DEF Conns, Letters
<1>2. CASE \E c \in Links, r \in Answers : Send(c, r)
  BY <1>2, PeersKeep DEF Conns, Letters
<1>3. CASE \E c \in Conns : Drain(c) \/ HangUp(c)
  BY <1>3, PeersKeep
<1>4. CASE Loop
  BY <1>4, SelectKeeps, DispatchReadKeeps, AcceptKeeps, CombinedKeeps, WriteKeeps DEF Loop
<1>5. CASE closeIdleClients
  BY <1>5, IdleKeeps
<1>6. CASE \E c \in Links : connectToMaster(c)
  BY <1>6, MasterKeeps DEF Conns
<1>7. CASE UNCHANGED vars
  <2>1. UNCHANGED <<conn, waiting, client, events, fired, current>>
    BY <1>7 DEF vars, network, server, loop
  <2>2. Core'
    BY <2>1, CoreKept DEF IInv
  <2> QED
    BY <2>1, <2>2, QuietStep
<1> QED
  BY <1>1, <1>2, <1>3, <1>4, <1>5, <1>6, <1>7 DEF Next

\* The server has started.
LEMMA InitInv == Init => IInv /\ EventsMatchClients
<1> SUFFICES ASSUME Init PROVE IInv /\ EventsMatchClients
  OBVIOUS
<1>1. Socket("new") \in Sockets /\ Socket("new").asked = 0 /\ Socket("new").got = <<>>
  BY SocketIs
<1>2. \A c \in Conns : conn[c] = Socket("new")
  BY DEF Init
<1>3. Types
  BY <1>1 DEF Init, Types
<1>4. Clients = {}
  BY DEF Init, Clients
<1>5. BacklogOK
  BY DEF Init, BacklogOK
<1>6. NotAnswered
  BY <1>1, <1>2 DEF NotAnswered
<1>7. Core
  BY <1>3, <1>4, <1>5, <1>6 DEF Core, OneClient, AllReplied
<1>8. LoopTypes
  BY DEF Init, LoopTypes, Marks
<1>9. EventsMatchClients
  BY FdsAssumption DEF Init, EventsMatchClients, Listener
<1> QED
  BY <1>7, <1>8, <1>9 DEF IInv

\* The inductive invariant holds in every state of the event loop.
THEOREM Invariance == Spec => []IInv
<1>1. Init => IInv
  BY InitInv
<1>2. IInv /\ [Next]_vars => IInv'
  BY NextKeeps DEF Kept
<1> QED
  BY <1>1, <1>2, PTL DEF Spec

\* Every connection is sent the replies to its own requests, in order and without a gap
\* (RepliesInOrder), whatever handlers close and accept within a round and however sends are cut.
THEOREM OrderKept == Spec => []RepliesInOrder
<1>1. IInv => RepliesInOrder
  BY DEF IInv, Core, AllReplied, Replied, RepliesInOrder, FirstReplies, Reply
<1> QED
  BY <1>1, Invariance, PTL

\* As long as a master sends no answer the handshake does not expect, the event loop watches
\* exactly the descriptors of clients (EventsMatchClients).  Without that hypothesis it is false:
\* onReadable goes on with a client that is destroyed.
THEOREM EventsConsistent ==
  ASSUME "ERR" \notin Requests \cup Answers
  PROVE  Spec => []EventsMatchClients
<1>1. Init => IInv /\ EventsMatchClients
  BY InitInv
<1>2. IInv /\ EventsMatchClients /\ [Next]_vars => (IInv /\ EventsMatchClients)'
  BY NextKeeps DEF Kept, Expected, Letters
<1> QED
  BY <1>1, <1>2, PTL DEF Spec
============================================================================
