------------------------------ MODULE Blocking ------------------------------
(***************************************************************************)
(* Lists and the clients that wait for them: BLPOP, BRPOP and the pushes   *)
(* that wake them (commands/list_commands.cpp), blockClient, unblockClient,*)
(* handleClientsBlockedOnKey, the timeout pass of serverCron and           *)
(* closeClient (server/server.cpp), and the write handlers replies need    *)
(* to leave the server (networking/connection_manager.cpp).                *)
(*                                                                         *)
(* blockedClients_ is one table for all databases, keyed by the key name.  *)
(*                                                                         *)
(* A push runs nested commands of other clients before it returns, so the  *)
(* methods are operators on the server state (a record) and a handler is   *)
(* a composition of them in one step.                                      *)
(*                                                                         *)
(* Time is counted in periods of serverCron.  blockTimeout_ is a           *)
(* system_clock time and serverCron compares it with steady_clock:         *)
(* ClockSkew is the difference of the two epochs.                          *)
(***************************************************************************)
EXTENDS Integers, Sequences, SequencesExt, FiniteSets

CONSTANTS
  Clients, Dbs, Keys,
  MaxElems,     \* bound on the elements pushed in a behaviour
  PushSizes,    \* how many values one push carries
  KeyLists,     \* the key sequences of BLPOP and BRPOP
  Timeouts,     \* the timeouts of BLPOP and BRPOP, 0 for none
  ClockSkew,    \* system_clock - steady_clock
  Ops           \* the commands clients issue

ASSUME ClockSkewAssumption == ClockSkew \in Nat
ASSUME DbsAssumption == 0 \in Dbs
ASSUME PushAssumption == MaxElems \in Nat /\ PushSizes \subseteq Nat \ {0}
ASSUME KeyListsAssumption == KeyLists \subseteq Seq(Keys) \ {<<>>}
ASSUME TimeoutsAssumption == Timeouts \subseteq Nat /\ \E max \in Timeouts : \A t \in Timeouts : t <= max

Elems == 1 .. MaxElems

VARIABLES
  srv,          \* the server state, below
  selectedDb,   \* per client
  connected,    \* clients the connection manager holds
  pushed        \* history: how many elements clients have pushed, named 1..pushed

vars == <<srv, selectedDb, connected, pushed>>

\* A client is blocked while it has a call: the saved BLPOP or BRPOP (blockCmd_), the
\* periods until its blockTimeout_, and, for the properties, how long it has been waiting.
NoCall == [keys |-> <<>>, left |-> FALSE, timeout |-> 0, timer |-> 0, waited |-> 0]

InitSrv ==
  [lists   |-> [d \in Dbs |-> [k \in Keys |-> <<>>]],   \* <<>>: no such key
   waiting |-> [k \in Keys |-> <<>>],                   \* blockedClients_
   call    |-> [c \in Clients |-> NoCall],
   pending |-> {},                                      \* clients with unsent output
   armed   |-> {},                                      \* clients with a write handler
   handed  |-> [e \in Elems |-> 0]]                     \* history: deliveries per element

Blocked(s, c) == s.call[c].keys # <<>>

-----------------------------------------------------------------------------
(* Methods, from server state to server state.                             *)

\* How often k occurs among the keys.
Occurrences(keys, k) == Cardinality({i \in DOMAIN keys : keys[i] = k})

\* std::remove and erase of the clients in C from queue q.
Without(q, C) ==
  LET upTo[i \in 0 .. Len(q)] ==
        IF i = 0 THEN <<>>
        ELSE IF q[i] \in C THEN upTo[i - 1]
        ELSE Append(upTo[i - 1], q[i])
  IN  upTo[Len(q)]

addReply(s, c) == [s EXCEPT !.pending = @ \cup {c}]

\* Faulty: the list is deleted whether or not elements are left.
popDeletes(s, c, d, k, left) ==
  LET e == IF left THEN Head(s.lists[d][k]) ELSE Last(s.lists[d][k])
  IN  [addReply(s, c) EXCEPT !.lists[d][k] = <<>>, !.handed[e] = @ + 1]

\* popFront or popBack for client c, with the reply; an empty list is deleted.
pop(s, c, d, k, left) ==
  LET list == s.lists[d][k]
      e    == IF left THEN Head(list) ELSE Last(list)
  IN  [addReply(s, c) EXCEPT !.lists[d][k] = IF left THEN Tail(list) ELSE Front(list),
                             !.handed[e] = @ + 1]

\* Joins the queue of every key, once per occurrence of the key.
blockClient(s, c, keys, left, timeout, waited) ==
  [s EXCEPT
     !.call[c] = [keys |-> keys, left |-> left, timeout |-> timeout,
                  timer |-> IF timeout > 0 THEN timeout + ClockSkew ELSE 0,
                  waited |-> waited],
     !.waiting = [k \in Keys |-> @[k] \o [i \in 1 .. Occurrences(keys, k) |-> c]]]

\* Faulty: leaves only the queue of the first key.
unblockClientFirstKey(s, c) ==
  IF ~Blocked(s, c) THEN s
  ELSE [s EXCEPT !.call[c] = NoCall,
                 !.waiting[s.call[c].keys[1]] = Without(@, {c})]

\* Leaves the queue of every key of the call.
unblockClient(s, c) ==
  IF ~Blocked(s, c) THEN s
  ELSE [s EXCEPT !.call[c] = NoCall,
                 !.waiting = [k \in Keys |-> IF k \in ToSet(s.call[c].keys)
                                             THEN Without(@[k], {c})
                                             ELSE @[k]]]

\* BLPOP and BRPOP: the first key with elements is popped, else the client blocks.
bpopGeneric(s, c, d, keys, left, timeout, waited) ==
  LET full == {i \in DOMAIN keys : s.lists[d][keys[i]] # <<>>}
  IN  IF full = {} THEN blockClient(s, c, keys, left, timeout, waited)
      ELSE pop(s, c, d, keys[Min(full)], left)

\* Faulty: the woken client's write handler is not installed.
handleClientsBlockedOnKeyUnarmed(s, k) ==
  IF s.waiting[k] = <<>> THEN s
  ELSE LET c == Head(s.waiting[k])
       IN  bpopGeneric(unblockClient(s, c), c, selectedDb[c], s.call[c].keys,
                       s.call[c].left, s.call[c].timeout, s.call[c].waited)

\* The first client in the queue of the key, and only that one, is unblocked and its
\* command executed again in its own database; that may block it again, at the tail.
handleClientsBlockedOnKey(s, k) ==
  IF s.waiting[k] = <<>> THEN s
  ELSE LET c == Head(s.waiting[k])
           r == bpopGeneric(unblockClient(s, c), c, selectedDb[c], s.call[c].keys,
                            s.call[c].left, s.call[c].timeout, s.call[c].waited)
       IN  [r EXCEPT !.armed = @ \cup {c}]

\* Faulty: the key's first waiter is woken before the values are pushed.
pushGenericWakeFirst(s, c, d, k, vals, left) ==
  LET woken == handleClientsBlockedOnKey(s, k)
  IN  [addReply(woken, c) EXCEPT !.lists[d][k] = IF left THEN Reverse(vals) \o @ ELSE @ \o vals]

\* All values are pushed, the length is replied, then the key's first waiter is served.
pushGeneric(s, c, d, k, vals, left) ==
  handleClientsBlockedOnKey(
    [addReply(s, c) EXCEPT !.lists[d][k] = IF left THEN Reverse(vals) \o @ ELSE @ \o vals],
    k)

\* The timeout pass of serverCron, for the clients in T: a null reply, no write handler.
timeOut(s, T) ==
  [s EXCEPT !.pending = @ \cup T,
            !.call = [c \in Clients |-> IF c \in T THEN NoCall ELSE @[c]],
            !.waiting = [k \in Keys |-> Without(@[k], T)]]

\* The end of onReadable: a client with output gets a write handler.
afterRead(s, c) == [s EXCEPT !.armed = IF c \in s.pending THEN @ \cup {c} ELSE @]

-----------------------------------------------------------------------------
(* Actions.                                                                *)

\* A client the server reads a command from and executes it.
CanRun(c, op) == op \in Ops /\ c \in connected /\ ~Blocked(srv, c)

\* n new elements.
Fresh(n) == [i \in 1 .. n |-> pushed + i]

LPush(c, k, n) ==
  /\ CanRun(c, "LPUSH")
  /\ pushed + n <= MaxElems
  /\ pushed' = pushed + n
  /\ srv' = afterRead(pushGeneric(srv, c, selectedDb[c], k, Fresh(n), TRUE), c)
  /\ UNCHANGED <<selectedDb, connected>>

\* rpushCommand calls pushGeneric twice.
RPush(c, k, n) ==
  /\ CanRun(c, "RPUSH")
  /\ pushed + n <= MaxElems
  /\ pushed' = pushed + n
  /\ LET d    == selectedDb[c]
         once == pushGeneric(srv, c, d, k, Fresh(n), FALSE)
     IN  srv' = afterRead(pushGeneric(once, c, d, k, Fresh(n), FALSE), c)
  /\ UNCHANGED <<selectedDb, connected>>

\* LPOP and RPOP; a missing list is answered with null.
Pop(c, k, left) ==
  /\ CanRun(c, "POP")
  /\ LET d == selectedDb[c]
     IN  srv' = afterRead(IF srv.lists[d][k] = <<>> THEN addReply(srv, c)
                          ELSE pop(srv, c, d, k, left), c)
  /\ UNCHANGED <<selectedDb, connected, pushed>>

BPop(c, keys, left, timeout) ==
  /\ CanRun(c, "BPOP")
  /\ srv' = afterRead(bpopGeneric(srv, c, selectedDb[c], keys, left, timeout, 0), c)
  /\ UNCHANGED <<selectedDb, connected, pushed>>

\* RENAME of a list wakes nobody.
Rename(c, k, new) ==
  /\ CanRun(c, "RENAME")
  /\ LET d == selectedDb[c]
         list == srv.lists[d][k]
     IN  srv' = afterRead(addReply(IF list = <<>> THEN srv
           ELSE [srv EXCEPT !.lists[d] = [@ EXCEPT ![k] = <<>>, ![new] = list]], c), c)
  /\ UNCHANGED <<selectedDb, connected, pushed>>

Select(c, d) ==
  /\ CanRun(c, "SELECT")
  /\ selectedDb' = [selectedDb EXCEPT ![c] = d]
  /\ srv' = afterRead(addReply(srv, c), c)
  /\ UNCHANGED <<connected, pushed>>

\* processClientInput consumes what a blocked client sends and executes none of it.
ReadBlocked(c) ==
  /\ "PIPELINE" \in Ops
  /\ c \in connected /\ Blocked(srv, c)
  /\ srv' = afterRead(srv, c)
  /\ UNCHANGED <<selectedDb, connected, pushed>>

\* onWritable: the output leaves and the handler is removed.
Writable(c) ==
  /\ c \in srv.armed
  /\ srv' = [srv EXCEPT !.pending = @ \ {c}, !.armed = @ \ {c}]
  /\ UNCHANGED <<selectedDb, connected, pushed>>

\* Faulty: the write handler of the descriptor stays installed.
CloseClientKeepsHandler(c) ==
  /\ "CLOSE" \in Ops
  /\ c \in connected
  /\ connected' = connected \ {c}
  /\ selectedDb' = [selectedDb EXCEPT ![c] = 0]
  /\ srv' = [unblockClient(srv, c) EXCEPT !.pending = @ \ {c}]
  /\ UNCHANGED pushed

\* closeClient and the destruction of the Client.
CloseClient(c) ==
  /\ "CLOSE" \in Ops
  /\ c \in connected
  /\ connected' = connected \ {c}
  /\ selectedDb' = [selectedDb EXCEPT ![c] = 0]
  /\ srv' = [unblockClient(srv, c) EXCEPT !.pending = @ \ {c}, !.armed = @ \ {c}]
  /\ UNCHANGED pushed

Connect(c) ==
  /\ c \notin connected
  /\ connected' = connected \cup {c}
  /\ UNCHANGED <<srv, selectedDb, pushed>>

\* Faulty: compares with > instead of >=.
DueStrict(s) ==
  {c \in Clients : s.call[c].timeout > 0 /\ s.call[c].timer = 0
                      /\ s.call[c].waited > s.call[c].timeout}

\* The clients whose blockTimeout_ has passed.
Due(s) == {c \in Clients : s.call[c].timeout > 0 /\ s.call[c].timer = 0}

\* A call one period later.  The age of a call is capped just above the longest timeout.
MaxWait == Max(Timeouts) + 1
Older(x) == [x EXCEPT !.timer = Max({0, @ - 1}), !.waited = Min({MaxWait, @ + 1})]

\* One period passes and serverCron runs.
Cron ==
  LET aged == [srv EXCEPT !.call = [c \in Clients |->
                 IF Blocked(srv, c) THEN Older(srv.call[c]) ELSE srv.call[c]]]
  IN  /\ srv' = timeOut(aged, Due(aged))
      /\ UNCHANGED <<selectedDb, connected, pushed>>

Init ==
  /\ srv = InitSrv
  /\ selectedDb = [c \in Clients |-> 0]
  /\ connected = Clients
  /\ pushed = 0

Next ==
  \/ \E c \in Clients :
       \/ \E k \in Keys, n \in PushSizes : LPush(c, k, n) \/ RPush(c, k, n)
       \/ \E k \in Keys, left \in BOOLEAN : Pop(c, k, left)
       \/ \E keys \in KeyLists, left \in BOOLEAN, timeout \in Timeouts :
            BPop(c, keys, left, timeout)
       \/ \E k, new \in Keys : Rename(c, k, new)
       \/ \E d \in Dbs : Select(c, d)
       \/ ReadBlocked(c) \/ Writable(c) \/ CloseClient(c) \/ Connect(c)
  \/ Cron

Spec == Init /\ [][Next]_vars

\* The event loop polls every descriptor with a handler, and runs serverCron, again and again.
FairSpec == Spec /\ WF_vars(Cron) /\ \A c \in Clients : WF_vars(Writable(c))

-----------------------------------------------------------------------------
(* Properties.                                                             *)

\* Queues, calls, replies and handlers have the types of the members they model, and only a
\* connected client has a handler.
TypeOK ==
  /\ srv.lists \in [Dbs -> [Keys -> Seq(Elems)]]
  /\ srv.waiting \in [Keys -> Seq(Clients)]
  /\ srv.pending \subseteq connected
  /\ srv.armed \subseteq connected
  /\ selectedDb \in [Clients -> Dbs]
  /\ pushed \in 0 .. MaxElems

\* The queue of a key holds exactly the clients that are blocked on it, all of them
\* connected: after a wake-up, a timeout or a disconnection no queue keeps the pointer of a
\* client that no longer waits, whatever keys the client waited for.
QueuesMatchCalls ==
  \A k \in Keys, c \in Clients :
    c \in ToSet(srv.waiting[k])
      <=> c \in connected /\ k \in ToSet(srv.call[c].keys)

\* How often an element is stored.
Stored(e) ==
  LET at(d, k) == {i \in DOMAIN srv.lists[d][k] : srv.lists[d][k][i] = e}
  IN  Cardinality(UNION {{<<d, k, i>> : i \in at(d, k)} : d \in Dbs, k \in Keys})

\* A pushed element is in one list or was handed to one client, never both, never twice,
\* never neither: pops, wake-ups and timeouts neither lose nor duplicate data.
EveryElementOnce ==
  \A e \in 1 .. pushed : Stored(e) + srv.handed[e] = 1

\* No client waits for a list that has elements.
NobodyWaitsForElements ==
  \A c \in Clients : \A i \in DOMAIN srv.call[c].keys :
    srv.lists[selectedDb[c]][srv.call[c].keys[i]] = <<>>

\* A client that gave a timeout is not kept waiting beyond it.
TimeoutHonoured ==
  \A c \in Clients : srv.call[c].timeout > 0 => srv.call[c].waited < srv.call[c].timeout

\* Every reply is sent.
EveryReplySent == \A c \in Clients : (c \in srv.pending) ~> (c \notin srv.pending)
=============================================================================
