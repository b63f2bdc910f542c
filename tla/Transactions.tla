---------------------------- MODULE Transactions ----------------------------
(***************************************************************************)
(* Clients, WATCH and MULTI/EXEC over several logical databases:           *)
(* Server::executeCommand and closeClient (server/server.cpp), the         *)
(* handlers of commands/transaction_commands.cpp, the per-client state of  *)
(* networking/client.h and the watcher table of storage/db.cpp.            *)
(*                                                                         *)
(* The server is single-threaded: a command runs to its end before the     *)
(* next one starts.  The loop of EXEC is unrolled, one step per queued     *)
(* command, and while it runs no other action is enabled.                  *)
(***************************************************************************)
EXTENDS Database, Sequences

CONSTANTS
  Clients,     \* connection slots
  NumDbs,      \* config.databases
  Commands,    \* the commands clients issue
  MaxQueue,    \* bound on queued commands per client
  MaxTime,     \* bound on the clock
  MaxSamples   \* entries of expires_ one activeExpireCycle looks at (20)

ASSUME NumDbsAssumption == NumDbs \in Nat \ {0}

Dbs == 0 .. NumDbs - 1

\* "upper" says that the client spelled the name in capitals: the registry looks
\* names up in any case, the queueing test of executeCommand compares capitals.
ControlOps == {"MULTI", "EXEC", "DISCARD", "UNWATCH", "WATCH"}
ControlCommands == [op : ControlOps \ {"WATCH"}, upper : BOOLEAN]
                     \cup [op : {"WATCH"}, upper : BOOLEAN, keys : SUBSET Keys]
SelectCommands == [op : {"SELECT"}, db : Int]

ASSUME CommandsAssumption ==
  Commands \subseteq DataCommands \cup ControlCommands \cup SelectCommands

VARIABLES
  data, expires,   \* per database: data_ and expires_
  watchedKeys,     \* per database: watchedKeys_, who watches a key
  now,             \* system_clock
  connected,       \* clients the connection manager holds
  multi,           \* clients with CLIENT_MULTI
  dirtyExec,       \* clients with CLIENT_DIRTY_EXEC
  queue,           \* transactionQueue_ of each client
  watched,         \* watchedKeys_ of each client (names only, no database)
  selectedDb,      \* selectedDb_ of each client
  running,         \* commands the EXEC loop of a client has still to run
  snap             \* history: the object each watch was taken on

vars == <<data, expires, watchedKeys, now, connected, multi, dirtyExec, queue,
          watched, selectedDb, running, snap>>

keyspace == <<data, expires>>
session  == <<connected, multi, queue, watched, selectedDb>>

NoSnap == [type |-> "unwatched"]
NoSnaps == [d \in Dbs |-> [k \in Keys |-> NoSnap]]

\* Clients, databases and watcher tables have the types of the members they model.
TypeOK ==
  /\ data \in [Dbs -> [Keys -> Objects \cup {Missing}]]
  /\ expires \in [Dbs -> [Keys -> Int \cup {NoTTL}]]
  /\ watchedKeys \in [Dbs -> [Keys -> SUBSET Clients]]
  /\ now \in Nat
  /\ connected \in SUBSET Clients
  /\ multi \in SUBSET Clients
  /\ dirtyExec \in SUBSET Clients
  /\ queue \in [Clients -> Seq(Commands)]
  /\ watched \in [Clients -> SUBSET Keys]
  /\ selectedDb \in [Clients -> Dbs]
  /\ running \in [Clients -> Seq(Commands)]
  /\ snap \in [Clients -> [Dbs -> [Keys -> Objects \cup {Missing, NoSnap}]]]

Init ==
  /\ data = [d \in Dbs |-> [k \in Keys |-> Missing]]
  /\ expires = [d \in Dbs |-> [k \in Keys |-> NoTTL]]
  /\ watchedKeys = [d \in Dbs |-> [k \in Keys |-> {}]]
  /\ now = 0
  /\ connected = {}
  /\ multi = {}
  /\ dirtyExec = {}
  /\ queue = [c \in Clients |-> <<>>]
  /\ watched = [c \in Clients |-> {}]
  /\ selectedDb = [c \in Clients |-> 0]
  /\ running = [c \in Clients |-> <<>>]
  /\ snap = [c \in Clients |-> NoSnaps]

-----------------------------------------------------------------------------
(* The keyspace, and the flags touchWatchedKey raises.                     *)

Open(d) == [data |-> data[d], expires |-> expires[d], touched |-> {}]

\* touchWatchedKey looks the key up in the table of its own database.
Watchers(d, K) == {c \in Clients : \E k \in K : c \in watchedKeys[d][k]}

\* Database d becomes db, and the watchers of what was touched become dirty.
Commit(d, db) ==
  /\ data' = [data EXCEPT ![d] = db.data]
  /\ expires' = [expires EXCEPT ![d] = db.expires]
  /\ dirtyExec' = dirtyExec \cup Watchers(d, db.touched)

-----------------------------------------------------------------------------
(* Handlers.  Each leaves "rest" for the EXEC loop that called it.         *)

Continue(c, rest) == running' = [running EXCEPT ![c] = rest]

DataCommand(c, cmd, rest) ==
  /\ cmd.op \notin ControlOps \cup {"SELECT"}
  /\ Commit(selectedDb[c], Apply(Open(selectedDb[c]), cmd, now))
  /\ Continue(c, rest)
  /\ UNCHANGED <<watchedKeys, now, session, snap>>

Select(c, cmd, rest) ==
  /\ cmd.op = "SELECT"
  /\ selectedDb' = [selectedDb EXCEPT ![c] = IF cmd.db \in Dbs THEN cmd.db ELSE @]
  /\ Continue(c, rest)
  /\ UNCHANGED <<keyspace, watchedKeys, now, connected, multi, dirtyExec, queue,
                 watched, snap>>

\* A nested MULTI is refused: the flag is set already.
Multi(c, cmd, rest) ==
  /\ cmd.op = "MULTI"
  /\ multi' = multi \cup {c}
  /\ Continue(c, rest)
  /\ UNCHANGED <<keyspace, watchedKeys, now, connected, dirtyExec, queue, watched,
                 selectedDb, snap>>

\* Faulty: the abort mark survives.
clearTransactionKeepDirty(c) ==
  /\ queue' = [queue EXCEPT ![c] = <<>>]
  /\ multi' = multi \ {c}
  /\ UNCHANGED dirtyExec

\* Faulty: the queue survives.
clearTransactionKeepQueue(c) ==
  /\ multi' = multi \ {c}
  /\ dirtyExec' = dirtyExec \ {c}
  /\ UNCHANGED queue

clearTransaction(c) ==
  /\ queue' = [queue EXCEPT ![c] = <<>>]
  /\ multi' = multi \ {c}
  /\ dirtyExec' = dirtyExec \ {c}

\* The watch is over once EXEC has decided; the code leaves the client registered.
EndWatch(c) == snap' = [snap EXCEPT ![c] = NoSnaps]

\* EXEC without MULTI is refused.  A dirty client's queue is dropped; otherwise the
\* queue is copied, the transaction cleared, and the copy run by ExecLoop.
Exec(c, cmd, rest) ==
  /\ cmd.op = "EXEC"
  /\ IF c \in multi
     THEN /\ Continue(c, IF c \in dirtyExec THEN rest ELSE queue[c] \o rest)
          /\ clearTransaction(c)
          /\ EndWatch(c)
     ELSE /\ Continue(c, rest)
          /\ UNCHANGED <<queue, multi, dirtyExec, snap>>
  /\ UNCHANGED <<keyspace, watchedKeys, now, connected, watched, selectedDb>>

\* Faulty: looks at the selected database only.
unwatchSelectedDb(c) ==
  /\ watchedKeys' = [d \in Dbs |-> [k \in Keys |->
        IF k \in watched[c] /\ d = selectedDb[c]
        THEN watchedKeys[d][k] \ {c} ELSE watchedKeys[d][k]]]
  /\ watched' = [watched EXCEPT ![c] = {}]

\* removeWatchedKey for every watched name in every database.
unwatchAll(c) ==
  /\ watchedKeys' = [d \in Dbs |-> [k \in Keys |->
        IF k \in watched[c] THEN watchedKeys[d][k] \ {c} ELSE watchedKeys[d][k]]]
  /\ watched' = [watched EXCEPT ![c] = {}]

Discard(c, cmd, rest) ==
  /\ cmd.op = "DISCARD"
  /\ IF c \in multi
     THEN unwatchAll(c) /\ clearTransaction(c) /\ EndWatch(c)
     ELSE UNCHANGED <<watchedKeys, watched, queue, multi, dirtyExec, snap>>
  /\ Continue(c, rest)
  /\ UNCHANGED <<keyspace, now, connected, selectedDb>>

\* Registers the client in the selected database; refused inside MULTI.
Watch(c, cmd, rest) ==
  /\ cmd.op = "WATCH"
  /\ IF c \in multi
     THEN UNCHANGED <<watchedKeys, watched, snap>>
     ELSE LET d == selectedDb[c]
          IN  /\ watched' = [watched EXCEPT ![c] = @ \cup cmd.keys]
              /\ watchedKeys' = [watchedKeys EXCEPT ![d] = [k \in Keys |->
                    IF k \in cmd.keys THEN watchedKeys[d][k] \cup {c} ELSE watchedKeys[d][k]]]
              /\ snap' = [snap EXCEPT ![c][d] = [k \in Keys |->
                    IF k \in cmd.keys /\ snap[c][d][k] = NoSnap THEN data[d][k] ELSE snap[c][d][k]]]
  /\ Continue(c, rest)
  /\ UNCHANGED <<keyspace, now, connected, multi, dirtyExec, queue, selectedDb>>

\* UNWATCH is served even inside MULTI.
Unwatch(c, cmd, rest) ==
  /\ cmd.op = "UNWATCH"
  /\ unwatchAll(c)
  /\ dirtyExec' = dirtyExec \ {c}
  /\ EndWatch(c)
  /\ Continue(c, rest)
  /\ UNCHANGED <<keyspace, now, connected, multi, queue, selectedDb>>

Handler(c, cmd, rest) ==
  \/ DataCommand(c, cmd, rest)
  \/ Select(c, cmd, rest)
  \/ Multi(c, cmd, rest)
  \/ Exec(c, cmd, rest)
  \/ Discard(c, cmd, rest)
  \/ Watch(c, cmd, rest)
  \/ Unwatch(c, cmd, rest)

-----------------------------------------------------------------------------
(* The event loop.                                                         *)

Idle == \A c \in Clients : running[c] = <<>>

\* Commands executeCommand serves at once although the client is in MULTI.
NotQueued(cmd) == cmd.op \in ControlOps /\ cmd.upper

Enqueue(c, cmd) ==
  /\ Idle
  /\ c \in connected /\ c \in multi /\ ~NotQueued(cmd)
  /\ Len(queue[c]) < MaxQueue
  /\ queue' = [queue EXCEPT ![c] = Append(@, cmd)]
  /\ UNCHANGED <<keyspace, watchedKeys, now, connected, multi, dirtyExec, watched,
                 selectedDb, running, snap>>

Execute(c, cmd) ==
  /\ Idle
  /\ c \in connected /\ (c \in multi => NotQueued(cmd))
  /\ Handler(c, cmd, <<>>)

\* One iteration of the loop of EXEC: the handler is called directly.
ExecLoop(c) ==
  /\ running[c] # <<>>
  /\ Handler(c, Head(running[c]), Tail(running[c]))

\* A new connection starts with no flags, in database 0.
Connect(c) ==
  /\ Idle
  /\ c \notin connected
  /\ connected' = connected \cup {c}
  /\ UNCHANGED <<keyspace, watchedKeys, now, multi, dirtyExec, queue, watched,
                 selectedDb, running, snap>>

\* closeClient, then the Client object is destroyed.
CloseClient(c) ==
  /\ Idle
  /\ c \in connected
  /\ unwatchAll(c)
  /\ clearTransaction(c)
  /\ EndWatch(c)
  /\ connected' = connected \ {c}
  /\ selectedDb' = [selectedDb EXCEPT ![c] = 0]
  /\ UNCHANGED <<keyspace, now, running>>

\* serverCron runs activeExpireCycle on every database; which entries of expires_ are
\* the first MaxSamples is up to the hash map.
Samples(d) ==
  LET volatile == {k \in Keys : expires[d][k] # NoTTL}
  IN  {S \in SUBSET volatile :
         \/ S = volatile /\ Cardinality(S) <= MaxSamples
         \/ Cardinality(S) = MaxSamples}

Cron ==
  /\ Idle
  /\ \E S \in [Dbs -> SUBSET Keys] :
       LET db(d) == checkAndExpire(Open(d), S[d], now)
       IN  /\ \A d \in Dbs : S[d] \in Samples(d)
           /\ data' = [d \in Dbs |-> db(d).data]
           /\ expires' = [d \in Dbs |-> db(d).expires]
           /\ dirtyExec' = dirtyExec \cup UNION {Watchers(d, db(d).touched) : d \in Dbs}
  /\ UNCHANGED <<watchedKeys, now, session, running, snap>>

Tick ==
  /\ Idle
  /\ now < MaxTime
  /\ now' = now + 1
  /\ UNCHANGED <<keyspace, watchedKeys, dirtyExec, session, running, snap>>

Next ==
  \/ \E c \in Clients :
       \/ \E cmd \in Commands : Enqueue(c, cmd) \/ Execute(c, cmd)
       \/ ExecLoop(c)
       \/ Connect(c)
       \/ CloseClient(c)
  \/ Cron
  \/ Tick

Spec == Init /\ [][Next]_vars

-----------------------------------------------------------------------------
(* Properties.                                                             *)

\* A registration in a database's watcher table belongs to a connected client that
\* still lists the key, and every listed key is registered somewhere: touchWatchedKey
\* never follows the pointer of a destroyed client, although a client remembers only
\* key names and may have switched database since WATCH.
WatchTableConsistent ==
  \A c \in Clients, k \in Keys :
    /\ \A d \in Dbs : c \in watchedKeys[d][k] => c \in connected /\ k \in watched[c]
    /\ k \in watched[c] => \E d \in Dbs : c \in watchedKeys[d][k]

\* A key has a deadline only while it exists, whatever sequence of commands, renames
\* and expirations led here: no leftover TTL can delete a key created later.
NoOrphanTTL ==
  \A d \in Dbs, k \in Keys : expires[d][k] # NoTTL => data[d][k] # Missing

\* Optimistic locking: when a key under watch was created, deleted, expired or replaced
\* by an object of another type since WATCH, its watcher is dirty, so EXEC will refuse.
KindChangeIsSeen ==
  \A c \in Clients, d \in Dbs, k \in Keys :
    snap[c][d][k].type \notin {"unwatched", data[d][k].type} => c \in dirtyExec

\* Optimistic locking on values: any change of a key under watch makes its watcher dirty.
ValueChangeIsSeen ==
  \A c \in Clients, d \in Dbs, k \in Keys :
    snap[c][d][k] \notin {NoSnap, data[d][k]} => c \in dirtyExec

\* Lazy expiration cannot be observed through the commands that expire a key before they
\* use it: in every reachable database they do what they would do had the expired keys
\* been removed already.
CheckedCommandsSeeNoExpiredKey ==
  \A d \in Dbs : \A cmd \in Commands :
    cmd.op \in CheckedOps => ExpiryIsInvisible(Open(d), cmd, now)

\* Only a client that still has keys registered can have its EXEC refused.
DirtyClientsWatch == \A c \in dirtyExec : watched[c] # {}

\* Only a client with a watch of the current MULTI/EXEC block can have its EXEC refused.  No run
\* claims it: EXEC leaves its client registered, and a later block may be refused for it.
RefusalNeedsWatch ==
  \A c \in dirtyExec : \E d \in Dbs, k \in Keys : snap[c][d][k] # NoSnap

\* MULTI, EXEC, DISCARD, WATCH and UNWATCH are never queued behind a MULTI.  No run claims it:
\* spelled in small letters they are.
ControlNeverQueued ==
  \A c \in Clients : \A i \in DOMAIN queue[c] : queue[c][i].op \notin ControlOps

\* What EXEC starts to run is what one client queued, only one client runs a queue at a
\* time, and a client that is not in MULTI has nothing queued.
OneTransactionRuns ==
  /\ \A c, e \in Clients : running[c] # <<>> /\ running[e] # <<>> => c = e
  /\ \A c \in Clients : queue[c] # <<>> => c \in multi
  /\ \A c \in Clients : running[c] # <<>> => queue[c] = <<>>
=============================================================================
