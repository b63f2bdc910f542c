------------------------- MODULE TransactionsProofs -------------------------
(***************************************************************************)
(* Proofs about Transactions, for any number of clients, databases and     *)
(* keys, any command set, and no bound on queues or time.                  *)
(*                                                                         *)
(* The inductive invariant adds two facts to the properties: a watch that  *)
(* is under way is registered in the database it was taken in, and a       *)
(* client whose queue runs is connected.                                   *)
(***************************************************************************)
EXTENDS Transactions, DatabaseProofs

SnapRegistered ==
  \A c \in Clients, d \in Dbs, k \in Keys :
    snap[c][d][k] # NoSnap => c \in watchedKeys[d][k]

RunnerConnected == \A c \in Clients : running[c] # <<>> => c \in connected

IInv ==
  /\ TypeOK
  /\ WatchTableConsistent
  /\ NoOrphanTTL
  /\ SnapRegistered
  /\ KindChangeIsSeen
  /\ DirtyClientsWatch
  /\ OneTransactionRuns
  /\ RunnerConnected

\* What holds when the handler of cmd is called for client c.
Ready(c, cmd, rest) ==
  /\ c \in connected /\ c \in Clients
  /\ cmd \in Commands
  /\ rest \in Seq(Commands)
  /\ \A e \in Clients \ {c} : running[e] = <<>>
  /\ rest # <<>> => queue[c] = <<>>

\* Initially nothing is stored, watched, queued or running.
LEMMA InitInv == Init => IInv
<1> SUFFICES ASSUME Init PROVE IInv
  OBVIOUS
<1>1. TypeOK
  BY NumDbsAssumption DEF Init, TypeOK, NoSnaps, Dbs
<1>2. \A c \in Clients, d \in Dbs, k \in Keys : snap[c][d][k] = NoSnap
  BY DEF Init, NoSnaps
<1>3. WatchTableConsistent /\ NoOrphanTTL /\ DirtyClientsWatch /\ OneTransactionRuns
        /\ RunnerConnected
  BY DEF Init, WatchTableConsistent, NoOrphanTTL, DirtyClientsWatch, OneTransactionRuns,
         RunnerConnected
<1>4. SnapRegistered /\ KindChangeIsSeen
  BY <1>2 DEF SnapRegistered, KindChangeIsSeen, NoSnap
<1> QED
  BY <1>1, <1>3, <1>4 DEF IInv

\* A command handed to the data handlers is a data command.
LEMMA DataCommandType ==
  ASSUME NEW cmd \in Commands, cmd.op \notin ControlOps \cup {"SELECT"}
  PROVE  cmd \in DataCommands
BY CommandsAssumption DEF ControlOps, ControlCommands, SelectCommands

\* An open database has the type of a database value.
LEMMA OpenType ==
  ASSUME TypeOK, NEW d \in Dbs
  PROVE  Open(d) \in DbType
BY DEF TypeOK, Open, DbType

\* Committing a sound change of one database keeps what the invariant says of the keyspace.
LEMMA CommitInv ==
  ASSUME IInv, NEW d \in Dbs, NEW db, Sound(Open(d), db), Commit(d, db),
         UNCHANGED <<watchedKeys, session, snap>>
  PROVE  /\ data' \in [Dbs -> [Keys -> Objects \cup {Missing}]]
         /\ expires' \in [Dbs -> [Keys -> Int \cup {NoTTL}]]
         /\ dirtyExec' \in SUBSET Clients
         /\ NoOrphanTTL' /\ KindChangeIsSeen' /\ DirtyClientsWatch'
<1>1. db \in DbType /\ Open(d) \in DbType
  BY OpenType DEF Sound, IInv
<1>2. /\ data' \in [Dbs -> [Keys -> Objects \cup {Missing}]]
      /\ expires' \in [Dbs -> [Keys -> Int \cup {NoTTL}]]
      /\ dirtyExec' \in SUBSET Clients
  BY <1>1 DEF Commit, DbType, IInv, TypeOK, Watchers
<1>3. NoOrphanTTL'
  <2>1. NoOrphan(Open(d))
    BY DEF IInv, NoOrphanTTL, NoOrphan, Open
  <2>2. NoOrphan(db)
    BY <2>1 DEF Sound
  <2> QED
    BY <1>1, <2>2 DEF Commit, IInv, TypeOK, NoOrphanTTL, NoOrphan, DbType
<1>4. KindChangeIsSeen'
  <2> SUFFICES ASSUME NEW c \in Clients, NEW e \in Dbs, NEW k \in Keys,
                      snap[c][e][k].type \notin {"unwatched", data'[e][k].type}
               PROVE  c \in dirtyExec'
    BY DEF KindChangeIsSeen, session
  <2>1. CASE snap[c][e][k].type # data[e][k].type
    BY <2>1 DEF IInv, KindChangeIsSeen, Commit
  <2>2. CASE snap[c][e][k].type = data[e][k].type
    <3>1. e = d
      BY <2>2 DEF Commit, IInv, TypeOK
    <3>2. data'[d][k] = db.data[k]
      BY DEF Commit, IInv, TypeOK
    <3>3. k \in db.touched
      BY <2>2, <3>1, <3>2 DEF Sound, Open
    <3>4. c \in watchedKeys[d][k]
      BY <3>1 DEF IInv, SnapRegistered, NoSnap
    <3> QED
      BY <3>3, <3>4 DEF Commit, Watchers
  <2> QED
    BY <2>1, <2>2
<1>5. DirtyClientsWatch'
  <2> SUFFICES ASSUME NEW c \in dirtyExec' PROVE watched[c] # {}
    BY DEF DirtyClientsWatch, session
  <2>1. CASE c \in dirtyExec
    BY <2>1 DEF IInv, DirtyClientsWatch
  <2>2. CASE c \in Watchers(d, db.touched)
    BY <2>2, <1>1 DEF Watchers, IInv, WatchTableConsistent, DbType
  <2> QED
    BY <2>1, <2>2 DEF Commit
<1> QED
  BY <1>2, <1>3, <1>4, <1>5

-----------------------------------------------------------------------------
(* One lemma per handler.                                                  *)

\* Data commands.
LEMMA DataCommandInv ==
  ASSUME IInv, NEW c, NEW cmd, NEW rest, Ready(c, cmd, rest), DataCommand(c, cmd, rest)
  PROVE  IInv'
<1> DEFINE d == selectedDb[c]
           db == Apply(Open(d), cmd, now)
<1>1. d \in Dbs /\ now \in Int
  BY DEF IInv, TypeOK, Ready
<1>2. Sound(Open(d), db)
  BY <1>1, OpenType, DataCommandType, ApplySound DEF IInv, DataCommand, Ready
<1>3. Commit(d, db) /\ UNCHANGED <<watchedKeys, session, snap>>
  BY DEF DataCommand
<1> HIDE DEF d, db
<1>4. /\ data' \in [Dbs -> [Keys -> Objects \cup {Missing}]]
      /\ expires' \in [Dbs -> [Keys -> Int \cup {NoTTL}]]
      /\ dirtyExec' \in SUBSET Clients
      /\ NoOrphanTTL' /\ KindChangeIsSeen' /\ DirtyClientsWatch'
  BY <1>1, <1>2, <1>3, CommitInv
<1>5. TypeOK'
  BY <1>4 DEF DataCommand, Continue, session, IInv, TypeOK, Ready
<1>6. WatchTableConsistent' /\ SnapRegistered'
  BY DEF DataCommand, session, IInv, WatchTableConsistent, SnapRegistered
<1>7. OneTransactionRuns' /\ RunnerConnected'
  BY DEF DataCommand, Continue, session, IInv, TypeOK, OneTransactionRuns, RunnerConnected,
         Ready
<1> QED
  BY <1>4, <1>5, <1>6, <1>7 DEF IInv

\* SELECT.
LEMMA SelectInv ==
  ASSUME IInv, NEW c, NEW cmd, NEW rest, Ready(c, cmd, rest), Select(c, cmd, rest)
  PROVE  IInv'
<1>1. TypeOK'
  BY DEF Select, Continue, keyspace, IInv, TypeOK, Ready
<1>2. /\ WatchTableConsistent' /\ NoOrphanTTL' /\ SnapRegistered' /\ KindChangeIsSeen'
      /\ DirtyClientsWatch'
  BY DEF Select, keyspace, IInv, WatchTableConsistent, NoOrphanTTL, SnapRegistered,
         KindChangeIsSeen, DirtyClientsWatch
<1>3. OneTransactionRuns' /\ RunnerConnected'
  BY DEF Select, Continue, IInv, TypeOK, OneTransactionRuns, RunnerConnected, Ready
<1> QED
  BY <1>1, <1>2, <1>3 DEF IInv

\* MULTI.
LEMMA MultiInv ==
  ASSUME IInv, NEW c, NEW cmd, NEW rest, Ready(c, cmd, rest), Multi(c, cmd, rest)
  PROVE  IInv'
<1>1. TypeOK'
  BY DEF Multi, Continue, keyspace, IInv, TypeOK, Ready
<1>2. /\ WatchTableConsistent' /\ NoOrphanTTL' /\ SnapRegistered' /\ KindChangeIsSeen'
      /\ DirtyClientsWatch'
  BY DEF Multi, keyspace, IInv, WatchTableConsistent, NoOrphanTTL, SnapRegistered,
         KindChangeIsSeen, DirtyClientsWatch
<1>3. OneTransactionRuns' /\ RunnerConnected'
  BY DEF Multi, Continue, IInv, TypeOK, OneTransactionRuns, RunnerConnected, Ready
<1> QED
  BY <1>1, <1>2, <1>3 DEF IInv

\* Ending the watches of c leaves those of the others alone.
LEMMA EndWatchFacts ==
  ASSUME TypeOK, NEW c \in Clients, EndWatch(c)
  PROVE  /\ snap' \in [Clients -> [Dbs -> [Keys -> Objects \cup {Missing, NoSnap}]]]
         /\ \A d \in Dbs, k \in Keys : snap'[c][d][k] = NoSnap
         /\ \A e \in Clients \ {c} : snap'[e] = snap[e]
BY DEF EndWatch, NoSnaps, TypeOK

\* Clearing the transaction and the watches of c.
LEMMA ClearFacts ==
  ASSUME IInv, NEW c \in Clients, clearTransaction(c), EndWatch(c), UNCHANGED keyspace
  PROVE  /\ queue' \in [Clients -> Seq(Commands)]
         /\ multi' \in SUBSET Clients /\ dirtyExec' \in SUBSET Clients
         /\ queue'[c] = <<>>
         /\ \A e \in Clients \ {c} : queue'[e] = queue[e] /\ (e \in multi' <=> e \in multi)
         /\ KindChangeIsSeen' /\ NoOrphanTTL'
<1>1. /\ queue' \in [Clients -> Seq(Commands)]
      /\ multi' \in SUBSET Clients /\ dirtyExec' \in SUBSET Clients
      /\ queue'[c] = <<>>
      /\ \A e \in Clients \ {c} : queue'[e] = queue[e] /\ (e \in multi' <=> e \in multi)
  BY DEF clearTransaction, IInv, TypeOK
<1>2. \A d \in Dbs, k \in Keys : snap'[c][d][k] = NoSnap
  BY EndWatchFacts DEF IInv
<1>3. \A e \in Clients \ {c} : snap'[e] = snap[e]
  BY EndWatchFacts DEF IInv
<1>4. KindChangeIsSeen'
  BY <1>2, <1>3 DEF clearTransaction, keyspace, IInv, KindChangeIsSeen, NoSnap
<1>5. NoOrphanTTL'
  BY DEF keyspace, IInv, NoOrphanTTL
<1> QED
  BY <1>1, <1>4, <1>5

\* EXEC.
LEMMA ExecInv ==
  ASSUME IInv, NEW c, NEW cmd, NEW rest, Ready(c, cmd, rest), Exec(c, cmd, rest)
  PROVE  IInv'
<1>0. c \in Clients /\ TypeOK
  BY DEF Ready, IInv
<1>1. CASE c \in multi
  <2>1. clearTransaction(c) /\ EndWatch(c) /\ UNCHANGED keyspace
    BY <1>1 DEF Exec
  <2>2. /\ queue' \in [Clients -> Seq(Commands)]
        /\ multi' \in SUBSET Clients /\ dirtyExec' \in SUBSET Clients
        /\ queue'[c] = <<>>
        /\ \A e \in Clients \ {c} : queue'[e] = queue[e] /\ (e \in multi' <=> e \in multi)
        /\ KindChangeIsSeen' /\ NoOrphanTTL'
    BY <1>0, <2>1, ClearFacts
  <2>3. running' \in [Clients -> Seq(Commands)]
        /\ \A e \in Clients \ {c} : running'[e] = <<>>
    <3>1. queue[c] \o rest \in Seq(Commands)
      BY <1>0 DEF TypeOK, Ready
    <3> QED
      BY <1>0, <1>1, <3>1 DEF Exec, Continue, TypeOK, Ready
  <2>4. TypeOK'
    BY <1>0, <2>1, <2>2, <2>3, EndWatchFacts DEF Exec, keyspace, TypeOK
  <2>5. WatchTableConsistent' /\ SnapRegistered' /\ DirtyClientsWatch'
    <3>1. /\ \A d \in Dbs, k \in Keys : snap'[c][d][k] = NoSnap
          /\ \A e \in Clients \ {c} : snap'[e] = snap[e]
      BY <1>0, <2>1, EndWatchFacts
    <3>2. SnapRegistered'
      BY <3>1 DEF Exec, IInv, SnapRegistered
    <3>3. WatchTableConsistent' /\ DirtyClientsWatch'
      BY <1>1 DEF Exec, clearTransaction, IInv, WatchTableConsistent, DirtyClientsWatch
    <3> QED
      BY <3>2, <3>3
  <2>6. OneTransactionRuns' /\ RunnerConnected'
    BY <1>0, <2>2, <2>3 DEF Exec, IInv, OneTransactionRuns, RunnerConnected, Ready
  <2> QED
    BY <2>2, <2>4, <2>5, <2>6 DEF IInv
<1>2. CASE c \notin multi
  <2>1. UNCHANGED <<keyspace, watchedKeys, now, session, dirtyExec, snap>> /\ Continue(c, rest)
    BY <1>2 DEF Exec, session
  <2>2. TypeOK'
    BY <2>1 DEF Continue, keyspace, session, IInv, TypeOK, Ready
  <2>3. /\ WatchTableConsistent' /\ NoOrphanTTL' /\ SnapRegistered' /\ KindChangeIsSeen'
        /\ DirtyClientsWatch'
    BY <2>1 DEF keyspace, session, IInv, WatchTableConsistent, NoOrphanTTL, SnapRegistered,
                KindChangeIsSeen, DirtyClientsWatch
  <2>4. OneTransactionRuns' /\ RunnerConnected'
    BY <2>1 DEF Continue, session, IInv, TypeOK, OneTransactionRuns, RunnerConnected, Ready
  <2> QED
    BY <2>2, <2>3, <2>4 DEF IInv
<1> QED
  BY <1>1, <1>2

\* unwatchAll forgets client c in every database, because c lists every key it is
\* registered for, and forgets nobody else.
LEMMA UnwatchFacts ==
  ASSUME IInv, NEW c \in Clients, unwatchAll(c)
  PROVE  /\ watchedKeys' \in [Dbs -> [Keys -> SUBSET Clients]]
         /\ watched' \in [Clients -> SUBSET Keys]
         /\ watched'[c] = {}
         /\ \A d \in Dbs, k \in Keys : c \notin watchedKeys'[d][k]
         /\ \A e \in Clients \ {c} :
              /\ watched'[e] = watched[e]
              /\ \A d \in Dbs, k \in Keys : e \in watchedKeys'[d][k] <=> e \in watchedKeys[d][k]
<1>1. /\ watchedKeys' \in [Dbs -> [Keys -> SUBSET Clients]]
      /\ watched' \in [Clients -> SUBSET Keys]
  BY DEF unwatchAll, IInv, TypeOK
<1>2. watched'[c] = {} /\ \A e \in Clients \ {c} : watched'[e] = watched[e]
  BY DEF unwatchAll, IInv, TypeOK
<1>3. ASSUME NEW d \in Dbs, NEW k \in Keys
      PROVE  /\ c \notin watchedKeys'[d][k]
             /\ \A e \in Clients \ {c} : e \in watchedKeys'[d][k] <=> e \in watchedKeys[d][k]
  BY DEF unwatchAll, IInv, TypeOK, WatchTableConsistent
<1> QED
  BY <1>1, <1>2, <1>3

\* Ending the watches of c and its registrations together keeps the watch invariants; c may
\* also be disconnected at the same time.
LEMMA ForgetInv ==
  ASSUME IInv, NEW c \in Clients, unwatchAll(c), EndWatch(c),
         connected \ {c} \subseteq connected', dirtyExec' = dirtyExec \ {c}
  PROVE  WatchTableConsistent' /\ SnapRegistered' /\ DirtyClientsWatch'
<1>1. /\ \A d \in Dbs, k \in Keys : snap'[c][d][k] = NoSnap
      /\ \A e \in Clients \ {c} : snap'[e] = snap[e]
  BY EndWatchFacts DEF IInv
<1>2. /\ watched'[c] = {}
      /\ \A d \in Dbs, k \in Keys : c \notin watchedKeys'[d][k]
      /\ \A e \in Clients \ {c} :
           /\ watched'[e] = watched[e]
           /\ \A d \in Dbs, k \in Keys : e \in watchedKeys'[d][k] <=> e \in watchedKeys[d][k]
  BY UnwatchFacts
<1>3. SnapRegistered'
  BY <1>1, <1>2 DEF IInv, SnapRegistered
<1>4. WatchTableConsistent'
  BY <1>2 DEF IInv, WatchTableConsistent
<1>5. DirtyClientsWatch'
  BY <1>2 DEF IInv, DirtyClientsWatch, TypeOK
<1> QED
  BY <1>3, <1>4, <1>5

\* DISCARD.
LEMMA DiscardInv ==
  ASSUME IInv, NEW c, NEW cmd, NEW rest, Ready(c, cmd, rest), Discard(c, cmd, rest)
  PROVE  IInv'
<1>0. c \in Clients /\ TypeOK
  BY DEF Ready, IInv
<1>1. CASE c \in multi
  <2>1. /\ unwatchAll(c) /\ clearTransaction(c) /\ EndWatch(c)
        /\ UNCHANGED <<keyspace, now, connected, selectedDb>> /\ Continue(c, rest)
    BY <1>1 DEF Discard
  <2>2. /\ queue' \in [Clients -> Seq(Commands)]
        /\ multi' \in SUBSET Clients /\ dirtyExec' \in SUBSET Clients
        /\ queue'[c] = <<>>
        /\ \A e \in Clients \ {c} : queue'[e] = queue[e] /\ (e \in multi' <=> e \in multi)
        /\ KindChangeIsSeen' /\ NoOrphanTTL'
    BY <1>0, <2>1, ClearFacts
  <2>3. WatchTableConsistent' /\ SnapRegistered' /\ DirtyClientsWatch'
    BY <1>0, <2>1, ForgetInv DEF clearTransaction
  <2>4. TypeOK'
    BY <1>0, <2>1, <2>2, EndWatchFacts, UnwatchFacts DEF Continue, keyspace, TypeOK, Ready
  <2>5. OneTransactionRuns' /\ RunnerConnected'
    BY <1>0, <2>1, <2>2 DEF Continue, IInv, TypeOK, OneTransactionRuns, RunnerConnected, Ready
  <2> QED
    BY <2>2, <2>3, <2>4, <2>5 DEF IInv
<1>2. CASE c \notin multi
  <2>1. UNCHANGED <<keyspace, watchedKeys, now, session, dirtyExec, snap>> /\ Continue(c, rest)
    BY <1>2 DEF Discard, session
  <2>2. TypeOK'
    BY <2>1 DEF Continue, keyspace, session, IInv, TypeOK, Ready
  <2>3. /\ WatchTableConsistent' /\ NoOrphanTTL' /\ SnapRegistered' /\ KindChangeIsSeen'
        /\ DirtyClientsWatch'
    BY <2>1 DEF keyspace, session, IInv, WatchTableConsistent, NoOrphanTTL, SnapRegistered,
                KindChangeIsSeen, DirtyClientsWatch
  <2>4. OneTransactionRuns' /\ RunnerConnected'
    BY <2>1 DEF Continue, session, IInv, TypeOK, OneTransactionRuns, RunnerConnected, Ready
  <2> QED
    BY <2>2, <2>3, <2>4 DEF IInv
<1> QED
  BY <1>1, <1>2

\* UNWATCH.
LEMMA UnwatchInv ==
  ASSUME IInv, NEW c, NEW cmd, NEW rest, Ready(c, cmd, rest), Unwatch(c, cmd, rest)
  PROVE  IInv'
<1>0. c \in Clients /\ TypeOK
  BY DEF Ready, IInv
<1>1. WatchTableConsistent' /\ SnapRegistered' /\ DirtyClientsWatch'
  BY <1>0, ForgetInv DEF Unwatch
<1>2. TypeOK'
  BY <1>0, EndWatchFacts, UnwatchFacts DEF Unwatch, Continue, keyspace, TypeOK, Ready
<1>3. KindChangeIsSeen'
  <2>1. /\ \A d \in Dbs, k \in Keys : snap'[c][d][k] = NoSnap
        /\ \A e \in Clients \ {c} : snap'[e] = snap[e]
    BY <1>0, EndWatchFacts DEF Unwatch
  <2> QED
    BY <2>1 DEF Unwatch, keyspace, IInv, KindChangeIsSeen, NoSnap
<1>4. NoOrphanTTL'
  BY DEF Unwatch, keyspace, IInv, NoOrphanTTL
<1>5. OneTransactionRuns' /\ RunnerConnected'
  BY DEF Unwatch, Continue, IInv, TypeOK, OneTransactionRuns, RunnerConnected, Ready
<1> QED
  BY <1>1, <1>2, <1>3, <1>4, <1>5 DEF IInv

\* WATCH.
LEMMA WatchInv ==
  ASSUME IInv, NEW c, NEW cmd, NEW rest, Ready(c, cmd, rest), Watch(c, cmd, rest)
  PROVE  IInv'
<1>0. c \in Clients /\ TypeOK /\ cmd.keys \subseteq Keys
  BY CommandsAssumption DEF Ready, IInv, Watch, DataCommands, ControlCommands, SelectCommands,
                            ControlOps
<1>1. OneTransactionRuns' /\ RunnerConnected'
  BY DEF Watch, Continue, IInv, TypeOK, OneTransactionRuns, RunnerConnected, Ready
<1>2. CASE c \in multi
  <2>1. UNCHANGED <<keyspace, watchedKeys, now, session, dirtyExec, snap>> /\ Continue(c, rest)
    BY <1>2 DEF Watch, session
  <2>2. TypeOK'
    BY <2>1 DEF Continue, keyspace, session, IInv, TypeOK, Ready
  <2>3. /\ WatchTableConsistent' /\ NoOrphanTTL' /\ SnapRegistered' /\ KindChangeIsSeen'
        /\ DirtyClientsWatch'
    BY <2>1 DEF keyspace, session, IInv, WatchTableConsistent, NoOrphanTTL, SnapRegistered,
                KindChangeIsSeen, DirtyClientsWatch
  <2> QED
    BY <1>1, <2>2, <2>3 DEF IInv
<1>3. CASE c \notin multi
  <2> DEFINE s == selectedDb[c]
  <2>0. s \in Dbs
    BY <1>0 DEF TypeOK
  <2> DEFINE reg == [k \in Keys |->
                IF k \in cmd.keys THEN watchedKeys[s][k] \cup {c} ELSE watchedKeys[s][k]]
             shot == [k \in Keys |->
                IF k \in cmd.keys /\ snap[c][s][k] = NoSnap THEN data[s][k] ELSE snap[c][s][k]]
  <2>a. /\ watched' = [watched EXCEPT ![c] = watched[c] \cup cmd.keys]
        /\ watchedKeys' = [watchedKeys EXCEPT ![s] = reg]
        /\ snap' = [snap EXCEPT ![c] = [snap[c] EXCEPT ![s] = shot]]
    BY <1>3 DEF Watch
  <2>b. reg \in [Keys -> SUBSET Clients]
    BY <1>0, <2>0 DEF TypeOK
  <2>c. shot \in [Keys -> Objects \cup {Missing, NoSnap}]
    BY <1>0, <2>0 DEF TypeOK
  <2> HIDE DEF s
  <2>1. /\ watched' \in [Clients -> SUBSET Keys]
        /\ watched'[c] = watched[c] \cup cmd.keys
        /\ \A e \in Clients \ {c} : watched'[e] = watched[e]
    BY <1>0, <2>a DEF TypeOK
  <2>2. /\ watchedKeys' \in [Dbs -> [Keys -> SUBSET Clients]]
        /\ \A d \in Dbs, k \in Keys : watchedKeys'[d][k] =
             IF d = s /\ k \in cmd.keys THEN watchedKeys[d][k] \cup {c} ELSE watchedKeys[d][k]
    <3>1. watchedKeys' \in [Dbs -> [Keys -> SUBSET Clients]]
      <4> HIDE DEF reg
      <4> QED  BY <1>0, <2>0, <2>a, <2>b DEF TypeOK
    <3>2. \A d \in Dbs : watchedKeys'[d] = IF d = s THEN reg ELSE watchedKeys[d]
      <4> HIDE DEF reg
      <4> QED  BY <1>0, <2>0, <2>a DEF TypeOK
    <3> QED
      BY <3>1, <3>2
  <2>3. /\ snap' \in [Clients -> [Dbs -> [Keys -> Objects \cup {Missing, NoSnap}]]]
        /\ \A e \in Clients \ {c} : snap'[e] = snap[e]
        /\ \A d \in Dbs, k \in Keys : snap'[c][d][k] =
             IF d = s /\ k \in cmd.keys /\ snap[c][d][k] = NoSnap
             THEN data[d][k] ELSE snap[c][d][k]
    <3>1. /\ snap' \in [Clients -> [Dbs -> [Keys -> Objects \cup {Missing, NoSnap}]]]
          /\ \A e \in Clients \ {c} : snap'[e] = snap[e]
          /\ \A d \in Dbs : snap'[c][d] = IF d = s THEN shot ELSE snap[c][d]
      <4> HIDE DEF shot
      <4> QED  BY <1>0, <2>0, <2>a, <2>c DEF TypeOK
    <3>2. ASSUME NEW d \in Dbs, NEW k \in Keys
          PROVE  snap'[c][d][k] = IF d = s /\ k \in cmd.keys /\ snap[c][d][k] = NoSnap
                                  THEN data[d][k] ELSE snap[c][d][k]
      <4>1. CASE d = s
        <5>1. snap'[c][d] = shot
          BY <3>1, <4>1
        <5> QED
          BY <4>1, <5>1
      <4>2. CASE d # s
        <5>1. snap'[c][d] = snap[c][d]
          BY <3>1, <4>2
        <5> QED
          BY <4>2, <5>1
      <4> QED
        BY <4>1, <4>2
    <3> QED
      BY <3>1, <3>2
  <2> HIDE DEF reg, shot
  <2>4. UNCHANGED <<keyspace, now, connected, multi, dirtyExec, queue, selectedDb>>
    BY DEF Watch
  <2>5. TypeOK'
    BY <1>0, <2>1, <2>2, <2>3, <2>4 DEF Watch, Continue, keyspace, TypeOK, Ready
  <2>6. WatchTableConsistent'
    <3>1. ASSUME NEW e \in Clients, NEW k \in Keys, NEW d \in Dbs, e \in watchedKeys'[d][k]
          PROVE  e \in connected' /\ k \in watched'[e]
      <4>1. CASE e \in watchedKeys[d][k]
        <5>1. e \in connected /\ k \in watched[e]
          BY <4>1 DEF IInv, WatchTableConsistent
        <5> QED
          BY <1>0, <2>1, <2>4, <5>1
      <4>2. CASE e \notin watchedKeys[d][k]
        <5>0. watchedKeys'[d][k] = watchedKeys[d][k]
              \/ (k \in cmd.keys /\ watchedKeys'[d][k] = watchedKeys[d][k] \cup {c})
          BY <2>2
        <5>1. e = c /\ k \in cmd.keys
          BY <3>1, <4>2, <5>0
        <5>2. c \in connected'
          BY <2>4 DEF Ready
        <5> QED
          BY <2>1, <5>1, <5>2
      <4> QED
        BY <4>1, <4>2
    <3>2. ASSUME NEW e \in Clients, NEW k \in Keys, k \in watched'[e]
          PROVE  \E d \in Dbs : e \in watchedKeys'[d][k]
      <4>1. CASE k \in watched[e]
        <5>1. PICK d \in Dbs : e \in watchedKeys[d][k]
          BY <4>1 DEF IInv, WatchTableConsistent
        <5>2. e \in watchedKeys'[d][k]
          BY <2>2, <5>1
        <5> QED
          BY <5>2
      <4>2. CASE k \notin watched[e]
        <5>1. e = c /\ k \in cmd.keys
          BY <1>0, <2>1, <3>2, <4>2
        <5>2. e \in watchedKeys'[s][k]
          BY <2>0, <2>2, <5>1
        <5> QED
          BY <2>0, <5>2
      <4> QED
        BY <4>1, <4>2
    <3> QED
      BY <3>1, <3>2 DEF WatchTableConsistent
  <2>7. SnapRegistered'
    <3> SUFFICES ASSUME NEW e \in Clients, NEW d \in Dbs, NEW k \in Keys,
                        snap'[e][d][k] # NoSnap
                 PROVE  e \in watchedKeys'[d][k]
      BY DEF SnapRegistered
    <3>1. CASE snap[e][d][k] # NoSnap
      <4>1. e \in watchedKeys[d][k]
        BY <3>1 DEF IInv, SnapRegistered
      <4> QED
        BY <2>2, <4>1
    <3>2. CASE snap[e][d][k] = NoSnap
      <4>1. e = c /\ d = s /\ k \in cmd.keys
        BY <2>3, <3>2
      <4> QED
        BY <2>2, <4>1
    <3> QED
      BY <3>1, <3>2
  <2>8. KindChangeIsSeen'
    <3> SUFFICES ASSUME NEW e \in Clients, NEW d \in Dbs, NEW k \in Keys,
                        snap'[e][d][k].type \notin {"unwatched", data[d][k].type}
                 PROVE  e \in dirtyExec
      BY <2>4 DEF KindChangeIsSeen, keyspace
    <3>1. snap'[e][d][k] # data[d][k]
      OBVIOUS
    <3>2. snap'[e][d][k] = snap[e][d][k]
      BY <2>3, <3>1
    <3> QED
      BY <3>2 DEF IInv, KindChangeIsSeen
  <2>9. NoOrphanTTL' /\ DirtyClientsWatch'
    BY <2>1, <2>4 DEF keyspace, IInv, TypeOK, NoOrphanTTL, DirtyClientsWatch
  <2> QED
    BY <1>1, <2>5, <2>6, <2>7, <2>8, <2>9 DEF IInv
<1> QED
  BY <1>2, <1>3

\* Any handler.
LEMMA HandlerInv ==
  ASSUME IInv, NEW c, NEW cmd, NEW rest, Ready(c, cmd, rest), Handler(c, cmd, rest)
  PROVE  IInv'
BY DataCommandInv, SelectInv, MultiInv, ExecInv, DiscardInv, WatchInv, UnwatchInv DEF Handler

-----------------------------------------------------------------------------
(* One lemma per action of the event loop.                                 *)

\* A command added to a queue.
LEMMA EnqueueInv ==
  ASSUME IInv, NEW c \in Clients, NEW cmd \in Commands, Enqueue(c, cmd)
  PROVE  IInv'
<1>1. TypeOK'
  BY DEF Enqueue, keyspace, IInv, TypeOK
<1>2. /\ WatchTableConsistent' /\ NoOrphanTTL' /\ SnapRegistered' /\ KindChangeIsSeen'
      /\ DirtyClientsWatch'
  BY DEF Enqueue, keyspace, IInv, WatchTableConsistent, NoOrphanTTL, SnapRegistered,
         KindChangeIsSeen, DirtyClientsWatch
<1>3. OneTransactionRuns' /\ RunnerConnected'
  BY DEF Enqueue, Idle, IInv, TypeOK, OneTransactionRuns, RunnerConnected
<1> QED
  BY <1>1, <1>2, <1>3 DEF IInv

\* A command served at once.
LEMMA ExecuteInv ==
  ASSUME IInv, NEW c \in Clients, NEW cmd \in Commands, Execute(c, cmd)
  PROVE  IInv'
<1>1. Ready(c, cmd, <<>>)
  BY DEF Execute, Idle, Ready
<1> QED
  BY <1>1, HandlerInv DEF Execute

\* One iteration of the loop of EXEC.
LEMMA ExecLoopInv ==
  ASSUME IInv, NEW c \in Clients, ExecLoop(c)
  PROVE  IInv'
<1>1. /\ running[c] \in Seq(Commands) /\ running[c] # <<>>
      /\ \A e \in Clients \ {c} : running[e] = <<>>
      /\ queue[c] = <<>> /\ c \in connected
  BY DEF ExecLoop, IInv, TypeOK, OneTransactionRuns, RunnerConnected
<1>2. Head(running[c]) \in Commands /\ Tail(running[c]) \in Seq(Commands)
  BY <1>1
<1>3. Ready(c, Head(running[c]), Tail(running[c]))
  BY <1>1, <1>2 DEF Ready
<1> QED
  BY <1>3, HandlerInv DEF ExecLoop

\* A new connection.
LEMMA ConnectInv ==
  ASSUME IInv, NEW c \in Clients, Connect(c)
  PROVE  IInv'
<1>1. TypeOK'
  BY DEF Connect, keyspace, IInv, TypeOK
<1>2. /\ WatchTableConsistent' /\ NoOrphanTTL' /\ SnapRegistered' /\ KindChangeIsSeen'
      /\ DirtyClientsWatch' /\ OneTransactionRuns' /\ RunnerConnected'
  BY DEF Connect, keyspace, IInv, WatchTableConsistent, NoOrphanTTL, SnapRegistered,
         KindChangeIsSeen, DirtyClientsWatch, OneTransactionRuns, RunnerConnected
<1> QED
  BY <1>1, <1>2 DEF IInv

\* A connection that ends takes all its registrations with it.
LEMMA CloseClientInv ==
  ASSUME IInv, NEW c \in Clients, CloseClient(c)
  PROVE  IInv'
<1>1. /\ queue' \in [Clients -> Seq(Commands)]
      /\ multi' \in SUBSET Clients /\ dirtyExec' \in SUBSET Clients
      /\ queue'[c] = <<>>
      /\ \A e \in Clients \ {c} : queue'[e] = queue[e] /\ (e \in multi' <=> e \in multi)
      /\ KindChangeIsSeen' /\ NoOrphanTTL'
  BY ClearFacts DEF CloseClient
<1>2. WatchTableConsistent' /\ SnapRegistered' /\ DirtyClientsWatch'
  BY ForgetInv DEF CloseClient, clearTransaction
<1>3. TypeOK'
  <2>1. 0 \in Dbs
    BY NumDbsAssumption DEF Dbs
  <2> QED
    BY <1>1, <2>1, EndWatchFacts, UnwatchFacts DEF CloseClient, keyspace, IInv, TypeOK
<1>4. OneTransactionRuns' /\ RunnerConnected'
  BY <1>1 DEF CloseClient, Idle, IInv, OneTransactionRuns, RunnerConnected
<1> QED
  BY <1>1, <1>2, <1>3, <1>4 DEF IInv

\* Active expiration over all databases.
LEMMA CronInv ==
  ASSUME IInv, Cron
  PROVE  IInv'
<1>1. PICK S \in [Dbs -> SUBSET Keys] :
        /\ data' = [d \in Dbs |-> checkAndExpire(Open(d), S[d], now).data]
        /\ expires' = [d \in Dbs |-> checkAndExpire(Open(d), S[d], now).expires]
        /\ dirtyExec' = dirtyExec \cup
             UNION {Watchers(d, checkAndExpire(Open(d), S[d], now).touched) : d \in Dbs}
  BY DEF Cron
<1> DEFINE db(d) == checkAndExpire(Open(d), S[d], now)
<1>2. ASSUME NEW d \in Dbs PROVE Sound(Open(d), db(d))
  BY OpenType, ExpireSound DEF IInv, TypeOK
<1>3. ASSUME NEW d \in Dbs
      PROVE  data'[d] = db(d).data /\ expires'[d] = db(d).expires /\ db(d) \in DbType
  BY <1>1, <1>2 DEF Sound
<1>4. \A c : c \in dirtyExec' <=>
              c \in dirtyExec \/ \E d \in Dbs : c \in Watchers(d, db(d).touched)
  BY <1>1
<1> HIDE DEF db
<1>5. UNCHANGED <<watchedKeys, now, session, running, snap>>
  BY DEF Cron
<1>6. TypeOK'
  <2>1. data' \in [Dbs -> [Keys -> Objects \cup {Missing}]]
    BY <1>1, <1>3 DEF DbType
  <2>2. expires' \in [Dbs -> [Keys -> Int \cup {NoTTL}]]
    BY <1>1, <1>3 DEF DbType
  <2>3. dirtyExec' \in SUBSET Clients
    BY <1>4 DEF Watchers, IInv, TypeOK
  <2> QED
    BY <1>5, <2>1, <2>2, <2>3 DEF session, IInv, TypeOK
<1>7. NoOrphanTTL'
  <2> SUFFICES ASSUME NEW d \in Dbs PROVE NoOrphan(db(d))
    BY <1>3 DEF NoOrphanTTL, NoOrphan
  <2>1. NoOrphan(Open(d))
    BY DEF IInv, NoOrphanTTL, NoOrphan, Open
  <2> QED
    BY <1>2, <2>1 DEF Sound
<1>8. KindChangeIsSeen'
  <2> SUFFICES ASSUME NEW c \in Clients, NEW d \in Dbs, NEW k \in Keys,
                      snap[c][d][k].type \notin {"unwatched", data'[d][k].type}
               PROVE  c \in dirtyExec'
    BY <1>5 DEF KindChangeIsSeen
  <2>1. CASE snap[c][d][k].type # data[d][k].type
    BY <1>4, <2>1 DEF IInv, KindChangeIsSeen
  <2>2. CASE snap[c][d][k].type = data[d][k].type
    <3>1. k \in db(d).touched
      BY <1>2, <1>3, <2>2 DEF Sound, Open
    <3>2. c \in watchedKeys[d][k]
      BY DEF IInv, SnapRegistered, NoSnap
    <3>3. c \in Watchers(d, db(d).touched)
      BY <3>1, <3>2 DEF Watchers
    <3> QED
      BY <1>4, <3>3
  <2> QED
    BY <2>1, <2>2
<1>9. DirtyClientsWatch'
  <2> SUFFICES ASSUME NEW c \in dirtyExec' PROVE watched[c] # {}
    BY <1>5 DEF DirtyClientsWatch, session
  <2>1. CASE c \in dirtyExec
    BY <2>1 DEF IInv, DirtyClientsWatch
  <2>2. CASE \E d \in Dbs : c \in Watchers(d, db(d).touched)
    <3>1. PICK d \in Dbs : c \in Watchers(d, db(d).touched)
      BY <2>2
    <3>2. PICK k \in db(d).touched : c \in watchedKeys[d][k]
      BY <3>1 DEF Watchers
    <3>3. c \in Clients /\ k \in Keys
      BY <1>3, <3>1, <3>2 DEF Watchers, DbType
    <3> QED
      BY <3>2, <3>3 DEF IInv, WatchTableConsistent
  <2> QED
    BY <1>4, <2>1, <2>2
<1>10. WatchTableConsistent' /\ SnapRegistered' /\ OneTransactionRuns' /\ RunnerConnected'
  BY <1>5 DEF session, IInv, WatchTableConsistent, SnapRegistered, OneTransactionRuns,
              RunnerConnected
<1> QED
  BY <1>6, <1>7, <1>8, <1>9, <1>10 DEF IInv

\* The clock, and stuttering.
LEMMA TickInv ==
  ASSUME IInv, Tick \/ UNCHANGED vars
  PROVE  IInv'
<1>1. UNCHANGED <<keyspace, watchedKeys, dirtyExec, session, running, snap>> /\ now' \in Nat
  BY DEF Tick, vars, keyspace, session, IInv, TypeOK
<1>2. TypeOK'
  BY <1>1 DEF keyspace, session, IInv, TypeOK
<1>3. /\ WatchTableConsistent' /\ NoOrphanTTL' /\ SnapRegistered' /\ KindChangeIsSeen'
      /\ DirtyClientsWatch' /\ OneTransactionRuns' /\ RunnerConnected'
  BY <1>1 DEF keyspace, session, IInv, WatchTableConsistent, NoOrphanTTL, SnapRegistered,
              KindChangeIsSeen, DirtyClientsWatch, OneTransactionRuns, RunnerConnected
<1> QED
  BY <1>2, <1>3 DEF IInv

\* Every step keeps the invariant.
LEMMA NextInv == IInv /\ [Next]_vars => IInv'
<1> SUFFICES ASSUME IInv, [Next]_vars PROVE IInv'
  OBVIOUS
<1>1. ASSUME NEW c \in Clients, NEW cmd \in Commands, Enqueue(c, cmd) \/ Execute(c, cmd)
      PROVE  IInv'
  BY <1>1, EnqueueInv, ExecuteInv
<1>2. ASSUME NEW c \in Clients, ExecLoop(c) \/ Connect(c) \/ CloseClient(c)
      PROVE  IInv'
  BY <1>2, ExecLoopInv, ConnectInv, CloseClientInv
<1>3. CASE Cron
  BY <1>3, CronInv
<1>4. CASE Tick \/ UNCHANGED vars
  BY <1>4, TickInv
<1> QED
  BY <1>1, <1>2, <1>3, <1>4 DEF Next

-----------------------------------------------------------------------------

\* The inductive invariant holds in every reachable state.
THEOREM Invariance == Spec => []IInv
<1> QED
  BY InitInv, NextInv, PTL DEF Spec

\* Types are kept: string values stay within 64 bits, queues hold commands only.
THEOREM TypeCorrect == Spec => []TypeOK
<1>1. IInv => TypeOK
  BY DEF IInv
<1> QED
  BY <1>1, Invariance, PTL

\* touchWatchedKey never meets the pointer of a client that is gone, whatever databases
\* the client visited between WATCH and its end.
THEOREM NoDanglingWatcher == Spec => []WatchTableConsistent
<1>1. IInv => WatchTableConsistent
  BY DEF IInv
<1> QED
  BY <1>1, Invariance, PTL

\* No EXEC commits over a watched key that appeared, vanished, expired or changed its type.
THEOREM OptimisticLocking == Spec => []KindChangeIsSeen
<1>1. IInv => KindChangeIsSeen
  BY DEF IInv
<1> QED
  BY <1>1, Invariance, PTL

\* No key ever inherits the deadline of an earlier one.
THEOREM DeadlinesBelongToKeys == Spec => []NoOrphanTTL
<1>1. IInv => NoOrphanTTL
  BY DEF IInv
<1> QED
  BY <1>1, Invariance, PTL

\* EXEC never starts a second queue from inside the loop that runs one, and only a client
\* in MULTI has a queue.
THEOREM ExecDoesNotNest == Spec => []OneTransactionRuns
<1>1. IInv => OneTransactionRuns
  BY DEF IInv
<1> QED
  BY <1>1, Invariance, PTL

\* Only a client with registered keys is ever refused.
THEOREM RefusalsHaveAReason == Spec => []DirtyClientsWatch
<1>1. IInv => DirtyClientsWatch
  BY DEF IInv
<1> QED
  BY <1>1, Invariance, PTL

\* In every reachable database, expired keys still in memory are invisible to the commands
\* that check for expiry.
THEOREM ExpiredKeysUnseen == Spec => []CheckedCommandsSeeNoExpiredKey
<1>1. IInv => CheckedCommandsSeeNoExpiredKey
  <2> SUFFICES ASSUME IInv, NEW d \in Dbs, NEW cmd \in Commands, cmd.op \in CheckedOps
               PROVE  ExpiryIsInvisible(Open(d), cmd, now)
    BY DEF CheckedCommandsSeeNoExpiredKey
  <2>1. Open(d) \in DbType /\ now \in Int
    BY OpenType DEF IInv, TypeOK
  <2>2. cmd \in DataCommands
    BY DataCommandType DEF CheckedOps, ControlOps
  <2> QED
    BY <2>1, <2>2, LazyExpiryIsInvisible
<1> QED
  BY <1>1, Invariance, PTL
=============================================================================
