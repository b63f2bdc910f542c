------------------------- MODULE PersistenceProofs -------------------------
(***************************************************************************)
(* What the files bring back, for any sets of keys, databases and commands *)
(* and any number of writes, jobs and crashes.                             *)
(*                                                                         *)
(* A snapshot: while a thread writes it, the file holds the keys written   *)
(* so far as they are in the copy, and nothing else (Partial).             *)
(*                                                                         *)
(* A log: it "leads" from one state to another if there is a run of states *)
(* between them with one step per command.  The invariant says where the   *)
(* append-only file leads in every phase, and needs no fold over the file: *)
(* commands join at the end of a run and leave at its beginning.           *)
(***************************************************************************)
EXTENDS Persistence, DatabaseProofs, SequenceTheorems

-----------------------------------------------------------------------------
(* No data command leaves an empty set or hash behind.                     *)

\* A set or a hash is never empty; SADD, HSET and SREM see to it, ZADD may leave an empty one.
Solid(obj) == obj.type \in {"set", "hash"} => obj.members # {}

\* No set and no hash is empty.
Filled(db) == \A k \in Keys : Solid(db.data[k])

\* Which objects are solid.
LEMMA SolidFacts ==
  /\ Solid(Missing)
  /\ \A s \in Strings : Solid(StringObj(s))
  /\ \A t \in ContainerTypes, ms \in SUBSET Members : ms # {} => Solid(ContainerObj(t, ms))
  /\ \A ms \in SUBSET Members : Solid(ContainerObj("zset", ms))
BY DEF Solid, Missing, StringObj, ContainerObj

\* An expired key leaves; the others stay as they are.
LEMMA ExpireFilled ==
  ASSUME NEW db \in DbType, Filled(db), NEW K \in SUBSET Keys, NEW now \in Int
  PROVE  Filled(checkAndExpire(db, K, now))
BY SolidFacts DEF Filled, checkAndExpire

\* setObject with a solid object.
LEMMA SetObjectFilled ==
  ASSUME NEW db \in DbType, Filled(db), NEW k \in Keys, NEW obj \in Objects, Solid(obj)
  PROVE  Filled(setObject(db, k, obj))
BY DEF Filled, setObject, DbType

\* A deadline changes no value.
LEMMA SetExpiryFilled ==
  ASSUME NEW db \in DbType, Filled(db), NEW k \in Keys, NEW at \in Int
  PROVE  Filled(setExpiryAt(db, k, at))
BY DEF Filled, setExpiryAt, DbType

\* rename moves an object.
LEMMA RenameFilled ==
  ASSUME NEW db \in DbType, Filled(db), NEW old \in Keys, NEW new \in Keys
  PROVE  Filled(rename(db, old, new))
BY SolidFacts DEF Filled, rename, setObject, DbType

\* incrby writes a string.
LEMMA IncrbyFilled ==
  ASSUME NEW db \in DbType, Filled(db), NEW k \in Keys, NEW by \in Int64
  PROVE  Filled(incrby(db, k, by))
<1>1. \A n : Solid(StringObj(n))
  BY DEF Solid, StringObj
<1> QED
  BY <1>1 DEF Filled, incrby, set, setObject, DbType

\* append writes a string.
LEMMA AppendFilled ==
  ASSUME NEW db \in DbType, Filled(db), NEW k \in Keys
  PROVE  Filled(append(db, k))
<1>1. Solid(StringObj(NotInt))
  BY DEF Solid, StringObj
<1> QED
  BY <1>1 DEF Filled, append, set, setObject, DbType

\* SET writes a string.
LEMMA SetCommandFilled ==
  ASSUME NEW db \in DbType, Filled(db), NEW cmd \in DataCommands, cmd.op = "SET", NEW now \in Int
  PROVE  Filled(setCommand(db, cmd, now))
<1> DEFINE looked == IF "NX" \in cmd.flags \/ "XX" \in cmd.flags
                     THEN checkAndExpire(db, {cmd.key}, now) ELSE db
           fresh  == set(looked, cmd.key, cmd.str)
           timed  == setExpiryAt(fresh, cmd.key, now + cmd.ttl)
<1>1. cmd.key \in Keys /\ cmd.str \in Strings /\ cmd.ttl \in Int \cup {NoTTL}
  BY DEF DataCommands
<1>2. looked \in DbType /\ Filled(looked)
  BY <1>1, ExpireSound, ExpireFilled DEF Sound
<1>3. fresh \in DbType /\ Filled(fresh)
  <2> HIDE DEF looked
  <2>1. StringObj(cmd.str) \in Objects /\ Solid(StringObj(cmd.str))
    BY <1>1, KindFacts, SolidFacts
  <2> QED
    BY <1>1, <1>2, <2>1, SetObjectSound, SetObjectFilled DEF set, Sound
<1>4. cmd.ttl # NoTTL => Filled(timed)
  <2> HIDE DEF fresh
  <2> QED
    BY <1>1, <1>3, SetExpiryFilled
<1>5. \/ setCommand(db, cmd, now) = db
      \/ setCommand(db, cmd, now) = looked
      \/ setCommand(db, cmd, now) = fresh
      \/ cmd.ttl # NoTTL /\ setCommand(db, cmd, now) = timed
  BY DEF setCommand
<1> HIDE DEF looked, fresh, timed
<1> QED
  BY <1>2, <1>3, <1>4, <1>5

\* SADD and HSET fill the container they create.
LEMMA AddCommandFilled ==
  ASSUME NEW db \in DbType, Filled(db), NEW cmd \in DataCommands, cmd.op = "ADD", NEW now \in Int
  PROVE  Filled(addCommand(db, cmd, now))
<1> DEFINE looked  == checkAndExpire(db, {cmd.key}, now)
           made    == ContainerObj(cmd.type, {})
           created == IF Present(looked, cmd.key) THEN looked
                      ELSE setObject(looked, cmd.key, made)
           obj     == ContainerObj(cmd.type, created.data[cmd.key].members \cup cmd.members)
           filled  == [created EXCEPT !.data[cmd.key] = obj]
<1>1. cmd.key \in Keys /\ cmd.type \in ContainerTypes /\ cmd.members \subseteq Members
  BY DEF DataCommands, ContainerTypes
<1>2. looked \in DbType /\ Filled(looked)
  BY <1>1, ExpireSound, ExpireFilled DEF Sound
<1>3. made \in Objects /\ made.type = cmd.type
  BY <1>1, KindFacts
<1>4. /\ created \in DbType
      /\ \A k \in Keys \ {cmd.key} : Solid(created.data[k])
      /\ created.data[cmd.key].type # cmd.type => created = looked
  <2> HIDE DEF looked, made
  <2> QED
    BY <1>1, <1>2, <1>3 DEF Filled, setObject, DbType
<1>5. ASSUME created.data[cmd.key].type = cmd.type PROVE Filled(filled)
  <2> HIDE DEF created
  <2>1. Solid(obj)
    BY <1>1, <1>5 DEF Solid, ContainerObj, DataCommands
  <2> HIDE DEF obj
  <2> QED
    BY <1>1, <1>4, <2>1 DEF Filled, DbType
<1>6. \/ created.data[cmd.key].type = cmd.type /\ addCommand(db, cmd, now) = filled
      \/ created.data[cmd.key].type # cmd.type /\ addCommand(db, cmd, now) = created
  BY DEF addCommand, get
<1> HIDE DEF created, filled, looked
<1> QED
  BY <1>2, <1>4, <1>5, <1>6

\* SREM removes the key with its last element.
LEMMA RemCommandFilled ==
  ASSUME NEW db \in DbType, Filled(db), NEW cmd \in DataCommands, cmd.op = "REM", NEW now \in Int
  PROVE  Filled(remCommand(db, cmd, now))
<1> DEFINE looked == checkAndExpire(db, {cmd.key}, now)
           left   == looked.data[cmd.key].members \ cmd.members
           kept   == [looked EXCEPT !.data[cmd.key] = ContainerObj(cmd.type, left)]
<1>1. cmd.key \in Keys
  BY DEF DataCommands
<1>2. looked \in DbType /\ Filled(looked)
  BY <1>1, ExpireSound, ExpireFilled DEF Sound
<1> HIDE DEF looked
<1>3. Filled(del(looked, {cmd.key}))
  BY <1>1, <1>2, SolidFacts DEF Filled, del
<1>4. ASSUME left # {} PROVE Filled(kept)
  <2>1. Solid(ContainerObj(cmd.type, left))
    BY <1>4 DEF Solid, ContainerObj
  <2> HIDE DEF left
  <2> QED
    BY <1>1, <1>2, <2>1 DEF Filled, DbType
<1>5. \/ remCommand(db, cmd, now) = looked
      \/ remCommand(db, cmd, now) = del(looked, {cmd.key})
      \/ left # {} /\ remCommand(db, cmd, now) = kept
  BY DEF remCommand, get, looked
<1> HIDE DEF kept
<1> QED
  BY <1>2, <1>3, <1>4, <1>5

\* No data command leaves an empty set or hash behind.
LEMMA ApplyFilled ==
  ASSUME NEW db \in DbType, Filled(db), NEW cmd \in DataCommands, NEW now \in Int
  PROVE  Filled(Apply(db, cmd, now))
<1>1. CASE cmd.op = "SET"
  BY <1>1, SetCommandFilled DEF Apply
<1>2. CASE cmd.op = "MSET"
  <2>1. cmd.keys \in SUBSET Keys /\ cmd.strs \in [Keys -> Strings]
    BY <1>2 DEF DataCommands
  <2> QED
    BY <1>2, <2>1, SolidFacts DEF Apply, mset, Filled
<1>3. CASE cmd.op \in {"READ", "DEL"}
  <2>1. cmd.keys \in SUBSET Keys
    BY <1>3 DEF DataCommands
  <2>2. Filled(del(db, cmd.keys))
    BY <2>1, SolidFacts DEF Filled, del
  <2> QED
    BY <1>3, <2>1, <2>2, ExpireFilled DEF Apply, get
<1>4. CASE cmd.op \in {"INCRBY", "DECRBY"}
  <2>1. cmd.key \in Keys /\ cmd.by \in Int64 /\ Negate(cmd.by) \in Int64
    BY <1>4, MaxIntAssumption DEF DataCommands, Negate, Int64, MinInt
  <2> QED
    BY <1>4, <2>1, IncrbyFilled DEF Apply
<1>5. CASE cmd.op \in {"APPEND", "PERSIST"}
  <2>1. cmd.key \in Keys
    BY <1>5 DEF DataCommands
  <2>2. Filled(persist(db, cmd.key))
    BY <2>1 DEF Filled, persist, DbType
  <2> QED
    BY <1>5, <2>1, <2>2, AppendFilled DEF Apply
<1>6. CASE cmd.op = "RENAME"
  <2>1. cmd.key \in Keys /\ cmd.new \in Keys
    BY <1>6 DEF DataCommands
  <2> QED
    BY <1>6, <2>1, RenameFilled DEF Apply
<1>7. CASE cmd.op = "EXPIRE"
  <2>1. cmd.key \in Keys /\ now + cmd.ttl \in Int
    BY <1>7 DEF DataCommands
  <2> QED
    BY <1>7, <2>1, SetExpiryFilled DEF Apply, setExpiry
<1>8. CASE cmd.op = "EXPIREAT"
  <2>1. cmd.key \in Keys /\ cmd.at \in Int
    BY <1>8 DEF DataCommands
  <2> QED
    BY <1>8, <2>1, SetExpiryFilled DEF Apply
<1>9. CASE cmd.op = "ADD"
  BY <1>9, AddCommandFilled DEF Apply
<1>10. CASE cmd.op = "REM"
  BY <1>10, RemCommandFilled DEF Apply
<1>11. CASE cmd.op = "FLUSHDB"
  BY <1>11, SolidFacts DEF Apply, flushDb, Filled
<1> QED
  <2>1. cmd.op \in {"SET", "MSET", "READ", "DEL", "INCRBY", "DECRBY", "APPEND", "PERSIST",
                    "RENAME", "EXPIRE", "EXPIREAT", "ADD", "REM", "FLUSHDB"}
    BY DEF DataCommands
  <2> QED
    BY <1>1, <1>2, <1>3, <1>4, <1>5, <1>6, <1>7, <1>8, <1>9, <1>10, <1>11, <2>1

\* What every database is between two commands.
Tidy(db) == db \in DbType /\ NoOrphan(db) /\ Filled(db) /\ db.touched = {}

\* The values the databases take between two commands.
States == {dbs \in DbState : \A d \in Dbs : Tidy(dbs[d])}

\* What a file of commands may hold.
Logged == DataCommands \cup [op : {"SELECT"}, db : Dbs]

\* An empty database is tidy.
LEMMA EmptyTidy == Tidy(EmptyDb)
BY SolidFacts DEF Tidy, EmptyDb, DbType, NoOrphan, Filled

\* The empty databases are a state.
LEMMA EmptyState == Empty \in States
BY EmptyTidy DEF Empty, States, DbState, Tidy

\* A command keeps its database tidy.
LEMMA ApplyTidy ==
  ASSUME NEW db, Tidy(db), NEW cmd \in DataCommands
  PROVE  Tidy([Apply(db, cmd, Now) EXCEPT !.touched = {}])
<1>1. PICK r : r = Apply(db, cmd, Now)
  OBVIOUS
<1>2. db \in DbType /\ NoOrphan(db) /\ Filled(db) /\ Now \in Int
  BY DEF Tidy, Now
<1>3. r \in DbType /\ NoOrphan(r)
  BY <1>1, <1>2, ApplySound DEF Sound
<1>4. Filled(r)
  BY <1>1, <1>2, ApplyFilled
<1>5. Tidy([r EXCEPT !.touched = {}])
  BY <1>3, <1>4 DEF Tidy, NoOrphan, Filled, DbType
<1> QED
  BY <1>1, <1>5

\* A command leads from a state to a state.
LEMMA ApplyState ==
  ASSUME NEW dbs \in States, NEW d \in Dbs, NEW cmd \in DataCommands
  PROVE  ApplyTo(dbs, d, cmd) \in States
<1>1. PICK r : r = [Apply(dbs[d], cmd, Now) EXCEPT !.touched = {}]
  OBVIOUS
<1>2. Tidy(dbs[d])
  BY DEF States
<1>3. Tidy(r)
  BY <1>1, <1>2, ApplyTidy
<1>4. ApplyTo(dbs, d, cmd) = [dbs EXCEPT ![d] = r]
  BY <1>1 DEF ApplyTo
<1> QED
  BY <1>3, <1>4 DEF States, DbState, Tidy

-----------------------------------------------------------------------------
(* A copy written out key by key.                                          *)

\* w holds the keys of copy, without those in left.
Partial(w, copy, left) ==
  /\ w \in States
  /\ \A d \in Dbs, k \in Keys :
       IF <<d, k>> \in left THEN w[d].data[k] = Missing /\ w[d].expires[k] = NoTTL
       ELSE w[d].data[k] = copy[d].data[k] /\ w[d].expires[k] = copy[d].expires[k]

\* The empty file, before the first key; keys that are not there have no deadline either.
LEMMA PartialStart ==
  ASSUME NEW copy \in States
  PROVE  Partial(Empty, copy, AllKeys(copy))
<1>1. Empty \in States
  BY EmptyState
<1>2. \A d \in Dbs, k \in Keys : Empty[d].data[k] = Missing /\ Empty[d].expires[k] = NoTTL
  BY DEF Empty, EmptyDb
<1>3. \A d \in Dbs, k \in Keys : <<d, k>> \in AllKeys(copy) <=> copy[d].data[k] # Missing
  BY DEF AllKeys, Present
<1>4. \A d \in Dbs, k \in Keys : copy[d].data[k] = Missing => copy[d].expires[k] = NoTTL
  BY DEF States, Tidy, NoOrphan
<1> QED
  BY <1>1, <1>2, <1>3, <1>4 DEF Partial

\* Two tidy databases with the same keys, values and deadlines are the same.
LEMMA SameDb ==
  ASSUME NEW a, NEW b, Tidy(a), Tidy(b),
         \A k \in Keys : a.data[k] = b.data[k] /\ a.expires[k] = b.expires[k]
  PROVE  a = b
BY DEF Tidy, DbType

\* When no key is left, the file holds the copy.
LEMMA PartialEnd ==
  ASSUME NEW copy \in States, NEW w, Partial(w, copy, {})
  PROVE  w = copy
<1>1. \A d \in Dbs : w[d] = copy[d]
  <2> TAKE d \in Dbs
  <2>1. Tidy(w[d]) /\ Tidy(copy[d])
    BY DEF Partial, States
  <2>2. \A k \in Keys : w[d].data[k] = copy[d].data[k] /\ w[d].expires[k] = copy[d].expires[k]
    BY DEF Partial
  <2> QED
    BY <2>1, <2>2, SameDb
<1>2. w \in [Dbs -> DbType] /\ copy \in [Dbs -> DbType]
  BY DEF Partial, States, DbState
<1> QED
  BY <1>1, <1>2

\* The key that comes next appears with its value and its deadline.
LEMMA PartialStep ==
  ASSUME NEW copy \in States, NEW w, NEW left \in SUBSET AllKeys(copy), Partial(w, copy, left),
         NEW d \in Dbs, NEW k \in Keys, <<d, k>> \in left,
         NEW r \in States, \A e \in Dbs \ {d} : r[e] = w[e],
         \A j \in Keys \ {k} : r[d].data[j] = w[d].data[j] /\ r[d].expires[j] = w[d].expires[j],
         r[d].data[k] = copy[d].data[k], r[d].expires[k] = copy[d].expires[k]
  PROVE  Partial(r, copy, left \ {<<d, k>>})
BY DEF Partial

\* One key of a state in a state is that of another one.
LEMMA PutState ==
  ASSUME NEW w \in States, NEW copy \in States, NEW d \in Dbs, NEW k \in Keys
  PROVE  [w EXCEPT ![d].data[k] = copy[d].data[k], ![d].expires[k] = copy[d].expires[k]] \in States
<1>1. PICK a : a = w[d]
  OBVIOUS
<1>2. PICK b : b = copy[d]
  OBVIOUS
<1>3. Tidy(a) /\ Tidy(b)
  BY <1>1, <1>2 DEF States
<1>4. PICK r : r = [a EXCEPT !.data[k] = b.data[k], !.expires[k] = b.expires[k]]
  OBVIOUS
<1>5. Tidy(r)
  BY <1>3, <1>4 DEF Tidy, DbType, NoOrphan, Filled
<1>6. [w EXCEPT ![d].data[k] = b.data[k], ![d].expires[k] = b.expires[k]] = [w EXCEPT ![d] = r]
  BY <1>1, <1>3, <1>4 DEF States, DbState
<1>7. [w EXCEPT ![d] = r] \in States
  BY <1>5 DEF States, DbState, Tidy
<1> QED
  BY <1>2, <1>6, <1>7

-----------------------------------------------------------------------------
(* The invariant of the databases, the threads and the snapshot.           *)

\* The types in four parts, those of the loader in full.
Basics ==
  /\ phase \in {"down", "loading", "up"}
  /\ databases \in DbState
  /\ configAof \in BOOLEAN /\ appendOnly \in BOOLEAN
  /\ aofStream \in {"closed", "file", "unlinked"}
  /\ dump = NoFile \/ dump \in [whole : BOOLEAN, dbs : DbState]

\* The files of commands, the buffer and the loader.
Logs ==
  /\ aof \in Files /\ temp \in Files \ {NoFile} /\ aofBuffer \in Seq(Commands)
  /\ aofStream = "file" => aof # NoFile
  /\ loader \in [rest : Seq(Logged), db : Dbs]

\* The threads and their flags.
Jobs ==
  /\ saver \in [step : {"idle", "open", "write"}, sync : BOOLEAN, copy : DbState,
                 left : SUBSET (Dbs \X Keys)]
  /\ rewriter \in [step : {"idle", "open", "write", "rename"}, sync : {FALSE}, copy : DbState,
                    left : SUBSET (Dbs \X Keys)]
  /\ bgsaveInProgress <=> (saver.step # "idle" /\ ~saver.sync)
  /\ rewriter.step # "idle" => bgrewriteaofInProgress

\* The counters of the bounds.
Counts == count \in [writes : 0 .. MaxWrites, jobs : 0 .. MaxJobs, crashes : 0 .. MaxCrashes]

\* The databases are in a state of the past, without orphan deadlines; threads need a server.
Held ==
  /\ databases \in States /\ past \subseteq States
  /\ recent \subseteq past /\ Empty \in past
  /\ phase = "up" => databases \in recent
  /\ phase # "up" => saver.step = "idle" /\ rewriter.step = "idle"

\* A thread at work has a state of the past and has yet to write some of its keys.
Copied(t) ==
  t.step # "idle" =>
    /\ t.copy \in past
    /\ t.left \subseteq AllKeys(t.copy)
    /\ t.step = "open" => t.left = AllKeys(t.copy)

\* The snapshot under way holds the keys written so far, as they are in the copy.
Written ==
  saver.step = "write" =>
    dump # NoFile /\ ~dump.whole /\ Partial(dump.dbs, saver.copy, saver.left)

\* A snapshot holds tidy databases, and a complete one a state of the past.
DumpOK ==
  dump # NoFile => dump.dbs \in States /\ (dump.whole => dump.dbs \in past)

\* All types.
Types == Basics /\ Logs /\ Jobs /\ Counts

\* The inductive invariant of the threads and the files, without what the log leads to.
Core == Types /\ Held /\ Copied(saver) /\ Copied(rewriter) /\ Written /\ DumpOK

\* The parts make up TypeOK.
LEMMA TypesOK == Types => TypeOK
BY DEF Types, Logs, Jobs, Counts, Basics, TypeOK

\* The commands of clients may be logged.
LEMMA CommandsLogged == Commands \subseteq DataCommands /\ DataCommands \subseteq Logged
BY CommandsAssumption DEF Logged

\* A file of commands is missing or a sequence of them.
LEMMA FilesAre == Files = {NoFile} \cup Seq(Logged) /\ NoFile \notin Seq(Logged)
<1>1. Commands \cup DataCommands \cup [op : {"SELECT"}, db : Dbs] = Logged
  BY CommandsAssumption DEF Logged
<1> QED
  BY <1>1, NoFileAssumption DEF Files, Logged

\* The empty file is a file.
LEMMA NothingLogged == <<>> \in Seq(Logged) /\ <<>> \in Seq(Commands) /\ <<>> \in Files \ {NoFile}
<1>1. <<>> \in Seq(Logged)
  OBVIOUS
<1>2. <<>> \in Seq(Commands)
  OBVIOUS
<1> QED
  BY <1>1, <1>2, FilesAre, Zenon

\* A snapshot is not a missing file.
LEMMA SnapshotIsAFile == \A f \in [whole : BOOLEAN, dbs : DbState] : f # NoFile
BY NoFileAssumption, Zenon DEF DbState

\* States have the type of the databases.
LEMMA StatesTyped == States \subseteq DbState
BY DEF States

\* The record of a thread that does not run.
LEMMA IdleFacts ==
  /\ Idle.step = "idle" /\ Idle.sync = FALSE /\ Idle.left = {}
  /\ Idle \in [step : {"idle"}, sync : {FALSE}, copy : DbState, left : SUBSET (Dbs \X Keys)]
<1>1. Empty \in DbState
  BY EmptyState, StatesTyped
<1> QED
  BY <1>1 DEF Idle

\* The server starts with empty databases.
LEMMA CoreInit == Init => Core
<1> SUFFICES ASSUME Init PROVE Core
  OBVIOUS
<1>1. Empty \in DbState
  BY EmptyState, StatesTyped
<1>2. Basics
  BY <1>1 DEF Init, Basics
<1>3. Logs
  BY NothingLogged, FilesAre, DbsAssumption DEF Init, Logs
<1>4. Jobs
  BY IdleFacts DEF Init, Jobs
<1>5. Counts
  BY BoundsAssumption DEF Init, Counts
<1>6. Held
  BY EmptyState, IdleFacts DEF Init, Held
<1> QED
  BY <1>2, <1>3, <1>4, <1>5, <1>6, IdleFacts DEF Init, Core, Types, Written, DumpOK, Copied

\* A write, logged or not.
LEMMA WriteCore ==
  ASSUME Core, NEW d \in Dbs, NEW cmd \in Commands, Execute(d, cmd) \/ ExecWrite(d, cmd)
  PROVE  Core'
<1>1. PICK w : w = ApplyTo(databases, d, cmd)
  OBVIOUS
<1>2. w \in States /\ w \in DbState
  BY <1>1, CommandsLogged, ApplyState, StatesTyped DEF Core, Held
<1>3. Serving /\ Remember(w) /\ (aofBuffer' = aofBuffer \/ aofBuffer' = Append(aofBuffer, cmd))
      /\ UNCHANGED <<phase, configAof, appendOnly, aofStream, files, threads, loader>>
  BY <1>1 DEF Execute, ExecWrite, main
<1>4. aofBuffer' \in Seq(Commands)
  <2>1. aofBuffer \in Seq(Commands)
    BY DEF Core, Types, Logs
  <2> QED
    BY <1>3, <2>1
<1>5. Basics'
  BY <1>2, <1>3 DEF Core, Types, Basics, Remember, files
<1>6. Logs'
  BY <1>3, <1>4 DEF Core, Types, Logs, files
<1>7. Jobs'
  BY <1>3 DEF Core, Types, Jobs, threads
<1>8. Counts'
  BY <1>3, BoundsAssumption DEF Core, Types, Counts, Remember
<1>9. Held'
  BY <1>2, <1>3 DEF Core, Held, Remember, threads, Serving
<1>10. Copied(saver)' /\ Copied(rewriter)'
  BY <1>3 DEF Core, Copied, Remember, threads
<1>11. Written' /\ DumpOK'
  BY <1>3 DEF Core, Written, DumpOK, Remember, files, threads
<1> QED
  BY <1>5, <1>6, <1>7, <1>8, <1>9, <1>10, <1>11 DEF Core, Types

\* One more job is within the bound.
LEMMA CountJobTyped ==
  ASSUME Counts, CountJob
  PROVE  Counts'
BY BoundsAssumption DEF Counts, CountJob

\* CONFIG SET appendonly.
LEMMA ConfigCore ==
  ASSUME Core, NEW value \in BOOLEAN, ConfigSet(value)
  PROVE  Core'
<1>1. Counts'
  BY CountJobTyped DEF Core, Types, ConfigSet
<1>2. Basics'
  BY DEF Core, Types, Basics, ConfigSet, files
<1>3. Logs'
  BY DEF Core, Types, Logs, ConfigSet, files
<1>4. Jobs' /\ Held'
  BY DEF Core, Types, Jobs, Held, ConfigSet, threads, history
<1> QED
  BY <1>1, <1>2, <1>3, <1>4 DEF Core, Types, Written, DumpOK, Copied, ConfigSet, files, threads, history

\* flushAof.
LEMMA FlushCore ==
  ASSUME Core, Serving, flushAof
  PROVE  Core'
<1>1. aof' \in Files /\ (aofStream = "file" => aof' # NoFile)
  <2>1. aofBuffer \in Seq(Logged)
    <3>1. aofBuffer \in Seq(Commands) /\ Commands \subseteq Logged
      BY CommandsLogged DEF Core, Types, Logs
    <3> QED
      BY <3>1
  <2>2. CASE aofStream = "file"
    <3>1. aof \in Seq(Logged) /\ aof' = aof \o aofBuffer
      BY <2>2, FilesAre DEF Core, Types, Logs, flushAof
    <3>2. aof \o aofBuffer \in Seq(Logged)
      BY <2>1, <3>1
    <3> QED
      BY <3>1, <3>2, FilesAre
  <2>3. CASE aofStream # "file"
    BY <2>3 DEF Core, Types, Logs, flushAof
  <2> QED
    BY <2>2, <2>3
<1>2. Basics' /\ Counts'
  BY DEF Core, Types, Basics, Counts, flushAof
<1>3. Logs'
  BY <1>1, NothingLogged DEF Core, Types, Logs, flushAof
<1>4. Jobs' /\ Held'
  BY DEF Core, Types, Jobs, Held, flushAof, threads, Serving
<1> QED
  BY <1>2, <1>3, <1>4 DEF Core, Types, Written, DumpOK, Copied, flushAof, threads

\* SAVE and BGSAVE take a copy of the databases.
LEMMA SaveCore ==
  ASSUME Core, Save \/ Bgsave
  PROVE  Core'
<1>1. PICK b \in BOOLEAN :
        saver' = [step |-> "open", sync |-> b, copy |-> databases, left |-> AllKeys(databases)]
        /\ (bgsaveInProgress' <=> ~b)
  <2>1. CASE Save
    <3>1. saver' = [step |-> "open", sync |-> TRUE, copy |-> databases, left |-> AllKeys(databases)]
      BY <2>1 DEF Save
    <3>2. ~bgsaveInProgress'
      BY <2>1 DEF Save
    <3> QED
      BY <3>1, <3>2
  <2>2. CASE Bgsave
    <3>1. saver' = [step |-> "open", sync |-> FALSE, copy |-> databases, left |-> AllKeys(databases)]
      BY <2>2 DEF Bgsave
    <3>2. bgsaveInProgress'
      BY <2>2 DEF Bgsave
    <3> QED
      BY <3>1, <3>2
  <2> QED
    BY <2>1, <2>2
<1>2. Serving /\ CountJob
      /\ UNCHANGED <<phase, configAof, main, files, rewriter, bgrewriteaofInProgress, loader, history>>
  BY DEF Save, Bgsave
<1>3. AllKeys(databases) \in SUBSET (Dbs \X Keys) /\ databases \in DbState
  BY DEF AllKeys, Core, Types, Basics
<1>4. saver' \in [step : {"idle", "open", "write"}, sync : BOOLEAN, copy : DbState,
                  left : SUBSET (Dbs \X Keys)]
      /\ saver'.step = "open" /\ saver'.sync = b
  BY <1>1, <1>3
<1>5. Counts'
  BY <1>2, CountJobTyped DEF Core, Types
<1>6. Basics' /\ Logs'
  BY <1>2 DEF Core, Types, Basics, Logs, main, files
<1>7. Jobs'
  BY <1>1, <1>2, <1>4 DEF Core, Types, Jobs
<1>8. Held'
  BY <1>2 DEF Core, Held, Serving, main, history
<1>9. Copied(saver)'
  <2>1. databases \in past /\ past' = past
    BY <1>2 DEF Core, Held, Serving, history
  <2> QED
    BY <1>1, <2>1 DEF Copied
<1> QED
  BY <1>2, <1>4, <1>5, <1>6, <1>7, <1>8, <1>9 DEF Core, Types, DumpOK, Written, Copied, files, history

\* The snapshot file is emptied.
LEMMA OpenDumpCore ==
  ASSUME Core, OpenDump
  PROVE  Core'
<1>1. PICK f : f = [whole |-> FALSE, dbs |-> Empty]
  OBVIOUS
<1>2. f \in [whole : BOOLEAN, dbs : DbState] /\ f.dbs = Empty /\ ~f.whole /\ f # NoFile
  <2>1. Empty \in DbState
    BY EmptyState, StatesTyped
  <2> QED
    BY <1>1, <2>1, SnapshotIsAFile
<1>3. dump' = f
  BY <1>1 DEF OpenDump
<1>4. saver.copy \in States /\ saver.left = AllKeys(saver.copy)
  BY DEF Core, Copied, OpenDump, Held
<1>5. Partial(Empty, saver.copy, saver.left)
  BY <1>4, PartialStart
<1>6. saver'.copy = saver.copy /\ saver'.left = saver.left /\ saver'.step = "write"
      /\ saver'.sync = saver.sync /\ saver.step = "open"
      /\ saver' \in [step : {"idle", "open", "write"}, sync : BOOLEAN, copy : DbState,
                  left : SUBSET (Dbs \X Keys)]
  <2>1. saver \in [step : {"idle", "open", "write"}, sync : BOOLEAN, copy : DbState,
                  left : SUBSET (Dbs \X Keys)]
        /\ saver.step = "open" /\ saver' = [saver EXCEPT !.step = "write"]
    BY DEF Core, Types, Jobs, OpenDump
  <2> QED
    BY <2>1
<1>7. Basics'
  BY <1>2, <1>3 DEF Core, Types, Basics, OpenDump, main
<1>8. Logs' /\ Counts'
  BY DEF Core, Types, Logs, Counts, OpenDump, main
<1>9. Jobs'
  BY <1>6 DEF Core, Types, Jobs, OpenDump
<1>10. Held'
  BY <1>6 DEF Core, Held, OpenDump, main, history
<1>11. Copied(saver)'
  BY <1>6 DEF Core, Copied, OpenDump, history
<1>12. Written' /\ DumpOK'
  BY <1>2, <1>3, <1>5, <1>6, EmptyState DEF Written, DumpOK
<1> QED
  BY <1>7, <1>8, <1>9, <1>10, <1>11, <1>12 DEF Core, Types, Copied, OpenDump, history

\* One more key of the copy is in the snapshot.
LEMMA SaveKeyCore ==
  ASSUME Core, SaveKey
  PROVE  Core'
<1>1. PICK d \in Dbs, k \in Keys :
        /\ <<d, k>> \in saver.left
        /\ saver' = [saver EXCEPT !.left = @ \ {<<d, k>>}]
        /\ dump' = [dump EXCEPT !.dbs[d].data[k] = saver.copy[d].data[k],
                                !.dbs[d].expires[k] = saver.copy[d].expires[k]]
  <2>1. saver.left \subseteq Dbs \X Keys
    BY DEF Core, Types, Jobs
  <2>2. PICK dk \in saver.left :
         /\ saver' = [saver EXCEPT !.left = @ \ {dk}]
         /\ dump' = [dump EXCEPT
                     !.dbs[dk[1]].data[dk[2]] = saver.copy[dk[1]].data[dk[2]],
                     !.dbs[dk[1]].expires[dk[2]] = saver.copy[dk[1]].expires[dk[2]]]
    BY DEF SaveKey
  <2>3. PICK d \in Dbs, k \in Keys : dk = <<d, k>> /\ dk[1] = d /\ dk[2] = k
    BY <2>1
  <2> QED
    BY <2>2, <2>3
<1>2. PICK w : w = dump.dbs
  OBVIOUS
<1>3. PICK copy : copy = saver.copy
  OBVIOUS
<1>4. PICK left : left = saver.left
  OBVIOUS
<1>5. copy \in States /\ left \in SUBSET AllKeys(copy) /\ Partial(w, copy, left) /\ w \in States
  BY <1>2, <1>3, <1>4 DEF Core, Written, Copied, SaveKey, Held, Partial
<1>6. PICK r : r = [w EXCEPT ![d].data[k] = copy[d].data[k], ![d].expires[k] = copy[d].expires[k]]
  OBVIOUS
<1>7. r \in States
  BY <1>5, <1>6, PutState
<1>8. w \in [Dbs -> DbType]
  BY <1>5 DEF States, DbState
<1>9. Partial(r, copy, left \ {<<d, k>>})
  <2>1. \A e \in Dbs \ {d} : r[e] = w[e]
    BY <1>6, <1>8
  <2>2. \A j \in Keys \ {k} : r[d].data[j] = w[d].data[j] /\ r[d].expires[j] = w[d].expires[j]
    BY <1>6, <1>8 DEF DbType
  <2>3. r[d].data[k] = copy[d].data[k] /\ r[d].expires[k] = copy[d].expires[k]
    BY <1>6, <1>8 DEF DbType
  <2> QED
    BY <1>1, <1>4, <1>5, <1>7, <2>1, <2>2, <2>3, PartialStep
<1>10. dump \in [whole : BOOLEAN, dbs : DbState] /\ ~dump.whole
  BY DEF Core, Types, Basics, Written, SaveKey
<1>11. dump' = [dump EXCEPT !.dbs = r]
  <2>1. [dump EXCEPT !.dbs[d].data[k] = copy[d].data[k], !.dbs[d].expires[k] = copy[d].expires[k]]
          = [dump EXCEPT !.dbs = [w EXCEPT ![d].data[k] = copy[d].data[k],
                                           ![d].expires[k] = copy[d].expires[k]]]
    BY <1>2, <1>8, <1>10 DEF DbType
  <2> QED
    BY <1>1, <1>3, <1>6, <2>1
<1>12. dump' \in [whole : BOOLEAN, dbs : DbState] /\ dump'.dbs = r /\ ~dump'.whole
  BY <1>7, <1>10, <1>11, StatesTyped
<1>13. saver'.copy = copy /\ saver'.left = left \ {<<d, k>>} /\ saver'.step = "write"
       /\ saver'.sync = saver.sync /\ saver.step = "write"
       /\ saver' \in [step : {"idle", "open", "write"}, sync : BOOLEAN, copy : DbState,
                  left : SUBSET (Dbs \X Keys)]
  <2>1. saver \in [step : {"idle", "open", "write"}, sync : BOOLEAN, copy : DbState,
                  left : SUBSET (Dbs \X Keys)]
        /\ saver.step = "write"
    BY DEF Core, Types, Jobs, SaveKey
  <2> QED
    BY <1>1, <1>3, <1>4, <2>1
<1>14. dump' # NoFile
  BY <1>12, SnapshotIsAFile
<1>15. Basics'
  BY <1>12 DEF Core, Types, Basics, SaveKey, main
<1>16. Logs' /\ Counts'
  BY DEF Core, Types, Logs, Counts, SaveKey, main
<1>17. Jobs'
  BY <1>13 DEF Core, Types, Jobs, SaveKey
<1>18. Held'
  BY <1>13 DEF Core, Held, SaveKey, main, history
<1>19. Copied(saver)'
  <2>1. past' = past /\ copy \in past
    BY <1>3, <1>13 DEF Core, Copied, SaveKey, history
  <2> QED
    BY <1>5, <1>13, <2>1 DEF Copied, AllKeys
<1>20. Written' /\ DumpOK'
  BY <1>7, <1>9, <1>12, <1>13, <1>14 DEF Written, DumpOK
<1> QED
  BY <1>15, <1>16, <1>17, <1>18, <1>19, <1>20 DEF Core, Types, Copied, SaveKey, history

\* The snapshot is complete: it holds the copy, a state of the past.
LEMMA SaveEndCore ==
  ASSUME Core, NEW success \in BOOLEAN, SaveEnd(success)
  PROVE  Core'
<1>1. dump' = dump \/ (dump' = [dump EXCEPT !.whole = TRUE] /\ saver.step = "write" /\ saver.left = {})
  BY DEF SaveEnd
<1>2. saver.step # "idle" /\ saver' = Idle
  BY DEF SaveEnd
<1>3. Logs' /\ Counts'
  BY DEF Core, Types, Logs, Counts, SaveEnd, main
<1>4. Jobs'
  BY <1>2, IdleFacts DEF Core, Types, Jobs, SaveEnd
<1>5. Held'
  BY <1>2, IdleFacts DEF Core, Held, SaveEnd, main, history
<1>6. Copied(saver)' /\ Copied(rewriter)' /\ Written'
  BY <1>2, IdleFacts DEF Core, Copied, Written, SaveEnd, history
<1>7. Basics' /\ DumpOK'
  <2>1. CASE dump' = dump
    BY <2>1 DEF Core, Types, Basics, DumpOK, SaveEnd, main, history
  <2>2. CASE dump' = [dump EXCEPT !.whole = TRUE] /\ saver.step = "write" /\ saver.left = {}
    <3>1. dump \in [whole : BOOLEAN, dbs : DbState]
      BY <2>2 DEF Core, Types, Basics, Written
    <3>2. dump' \in [whole : BOOLEAN, dbs : DbState] /\ dump'.dbs = dump.dbs
      BY <2>2, <3>1
    <3>3. Partial(dump.dbs, saver.copy, {}) /\ saver.copy \in States /\ saver.copy \in past
      BY <2>2 DEF Core, Written, Copied, Held
    <3>4. dump.dbs \in past /\ dump.dbs \in States
      BY <3>3, PartialEnd
    <3> QED
      BY <3>2, <3>4 DEF Core, Types, Basics, DumpOK, SaveEnd, main, history
  <2> QED
    BY <1>1, <2>1, <2>2
<1> QED
  BY <1>3, <1>4, <1>5, <1>6, <1>7 DEF Core, Types

\* BGREWRITEAOF takes a copy of the databases, or none when a BGSAVE is under way.
LEMMA BgrewriteCore ==
  ASSUME Core, Bgrewriteaof
  PROVE  Core'
<1>1. rewriter' = Idle \/ rewriter' = [step |-> "open", sync |-> FALSE, copy |-> databases,
                                       left |-> AllKeys(databases)]
  BY DEF Bgrewriteaof
<1>2. AllKeys(databases) \in SUBSET (Dbs \X Keys) /\ databases \in DbState
  BY DEF AllKeys, Core, Types, Basics
<1>3. rewriter' \in [step : {"idle", "open", "write", "rename"}, sync : {FALSE}, copy : DbState,
                    left : SUBSET (Dbs \X Keys)]
  <2>1. CASE rewriter' = Idle
    BY <2>1, IdleFacts
  <2>2. CASE rewriter' = [step |-> "open", sync |-> FALSE, copy |-> databases,
                          left |-> AllKeys(databases)]
    BY <1>2, <2>2
  <2> QED
    BY <1>1, <2>1, <2>2
<1>4. Copied(rewriter)'
  <2>1. databases \in past /\ past' = past
    BY DEF Core, Held, Serving, Bgrewriteaof, history
  <2> QED
    BY <1>1, <2>1, IdleFacts DEF Copied
<1>5. Counts'
  BY CountJobTyped DEF Core, Types, Bgrewriteaof
<1>6. Basics' /\ Logs'
  BY DEF Core, Types, Basics, Logs, Bgrewriteaof, main, files
<1>7. Jobs'
  BY <1>3 DEF Core, Types, Jobs, Bgrewriteaof
<1>8. Held'
  BY DEF Core, Held, Serving, Bgrewriteaof, main, history
<1> QED
  BY <1>4, <1>5, <1>6, <1>7, <1>8 DEF Core, Types, Copied, Written, DumpOK, Bgrewriteaof, files, history

\* The temporary file is emptied, or not opened.
LEMMA OpenTempCore ==
  ASSUME Core, NEW success \in BOOLEAN, OpenTemp(success)
  PROVE  Core'
<1>1. rewriter \in [step : {"idle", "open", "write", "rename"}, sync : {FALSE}, copy : DbState,
                    left : SUBSET (Dbs \X Keys)]
      /\ rewriter.step = "open"
  BY DEF Core, Types, Jobs, OpenTemp
<1>2. \/ rewriter' = Idle
      \/ rewriter' = [rewriter EXCEPT !.step = "write"] /\ bgrewriteaofInProgress'
  BY DEF OpenTemp
<1>3. /\ rewriter' \in [step : {"idle", "open", "write", "rename"}, sync : {FALSE}, copy : DbState,
                    left : SUBSET (Dbs \X Keys)]
      /\ rewriter'.step # "idle" => /\ bgrewriteaofInProgress' /\ rewriter'.step = "write"
                                    /\ rewriter'.copy = rewriter.copy
                                    /\ rewriter'.left = rewriter.left
  BY <1>1, <1>2, IdleFacts
<1>4. Copied(rewriter)'
  BY <1>1, <1>3 DEF Core, Copied, OpenTemp, history
<1>5. Basics' /\ Counts'
  BY DEF Core, Types, Basics, Counts, OpenTemp, main
<1>6. Logs'
  BY NothingLogged DEF Core, Types, Logs, OpenTemp, main
<1>7. Jobs'
  BY <1>3 DEF Core, Types, Jobs, OpenTemp
<1>8. Held'
  BY <1>1 DEF Core, Held, OpenTemp, main, history
<1> QED
  BY <1>4, <1>5, <1>6, <1>7, <1>8 DEF Core, Types, Copied, Written, DumpOK, OpenTemp, history

\* The rewrite writes commands that the server knows.
LEMMA KeyCommandsTyped ==
  ASSUME NEW db, Tidy(db), NEW k \in Keys, db.data[k] # Missing
  PROVE  /\ CreateCommand(k, db.data[k]) \in DataCommands
         /\ KeyCommands(db, k) \in Seq(Logged)
<1>1. PICK obj : obj = db.data[k]
  OBVIOUS
<1>2. obj \in Objects /\ Solid(obj)
  BY <1>1 DEF Tidy, DbType, Filled
<1>3. CreateCommand(k, obj) \in DataCommands
  <2>1. CASE obj.type = "string"
    <3>1. obj.str \in Strings
      BY <1>2, <2>1, KindFacts
    <3> QED
      BY <2>1, <3>1 DEF CreateCommand, DataCommands
  <2>2. CASE obj.type # "string"
    <3>1. obj.type \in {"set", "hash", "zset"} /\ obj.members \in SUBSET Members
      BY <1>2, <2>2 DEF Objects, ContainerTypes
    <3>2. obj.type # "zset" => obj.members # {}
      BY <1>2, <3>1 DEF Solid
    <3> QED
      BY <2>2, <3>1, <3>2 DEF CreateCommand, DataCommands
  <2> QED
    BY <2>1, <2>2
<1>4. db.expires[k] \in Int \cup {NoTTL}
  BY DEF Tidy, DbType
<1>5. db.expires[k] # NoTTL => [op |-> "EXPIREAT", key |-> k, at |-> db.expires[k]] \in DataCommands
  BY <1>4 DEF DataCommands
<1>6. PICK c : c = CreateCommand(k, obj)
  OBVIOUS
<1>7. PICK e : e = [op |-> "EXPIREAT", key |-> k, at |-> db.expires[k]]
  OBVIOUS
<1>8. c \in Logged /\ (db.expires[k] # NoTTL => e \in Logged)
  BY <1>3, <1>5, <1>6, <1>7, CommandsLogged
<1>9. KeyCommands(db, k) = <<c>> \o (IF db.expires[k] = NoTTL THEN <<>> ELSE <<e>>)
  BY <1>1, <1>6, <1>7 DEF KeyCommands
<1>10. KeyCommands(db, k) \in Seq(Logged)
  <2>1. CASE db.expires[k] = NoTTL
    BY <1>8, <1>9, <2>1
  <2>2. CASE db.expires[k] # NoTTL
    BY <1>8, <1>9, <2>2
  <2> QED
    BY <2>1, <2>2
<1> QED
  BY <1>1, <1>3, <1>10

\* The commands of one more key.
LEMMA RewriteKeyCore ==
  ASSUME Core, RewriteKey
  PROVE  Core'
<1>1. PICK d \in Dbs, k \in Keys :
        /\ <<d, k>> \in rewriter.left
        /\ rewriter' = [rewriter EXCEPT !.left = @ \ {<<d, k>>}]
        /\ \E s \in {<<>>, <<SelectCommand(d)>>} :
             temp' = temp \o s \o KeyCommands(rewriter.copy[d], k)
  <2>1. rewriter.left \subseteq Dbs \X Keys
    BY DEF Core, Types, Jobs
  <2>2. PICK dk \in rewriter.left :
          /\ rewriter' = [rewriter EXCEPT !.left = @ \ {dk}]
          /\ \E s \in {<<>>, <<SelectCommand(dk[1])>>} :
               temp' = temp \o s \o KeyCommands(rewriter.copy[dk[1]], dk[2])
    BY DEF RewriteKey
  <2>3. PICK d \in Dbs, k \in Keys : dk = <<d, k>> /\ dk[1] = d /\ dk[2] = k
    BY <2>1
  <2> QED
    BY <2>2, <2>3
<1>2. rewriter \in [step : {"idle", "open", "write", "rename"}, sync : {FALSE}, copy : DbState,
                    left : SUBSET (Dbs \X Keys)]
      /\ rewriter.step = "write"
  BY DEF Core, Types, Jobs, RewriteKey
<1>3. rewriter'.copy = rewriter.copy /\ rewriter'.left = rewriter.left \ {<<d, k>>}
      /\ rewriter'.step = "write"
      /\ rewriter' \in [step : {"idle", "open", "write", "rename"}, sync : {FALSE}, copy : DbState,
                    left : SUBSET (Dbs \X Keys)]
  BY <1>1, <1>2
<1>4. Tidy(rewriter.copy[d]) /\ rewriter.copy[d].data[k] # Missing
  BY <1>1, <1>2 DEF Core, Copied, Held, States, AllKeys, Present
<1>5. temp' \in Files \ {NoFile}
  <2>1. PICK s \in {<<>>, <<SelectCommand(d)>>} :
          temp' = temp \o s \o KeyCommands(rewriter.copy[d], k)
    BY <1>1
  <2>2. PICK t \in Seq(Logged) : t = KeyCommands(rewriter.copy[d], k)
    BY <1>4, KeyCommandsTyped
  <2>3. SelectCommand(d) \in Logged
    BY DEF SelectCommand, Logged
  <2>4. s \in Seq(Logged)
    <3>1. PICK c : c = SelectCommand(d)
      OBVIOUS
    <3>2. <<c>> \in Seq(Logged) /\ <<>> \in Seq(Logged)
      BY <2>3, <3>1
    <3> QED
      BY <2>1, <3>1, <3>2
  <2>5. temp \in Seq(Logged)
    BY FilesAre DEF Core, Types, Logs
  <2>6. temp \o s \o t \in Seq(Logged)
    BY <2>2, <2>4, <2>5
  <2> QED
    BY <2>1, <2>2, <2>6, FilesAre
<1>6. Copied(rewriter)'
  BY <1>2, <1>3 DEF Core, Copied, RewriteKey, history
<1>7. Basics' /\ Counts'
  BY DEF Core, Types, Basics, Counts, RewriteKey, main
<1>8. Logs'
  BY <1>5 DEF Core, Types, Logs, RewriteKey, main
<1>9. Jobs'
  BY <1>2, <1>3 DEF Core, Types, Jobs, RewriteKey
<1>10. Held'
  BY <1>2, <1>3 DEF Core, Held, RewriteKey, main, history
<1> QED
  BY <1>6, <1>7, <1>8, <1>9, <1>10 DEF Core, Types, Copied, Written, DumpOK, RewriteKey, history

\* The append-only file is removed.
LEMMA RewriteRemoveCore ==
  ASSUME Core, RewriteRemove
  PROVE  Core'
<1>1. rewriter \in [step : {"idle", "open", "write", "rename"}, sync : {FALSE}, copy : DbState,
                    left : SUBSET (Dbs \X Keys)]
      /\ rewriter.step = "write"
  BY DEF Core, Types, Jobs, RewriteRemove
<1>2. rewriter'.copy = rewriter.copy /\ rewriter'.left = rewriter.left
      /\ rewriter'.step = "rename"
      /\ rewriter' \in [step : {"idle", "open", "write", "rename"}, sync : {FALSE}, copy : DbState,
                    left : SUBSET (Dbs \X Keys)]
  BY <1>1 DEF RewriteRemove
<1>3. Basics' /\ Counts'
  BY DEF Core, Types, Basics, Counts, RewriteRemove
<1>4. Logs'
  BY FilesAre DEF Core, Types, Basics, Logs, RewriteRemove
<1>5. Jobs'
  BY <1>1, <1>2 DEF Core, Types, Jobs, RewriteRemove
<1>6. Held'
  BY <1>1, <1>2 DEF Core, Held, RewriteRemove
<1>7. Copied(rewriter)' /\ Copied(saver)'
  BY <1>1, <1>2 DEF Core, Copied, RewriteRemove
<1> QED
  BY <1>3, <1>4, <1>5, <1>6, <1>7 DEF Core, Types, Written, DumpOK, RewriteRemove

\* The temporary file takes its name.
LEMMA RewriteRenameCore ==
  ASSUME Core, RewriteRename
  PROVE  Core'
<1>1. Basics' /\ Counts'
  BY DEF Core, Types, Basics, Counts, RewriteRename, main
<1>2. Logs'
  BY NothingLogged DEF Core, Types, Logs, RewriteRename, main
<1>3. Jobs'
  BY IdleFacts DEF Core, Types, Jobs, RewriteRename
<1>4. Held'
  BY IdleFacts DEF Core, Held, RewriteRename, main, history
<1> QED
  BY <1>1, <1>2, <1>3, <1>4, IdleFacts
  DEF Core, Types, Copied, Written, DumpOK, RewriteRename, history

\* A crash, also in the middle of a flush.
LEMMA CrashCore ==
  ASSUME Core, NEW sent \in 0 .. MaxWrites, Crash(sent)
  PROVE  Core'
<1>1. aof' \in Files
  <2>1. CASE sent > 0
    <3>1. aof \in Seq(Logged) /\ aof' = aof \o SubSeq(aofBuffer, 1, sent) /\ sent <= Len(aofBuffer)
      BY <2>1, FilesAre DEF Core, Types, Logs, Crash
    <3>2. aofBuffer \in Seq(Logged)
      <4>1. aofBuffer \in Seq(Commands) /\ Commands \subseteq Logged
        BY CommandsLogged DEF Core, Types, Logs
      <4> QED
        BY <4>1
    <3>3. SubSeq(aofBuffer, 1, sent) \in Seq(Logged)
      <4>1. sent \in Int
        BY BoundsAssumption
      <4> QED
        BY <3>1, <3>2, <4>1
    <3>4. aof \o SubSeq(aofBuffer, 1, sent) \in Seq(Logged)
      BY <3>1, <3>3
    <3> QED
      BY <3>1, <3>4, FilesAre
  <2>2. CASE ~(sent > 0)
    BY <2>2 DEF Core, Types, Logs, Crash
  <2> QED
    BY <2>1, <2>2
<1>2. Empty \in DbState /\ Empty \in States
  BY EmptyState, StatesTyped
<1>3. Basics'
  BY <1>2 DEF Core, Types, Basics, Crash
<1>4. Logs'
  BY <1>1, NothingLogged, DbsAssumption DEF Core, Types, Logs, Crash
<1>5. Jobs'
  BY IdleFacts DEF Core, Types, Jobs, Crash
<1>6. Counts'
  BY BoundsAssumption DEF Core, Types, Counts, Crash
<1>7. Held'
  BY <1>2, IdleFacts DEF Core, Held, Crash, history
<1> QED
  BY <1>3, <1>4, <1>5, <1>6, <1>7, IdleFacts
  DEF Core, Types, Copied, Written, DumpOK, Crash, history

\* What a snapshot brings back, cut short or not, is a state.
LEMMA LoadedStates ==
  ASSUME Core
  PROVE  Loaded(dump) \subseteq States
<1>1. CASE dump = NoFile
  BY <1>1, EmptyState DEF Loaded
<1>2. CASE dump # NoFile
  <2>1. dump.dbs \in States
    BY <1>2 DEF Core, DumpOK
  <2>2. PICK w : w = dump.dbs
    OBVIOUS
  <2>3. ASSUME NEW d \in Dbs, NEW k \in Keys, NEW obj \in Broken
        PROVE  [w EXCEPT ![d].data[k] = obj, ![d].expires[k] = NoTTL] \in States
    <3>1. obj \in Objects /\ Solid(obj)
      <4>1. NotInt \in Strings
        BY DEF Strings
      <4> QED
        BY <4>1, KindFacts, SolidFacts DEF Broken
    <3>2. PICK a : a = w[d]
      OBVIOUS
    <3>3. Tidy(a)
      BY <2>1, <2>2, <3>2 DEF States
    <3>4. PICK r : r = [a EXCEPT !.data[k] = obj, !.expires[k] = NoTTL]
      OBVIOUS
    <3>5. Tidy(r)
      BY <3>1, <3>3, <3>4 DEF Tidy, DbType, NoOrphan, Filled
    <3>6. w \in States
      BY <2>1, <2>2
    <3>7. [w EXCEPT ![d].data[k] = obj, ![d].expires[k] = NoTTL] = [w EXCEPT ![d] = r]
      BY <3>2, <3>3, <3>4, <3>6 DEF States, DbState
    <3>8. [w EXCEPT ![d] = r] \in States
      BY <3>5, <3>6 DEF States, DbState, Tidy
    <3> QED
      BY <3>7, <3>8
  <2> DEFINE cut(d, k, obj) == [w EXCEPT ![d].data[k] = obj, ![d].expires[k] = NoTTL]
  <2>4. \A d \in Dbs, k \in Keys, obj \in Broken : cut(d, k, obj) \in States
    BY <2>3
  <2>5. Loaded(dump) = {w} \cup (IF dump.whole THEN {}
                                 ELSE {cut(d, k, obj) : d \in Dbs, k \in Keys, obj \in Broken})
    BY <1>2, <2>2 DEF Loaded
  <2> HIDE DEF cut
  <2> QED
    BY <2>1, <2>2, <2>4, <2>5
<1> QED
  BY <1>1, <1>2

\* A start from the snapshot, whole or cut short.
LEMMA StartCore ==
  ASSUME Core, StartFromDump
  PROVE  Core'
<1>1. databases' \in States /\ databases' \in DbState
  BY LoadedStates, StatesTyped DEF StartFromDump
<1>2. Basics' /\ Counts'
  BY <1>1 DEF Core, Types, Basics, Counts, StartFromDump, files
<1>3. Logs'
  BY DEF Core, Types, Logs, StartFromDump, files
<1>4. Jobs'
  BY DEF Core, Types, Jobs, StartFromDump, threads
<1>5. Held'
  BY <1>1 DEF Core, Held, StartFromDump, threads
<1> QED
  BY <1>2, <1>3, <1>4, <1>5
  DEF Core, Types, Copied, Written, DumpOK, StartFromDump, threads, files

\* A start from the append-only file.
LEMMA StartAofCore ==
  ASSUME Core, StartFromAof
  PROVE  Core'
<1>1. aof' \in Seq(Logged)
  BY NothingLogged, FilesAre DEF Core, Types, Logs, StartFromAof
<1>2. Basics' /\ Counts'
  BY DEF Core, Types, Basics, Counts, StartFromAof
<1>3. Logs'
  BY <1>1, FilesAre, DbsAssumption DEF Core, Types, Logs, StartFromAof
<1>4. Jobs'
  BY DEF Core, Types, Jobs, StartFromAof, threads
<1>5. Held'
  BY DEF Core, Held, StartFromAof, threads, history
<1> QED
  BY <1>2, <1>3, <1>4, <1>5
  DEF Core, Types, Copied, Written, DumpOK, StartFromAof, threads, history

\* One command of the file.
LEMMA LoadCommandCore ==
  ASSUME Core, LoadCommand
  PROVE  Core'
<1>1. loader \in [rest : Seq(Logged), db : Dbs] /\ loader.rest # <<>>
  BY DEF Core, Types, Logs, LoadCommand
<1>2. PICK cmd : cmd = Head(loader.rest)
  OBVIOUS
<1>3. PICK rest : rest = Tail(loader.rest)
  OBVIOUS
<1>4. cmd \in Logged /\ rest \in Seq(Logged)
  BY <1>1, <1>2, <1>3
<1>5. /\ loader' \in [rest : Seq(Logged), db : Dbs]
      /\ databases' = databases \/ (cmd \in DataCommands
                                     /\ databases' = ApplyTo(databases, loader.db, cmd))
  <2>1. CASE cmd.op = "SELECT"
    <3>1. loader' = [rest |-> rest, db |-> cmd.db] /\ databases' = databases
      BY <1>2, <1>3, <2>1 DEF LoadCommand
    <3>2. cmd.db \in Dbs
      BY <1>4, <2>1 DEF Logged, DataCommands
    <3> QED
      BY <1>4, <3>1, <3>2
  <2>2. CASE cmd.op # "SELECT"
    <3>1. loader' = [loader EXCEPT !.rest = rest]
      BY <1>2, <1>3, <2>2 DEF LoadCommand
    <3>2. databases' = ApplyTo(databases, loader.db, cmd)
      BY <1>2, <2>2 DEF LoadCommand
    <3>3. cmd \in DataCommands
      BY <1>4, <2>2 DEF Logged
    <3> QED
      BY <1>1, <1>4, <3>1, <3>2, <3>3
  <2> QED
    BY <2>1, <2>2
<1>6. databases' \in States /\ databases' \in DbState
  BY <1>1, <1>5, ApplyState, StatesTyped DEF Core, Held
<1>7. Basics' /\ Counts'
  BY <1>6 DEF Core, Types, Basics, Counts, LoadCommand, files
<1>8. Logs'
  BY <1>5 DEF Core, Types, Logs, LoadCommand, files
<1>9. Jobs'
  BY DEF Core, Types, Jobs, LoadCommand, threads
<1>10. Held'
  BY <1>6 DEF Core, Held, LoadCommand, threads, history
<1> QED
  BY <1>7, <1>8, <1>9, <1>10
  DEF Core, Types, Copied, Written, DumpOK, LoadCommand, threads, files, history

\* The file is loaded.
LEMMA LoadDoneCore ==
  ASSUME Core, LoadDone
  PROVE  Core'
<1>1. Basics' /\ Counts'
  BY DEF Core, Types, Basics, Counts, LoadDone, main, files
<1>2. Logs'
  BY DEF Core, Types, Logs, LoadDone, main, files
<1>3. Jobs'
  BY DEF Core, Types, Jobs, LoadDone, threads
<1>4. Held'
  BY DEF Core, Held, LoadDone, threads, main
<1> QED
  BY <1>1, <1>2, <1>3, <1>4
  DEF Core, Types, Copied, Written, DumpOK, LoadDone, threads, files, main

\* Core is inductive.
LEMMA CoreNext == Core /\ [Next]_vars => Core'
<1> SUFFICES ASSUME Core, [Next]_vars PROVE Core'
  OBVIOUS
<1>1. CASE UNCHANGED vars
  <2>1. Basics' /\ Counts'
    BY <1>1 DEF Core, Types, Basics, Counts, vars, main, files
  <2>2. Logs'
    BY <1>1 DEF Core, Types, Logs, vars, main, files
  <2>3. Jobs'
    BY <1>1 DEF Core, Types, Jobs, vars, threads
  <2>4. Held'
    BY <1>1 DEF Core, Held, vars, main, threads, history
  <2> QED
    BY <1>1, <2>1, <2>2, <2>3, <2>4
    DEF Core, Types, Copied, Written, DumpOK, vars, threads, files, history
<1>2. CASE Cron
  BY <1>1, <1>2, FlushCore DEF Cron
<1>3. CASE Saving
  BY <1>3, OpenDumpCore, SaveKeyCore, SaveEndCore DEF Saving
<1>4. CASE Rewriting
  BY <1>4, OpenTempCore, RewriteKeyCore, RewriteRemoveCore, RewriteRenameCore DEF Rewriting
<1> QED
  BY <1>1, <1>2, <1>3, <1>4, WriteCore, ConfigCore, SaveCore, BgrewriteCore, CrashCore,
     StartCore, StartAofCore, LoadCommandCore, LoadDoneCore DEF Next

\* Core is an invariant of every instance, whatever the habits of the clients.
THEOREM Invariance == Spec => []Core
BY CoreInit, CoreNext, PTL DEF Spec

\* Type correctness: databases, files, buffers and threads keep their types, the flag of
\* BGSAVE is set exactly while its thread works, and the stream is open on no missing file.
THEOREM Typed == Spec => []TypeOK
<1>1. Core => TypeOK
  BY TypesOK DEF Core
<1> QED
  BY <1>1, Invariance, PTL

\* A finished snapshot is the databases of one moment, for any number of keys, databases,
\* writes during the save and crashes (saveToFile works on the copy that BGSAVE made).
THEOREM PointInTime == Spec => []DumpIsPointInTime
<1>1. Core => DumpIsPointInTime
  BY DEF Core, DumpOK, DumpIsPointInTime
<1> QED
  BY <1>1, Invariance, PTL

-----------------------------------------------------------------------------
(* Replaying a log.  A log leads from one state of the databases to        *)
(* another if there is a run between them with one step per command.       *)

\* Executing command c for fakeClient, whose database stays 0, turns a into b.
Replayed(a, c, b) ==
  IF c.op = "SELECT" THEN c.db = 0 /\ b = a
  ELSE c \in DataCommands /\ b = ApplyTo(a, 0, c)

\* Log f leads from a to b.
Leads(a, f, b) ==
  \E h \in [0 .. Len(f) -> States] :
    /\ h[0] = a /\ h[Len(f)] = b
    /\ \A i \in 1 .. Len(f) : Replayed(h[i - 1], f[i], h[i])

\* An empty log changes nothing.
LEMMA LeadsNowhere ==
  ASSUME NEW a \in States
  PROVE  Leads(a, <<>>, a)
<1> DEFINE h == [i \in 0 .. 0 |-> a]
<1>1. Len(<<>>) = 0
  OBVIOUS
<1>2. h \in [0 .. 0 -> States] /\ h[0] = a
  OBVIOUS
<1> HIDE DEF h
<1> QED
  BY <1>1, <1>2 DEF Leads

\* And leads nowhere else.
LEMMA LeadsOnlyThere ==
  ASSUME NEW a, NEW b, Leads(a, <<>>, b)
  PROVE  a = b
<1>1. Len(<<>>) = 0
  OBVIOUS
<1> QED
  BY <1>1 DEF Leads

\* A replayed command leads to a state.
LEMMA ReplayedState ==
  ASSUME NEW a \in States, NEW c, NEW b, Replayed(a, c, b)
  PROVE  b \in States
BY ApplyState, DbsAssumption DEF Replayed

\* A log and one more command.
LEMMA LeadsFurther ==
  ASSUME NEW f \in Seq(Logged), NEW a, NEW m, NEW b, NEW c \in Logged,
         Leads(a, f, m), Replayed(m, c, b)
  PROVE  Leads(a, f \o <<c>>, b)
<1>1. PICK h \in [0 .. Len(f) -> States] :
        /\ h[0] = a /\ h[Len(f)] = m
        /\ \A i \in 1 .. Len(f) : Replayed(h[i - 1], f[i], h[i])
  BY DEF Leads
<1>2. PICK n \in Nat : n = Len(f)
  OBVIOUS
<1>3. m \in States
  BY <1>1, <1>2
<1>4. b \in States
  BY <1>3, ReplayedState
<1>5. PICK g : g = f \o <<c>>
  OBVIOUS
<1>6. Len(g) = n + 1 /\ g[n + 1] = c /\ \A i \in 1 .. n : g[i] = f[i]
  BY <1>2, <1>5
<1>7. PICK r : r = [i \in 0 .. n + 1 |-> IF i <= n THEN h[i] ELSE b]
  OBVIOUS
<1>8. r \in [0 .. n + 1 -> States]
  BY <1>1, <1>2, <1>4, <1>7
<1>9. r[0] = a /\ r[n + 1] = b /\ r[n] = m
  BY <1>1, <1>2, <1>7
<1>10. ASSUME NEW i \in 1 .. n + 1 PROVE Replayed(r[i - 1], g[i], r[i])
  <2>1. CASE i = n + 1
    <3>1. r[i] = b /\ r[i - 1] = m /\ g[i] = c
      BY <1>2, <1>6, <1>9, <2>1
    <3> QED
      BY <3>1
  <2>2. CASE i # n + 1
    <3>1. r[i] = h[i] /\ r[i - 1] = h[i - 1] /\ i \in 1 .. n
      BY <1>2, <1>7, <2>2
    <3> QED
      BY <1>1, <1>2, <1>6, <3>1
  <2> QED
    BY <2>1, <2>2
<1> QED
  BY <1>5, <1>6, <1>8, <1>9, <1>10 DEF Leads

\* The first command of a log, and the others.
LEMMA LeadsFirst ==
  ASSUME NEW f \in Seq(Logged), f # <<>>, NEW a, NEW b, Leads(a, f, b)
  PROVE  \E m \in States : Replayed(a, Head(f), m) /\ Leads(m, Tail(f), b)
<1>1. PICK h \in [0 .. Len(f) -> States] :
        /\ h[0] = a /\ h[Len(f)] = b
        /\ \A i \in 1 .. Len(f) : Replayed(h[i - 1], f[i], h[i])
  BY DEF Leads
<1>2. PICK n \in Nat : n + 1 = Len(f)
  BY EmptySeq
<1>3. PICK g : g = Tail(f)
  OBVIOUS
<1>4. Len(g) = n /\ Head(f) = f[1] /\ \A i \in 1 .. n : g[i] = f[i + 1]
  <2>1. Len(Tail(f)) = Len(f) - 1 /\ \A i \in 1 .. Len(f) - 1 : Tail(f)[i] = f[i + 1]
    OBVIOUS
  <2>2. Head(f) = f[1]
    OBVIOUS
  <2> QED
    BY <1>2, <1>3, <2>1, <2>2
<1>5. PICK r : r = [i \in 0 .. n |-> h[i + 1]]
  OBVIOUS
<1>6. r \in [0 .. n -> States] /\ r[0] = h[1] /\ r[n] = b
  <2>1. h \in [0 .. n + 1 -> States] /\ h[n + 1] = b
    BY <1>1, <1>2
  <2>2. \A i \in 0 .. n : i + 1 \in 0 .. n + 1
    OBVIOUS
  <2> QED
    BY <1>5, <2>1, <2>2
<1>7. Replayed(a, f[1], h[1]) /\ h[1] \in States
  <2>1. 1 \in 1 .. Len(f) /\ 1 - 1 = 0 /\ 1 \in 0 .. Len(f)
    BY <1>2
  <2> QED
    BY <1>1, <2>1
<1>8. ASSUME NEW i \in 1 .. n PROVE Replayed(r[i - 1], g[i], r[i])
  <2>1. PICK j \in 1 .. Len(f) : j = i + 1
    BY <1>2
  <2>2. r[i] = h[j] /\ r[i - 1] = h[j - 1] /\ g[i] = f[j]
    BY <1>2, <1>4, <1>5, <2>1
  <2> QED
    BY <1>1, <2>1, <2>2
<1>9. Leads(h[1], g, b)
  BY <1>4, <1>6, <1>8 DEF Leads
<1> QED
  BY <1>3, <1>4, <1>7, <1>9

-----------------------------------------------------------------------------
(* The commands of the rewrite bring each key back.                        *)

\* CreateCommand brings back a string or a container where no key is.
LEMMA CreateApplied ==
  ASSUME NEW db \in DbType, NEW k \in Keys, db.data[k] = Missing, db.expires[k] = NoTTL,
         NEW obj \in Objects, NEW r, r = Apply(db, CreateCommand(k, obj), Now)
  PROVE  r.data = [db.data EXCEPT ![k] = obj] /\ r.expires = db.expires
<1>1. CASE obj.type = "string"
  <2>1. PICK c : c = CreateCommand(k, obj)
    OBVIOUS
  <2>2. c.op = "SET" /\ c.key = k /\ c.str = obj.str /\ c.flags = {} /\ c.ttl = NoTTL
    BY <1>1, <2>1 DEF CreateCommand
  <2>3. obj = StringObj(obj.str)
    BY <1>1 DEF Objects, StringObj, ContainerTypes
  <2>4. setCommand(db, c, Now) = set(db, k, obj.str)
    BY <2>2 DEF setCommand
  <2>5. r = setObject(db, k, obj)
    BY <2>1, <2>2, <2>3, <2>4 DEF Apply, set
  <2> QED
    BY <2>5 DEF setObject, DbType
<1>2. CASE obj.type # "string"
  <2>1. PICK c : c = CreateCommand(k, obj)
    OBVIOUS
  <2>2. c.op = "ADD" /\ c.key = k /\ c.type = obj.type /\ c.members = obj.members
    BY <1>2, <2>1 DEF CreateCommand
  <2>3. obj = ContainerObj(obj.type, obj.members) /\ obj.type \in ContainerTypes
        /\ obj.members \in SUBSET Members
    BY <1>2 DEF Objects, ContainerObj, ContainerTypes
  <2>4. PICK looked : looked = checkAndExpire(db, {k}, Now)
    OBVIOUS
  <2>5. looked \in DbType /\ looked.data = db.data /\ looked.expires = db.expires
    BY <2>4 DEF checkAndExpire, DbType, isExpired, Present
  <2>6. PICK made : made = ContainerObj(obj.type, {})
    OBVIOUS
  <2>7. made \in Objects /\ made.type = obj.type /\ made.members = {}
    BY <2>3, <2>6, KindFacts
  <2>8. PICK created : created = setObject(looked, k, made)
    OBVIOUS
  <2>9. created \in DbType /\ created.data = [db.data EXCEPT ![k] = made]
        /\ created.expires = db.expires
    BY <2>5, <2>7, <2>8 DEF setObject, DbType
  <2>10. created.data[k] = made
    BY <2>9 DEF DbType
  <2>11. ContainerObj(c.type, made.members \cup c.members) = obj
    BY <2>2, <2>3, <2>7
  <2>12. r = [created EXCEPT !.data[k] = obj]
    <3>1. r = addCommand(db, c, Now)
      BY <2>1, <2>2 DEF Apply
    <3>2. ~Present(looked, k)
      BY <2>5 DEF Present
    <3>3. addCommand(db, c, Now) = [created EXCEPT !.data[k] = ContainerObj(c.type, @.members \cup c.members)]
      BY <2>2, <2>4, <2>6, <2>7, <2>8, <2>10, <3>2 DEF addCommand, get
    <3> QED
      BY <2>10, <2>11, <3>1, <3>3
  <2> QED
    BY <2>9, <2>12 DEF DbType
<1> QED
  BY <1>1, <1>2

\* EXPIREAT brings back its deadline.
LEMMA DeadlineApplied ==
  ASSUME NEW db \in DbType, NEW k \in Keys, db.data[k] # Missing, NEW at \in Int,
         NEW r, r = Apply(db, [op |-> "EXPIREAT", key |-> k, at |-> at], Now)
  PROVE  r.data = db.data /\ r.expires = [db.expires EXCEPT ![k] = at]
BY DEF Apply, setExpiryAt, Present, DbType

-----------------------------------------------------------------------------
(* What the append-only file leads to.                                     *)

\* The states a restart may bring back.
Good == IF replaced THEN past ELSE recent

\* With the append-only file on, clients leave all databases but 0 alone.
Single == appendOnly /\ \A p \in past, d \in Dbs \ {0} : p[d] = EmptyDb

\* Down: the file that a start will load leads to a state it may bring back.
DownOK ==
  phase = "down" =>
    /\ databases = Empty
    /\ \E g \in Good : IF aof = NoFile THEN g = Empty ELSE Leads(Empty, aof, g)

\* Loading: the whole file leads there, and so does its rest from what is in memory.
LoadOK ==
  phase = "loading" =>
    /\ aofStream = "file" /\ loader.db = 0
    /\ \E g \in Good : Leads(Empty, aof, g) /\ Leads(databases, loader.rest, g)

\* Up, with the file in place: it leads with the buffer to the databases, and with each part
\* of the buffer to a state since the last flush, since a crash may come in the middle of one.
InPlace ==
  phase = "up" /\ ~replaced =>
    /\ aofStream = "file"
    /\ Leads(Empty, aof \o aofBuffer, databases)
    /\ \A i \in 0 .. Len(aofBuffer) :
         \E r \in recent : Leads(Empty, aof \o SubSeq(aofBuffer, 1, i), r)

\* Up, after a rewrite: the stream has lost its name, and the new file is missing or leads
\* to a state of the past.
Unlinked ==
  phase = "up" /\ replaced =>
    /\ aofStream = "unlinked"
    /\ aof = NoFile \/ \E g \in past : Leads(Empty, aof, g)

\* The temporary file leads to the keys of the copy written so far, and when it is complete
\* to the copy.
Rewritten ==
  /\ rewriter.step = "write" =>
       \E w \in States : Leads(Empty, temp, w) /\ Partial(w, rewriter.copy, rewriter.left)
  /\ rewriter.step = "rename" => replaced /\ Leads(Empty, temp, rewriter.copy)

\* All of this; without appendonly the file is never read.
LogOK ==
  /\ phase = "loading" => configAof
  /\ configAof => Single /\ DownOK /\ LoadOK /\ InPlace /\ Unlinked /\ Rewritten

\* There is no file, and the databases are empty.
LEMMA LogInit == Init => LogOK
<1> SUFFICES ASSUME Init PROVE LogOK
  OBVIOUS
<1>1. configAof => Single
  BY DEF Init, Single, Empty
<1>2. DownOK
  BY DEF Init, DownOK, Good
<1>3. LoadOK /\ InPlace /\ Unlinked
  BY DEF Init, LoadOK, InPlace, Unlinked
<1>4. Rewritten
  BY IdleFacts DEF Init, Rewritten
<1> QED
  BY <1>1, <1>2, <1>3, <1>4 DEF Init, LogOK

\* A step that leaves the log, the databases and the rewrite alone.
LEMMA LogFrame ==
  ASSUME LogOK,
         UNCHANGED <<phase, databases, configAof, appendOnly, aofBuffer, aofStream, aof, temp,
                     rewriter, loader, past, recent, replaced>>
  PROVE  LogOK'
BY DEF LogOK, Single, DownOK, LoadOK, InPlace, Unlinked, Rewritten, Good

\* One more command in the buffer.
LEMMA OneMoreLogged ==
  ASSUME NEW f \in Seq(Logged), NEW b \in Seq(Logged), NEW c \in Logged, NEW t, t = Append(b, c)
  PROVE  /\ f \o t = (f \o b) \o <<c>>
         /\ t \in Seq(Logged) /\ Len(t) = Len(b) + 1
         /\ \A i \in 0 .. Len(b) : SubSeq(t, 1, i) = SubSeq(b, 1, i)
         /\ SubSeq(t, 1, Len(b) + 1) = t
<1>1. f \o t = (f \o b) \o <<c>>
  OBVIOUS
<1>2. t \in Seq(Logged) /\ Len(t) = Len(b) + 1
  OBVIOUS
<1>3. ASSUME NEW i \in 0 .. Len(b) PROVE SubSeq(t, 1, i) = SubSeq(b, 1, i)
  OBVIOUS
<1>4. SubSeq(t, 1, Len(b) + 1) = t
  OBVIOUS
<1> QED
  BY <1>1, <1>2, <1>3, <1>4

\* A write: with the append-only file on it is logged, and made in database 0.
LEMMA WriteLog ==
  ASSUME AofHabits = {}, Core, LogOK, NEW d \in Dbs, NEW cmd \in Commands,
         Execute(d, cmd) \/ ExecWrite(d, cmd)
  PROVE  LogOK'
<1>1. CASE ~configAof
  BY <1>1 DEF LogOK, Execute, ExecWrite, Serving
<1>2. CASE configAof
  <2>1. Execute(0, cmd) /\ phase = "up" /\ Single /\ d = 0
    BY <1>2 DEF LogOK, Execute, ExecWrite, Serving
  <2>2. PICK w : w = ApplyTo(databases, 0, cmd)
    OBVIOUS
  <2>3. databases \in States /\ databases \in past /\ recent \subseteq past
    BY <2>1 DEF Core, Held
  <2>4. w \in States /\ cmd \in DataCommands
    BY <2>2, <2>3, ApplyState, CommandsLogged, DbsAssumption
  <2>5. /\ databases' = w /\ past' = past \cup {w} /\ recent' = recent \cup {w}
        /\ aofBuffer' = Append(aofBuffer, cmd)
        /\ UNCHANGED <<phase, configAof, appendOnly, aofStream, aof, temp, rewriter, loader, replaced>>
    BY <2>1, <2>2 DEF Execute, Remember, Single, files, threads
  <2>6. Single'
    <3>1. \A e \in Dbs \ {0} : w[e] = databases[e]
      BY <2>2, <2>3 DEF ApplyTo, States, DbState
    <3> QED
      BY <2>1, <2>3, <2>5, <3>1 DEF Single
  <2>7. DownOK' /\ LoadOK'
    BY <2>1, <2>5 DEF DownOK, LoadOK
  <2>8. Unlinked' /\ Rewritten'
    BY <1>2, <2>5 DEF LogOK, Unlinked, Rewritten
  <2>9. InPlace'
    <3> SUFFICES ASSUME ~replaced PROVE InPlace'
      BY <2>5 DEF InPlace
    <3>1. InPlace /\ aofStream = "file"
      BY <1>2, <2>1 DEF LogOK, InPlace
    <3>2. PICK b \in Seq(Logged) : b = aofBuffer
      <4>1. aofBuffer \in Seq(Commands) /\ Commands \subseteq Logged
        BY CommandsLogged DEF Core, Types, Logs
      <4> QED
        BY <4>1
    <3>3. PICK f \in Seq(Logged) : f = aof
      BY <3>1, FilesAre DEF Core, Types, Logs
    <3>4. PICK t : t = Append(b, cmd)
      OBVIOUS
    <3>5. cmd \in Logged
      BY CommandsLogged
    <3>6. /\ f \o t = (f \o b) \o <<cmd>>
          /\ t \in Seq(Logged) /\ Len(t) = Len(b) + 1
          /\ \A i \in 0 .. Len(b) : SubSeq(t, 1, i) = SubSeq(b, 1, i)
          /\ SubSeq(t, 1, Len(b) + 1) = t
      BY <3>2, <3>3, <3>4, <3>5, OneMoreLogged
    <3>7. Leads(Empty, f \o b, databases)
      BY <2>1, <3>1, <3>2, <3>3 DEF InPlace
    <3>8. Replayed(databases, cmd, w)
      <4>1. cmd.op # "SELECT"
        BY <2>4 DEF DataCommands
      <4> QED
        BY <2>2, <2>4, <4>1 DEF Replayed
    <3>9. Leads(Empty, f \o t, w)
      <4>1. f \o b \in Seq(Logged)
        BY <3>2, <3>3
      <4> QED
        BY <3>5, <3>6, <3>7, <3>8, <4>1, LeadsFurther
    <3>10. ASSUME NEW i \in 0 .. Len(t)
           PROVE  \E r \in recent' : Leads(Empty, f \o SubSeq(t, 1, i), r)
      <4>1. CASE i = Len(b) + 1
        BY <2>5, <3>6, <3>9, <4>1
      <4>2. CASE i # Len(b) + 1
        <5>1. i \in 0 .. Len(b)
          BY <3>2, <3>6, <4>2
        <5>2. SubSeq(t, 1, i) = SubSeq(b, 1, i)
          BY <3>6, <5>1
        <5>3. \E r \in recent : Leads(Empty, f \o SubSeq(b, 1, i), r)
          BY <2>1, <3>1, <3>2, <3>3, <5>1 DEF InPlace
        <5> QED
          BY <2>5, <5>2, <5>3
      <4> QED
        BY <4>1, <4>2
    <3>11. aofBuffer' = t /\ aof' = f /\ databases' = w /\ aofStream' = "file"
      BY <2>5, <3>1, <3>2, <3>3, <3>4
    <3> QED
      BY <3>9, <3>10, <3>11 DEF InPlace
  <2> QED
    BY <1>2, <2>1, <2>5, <2>6, <2>7, <2>8, <2>9 DEF LogOK
<1> QED
  BY <1>1, <1>2

\* Nothing behind a file.
LEMMA ConcatNothing ==
  ASSUME NEW f \in Seq(Logged)
  PROVE  f \o <<>> = f
OBVIOUS

\* Nothing of a buffer.
LEMMA NothingTaken ==
  ASSUME NEW b
  PROVE  SubSeq(b, 1, 0) = <<>>
OBVIOUS

\* flushAof: the file now leads to the databases, or the stream has lost its name.
LEMMA FlushLog ==
  ASSUME Core, LogOK, Serving, flushAof
  PROVE  LogOK'
<1>1. CASE ~configAof
  BY <1>1 DEF LogOK, flushAof
<1>2. CASE configAof
  <2>1. phase = "up" /\ databases \in past
    BY DEF Serving, Core, Held
  <2>2. /\ aofBuffer' = <<>> /\ recent' = {databases}
        /\ UNCHANGED <<phase, configAof, databases, appendOnly, aofStream, temp, rewriter, loader,
                       past, replaced>>
    BY DEF flushAof, threads
  <2>3. Single' /\ DownOK' /\ LoadOK'
    BY <1>2, <2>1, <2>2 DEF LogOK, Single, DownOK, LoadOK
  <2>4. Rewritten'
    BY <1>2, <2>2 DEF LogOK, Rewritten
  <2>5. Unlinked'
    <3>1. replaced => aof' = aof
      BY <1>2, <2>1 DEF LogOK, Unlinked, flushAof
    <3> QED
      BY <1>2, <2>1, <2>2, <3>1 DEF LogOK, Unlinked
  <2>6. InPlace'
    <3> SUFFICES ASSUME ~replaced PROVE InPlace'
      BY <2>2 DEF InPlace
    <3>1. aofStream = "file" /\ Leads(Empty, aof \o aofBuffer, databases) /\ aof' = aof \o aofBuffer
      BY <1>2, <2>1 DEF LogOK, InPlace, flushAof
    <3>2. PICK b \in Seq(Logged) : b = aofBuffer
      <4>1. aofBuffer \in Seq(Commands) /\ Commands \subseteq Logged
        BY CommandsLogged DEF Core, Types, Logs
      <4> QED
        BY <4>1
    <3>3. PICK f \in Seq(Logged) : f = aof
      BY <3>1, FilesAre DEF Core, Types, Logs
    <3>4. PICK t \in Seq(Logged) : t = f \o b
      <4>1. f \o b \in Seq(Logged)
        OBVIOUS
      <4> QED
        BY <4>1
    <3>5. Leads(Empty, t, databases) /\ aof' = t
      BY <3>1, <3>2, <3>3, <3>4
    <3>6. PICK e : e = <<>>
      OBVIOUS
    <3>7. t \o e = t /\ Len(e) = 0 /\ SubSeq(e, 1, 0) = e
      <4>1. t \o e = t
        BY <3>6, ConcatNothing
      <4>2. Len(e) = 0
        BY <3>6
      <4>3. SubSeq(e, 1, 0) = e
        BY <3>6, NothingTaken
      <4> QED
        BY <4>1, <4>2, <4>3
    <3>8. aofBuffer' = e /\ databases' = databases /\ databases \in recent' /\ aofStream' = "file"
      BY <2>2, <3>1, <3>6
    <3>9. Leads(Empty, aof' \o aofBuffer', databases')
      BY <3>5, <3>7, <3>8
    <3>10. ASSUME NEW i \in 0 .. Len(aofBuffer')
           PROVE  \E r \in recent' : Leads(Empty, aof' \o SubSeq(aofBuffer', 1, i), r)
      <4>1. i = 0
        BY <3>7, <3>8
      <4>2. aof' \o SubSeq(aofBuffer', 1, i) = t
        BY <3>5, <3>7, <3>8, <4>1
      <4> QED
        BY <3>5, <3>8, <4>2
    <3> QED
      BY <3>8, <3>9, <3>10 DEF InPlace
  <2> QED
    BY <1>2, <2>1, <2>2, <2>3, <2>4, <2>5, <2>6 DEF LogOK
<1> QED
  BY <1>1, <1>2

\* The empty temporary file leads to a database without keys.
LEMMA OpenTempLog ==
  ASSUME Core, LogOK, NEW success \in BOOLEAN, OpenTemp(success)
  PROVE  LogOK'
<1>1. CASE ~configAof
  BY <1>1 DEF LogOK, OpenTemp, main
<1>2. CASE configAof
  <2>1. Single' /\ DownOK' /\ LoadOK' /\ InPlace' /\ Unlinked'
    BY <1>2 DEF LogOK, Single, DownOK, LoadOK, InPlace, Unlinked, Good, OpenTemp, main, history
  <2>2. Rewritten'
    <3>1. CASE ~success
      BY <3>1, IdleFacts DEF OpenTemp, Rewritten
    <3>2. CASE success
      <4>1. rewriter.copy \in States /\ rewriter.left = AllKeys(rewriter.copy)
        BY DEF Core, Copied, Held, OpenTemp
      <4>2. Partial(Empty, rewriter.copy, rewriter.left)
        BY <4>1, PartialStart
      <4>3. Leads(Empty, <<>>, Empty) /\ Empty \in States
        BY EmptyState, LeadsNowhere
      <4>4. rewriter'.step = "write" /\ rewriter'.copy = rewriter.copy
            /\ rewriter'.left = rewriter.left /\ temp' = <<>>
        BY <3>2 DEF OpenTemp, Core, Types, Jobs
      <4> QED
        BY <4>2, <4>3, <4>4 DEF Rewritten
    <3> QED
      BY <3>1, <3>2
  <2> QED
    BY <1>2, <2>1, <2>2 DEF LogOK, OpenTemp
<1> QED
  BY <1>1, <1>2

\* Replaying the commands of one key on a state without it adds that key as it is in copy.
LEMMA KeyReplayed ==
  ASSUME NEW w \in States, NEW copy \in States, NEW k \in Keys,
         w[0].data[k] = Missing, w[0].expires[k] = NoTTL, copy[0].data[k] # Missing,
         NEW f \in Seq(Logged), Leads(Empty, f, w)
  PROVE  \E r \in States :
           /\ Leads(Empty, f \o KeyCommands(copy[0], k), r)
           /\ \A e \in Dbs \ {0} : r[e] = w[e]
           /\ \A j \in Keys \ {k} : r[0].data[j] = w[0].data[j] /\ r[0].expires[j] = w[0].expires[j]
           /\ r[0].data[k] = copy[0].data[k] /\ r[0].expires[k] = copy[0].expires[k]
<1>1. PICK obj : obj = copy[0].data[k]
  OBVIOUS
<1>2. PICK at : at = copy[0].expires[k]
  OBVIOUS
<1>3. Tidy(copy[0]) /\ Tidy(w[0]) /\ w \in [Dbs -> DbType] /\ w[0] \in DbType
  BY DbsAssumption DEF States, DbState, Tidy
<1>4. obj \in Objects /\ at \in Int \cup {NoTTL} /\ obj # Missing
  BY <1>1, <1>2, <1>3 DEF Tidy, DbType
<1>5. PICK c : c = CreateCommand(k, obj)
  OBVIOUS
<1>6. c \in DataCommands /\ c \in Logged /\ c.op # "SELECT"
  <2>1. c \in DataCommands
    BY <1>1, <1>3, <1>5, KeyCommandsTyped
  <2> QED
    BY <2>1, CommandsLogged DEF DataCommands
<1>7. PICK a : a = ApplyTo(w, 0, c)
  OBVIOUS
<1>8. a \in States
  BY <1>6, <1>7, ApplyState, DbsAssumption
<1>9. PICK u : u = Apply(w[0], c, Now)
  OBVIOUS
<1>10. u.data = [w[0].data EXCEPT ![k] = obj] /\ u.expires = w[0].expires
  BY <1>3, <1>4, <1>5, <1>9, CreateApplied
<1>11. u \in DbType
  BY <1>3, <1>6, <1>9, ApplySound DEF Sound, Now
<1>12. a[0].data = u.data /\ a[0].expires = u.expires /\ \A e \in Dbs \ {0} : a[e] = w[e]
  <2>1. a = [w EXCEPT ![0] = [u EXCEPT !.touched = {}]]
    BY <1>7, <1>9 DEF ApplyTo
  <2>2. a[0] = [u EXCEPT !.touched = {}]
    BY <1>3, <2>1, DbsAssumption
  <2>3. \A e \in Dbs \ {0} : a[e] = w[e]
    BY <1>3, <2>1
  <2> QED
    BY <1>11, <2>2, <2>3 DEF DbType
<1>13. /\ a[0].data[k] = obj /\ a[0].expires[k] = NoTTL
       /\ \A j \in Keys \ {k} : a[0].data[j] = w[0].data[j] /\ a[0].expires[j] = w[0].expires[j]
  BY <1>3, <1>10, <1>12 DEF DbType
<1>14. PICK g : g = f \o <<c>>
  OBVIOUS
<1>15. Leads(Empty, g, a) /\ g \in Seq(Logged)
  <2>1. Replayed(w, c, a)
    BY <1>6, <1>7 DEF Replayed
  <2>2. f \o <<c>> \in Seq(Logged)
    BY <1>6
  <2> QED
    BY <1>6, <1>14, <2>1, <2>2, LeadsFurther
<1>16. CASE at = NoTTL
  <2>1. KeyCommands(copy[0], k) = <<c>> \o <<>>
    BY <1>1, <1>2, <1>5, <1>16 DEF KeyCommands
  <2>2. <<c>> \o <<>> = <<c>>
    OBVIOUS
  <2>3. f \o KeyCommands(copy[0], k) = g
    BY <1>14, <2>1, <2>2
  <2> QED
    BY <1>1, <1>2, <1>8, <1>12, <1>13, <1>15, <1>16, <2>3
<1>17. CASE at # NoTTL
  <2>1. PICK x : x = [op |-> "EXPIREAT", key |-> k, at |-> at]
    OBVIOUS
  <2>2. at \in Int
    BY <1>4, <1>17
  <2>3. x \in DataCommands /\ x \in Logged /\ x.op # "SELECT"
    <3>1. x \in DataCommands
      BY <2>1, <2>2 DEF DataCommands
    <3> QED
      BY <2>1, <3>1, CommandsLogged
  <2>4. PICK b : b = ApplyTo(a, 0, x)
    OBVIOUS
  <2>5. b \in States
    BY <1>8, <2>3, <2>4, ApplyState, DbsAssumption
  <2>6. a \in [Dbs -> DbType] /\ a[0] \in DbType
    BY <1>8, DbsAssumption DEF States, DbState
  <2>7. PICK v : v = Apply(a[0], x, Now)
    OBVIOUS
  <2>8. v.data = a[0].data /\ v.expires = [a[0].expires EXCEPT ![k] = at]
    BY <1>4, <1>13, <2>1, <2>2, <2>6, <2>7, DeadlineApplied
  <2>9. v \in DbType
    BY <2>3, <2>6, <2>7, ApplySound DEF Sound, Now
  <2>10. b[0].data = v.data /\ b[0].expires = v.expires /\ \A e \in Dbs \ {0} : b[e] = a[e]
    <3>1. b = [a EXCEPT ![0] = [v EXCEPT !.touched = {}]]
      BY <2>4, <2>7 DEF ApplyTo
    <3>2. b[0] = [v EXCEPT !.touched = {}]
      BY <2>6, <3>1, DbsAssumption
    <3>3. \A e \in Dbs \ {0} : b[e] = a[e]
      BY <2>6, <3>1
    <3> QED
      BY <2>9, <3>2, <3>3 DEF DbType
  <2>11. /\ b[0].data[k] = obj /\ b[0].expires[k] = at
         /\ \A j \in Keys \ {k} : b[0].data[j] = w[0].data[j] /\ b[0].expires[j] = w[0].expires[j]
    <3>1. a[0].expires \in [Keys -> Int \cup {NoTTL}]
      BY <2>6 DEF DbType
    <3> QED
      BY <1>13, <2>8, <2>10, <3>1
  <2>12. Leads(Empty, g \o <<x>>, b)
    <3>1. Replayed(a, x, b)
      BY <2>3, <2>4 DEF Replayed
    <3> QED
      BY <1>15, <2>3, <3>1, LeadsFurther
  <2>13. f \o KeyCommands(copy[0], k) = g \o <<x>>
    <3>1. KeyCommands(copy[0], k) = <<c>> \o <<x>>
      BY <1>1, <1>2, <1>5, <1>17, <2>1 DEF KeyCommands
    <3>2. f \o (<<c>> \o <<x>>) = (f \o <<c>>) \o <<x>>
      BY <1>6, <2>3
    <3> QED
      BY <1>14, <3>1, <3>2
  <2> QED
    BY <1>1, <1>2, <1>12, <2>5, <2>10, <2>11, <2>12, <2>13
<1> QED
  BY <1>16, <1>17

\* One more key of the copy is in the temporary file.
LEMMA RewriteKeyLog ==
  ASSUME Core, LogOK, RewriteKey
  PROVE  LogOK'
<1>1. CASE ~configAof
  BY <1>1 DEF LogOK, RewriteKey, main
<1>2. CASE configAof
  <2>1. Single' /\ DownOK' /\ LoadOK' /\ InPlace' /\ Unlinked'
    BY <1>2 DEF LogOK, Single, DownOK, LoadOK, InPlace, Unlinked, Good, RewriteKey, main, history
  <2>2. PICK d \in Dbs, k \in Keys :
        /\ <<d, k>> \in rewriter.left
        /\ rewriter' = [rewriter EXCEPT !.left = @ \ {<<d, k>>}]
        /\ \E s \in {<<>>, <<SelectCommand(d)>>} :
             temp' = temp \o s \o KeyCommands(rewriter.copy[d], k)
    <3>1. rewriter.left \subseteq Dbs \X Keys
      BY DEF Core, Types, Jobs
    <3>2. PICK dk \in rewriter.left :
          /\ rewriter' = [rewriter EXCEPT !.left = @ \ {dk}]
          /\ \E s \in {<<>>, <<SelectCommand(dk[1])>>} :
               temp' = temp \o s \o KeyCommands(rewriter.copy[dk[1]], dk[2])
      BY DEF RewriteKey
    <3>3. PICK d \in Dbs, k \in Keys : dk = <<d, k>> /\ dk[1] = d /\ dk[2] = k
      BY <3>1
    <3> QED
      BY <3>2, <3>3
  <2>3. PICK copy : copy = rewriter.copy
    OBVIOUS
  <2>4. PICK left : left = rewriter.left
    OBVIOUS
  <2>5. copy \in past /\ copy \in States /\ left \in SUBSET AllKeys(copy) /\ rewriter.step = "write"
    BY <2>3, <2>4 DEF RewriteKey, Core, Copied, Held
  <2>6. rewriter'.copy = copy /\ rewriter'.left = left \ {<<d, k>>} /\ rewriter'.step = "write"
    BY <2>2, <2>3, <2>4, <2>5 DEF Core, Types, Jobs
  <2>7. d = 0
    <3>1. copy[d].data[k] # Missing
      BY <2>2, <2>4, <2>5 DEF AllKeys, Present
    <3>2. d # 0 => copy[d] = EmptyDb
      BY <1>2, <2>5 DEF LogOK, Single
    <3> QED
      BY <3>1, <3>2 DEF EmptyDb
  <2>8. PICK w \in States : Leads(Empty, temp, w) /\ Partial(w, copy, left)
    BY <1>2, <2>3, <2>4, <2>5 DEF LogOK, Rewritten
  <2>9. PICK s \in {<<>>, <<SelectCommand(d)>>} :
           temp' = temp \o s \o KeyCommands(rewriter.copy[d], k)
    BY <2>2
  <2>10. PICK f \in Seq(Logged) : f = temp \o s /\ Leads(Empty, f, w)
    <3>1. temp \in Seq(Logged)
      BY FilesAre DEF Core, Types, Logs
    <3>2. CASE s = <<>>
      BY <2>8, <3>1, <3>2, ConcatNothing
    <3>3. CASE s = <<SelectCommand(d)>>
      <4>1. PICK c : c = SelectCommand(d)
        OBVIOUS
      <4>2. c \in Logged /\ c.op = "SELECT" /\ c.db = 0
        BY <2>7, <4>1 DEF SelectCommand, Logged
      <4>3. Replayed(w, c, w)
        BY <4>2 DEF Replayed
      <4>4. Leads(Empty, temp \o <<c>>, w)
        BY <2>8, <3>1, <4>2, <4>3, LeadsFurther
      <4>5. temp \o <<c>> \in Seq(Logged)
        BY <3>1, <4>2
      <4> QED
        BY <3>3, <4>1, <4>4, <4>5
    <3> QED
      BY <2>9, <3>2, <3>3
  <2>11. w[0].data[k] = Missing /\ w[0].expires[k] = NoTTL /\ copy[0].data[k] # Missing
    <3>1. copy[d].data[k] # Missing
      BY <2>2, <2>4, <2>5 DEF AllKeys, Present
    <3>2. w[d].data[k] = Missing /\ w[d].expires[k] = NoTTL
      BY <2>2, <2>4, <2>8 DEF Partial
    <3> QED
      BY <2>7, <3>1, <3>2
  <2>12. PICK r \in States :
           /\ Leads(Empty, f \o KeyCommands(copy[0], k), r)
           /\ \A e \in Dbs \ {0} : r[e] = w[e]
           /\ \A j \in Keys \ {k} : r[0].data[j] = w[0].data[j] /\ r[0].expires[j] = w[0].expires[j]
           /\ r[0].data[k] = copy[0].data[k] /\ r[0].expires[k] = copy[0].expires[k]
    <3>1. Leads(Empty, f, w)
      BY <2>10
    <3>2. copy \in States
      BY <2>5
    <3> QED
      BY <2>11, <3>1, <3>2, KeyReplayed
  <2>13. Partial(r, copy, left \ {<<d, k>>})
    BY <2>2, <2>4, <2>5, <2>7, <2>8, <2>12, PartialStep
  <2>14. temp' = f \o KeyCommands(copy[0], k)
    BY <2>3, <2>7, <2>10, <2>9
  <2>15. Rewritten'
    BY <2>6, <2>12, <2>13, <2>14 DEF Rewritten
  <2> QED
    BY <1>2, <2>1, <2>15 DEF LogOK, RewriteKey
<1> QED
  BY <1>1, <1>2

\* The temporary file leads to the copy when the append-only file is removed.
LEMMA RewriteRemoveLog ==
  ASSUME Core, LogOK, RewriteRemove
  PROVE  LogOK'
<1>1. CASE ~configAof
  BY <1>1 DEF LogOK, RewriteRemove
<1>2. CASE configAof
  <2>1. phase = "up" /\ phase' = "up"
    BY DEF RewriteRemove, Core, Held, Types, Basics
  <2>2. Single' /\ DownOK' /\ LoadOK'
    BY <1>2, <2>1 DEF LogOK, Single, DownOK, LoadOK, RewriteRemove
  <2>3. InPlace'
    BY DEF InPlace, RewriteRemove
  <2>4. Unlinked'
    BY <1>2, <2>1 DEF LogOK, Unlinked, InPlace, RewriteRemove
  <2>5. Rewritten'
    <3>1. PICK w \in States : Leads(Empty, temp, w) /\ Partial(w, rewriter.copy, {})
      BY <1>2 DEF LogOK, Rewritten, RewriteRemove
    <3>2. rewriter.copy \in States
      BY DEF Core, Copied, Held, RewriteRemove
    <3>3. w = rewriter.copy
      BY <3>1, <3>2, PartialEnd
    <3>4. rewriter'.step = "rename" /\ rewriter'.copy = rewriter.copy /\ temp' = temp /\ replaced'
      BY DEF RewriteRemove, Core, Types, Jobs
    <3> QED
      BY <3>1, <3>3, <3>4 DEF Rewritten
  <2> QED
    BY <1>2, <2>1, <2>2, <2>3, <2>4, <2>5 DEF LogOK, RewriteRemove
<1> QED
  BY <1>1, <1>2

\* The file is the rewritten one: it leads to a state of the past.
LEMMA RewriteRenameLog ==
  ASSUME Core, LogOK, RewriteRename
  PROVE  LogOK'
<1>1. CASE ~configAof
  BY <1>1 DEF LogOK, RewriteRename
<1>2. CASE configAof
  <2>1. phase = "up" /\ phase' = "up" /\ replaced /\ replaced' /\ aof' = temp
    BY <1>2 DEF RewriteRename, Core, Held, LogOK, Rewritten, history
  <2>2. Leads(Empty, temp, rewriter.copy) /\ rewriter.copy \in past
    BY <1>2 DEF RewriteRename, Core, Copied, LogOK, Rewritten
  <2>3. Single' /\ DownOK' /\ LoadOK' /\ InPlace'
    BY <1>2, <2>1 DEF LogOK, Single, DownOK, LoadOK, InPlace, RewriteRename, main, history
  <2>4. Unlinked'
    BY <1>2, <2>1, <2>2 DEF LogOK, Unlinked, RewriteRename, main, history
  <2>5. Rewritten'
    BY IdleFacts DEF Rewritten, RewriteRename
  <2> QED
    BY <1>2, <2>1, <2>3, <2>4, <2>5 DEF LogOK, RewriteRename
<1> QED
  BY <1>1, <1>2

\* A crash: the file holds the flushed commands and a part of the buffer.
LEMMA CrashLog ==
  ASSUME Core, LogOK, NEW sent \in 0 .. MaxWrites, Crash(sent)
  PROVE  LogOK'
<1>1. CASE ~configAof
  BY <1>1 DEF LogOK, Crash
<1>2. CASE configAof
  <2>1. phase' = "down" /\ databases' = Empty /\ past' = past /\ recent' = recent /\ replaced' = replaced
    BY DEF Crash, history
  <2>2. Single' /\ LoadOK' /\ InPlace' /\ Unlinked'
    BY <1>2, <2>1 DEF LogOK, Single, LoadOK, InPlace, Unlinked, Crash
  <2>3. Rewritten'
    BY IdleFacts DEF Rewritten, Crash
  <2>4. DownOK'
    <3>1. Good' = Good /\ recent \subseteq past /\ Empty \in past
      BY <2>1 DEF Good, Core, Held
    <3>2. CASE phase = "loading"
      <4>1. aof' = aof
        BY <3>2 DEF Crash, Serving
      <4>2. \E g \in Good : Leads(Empty, aof, g)
        BY <1>2, <3>2 DEF LogOK, LoadOK
      <4>3. aof # NoFile
        BY <1>2, <3>2 DEF LogOK, LoadOK, Core, Types, Logs
      <4> QED
        BY <2>1, <3>1, <4>1, <4>2, <4>3 DEF DownOK
    <3>3. CASE phase = "up" /\ replaced
      <4>1. aofStream = "unlinked" /\ (aof = NoFile \/ \E g \in past : Leads(Empty, aof, g))
        BY <1>2, <3>3 DEF LogOK, Unlinked
      <4>2. aof' = aof
        BY <4>1 DEF Crash
      <4>3. Good = past
        BY <3>3 DEF Good
      <4>4. \E g \in past : IF aof = NoFile THEN g = Empty ELSE Leads(Empty, aof, g)
        BY <3>1, <4>1
      <4> QED
        BY <2>1, <3>1, <4>2, <4>3, <4>4 DEF DownOK
    <3>4. CASE phase = "up" /\ ~replaced
      <4>1. aofStream = "file" /\ \A i \in 0 .. Len(aofBuffer) :
               \E r \in recent : Leads(Empty, aof \o SubSeq(aofBuffer, 1, i), r)
        BY <1>2, <3>4 DEF LogOK, InPlace
      <4>2. PICK b \in Seq(Logged) : b = aofBuffer
        <5>1. aofBuffer \in Seq(Commands) /\ Commands \subseteq Logged
          BY CommandsLogged DEF Core, Types, Logs
        <5> QED
          BY <5>1
      <4>3. PICK f \in Seq(Logged) : f = aof
        BY <4>1, FilesAre DEF Core, Types, Logs
      <4>4. sent \in 0 .. Len(b)
        <5>1. sent \in Nat /\ Len(b) \in Nat
          BY BoundsAssumption
        <5>2. sent > 0 => sent <= Len(b)
          BY <4>2 DEF Crash
        <5> QED
          BY <5>1, <5>2
      <4>5. aof' = f \o SubSeq(b, 1, sent)
        <5>1. CASE sent > 0
          BY <4>2, <4>3, <5>1 DEF Crash
        <5>2. CASE ~(sent > 0)
          <6>1. sent = 0
            BY <4>4, <5>2
          <6>2. aof' = f
            BY <4>3, <5>2 DEF Crash
          <6>3. f \o SubSeq(b, 1, sent) = f
            BY <6>1, ConcatNothing, NothingTaken
          <6> QED
            BY <6>2, <6>3
        <5> QED
          BY <5>1, <5>2
      <4>6. \E r \in recent : Leads(Empty, aof', r)
        BY <4>1, <4>2, <4>3, <4>4, <4>5
      <4>7. aof' # NoFile
        <5>1. f \o SubSeq(b, 1, sent) \in Seq(Logged)
          BY <4>4
        <5> QED
          BY <4>5, <5>1, FilesAre
      <4>8. Good = recent
        BY <3>4 DEF Good
      <4> QED
        BY <2>1, <3>1, <4>6, <4>7, <4>8 DEF DownOK
    <3> QED
      BY <3>2, <3>3, <3>4 DEF Core, Types, Basics, Crash
  <2> QED
    BY <1>2, <2>1, <2>2, <2>3, <2>4 DEF LogOK, Crash
<1> QED
  BY <1>1, <1>2

\* Without appendonly the file does not matter.
LEMMA StartLog ==
  ASSUME Core, LogOK, StartFromDump
  PROVE  LogOK'
BY DEF LogOK, StartFromDump

\* The whole file is still to be loaded.
LEMMA StartAofLog ==
  ASSUME Core, LogOK, StartFromAof
  PROVE  LogOK'
<1>1. configAof /\ phase = "down" /\ phase' = "loading" /\ databases' = databases /\ databases = Empty
      /\ loader'.rest = aof' /\ loader'.db = 0 /\ aofStream' = "file" /\ Good' = Good /\ configAof'
  BY DEF StartFromAof, LogOK, DownOK, Good, history
<1>2. PICK g \in Good : IF aof = NoFile THEN g = Empty ELSE Leads(Empty, aof, g)
  BY <1>1 DEF LogOK, DownOK
<1>3. Leads(Empty, aof', g)
  <2>1. Leads(Empty, <<>>, Empty)
    BY EmptyState, LeadsNowhere
  <2> QED
    BY <1>2, <2>1 DEF StartFromAof
<1>4. LoadOK'
  BY <1>1, <1>2, <1>3 DEF LoadOK
<1>5. Single' /\ DownOK' /\ InPlace' /\ Unlinked'
  BY <1>1 DEF LogOK, Single, DownOK, InPlace, Unlinked, StartFromAof, history
<1>6. Rewritten'
  BY <1>1 DEF LogOK, Rewritten, StartFromAof, threads, history
<1> QED
  BY <1>1, <1>4, <1>5, <1>6 DEF LogOK

\* The rest of the file leads from what is in memory to the same state.
LEMMA LoadCommandLog ==
  ASSUME Core, LogOK, LoadCommand
  PROVE  LogOK'
<1>1. configAof /\ phase = "loading" /\ loader.rest # <<>>
      /\ UNCHANGED <<phase, configAof, appendOnly, aofBuffer, aofStream, aof, temp, rewriter,
                     past, recent, replaced>>
  BY DEF LoadCommand, LogOK, files, threads, history
<1>2. loader \in [rest : Seq(Logged), db : Dbs]
  BY DEF Core, Types, Logs
<1>3. PICK g \in Good : Leads(Empty, aof, g) /\ Leads(databases, loader.rest, g)
  BY <1>1 DEF LogOK, LoadOK
<1>4. loader.db = 0 /\ aofStream = "file"
  BY <1>1 DEF LogOK, LoadOK
<1>5. PICK rest \in Seq(Logged) : rest = loader.rest
  BY <1>2
<1>6. PICK m \in States : Replayed(databases, Head(rest), m) /\ Leads(m, Tail(rest), g)
  BY <1>1, <1>3, <1>5, LeadsFirst
<1>7. PICK cmd : cmd = Head(rest)
  OBVIOUS
<1>8. databases' = m /\ loader'.rest = Tail(rest) /\ loader'.db = 0
  <2>1. CASE cmd.op = "SELECT"
    <3>1. m = databases /\ cmd.db = 0
      BY <1>6, <1>7, <2>1 DEF Replayed
    <3>2. databases' = databases /\ loader' = [rest |-> Tail(rest), db |-> cmd.db]
      BY <1>5, <1>7, <2>1 DEF LoadCommand
    <3> QED
      BY <3>1, <3>2
  <2>2. CASE cmd.op # "SELECT"
    <3>1. m = ApplyTo(databases, 0, cmd)
      BY <1>6, <1>7, <2>2 DEF Replayed
    <3>2. databases' = ApplyTo(databases, loader.db, cmd)
      BY <1>5, <1>7, <2>2 DEF LoadCommand
    <3>3. loader' = [loader EXCEPT !.rest = Tail(rest)]
      BY <1>5, <1>7, <2>2 DEF LoadCommand
    <3> QED
      BY <1>2, <1>4, <3>1, <3>2, <3>3
  <2> QED
    BY <2>1, <2>2
<1>9. LoadOK'
  <2>1. Good' = Good
    BY <1>1 DEF Good
  <2> QED
    BY <1>1, <1>3, <1>4, <1>6, <1>8, <2>1 DEF LoadOK
<1>10. Single' /\ DownOK' /\ InPlace' /\ Unlinked' /\ Rewritten'
  BY <1>1 DEF LogOK, Single, DownOK, InPlace, Unlinked, Rewritten
<1> QED
  BY <1>1, <1>9, <1>10 DEF LogOK

\* What is in memory when the file is loaded.
LEMMA LoadedIsGood ==
  ASSUME Core, LogOK, phase = "loading", loader.rest = <<>>
  PROVE  databases \in Good /\ Leads(Empty, aof, databases)
<1>1. PICK g \in Good : Leads(Empty, aof, g) /\ Leads(databases, <<>>, g)
  BY DEF LogOK, LoadOK
<1>2. databases = g
  BY <1>1, LeadsOnlyThere
<1> QED
  BY <1>1, <1>2

\* The databases are those the file leads to.
LEMMA LoadDoneLog ==
  ASSUME Core, LogOK, LoadDone, aofBuffer = <<>>
  PROVE  LogOK'
<1>1. configAof /\ phase = "loading" /\ loader.rest = <<>> /\ aofStream = "file" /\ phase' = "up"
      /\ ~replaced'
      /\ UNCHANGED <<databases, configAof, appendOnly, aofBuffer, aofStream, aof, temp, rewriter>>
      /\ past' = past \cup {databases} /\ recent' = {databases}
  BY DEF LoadDone, LogOK, LoadOK, main, files, threads
<1>2. databases \in Good /\ Leads(Empty, aof, databases)
  BY <1>1, LoadedIsGood
<1>3. databases \in past
  BY <1>2 DEF Good, Core, Held
<1>4. Single'
  BY <1>1, <1>3 DEF LogOK, Single
<1>5. DownOK' /\ LoadOK' /\ Unlinked'
  BY <1>1 DEF DownOK, LoadOK, Unlinked
<1>6. Rewritten'
  BY <1>1 DEF Core, Held, Rewritten
<1>7. InPlace'
  <2>1. PICK f \in Seq(Logged) : f = aof
    BY <1>1, FilesAre DEF Core, Types, Logs
  <2>2. PICK e : e = <<>>
    OBVIOUS
  <2>3. f \o e = f
    BY <2>2, ConcatNothing
  <2>4. Len(e) = 0
    BY <2>2
  <2>5. SubSeq(e, 1, 0) = e
    BY <2>2, NothingTaken
  <2>6. aofBuffer' = e /\ aof' = f /\ databases' = databases
    BY <1>1, <2>1, <2>2
  <2>7. Leads(Empty, aof' \o aofBuffer', databases')
    BY <1>2, <2>1, <2>3, <2>6
  <2>8. ASSUME NEW i \in 0 .. Len(aofBuffer')
        PROVE  \E r \in recent' : Leads(Empty, aof' \o SubSeq(aofBuffer', 1, i), r)
    <3>1. i = 0
      BY <2>4, <2>6
    <3>2. aof' \o SubSeq(aofBuffer', 1, i) = f
      BY <2>3, <2>5, <2>6, <3>1
    <3> QED
      BY <1>1, <1>2, <2>1, <3>2
  <2> QED
    BY <1>1, <2>7, <2>8 DEF InPlace
<1> QED
  BY <1>1, <1>4, <1>5, <1>6, <1>7 DEF LogOK

\* The buffer is empty until the server is up.
LEMMA QuietNext ==
  ASSUME phase # "up" => aofBuffer = <<>>, [Next]_vars
  PROVE  phase' # "up" => aofBuffer' = <<>>
<1> SUFFICES ASSUME phase' # "up" PROVE aofBuffer' = <<>>
  OBVIOUS
<1>1. CASE UNCHANGED vars
  BY <1>1 DEF vars, main
<1>2. CASE Cron
  BY <1>1, <1>2 DEF Cron, flushAof
<1>3. CASE Saving
  BY <1>3 DEF Saving, OpenDump, SaveKey, SaveEnd, main
<1>4. CASE Rewriting
  BY <1>4 DEF Rewriting, OpenTemp, RewriteKey, RewriteRemove, RewriteRename, main
<1>5. CASE Save \/ Bgsave \/ Bgrewriteaof
  BY <1>5 DEF Save, Bgsave, Bgrewriteaof, main
<1>6. CASE \E d \in Dbs, cmd \in Commands : Execute(d, cmd) \/ ExecWrite(d, cmd)
  BY <1>6 DEF Execute, ExecWrite, Serving
<1>7. CASE ConfigSet(TRUE) \/ ConfigSet(FALSE)
  BY <1>7 DEF ConfigSet
<1>8. CASE \E sent \in 0 .. MaxWrites : Crash(sent)
  BY <1>8 DEF Crash
<1>9. CASE StartFromDump \/ StartFromAof \/ LoadCommand \/ LoadDone
  BY <1>9 DEF StartFromDump, StartFromAof, LoadCommand, LoadDone, main
<1> QED
  BY <1>1, <1>2, <1>3, <1>4, <1>5, <1>6, <1>7, <1>8, <1>9 DEF Next

\* The inductive invariant of the append-only file.
IInv == Core /\ LogOK /\ (phase # "up" => aofBuffer = <<>>)

\* IInv is inductive when clients keep off the habits the log does not record.
LEMMA IInvNext ==
  ASSUME AofHabits = {}, IInv, [Next]_vars
  PROVE  IInv'
<1> USE DEF IInv
<1>1. Core'
  BY CoreNext
<1>2. phase' # "up" => aofBuffer' = <<>>
  BY QuietNext
<1>3. LogOK'
  <2>1. CASE UNCHANGED vars
    BY <2>1, LogFrame DEF vars, main, files, threads, history
  <2>2. CASE Cron
    BY <2>1, <2>2, FlushLog DEF Cron
  <2>3. CASE Saving
    BY <2>3, LogFrame DEF Saving, OpenDump, SaveKey, SaveEnd, main, history
  <2>4. CASE Rewriting
    BY <2>4, OpenTempLog, RewriteKeyLog, RewriteRemoveLog, RewriteRenameLog DEF Rewriting
  <2>5. CASE Save \/ Bgsave
    BY <2>5, LogFrame DEF Save, Bgsave, main, files, history
  <2>6. CASE Bgrewriteaof
    <3>1. Rewritten'
      BY <2>6, IdleFacts DEF Bgrewriteaof, Rewritten
    <3>2. configAof => Single' /\ DownOK' /\ LoadOK' /\ InPlace' /\ Unlinked'
      BY <2>6 DEF LogOK, Single, DownOK, LoadOK, InPlace, Unlinked, Good, Bgrewriteaof, main, files, history
    <3> QED
      BY <2>6, <3>1, <3>2 DEF LogOK, Bgrewriteaof
  <2>7. CASE \E d \in Dbs, cmd \in Commands : Execute(d, cmd) \/ ExecWrite(d, cmd)
    BY <2>7, WriteLog
  <2>8. CASE ConfigSet(TRUE) \/ ConfigSet(FALSE)
    BY <2>8 DEF ConfigSet, LogOK, Serving
  <2>9. CASE \E sent \in 0 .. MaxWrites : Crash(sent)
    BY <2>9, CrashLog
  <2>10. CASE StartFromDump \/ StartFromAof \/ LoadCommand
    BY <2>10, StartLog, StartAofLog, LoadCommandLog
  <2>11. CASE LoadDone
    BY <2>11, LoadDoneLog DEF LoadDone
  <2> QED
    BY <2>1, <2>2, <2>3, <2>4, <2>5, <2>6, <2>7, <2>8, <2>9, <2>10, <2>11 DEF Next
<1> QED
  BY <1>1, <1>2, <1>3

\* IInv is an invariant, if clients neither SELECT nor EXEC nor turn the log on and off while
\* the append-only file is on: executeCommand logs no SELECT and propagateToAof is empty, so
\* with one of these habits the property does not hold (the README has the cases).
THEOREM LogInvariance ==
  ASSUME AofHabits = {}
  PROVE  Spec => []IInv
<1>1. Init => IInv
  BY CoreInit, LogInit DEF IInv, Init
<1>2. IInv /\ [Next]_vars => IInv'
  BY IInvNext
<1> QED
  BY <1>1, <1>2, PTL DEF Spec

\* What flushAof has written survives any sequence of crashes, also in the middle of a flush
\* or of a rewrite, until a rewrite has removed the file: when the file is loaded, memory holds the
\* databases of the last flush or of a later write.  For clients with the habits above.
THEOREM FlushedSurvive ==
  ASSUME AofHabits = {}
  PROVE  Spec => []FlushedWritesSurviveInPlace
<1>1. IInv => FlushedWritesSurviveInPlace
  BY LoadedIsGood DEF IInv, FlushedWritesSurviveInPlace, FlushedWritesSurvive, Good
<1> QED
  BY <1>1, LogInvariance, PTL

\* A restart, from a complete snapshot or from the append-only file, rewritten or not and
\* wherever the crash came, brings back a state the databases were in.  For clients with the
\* habits above.
THEOREM RestartRestores ==
  ASSUME AofHabits = {}
  PROVE  Spec => RestartRestoresPast
<1> DEFINE Restores ==
      phase # "up" /\ phase' = "up" /\ (configAof \/ dump = NoFile \/ dump.whole)
        => databases' \in past
<1>1. IInv /\ [Next]_vars => [Restores]_vars
  <2> SUFFICES ASSUME IInv, [Next]_vars, phase # "up", phase' = "up",
                      configAof \/ dump = NoFile \/ dump.whole
               PROVE  databases' \in past
    OBVIOUS
  <2>1. StartFromDump \/ LoadDone
    <3>1. ~UNCHANGED vars /\ ~Cron
      BY DEF vars, Cron, flushAof
    <3>2. ~Saving
      BY DEF Saving, OpenDump, SaveKey, SaveEnd
    <3>3. ~Rewriting
      BY DEF Rewriting, OpenTemp, RewriteKey, RewriteRemove, RewriteRename
    <3>4. ~(Save \/ Bgsave \/ Bgrewriteaof) /\ ~(ConfigSet(TRUE) \/ ConfigSet(FALSE))
      BY DEF Save, Bgsave, Bgrewriteaof, ConfigSet
    <3>5. ~(\E d \in Dbs, cmd \in Commands : Execute(d, cmd) \/ ExecWrite(d, cmd))
      BY DEF Execute, ExecWrite
    <3>6. ~(\E sent \in 0 .. MaxWrites : Crash(sent)) /\ ~StartFromAof /\ ~LoadCommand
      BY DEF Crash, StartFromAof, LoadCommand
    <3> QED
      BY <3>1, <3>2, <3>3, <3>4, <3>5, <3>6 DEF Next
  <2>2. CASE StartFromDump
    <3>1. databases' \in Loaded(dump) /\ ~configAof
      BY <2>2 DEF StartFromDump
    <3>2. CASE dump = NoFile
      BY <3>1, <3>2 DEF Loaded, IInv, Core, Held
    <3>3. CASE dump # NoFile /\ dump.whole
      <4>1. databases' = dump.dbs
        BY <3>1, <3>3 DEF Loaded
      <4> QED
        BY <3>3, <4>1 DEF IInv, Core, DumpOK
    <3> QED
      BY <3>1, <3>2, <3>3
  <2>3. CASE LoadDone
    <3>1. databases \in Good /\ databases' = databases
      BY <2>3, LoadedIsGood DEF LoadDone, IInv, main
    <3> QED
      BY <3>1 DEF Good, IInv, Core, Held
  <2> QED
    BY <2>1, <2>2, <2>3
<1>2. RestartRestoresPast <=> [][Restores]_vars
  BY PTL DEF RestartRestoresPast
<1> QED
  BY <1>1, <1>2, LogInvariance, PTL DEF Spec
============================================================================
