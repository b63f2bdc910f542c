---------------------------- MODULE Persistence ----------------------------
(***************************************************************************)
(* What survives a crash: the append-only file (server/server.cpp,         *)
(* storage/aof_persistence.cpp), the snapshot file written by SAVE and     *)
(* BGSAVE (storage/rdb_persistence.cpp) and the loading of either at       *)
(* start-up.                                                               *)
(*                                                                         *)
(* The main thread executes commands and serverCron; BGSAVE and            *)
(* BGREWRITEAOF each run in a detached thread on a copy of the databases.  *)
(* A crash takes the process at any point: memory and the buffers of the   *)
(* program are lost, what was handed to the operating system stays.        *)
(* Server::shutdown neither saves nor flushes, so it is a crash too.       *)
(*                                                                         *)
(* The clock stands still and every deadline lies in its future, so no key *)
(* expires between two steps.  Lists are in module Blocking.               *)
(***************************************************************************)
EXTENDS Database, Sequences

CONSTANTS
  Dbs,          \* indices of the databases
  Commands,     \* the write commands clients issue
  MaxWrites, MaxJobs, MaxCrashes,   \* bounds on the write commands, the administrative
                \* commands (SAVE, BGSAVE, BGREWRITEAOF, CONFIG SET) and the crashes
  AppendFsync,  \* config_.appendFsync
  AofHabits,    \* what clients also do while the append-only file is on
  NoFile

ASSUME DbsAssumption == Dbs \subseteq Nat /\ 0 \in Dbs
ASSUME CommandsAssumption == Commands \subseteq DataCommands
ASSUME HabitsAssumption == AofHabits \subseteq {"SELECT", "EXEC", "CONFIG"}
ASSUME BoundsAssumption == MaxWrites \in Nat /\ MaxJobs \in Nat /\ MaxCrashes \in Nat

\* A file that does not exist differs from every log and every snapshot.
ASSUME NoFileAssumption ==
  /\ NoFile \notin Seq(DataCommands \cup [op : {"SELECT"}, db : Dbs])
  /\ NoFile \notin [whole : BOOLEAN, dbs : [Dbs -> DbType]]

Now == 0

VARIABLES
  phase,        \* "down", "loading" (the append-only file) or "up"
  databases,    \* databases_
  configAof,    \* appendonly in the configuration file
  appendOnly,   \* config_.appendOnly, which CONFIG SET changes
  aofBuffer,    \* aofBuffer_
  aofStream,    \* aofStream_: "closed", or open on the "file" or on an "unlinked" inode
  aof,          \* contents of the append-only file, or NoFile
  temp,         \* contents of the file the rewrite fills
  dump,         \* the snapshot file, or NoFile
  saver,        \* the SAVE or BGSAVE under way
  rewriter,     \* the BGREWRITEAOF under way
  bgsaveInProgress,
  bgrewriteaofInProgress,
  loader,       \* commands of the file still to execute, database of fakeClient
  count,        \* how many writes, jobs and crashes there were
  past,         \* history: every state the databases have been in while "up"
  recent,       \* history: the states since the last flush
  replaced      \* history: a rewrite has removed the file this process appends to

main    == <<databases, appendOnly, aofBuffer, aofStream>>
files   == <<aof, temp, dump>>
threads == <<saver, rewriter, bgsaveInProgress, bgrewriteaofInProgress>>
history == <<past, recent, replaced>>
vars    == <<phase, configAof, main, files, threads, loader, count, history>>

EmptyDb == [data |-> [k \in Keys |-> Missing], expires |-> [k \in Keys |-> NoTTL], touched |-> {}]
Empty   == [d \in Dbs |-> EmptyDb]

\* No thread.  A thread works through the keys of its copy: "left" has those to come.
Idle == [step |-> "idle", sync |-> FALSE, copy |-> Empty, left |-> {}]

\* Every key of the databases with its database; keys("*") of each clone.
AllKeys(dbs) == {dk \in Dbs \X Keys : Present(dbs[dk[1]], dk[2])}

\* The effect of a command on database d.  Nobody watches: touched is dropped.
ApplyTo(dbs, d, cmd) == [dbs EXCEPT ![d] = [Apply(@, cmd, Now) EXCEPT !.touched = {}]]

-----------------------------------------------------------------------------
(* Commands and serverCron, in the main thread.                            *)

\* The event loop runs: the server is up and no SAVE keeps the thread busy.
Serving == phase = "up" /\ ~(saver.step # "idle" /\ saver.sync)

\* The databases change to dbs.
Remember(dbs) ==
  /\ count.writes < MaxWrites
  /\ count' = [count EXCEPT !.writes = @ + 1]
  /\ databases' = dbs
  /\ past' = past \cup {dbs}
  /\ recent' = recent \cup {dbs}
  /\ UNCHANGED replaced

\* executeCommand: the command is logged as it was sent, after its handler, whatever the
\* handler did and whichever database the client has selected.
Execute(d, cmd) ==
  /\ Serving
  /\ d # 0 => ~configAof \/ "SELECT" \in AofHabits
  /\ Remember(ApplyTo(databases, d, cmd))
  /\ aofBuffer' = IF appendOnly THEN Append(aofBuffer, cmd) ELSE aofBuffer
  /\ UNCHANGED <<phase, configAof, appendOnly, aofStream, files, threads, loader>>

\* A write among the queued commands of EXEC: propagateToAof is empty.
ExecWrite(d, cmd) ==
  /\ Serving
  /\ ~configAof \/ "EXEC" \in AofHabits
  /\ Remember(ApplyTo(databases, d, cmd))
  /\ UNCHANGED <<phase, configAof, appendOnly, aofBuffer, aofStream, files, threads, loader>>

\* One more administrative command of the behaviour.
CountJob == count.jobs < MaxJobs /\ count' = [count EXCEPT !.jobs = @ + 1]

\* CONFIG SET appendonly changes the option and neither opens nor closes the stream.
ConfigSet(value) ==
  /\ Serving
  /\ ~configAof \/ "CONFIG" \in AofHabits
  /\ CountJob
  /\ appendOnly' = value
  /\ UNCHANGED <<phase, configAof, databases, aofBuffer, aofStream, files, threads, loader, history>>

\* The early returns of serverCron and flushAof: only everysec flushes.
FlushDue ==
  AppendFsync = "everysec" /\ appendOnly /\ aofBuffer # <<>> /\ aofStream # "closed"

\* Faulty: the first command of the buffer is skipped.
flushAofSkips ==
  /\ aof' = IF aofStream = "file" THEN aof \o SubSeq(aofBuffer, 2, Len(aofBuffer)) ELSE aof
  /\ aofBuffer' = <<>>
  /\ recent' = {databases}
  /\ UNCHANGED <<phase, configAof, databases, appendOnly, aofStream, temp, dump, threads,
                 loader, count, past, replaced>>

\* Faulty: the buffer is not cleared.
flushAofKeepsBuffer ==
  /\ aof' = IF aofStream = "file" THEN aof \o aofBuffer ELSE aof
  /\ recent' = {databases}
  /\ UNCHANGED <<phase, configAof, main, temp, dump, threads, loader, count, past, replaced>>

\* flushAof: the stream keeps the inode it was opened on.
flushAof ==
  /\ aof' = IF aofStream = "file" THEN aof \o aofBuffer ELSE aof
  /\ aofBuffer' = <<>>
  /\ recent' = {databases}
  /\ UNCHANGED <<phase, configAof, databases, appendOnly, aofStream, temp, dump, threads,
                 loader, count, past, replaced>>

Cron == Serving /\ IF FlushDue THEN flushAof ELSE UNCHANGED vars

-----------------------------------------------------------------------------
(* SAVE and BGSAVE.                                                        *)

Save ==
  /\ Serving /\ ~bgsaveInProgress /\ CountJob
  /\ saver' = [step |-> "open", sync |-> TRUE, copy |-> databases, left |-> AllKeys(databases)]
  /\ UNCHANGED <<phase, configAof, main, files, rewriter, bgsaveInProgress,
                 bgrewriteaofInProgress, loader, history>>

\* Refused while a BGSAVE is under way.
Bgsave ==
  /\ Serving /\ ~bgsaveInProgress /\ CountJob
  /\ bgsaveInProgress' = TRUE
  /\ saver' = [step |-> "open", sync |-> FALSE, copy |-> databases, left |-> AllKeys(databases)]
  /\ UNCHANGED <<phase, configAof, main, files, rewriter, bgrewriteaofInProgress, loader, history>>

\* saveToFile opens, and empties, the snapshot file itself.
OpenDump ==
  /\ saver.step = "open"
  /\ saver' = [saver EXCEPT !.step = "write"]
  /\ dump' = [whole |-> FALSE, dbs |-> Empty]
  /\ UNCHANGED <<phase, configAof, main, aof, temp, rewriter, bgsaveInProgress,
                 bgrewriteaofInProgress, loader, count, history>>

\* Faulty: the thread reads the databases clients write to.
SaveKeyLive ==
  /\ saver.step = "write"
  /\ \E dk \in saver.left :
       /\ \A other \in saver.left : dk[1] <= other[1]
       /\ saver' = [saver EXCEPT !.left = @ \ {dk}]
       /\ dump' = [dump EXCEPT
                     !.dbs[dk[1]].data[dk[2]] = databases[dk[1]].data[dk[2]],
                     !.dbs[dk[1]].expires[dk[2]] = databases[dk[1]].expires[dk[2]]]
  /\ UNCHANGED <<phase, configAof, main, aof, temp, rewriter, bgsaveInProgress,
                 bgrewriteaofInProgress, loader, count, history>>

\* One key with its deadline and value; the order of the keys is that of the hash map.
SaveKey ==
  /\ saver.step = "write"
  /\ \E dk \in saver.left :
       /\ \A other \in saver.left : dk[1] <= other[1]
       /\ saver' = [saver EXCEPT !.left = @ \ {dk}]
       /\ dump' = [dump EXCEPT
                     !.dbs[dk[1]].data[dk[2]] = saver.copy[dk[1]].data[dk[2]],
                     !.dbs[dk[1]].expires[dk[2]] = saver.copy[dk[1]].expires[dk[2]]]
  /\ UNCHANGED <<phase, configAof, main, aof, temp, rewriter, bgsaveInProgress,
                 bgrewriteaofInProgress, loader, count, history>>

\* Faulty: the flag stays set.
SaveEndKeepsFlag(success) ==
  /\ IF success THEN saver.step = "write" /\ saver.left = {} ELSE saver.step = "open"
  /\ dump' = IF success THEN [dump EXCEPT !.whole = TRUE] ELSE dump
  /\ saver' = Idle
  /\ UNCHANGED bgsaveInProgress
  /\ UNCHANGED <<phase, configAof, main, aof, temp, rewriter, bgrewriteaofInProgress,
                 loader, count, history>>

\* The end mark and checksum are written, or the file could not be opened.
SaveEnd(success) ==
  /\ IF success THEN saver.step = "write" /\ saver.left = {} ELSE saver.step = "open"
  /\ dump' = IF success THEN [dump EXCEPT !.whole = TRUE] ELSE dump
  /\ saver' = Idle
  /\ bgsaveInProgress' = IF saver.sync THEN bgsaveInProgress ELSE FALSE
  /\ UNCHANGED <<phase, configAof, main, aof, temp, rewriter, bgrewriteaofInProgress,
                 loader, count, history>>

-----------------------------------------------------------------------------
(* BGREWRITEAOF.                                                           *)

\* The flag is taken first and kept when a BGSAVE makes the call return.
Bgrewriteaof ==
  /\ Serving /\ ~bgrewriteaofInProgress /\ CountJob
  /\ bgrewriteaofInProgress' = TRUE
  /\ rewriter' = IF bgsaveInProgress THEN Idle
                 ELSE [step |-> "open", sync |-> FALSE, copy |-> databases,
                       left |-> AllKeys(databases)]
  /\ UNCHANGED <<phase, configAof, main, files, saver, bgsaveInProgress, loader, history>>

\* rewriteAof empties the temporary file, or fails to open it and gives up.
OpenTemp(success) ==
  /\ rewriter.step = "open"
  /\ temp' = IF success THEN <<>> ELSE temp
  /\ rewriter' = IF success THEN [rewriter EXCEPT !.step = "write"] ELSE Idle
  /\ bgrewriteaofInProgress' = success
  /\ UNCHANGED <<phase, configAof, main, aof, dump, saver, bgsaveInProgress, loader, count, history>>

\* The command that creates an object, and the one that sets its deadline.
CreateCommand(k, obj) ==
  IF obj.type = "string"
  THEN [op |-> "SET", key |-> k, str |-> obj.str, flags |-> {}, ttl |-> NoTTL]
  ELSE [op |-> "ADD", key |-> k, type |-> obj.type, members |-> obj.members]

KeyCommands(db, k) ==
  <<CreateCommand(k, db.data[k])>>
    \o IF db.expires[k] = NoTTL THEN <<>>
       ELSE <<[op |-> "EXPIREAT", key |-> k, at |-> db.expires[k]]>>

SelectCommand(d) == [op |-> "SELECT", db |-> d]

\* The commands for one key; SELECT comes before the first key of a database.
RewriteKey ==
  /\ rewriter.step = "write"
  /\ \E dk \in rewriter.left :
       LET d     == dk[1]
           first == {other \in rewriter.left : other[1] = d} = {other \in AllKeys(rewriter.copy) : other[1] = d}
       IN  /\ \A other \in rewriter.left : d <= other[1]
           /\ rewriter' = [rewriter EXCEPT !.left = @ \ {dk}]
           /\ temp' = temp \o (IF first THEN <<SelectCommand(d)>> ELSE <<>>)
                           \o KeyCommands(rewriter.copy[d], dk[2])
  /\ UNCHANGED <<phase, configAof, main, aof, dump, saver, bgsaveInProgress,
                 bgrewriteaofInProgress, loader, count, history>>

\* std::remove: the open stream keeps writing to the unlinked inode.
RewriteRemove ==
  /\ rewriter.step = "write" /\ rewriter.left = {}
  /\ rewriter' = [rewriter EXCEPT !.step = "rename"]
  /\ aof' = NoFile
  /\ aofStream' = IF aofStream = "file" THEN "unlinked" ELSE aofStream
  /\ replaced' = TRUE
  /\ UNCHANGED <<phase, configAof, databases, appendOnly, aofBuffer, temp, dump, saver,
                 bgsaveInProgress, bgrewriteaofInProgress, loader, count, past, recent>>

RewriteRename ==
  /\ rewriter.step = "rename"
  /\ rewriter' = Idle
  /\ aof' = temp
  /\ temp' = <<>>
  /\ bgrewriteaofInProgress' = FALSE
  /\ UNCHANGED <<phase, configAof, main, dump, saver, bgsaveInProgress, loader, count, history>>

-----------------------------------------------------------------------------
(* Crash and restart.                                                      *)

\* Everything in memory is gone.  A crash in the middle of flushAof leaves the first
\* "sent" commands of the buffer in the file.
Crash(sent) ==
  /\ phase # "down" /\ count.crashes < MaxCrashes
  /\ count' = [count EXCEPT !.crashes = @ + 1]
  /\ sent > 0 => Serving /\ FlushDue /\ aofStream = "file" /\ sent <= Len(aofBuffer)
  /\ phase' = "down"
  /\ databases' = Empty
  /\ appendOnly' = configAof
  /\ aof' = IF sent > 0 THEN aof \o SubSeq(aofBuffer, 1, sent) ELSE aof
  /\ aofBuffer' = <<>>
  /\ aofStream' = "closed"
  /\ saver' = Idle /\ rewriter' = Idle
  /\ bgsaveInProgress' = FALSE /\ bgrewriteaofInProgress' = FALSE
  /\ loader' = [rest |-> <<>>, db |-> 0]
  /\ UNCHANGED <<configAof, temp, dump, history>>

\* The value of an entry that is cut short: what is missing is read as zeros or as whatever
\* the uninitialised variables hold.
Broken ==
  {StringObj(NotInt)}
    \cup {ContainerObj(t, ms) : t \in ContainerTypes, ms \in (SUBSET Members) \ {{}}}

\* The databases a snapshot brings back.  Of a file cut short the whole entries are kept and
\* the broken one may become some key; the checksum comes too late to matter.  (An uninitialised
\* length may also throw, and the server does not start.)
Loaded(file) ==
  IF file = NoFile THEN {Empty}
  ELSE {file.dbs} \cup
       IF file.whole THEN {}
       ELSE {[file.dbs EXCEPT ![d].data[k] = obj, ![d].expires[k] = NoTTL] :
               d \in Dbs, k \in Keys, obj \in Broken}

\* initialize without appendonly.
StartFromDump ==
  /\ phase = "down" /\ ~configAof
  /\ databases' \in Loaded(dump)
  /\ phase' = "up"
  /\ past' = past \cup {databases'}
  /\ recent' = {databases'}
  /\ replaced' = FALSE
  /\ UNCHANGED <<configAof, appendOnly, aofBuffer, aofStream, files, threads, loader, count>>

\* initialize with appendonly: the stream is opened for appending first, which creates a
\* missing file, so loadFromFile always finds one and the snapshot is never read.
StartFromAof ==
  /\ phase = "down" /\ configAof
  /\ phase' = "loading"
  /\ aofStream' = "file"
  /\ aof' = IF aof = NoFile THEN <<>> ELSE aof
  /\ loader' = [rest |-> aof', db |-> 0]
  /\ UNCHANGED <<configAof, databases, appendOnly, aofBuffer, temp, dump, threads, count, history>>

\* One command of the file, executed for fakeClient; nothing is logged.
LoadCommand ==
  /\ phase = "loading" /\ loader.rest # <<>>
  /\ LET cmd == Head(loader.rest)
     IN  IF cmd.op = "SELECT"
         THEN loader' = [rest |-> Tail(loader.rest), db |-> cmd.db] /\ UNCHANGED databases
         ELSE /\ loader' = [loader EXCEPT !.rest = Tail(@)]
              /\ databases' = ApplyTo(databases, loader.db, cmd)
  /\ UNCHANGED <<phase, configAof, appendOnly, aofBuffer, aofStream, files, threads, count, history>>

LoadDone ==
  /\ phase = "loading" /\ loader.rest = <<>>
  /\ phase' = "up"
  /\ past' = past \cup {databases}
  /\ recent' = {databases}
  /\ replaced' = FALSE
  /\ UNCHANGED <<configAof, main, files, threads, loader, count>>

-----------------------------------------------------------------------------

Init ==
  /\ phase = "down"
  /\ configAof \in BOOLEAN /\ appendOnly = configAof
  /\ databases = Empty
  /\ aofBuffer = <<>> /\ aofStream = "closed"
  /\ aof = NoFile /\ temp = <<>> /\ dump = NoFile
  /\ saver = Idle /\ rewriter = Idle
  /\ bgsaveInProgress = FALSE /\ bgrewriteaofInProgress = FALSE
  /\ loader = [rest |-> <<>>, db |-> 0]
  /\ count = [writes |-> 0, jobs |-> 0, crashes |-> 0]
  /\ past = {Empty} /\ recent = {Empty} /\ replaced = FALSE

Saving == OpenDump \/ SaveKey \/ \E success \in BOOLEAN : SaveEnd(success)

Rewriting == (\E success \in BOOLEAN : OpenTemp(success)) \/ RewriteKey \/ RewriteRemove \/ RewriteRename

Next ==
  \/ \E d \in Dbs, cmd \in Commands : Execute(d, cmd) \/ ExecWrite(d, cmd)
  \/ ConfigSet(TRUE) \/ ConfigSet(FALSE)
  \/ Cron \/ Save \/ Bgsave \/ Saving \/ Bgrewriteaof \/ Rewriting
  \/ \E sent \in 0 .. MaxWrites : Crash(sent)
  \/ StartFromDump \/ StartFromAof \/ LoadCommand \/ LoadDone

Spec == Init /\ [][Next]_vars

\* The operating system schedules the threads.
FairSpec == Spec /\ WF_vars(Saving) /\ WF_vars(Rewriting)

-----------------------------------------------------------------------------
(* Properties.                                                             *)

DbState == [Dbs -> DbType]
Files   == {NoFile} \cup Seq(Commands \cup DataCommands \cup [op : {"SELECT"}, db : Dbs])

\* The types; the flag of BGSAVE is set exactly while its thread works, that of BGREWRITEAOF at
\* least then, and the stream is never open on a file that does not exist.
TypeOK ==
  /\ phase \in {"down", "loading", "up"}
  /\ databases \in DbState
  /\ configAof \in BOOLEAN /\ appendOnly \in BOOLEAN
  /\ aof \in Files /\ temp \in Files \ {NoFile} /\ aofBuffer \in Seq(Commands)
  /\ aofStream \in {"closed", "file", "unlinked"}
  /\ aofStream = "file" => aof # NoFile
  /\ dump = NoFile \/ dump \in [whole : BOOLEAN, dbs : DbState]
  /\ saver \in [step : {"idle", "open", "write"}, sync : BOOLEAN, copy : DbState,
                 left : SUBSET (Dbs \X Keys)]
  /\ rewriter \in [step : {"idle", "open", "write", "rename"}, sync : {FALSE}, copy : DbState,
                    left : SUBSET (Dbs \X Keys)]
  /\ bgsaveInProgress <=> (saver.step # "idle" /\ ~saver.sync)
  /\ rewriter.step # "idle" => bgrewriteaofInProgress
  /\ loader.db \in Dbs
  /\ count \in [writes : 0 .. MaxWrites, jobs : 0 .. MaxJobs, crashes : 0 .. MaxCrashes]

\* A finished snapshot is the databases of one moment: a BGSAVE does not mix in what clients
\* write while its thread works, and loses no key and no deadline.
DumpIsPointInTime == dump # NoFile /\ dump.whole => dump.dbs \in past

\* Wherever the crash came, also between the removal and the renaming of the rewritten file, a
\* restart brings back a state the databases were in, except from a snapshot cut short.
RestartRestoresPast ==
  [][ phase # "up" /\ phase' = "up" /\ (configAof \/ dump = NoFile \/ dump.whole)
        => databases' \in past ]_vars

\* When the append-only file is loaded, it has brought back the databases of the last flush,
\* or of a write that came later: what was flushed is not lost.
FlushedWritesSurvive ==
  phase = "loading" /\ loader.rest = <<>> => databases \in recent

\* The same of a file that no rewrite has replaced.
FlushedWritesSurviveInPlace ==
  ~replaced => FlushedWritesSurvive

\* bgsaveInProgress_ is cleared, so a later SAVE or BGSAVE is possible.
BgsaveEnds == bgsaveInProgress ~> ~bgsaveInProgress
=============================================================================
