---------------------------- MODULE Replication ----------------------------
(***************************************************************************)
(* Two servers, a master and a replica (server/replication.cpp,            *)
(* commands/replication_commands.cpp, processClientInput and closeClient   *)
(* of server/server.cpp, createOutboundClient of connection_manager.cpp):  *)
(* REPLICAOF, the handshake, the empty snapshot, the stream of commands,   *)
(* lost connections and reconnection by replicationCron.                   *)
(*                                                                         *)
(* A connection is numbered.  Each end has a Client with an output buffer  *)
(* and maybe a write handler, which puts the buffer on the wire; each end  *)
(* learns of a broken connection on its own.  A master may hold several    *)
(* connections of a replica, the dead ones it has not noticed included.    *)
(*                                                                         *)
(* Write commands are numbered 1, 2, ...; a database is the sequence of    *)
(* writes that led to it since it was last empty.                          *)
(***************************************************************************)
EXTENDS Backlog, SequencesExt

CONSTANTS
  MaxWrites,     \* bound on the writes of the master's clients
  MaxLinks,      \* bound on the connections of a behaviour
  WriteSize      \* bytes of an encoded write

ASSUME LinksAssumption == MaxLinks \in Nat
ASSUME WritesAssumption == MaxWrites \in Nat /\ 1 .. MaxWrites \subseteq Bytes
ASSUME WriteSizeAssumption == WriteSize \in Nat

VARIABLES
  \* replica
  hasMaster,     \* masterHost_ is set
  replState,     \* replState_
  masterClient,  \* the connection of masterClient_, 0 for none
  out,           \* output buffer of masterClient_
  armed,         \* masterClient_ has a write handler
  applied,       \* the replica's database
  \* the network, per connection
  toMaster, toReplica,
  broken,        \* connections that are closed or lost
  \* master
  clients,       \* connections the master holds a Client for
  mOut,          \* their output buffers
  mArmed,        \* those with a write handler
  replicas,      \* replicas_
  replId,        \* replId_ is set
  \* history
  links,         \* connections so far
  writes,        \* writes of the master so far
  syncedAt       \* per connection: the writes before its PSYNC

replica == <<hasMaster, replState, masterClient, out, armed, applied>>
network == <<toMaster, toReplica, broken>>
master  == <<clients, mOut, mArmed, replicas, replId>>
history == <<links, writes, syncedAt>>
vars    == <<replica, network, master, history, backlog>>

Links == 1 .. MaxLinks

\* Messages: the commands and replies of the handshake, errors, and writes.
Text(text) == [type |-> "text", text |-> text]
Write(n) == [type |-> "write", text |-> "write", n |-> n]

Handshake == {"RECEIVE_PONG", "SEND_PSYNC", "RECEIVE_PSYNC", "RECEIVE_RDB"}

-----------------------------------------------------------------------------
(* The replica.                                                            *)

\* disconnectFromMaster, and closeClient of the master's connection.
Disconnected ==
  /\ masterClient' = 0 /\ out' = <<>> /\ armed' = FALSE
  /\ broken' = broken \cup ({masterClient} \ {0})
  /\ replState' = "CONNECT"

\* REPLICAOF host port: the databases are emptied.
ReplicaOf ==
  /\ hasMaster' = TRUE
  /\ Disconnected
  /\ applied' = <<>>
  /\ UNCHANGED <<toMaster, toReplica, master, history, backlog>>

\* REPLICAOF NO ONE does not forget the master.
ReplicaOfNoOne ==
  /\ Disconnected
  /\ UNCHANGED <<hasMaster, applied, toMaster, toReplica, master, history, backlog>>

\* replicationCron, connectToMaster and the master's accept.
connectToMaster ==
  /\ hasMaster /\ replState = "CONNECT" /\ links < MaxLinks
  /\ links' = links + 1
  /\ masterClient' = links' /\ replState' = "RECEIVE_PONG"
  /\ out' = <<Text("PING")>> /\ armed' = TRUE
  /\ clients' = clients \cup {links'}
  /\ UNCHANGED <<hasMaster, applied, network, mOut, mArmed, replicas, replId, writes, syncedAt,
                 backlog>>

\* The replica reads message m of its master and answers "reply" (a sequence), in state s.
Read(reply, s) ==
  /\ toReplica' = [toReplica EXCEPT ![masterClient] = Tail(@)]
  /\ out' = out \o reply
  /\ armed' = (armed \/ out' # <<>>)
  /\ replState' = s
  /\ UNCHANGED <<hasMaster, masterClient, toMaster, broken, master, history, backlog>>

\* What the handshake expects in each state, what it answers and where it goes.
Expected == [RECEIVE_PONG |-> "PONG", SEND_PSYNC |-> "OK", RECEIVE_PSYNC |-> "FULLRESYNC"]
\* Faulty: PONG is noted and REPLCONF not sent.
AnswerSilent == [RECEIVE_PONG |-> <<>>, SEND_PSYNC |-> <<Text("PSYNC")>>, RECEIVE_PSYNC |-> <<>>]

Answer   == [RECEIVE_PONG |-> <<Text("REPLCONF")>>, SEND_PSYNC |-> <<Text("PSYNC")>>,
             RECEIVE_PSYNC |-> <<>>]
NextStep == [RECEIVE_PONG |-> "SEND_PSYNC", SEND_PSYNC |-> "RECEIVE_PSYNC",
             RECEIVE_PSYNC |-> "RECEIVE_RDB"]

Incoming == IF masterClient = 0 THEN <<>> ELSE toReplica[masterClient]

\* syncWithMaster before the snapshot; anything unexpected ends the connection.
SyncWithMaster ==
  /\ replState \in DOMAIN Expected /\ Incoming # <<>>
  /\ IF Head(Incoming).text = Expected[replState]
     THEN Read(Answer[replState], NextStep[replState])
     ELSE /\ Disconnected
          /\ toReplica' = [toReplica EXCEPT ![masterClient] = Tail(@)]
          /\ UNCHANGED <<hasMaster, toMaster, master, history, backlog>>
  /\ UNCHANGED applied

\* Faulty: the old contents stay.
LoadSnapshotKeeps(ok) ==
  /\ replState = "RECEIVE_RDB" /\ Incoming # <<>>
  /\ IF Head(Incoming).text = "RDB" /\ ok
     THEN Read(<<>>, "CONNECTED") /\ UNCHANGED applied
     ELSE /\ Disconnected
          /\ toReplica' = [toReplica EXCEPT ![masterClient] = Tail(@)]
          /\ UNCHANGED <<hasMaster, applied, toMaster, master, history, backlog>>

\* The snapshot of syncWithMaster.  loadFromFile empties the databases and then compares the
\* checksum, which the file lacks, with an uninitialised variable: ok is either.
LoadSnapshot(ok) ==
  /\ replState = "RECEIVE_RDB" /\ Incoming # <<>>
  /\ IF Head(Incoming).text # "RDB"
     THEN /\ Disconnected
          /\ toReplica' = [toReplica EXCEPT ![masterClient] = Tail(@)]
          /\ UNCHANGED <<hasMaster, applied, toMaster, master, history, backlog>>
     ELSE /\ applied' = <<>>
          /\ IF ok THEN Read(<<>>, "CONNECTED")
             ELSE /\ Disconnected
                  /\ toReplica' = [toReplica EXCEPT ![masterClient] = Tail(@)]
                  /\ UNCHANGED <<hasMaster, toMaster, master, history, backlog>>

\* Once connected, executeCommand runs what the master sends and answers it: a write with its
\* reply, anything that is not an array with an error.
ApplyCommand ==
  /\ replState = "CONNECTED" /\ Incoming # <<>>
  /\ LET m == Head(Incoming)
     IN  /\ applied' = IF m.type = "write" THEN Append(applied, m.n) ELSE applied
         /\ Read(<<Text(IF m.type = "write" THEN "OK" ELSE "error")>>, replState)

\* onWritable of the master's connection.
ReplicaWritable ==
  /\ masterClient # 0 /\ armed
  /\ toMaster' = [toMaster EXCEPT ![masterClient] = @ \o out]
  /\ out' = <<>> /\ armed' = FALSE
  /\ UNCHANGED <<hasMaster, replState, masterClient, applied, toReplica, broken, master, history,
                 backlog>>

\* Faulty: masterClient_ is forgotten and replState_ stays.
ReplicaSeesCloseKeepsState ==
  /\ masterClient \in broken
  /\ masterClient' = 0 /\ out' = <<>> /\ armed' = FALSE
  /\ UNCHANGED <<hasMaster, replState, applied, network, master, history, backlog>>

\* End of file or an error on the master's connection; what was under way is lost.
ReplicaSeesClose ==
  /\ masterClient \in broken
  /\ Disconnected
  /\ UNCHANGED <<hasMaster, applied, toMaster, toReplica, master, history, backlog>>

-----------------------------------------------------------------------------
(* The master.                                                             *)

\* addReply of connection l, and the end of onReadable.
Reply(l, msgs) ==
  /\ mOut' = [mOut EXCEPT ![l] = @ \o msgs]
  /\ mArmed' = IF mOut'[l] # <<>> THEN mArmed \cup {l} ELSE mArmed
  /\ toMaster' = [toMaster EXCEPT ![l] = Tail(@)]

\* PSYNC ? -1: an identifier, the announcement, a snapshot without keys, and the connection
\* becomes a replica's.
Psync(l) ==
  /\ replId' = TRUE
  /\ Reply(l, <<Text("FULLRESYNC"), Text("RDB")>>)
  /\ replicas' = Append(replicas, l)
  /\ syncedAt' = [syncedAt EXCEPT ![l] = writes]

\* PING, REPLCONF and PSYNC are executed; a reply of the replica is "invalid command format".
MasterReads(l) ==
  /\ l \in clients /\ toMaster[l] # <<>>
  /\ LET text == Head(toMaster[l]).text
     IN  IF text = "PSYNC" THEN Psync(l)
         ELSE /\ Reply(l, <<Text(CASE text = "PING"     -> "PONG"
                                     [] text = "REPLCONF" -> "OK"
                                     [] OTHER             -> "error")>>)
              /\ UNCHANGED <<replicas, replId, syncedAt>>
  /\ UNCHANGED <<replica, toReplica, broken, clients, links, writes, backlog>>

MasterWritable(l) ==
  /\ l \in mArmed
  /\ toReplica' = [toReplica EXCEPT ![l] = @ \o mOut[l]]
  /\ mOut' = [mOut EXCEPT ![l] = <<>>]
  /\ mArmed' = mArmed \ {l}
  /\ UNCHANGED <<replica, toMaster, broken, clients, replicas, replId, history, backlog>>

\* The bytes of a write.
Encode(n) == [i \in 1 .. WriteSize |-> n]

\* Faulty: only the replicas whose handler is installed are fed.
propagateToReplicasArmed(n) ==
  IF replicas = <<>> /\ replBacklogHistLen = 0 /\ ~replId
  THEN UNCHANGED <<mOut, backlog>>
  ELSE /\ Feed(Encode(n))
       /\ mOut' = [l \in Links |-> IF l \in ToSet(replicas) \cap mArmed
                                   THEN Append(mOut[l], Write(n)) ELSE mOut[l]]

\* The backlog is fed and every replica's buffer gets the write; no handler is installed.
propagateToReplicas(n) ==
  IF replicas = <<>> /\ replBacklogHistLen = 0 /\ ~replId
  THEN UNCHANGED <<mOut, backlog>>
  ELSE /\ Feed(Encode(n))
       /\ mOut' = [l \in Links |-> IF l \in ToSet(replicas) THEN Append(mOut[l], Write(n))
                                   ELSE mOut[l]]

\* A client of the master writes.
ClientWrite ==
  /\ writes < MaxWrites
  /\ writes' = writes + 1
  /\ propagateToReplicas(writes')
  /\ UNCHANGED <<replica, network, clients, mArmed, replicas, replId, links, syncedAt>>

\* Faulty: replicas_ keeps the pointer.
closeClientKeepsReplica(l) ==
  /\ clients' = clients \ {l}
  /\ mArmed' = mArmed \ {l}
  /\ mOut' = [mOut EXCEPT ![l] = <<>>]
  /\ UNCHANGED replicas

\* closeClient with removeReplica, and the end of the Client.
closeClient(l) ==
  /\ clients' = clients \ {l}
  /\ mArmed' = mArmed \ {l}
  /\ mOut' = [mOut EXCEPT ![l] = <<>>]
  /\ replicas' = RemoveFirst(replicas, l)

MasterSeesClose(l) ==
  /\ l \in broken \cap clients
  /\ closeClient(l)
  /\ UNCHANGED <<replica, network, replId, history, backlog>>

\* The network, or the master, drops a connection.
LoseConnection(l) ==
  /\ l \in 1 .. links /\ l \notin broken
  /\ broken' = broken \cup {l}
  /\ UNCHANGED <<replica, toMaster, toReplica, master, history, backlog>>

-----------------------------------------------------------------------------

Init ==
  /\ hasMaster = FALSE /\ replState = "NONE" /\ masterClient = 0
  /\ out = <<>> /\ armed = FALSE /\ applied = <<>>
  /\ toMaster = [l \in Links |-> <<>>] /\ toReplica = [l \in Links |-> <<>>] /\ broken = {}
  /\ clients = {} /\ mOut = [l \in Links |-> <<>>] /\ mArmed = {}
  /\ replicas = <<>> /\ replId = FALSE
  /\ links = 0 /\ writes = 0 /\ syncedAt = [l \in Links |-> 0]
  /\ BacklogInit

Next ==
  \/ ReplicaOf \/ ReplicaOfNoOne \/ connectToMaster
  \/ SyncWithMaster \/ (\E ok \in BOOLEAN : LoadSnapshot(ok)) \/ ApplyCommand
  \/ ReplicaWritable \/ ReplicaSeesClose
  \/ ClientWrite
  \/ \E l \in Links : MasterReads(l) \/ MasterWritable(l) \/ MasterSeesClose(l) \/ LoseConnection(l)

Spec == Init /\ [][Next]_vars

\* Both event loops serve every ready descriptor, and a connection that is not lost delivers.
FairSpec ==
  /\ Spec
  /\ WF_vars(SyncWithMaster) /\ WF_vars(\E ok \in BOOLEAN : LoadSnapshot(ok))
  /\ WF_vars(ReplicaWritable) /\ WF_vars(ReplicaSeesClose)
  /\ \A l \in Links : WF_vars(MasterReads(l)) /\ WF_vars(MasterWritable(l))

-----------------------------------------------------------------------------
(* Properties.                                                             *)

\* The types; the replica has a connection exactly in the states that need one, whatever broke or
\* was given up, and the master buffers output for open connections only.
TypeOK ==
  /\ BacklogTypeOK
  /\ replState \in {"NONE", "CONNECT", "CONNECTED"} \cup Handshake
  /\ masterClient \in 0 .. links
  /\ (masterClient # 0) <=> replState \in Handshake \cup {"CONNECTED"}
  /\ masterClient = 0 => out = <<>> /\ ~armed
  /\ applied \in Seq(1 .. writes)
  /\ broken \subseteq 1 .. links /\ clients \subseteq 1 .. links
  /\ mArmed \subseteq clients
  /\ \A l \in Links : mOut[l] # <<>> => l \in clients

\* replicas_ lists exactly open connections, each once: propagateToReplicas never follows the
\* pointer of a client that is gone, whatever order closes, reconnections and PSYNCs come in.
ReplicasAreConnected ==
  /\ IsInjective(replicas)
  /\ ToSet(replicas) \subseteq clients

\* The numbers of the writes among some messages, in order.
WritesIn(msgs) ==
  LET upTo[i \in 0 .. Len(msgs)] ==
        IF i = 0 THEN <<>>
        ELSE IF msgs[i].type = "write" THEN Append(upTo[i - 1], msgs[i].n)
        ELSE upTo[i - 1]
  IN  upTo[Len(msgs)]

\* From .. To as a sequence.
Run(from, to) == [i \in 1 .. to - from |-> from + i]

\* The stream of a replica has no gap, no repetition and no swap: what it has applied since the
\* snapshot, what is on the wire and what is buffered are the writes since its PSYNC, in order,
\* though errors and handshake replies travel on the same connection.
StreamIntact ==
  \A l \in ToSet(replicas) \ broken :
    (IF masterClient = l /\ replState = "CONNECTED" THEN applied ELSE <<>>)
      \o WritesIn(toReplica[l]) \o WritesIn(mOut[l]) = Run(syncedAt[l], writes)

\* Whatever connections are lost, a database the replica answers from is one its master's
\* writes lead to: a run of the writes that follow some PSYNC.
AppliedIsARun ==
  applied # <<>> => applied = Run(applied[1] - 1, applied[1] - 1 + Len(applied))

\* A handshake does not hang: the link is set up or given up.
HandshakeEnds == (replState \in Handshake) ~> (replState \notin Handshake)
=============================================================================
