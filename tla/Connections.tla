---------------------------- MODULE Connections ----------------------------
(***************************************************************************)
(* Sockets, clients and the event loop (networking/connection_manager.cpp, *)
(* client.cpp, tcp_server.cpp, platform/event_loop_select.cpp).            *)
(*                                                                         *)
(* A round of processEvents selects the descriptors that are ready, then   *)
(* runs the handlers of the list it made.  A handler may close its own     *)
(* descriptor or another one, and an accept may take the number again      *)
(* before the rest of the list is through.  Peers act at any time.         *)
(*                                                                         *)
(* A request is answered by one reply, and a reply is the unit of writing. *)
(* The order of the list is that of an unordered_map: any.                 *)
(***************************************************************************)
EXTENDS Integers, Sequences, FiniteSets, SequencesExt

CONSTANTS
  Peers,        \* connections that are accepted
  Links,        \* connections to a master that connectToMaster opens
  Fds,          \* descriptors, numbers above 0
  MaxClients,   \* maxclients
  Requests,     \* what peers send: subset of {"PING", "QUIT", "REPLICAOF"}
  Answers,      \* what a master sends: "PONG" for an answer the handshake expects,
                \* each of which the link answers in turn; "ERR" for any other
  MaxRequests   \* bound on the requests and answers of a behaviour

Listener == 0
Conns    == Peers \cup Links
None     == [conn |-> 0]

ASSUME FdsAssumption == Fds \subseteq Nat \ {0}
ASSUME ConnsAssumption == 0 \notin Conns /\ Peers \cap Links = {}

VARIABLES
  conn,       \* per connection: the system's side of its socket, and the replies so far
  waiting,    \* connections to accept
  requests,   \* how many requests were sent
  client,     \* clients_: per descriptor, None or the client
  events,     \* fileEvents_: per descriptor, the mask
  fired,      \* the rest of the list of fired events
  current,    \* the event whose handlers are under way, or Quiet
  up

network == <<conn, waiting, requests>>
server  == <<client, events>>
loop    == <<fired, current>>
vars    == <<network, server, loop, up>>

\* arrived: requests to be read; full: the send buffer is full; hungUp: the peer has closed;
\* asked: how many replies were produced; got: the replies sent.
Socket(status) ==
  [status |-> status, arrived |-> <<>>, full |-> FALSE, hungUp |-> FALSE, asked |-> 0, got |-> <<>>]

Quiet == [fd |-> -1]
Clients == {fd \in Fds : client[fd] # None}
Master  == {fd \in Clients : client[fd].conn \in Links}
Free    == Fds \ Clients

-----------------------------------------------------------------------------
(* Peers.                                                                  *)

Peer == UNCHANGED <<server, loop, up>>

Connect(c) ==
  /\ conn[c].status = "new"
  /\ conn' = [conn EXCEPT ![c].status = "waiting"]
  /\ waiting' = Append(waiting, c)
  /\ UNCHANGED requests /\ Peer

Send(c, r) ==
  /\ conn[c].status \in {"waiting", "open"} /\ ~conn[c].hungUp /\ requests < MaxRequests
  /\ conn' = [conn EXCEPT ![c].arrived = Append(@, r)]
  /\ requests' = requests + 1
  /\ UNCHANGED waiting /\ Peer

\* The peer reads what was sent to it.
Drain(c) ==
  /\ conn[c].full
  /\ conn' = [conn EXCEPT ![c].full = FALSE]
  /\ UNCHANGED <<waiting, requests>> /\ Peer

HangUp(c) ==
  /\ conn[c].status \in {"waiting", "open"} /\ ~conn[c].hungUp
  /\ conn' = [conn EXCEPT ![c].hungUp = TRUE]
  /\ UNCHANGED <<waiting, requests>> /\ Peer

-----------------------------------------------------------------------------
(* Clients.  The handlers change conn, client and events.                  *)

handled == <<conn, server>>

\* Faulty: the file events of the descriptor stay.
removeClientsKeepEvents(S) ==
  /\ client' = [fd \in Fds |-> IF fd \in S THEN None ELSE client[fd]]
  /\ conn' = [c \in Conns |-> IF \E fd \in S : client[fd].conn = c THEN Socket("closed") ELSE conn[c]]
  /\ UNCHANGED events

\* removeClient for the descriptors of S: the client goes, and its socket and file events with it.
removeClients(S) ==
  /\ client' = [fd \in Fds |-> IF fd \in S THEN None ELSE client[fd]]
  /\ events' = [fd \in DOMAIN events |-> IF fd \in S THEN {} ELSE events[fd]]
  /\ conn' = [c \in Conns |-> IF \E fd \in S : client[fd].conn = c THEN Socket("closed") ELSE conn[c]]

\* addClient for the descriptor fd, the next one of the system.
addClient(c, fd) ==
  IF Cardinality(Clients) >= MaxClients
  THEN conn' = [conn EXCEPT ![c] = Socket("refused")] /\ UNCHANGED server
  ELSE /\ client' = [client EXCEPT ![fd] = [conn |-> c, out |-> <<>>, closeAsap |-> FALSE]]
       /\ events' = [events EXCEPT ![fd] = {"R"}]
       /\ conn' = [conn EXCEPT ![c].status = "open"]

\* processClientInput stops after a command that leaves CLIENT_CLOSE_ASAP set.
Executed(k, input) ==
  LET stops == {i \in DOMAIN input : k.closeAsap \/ input[i] = "QUIT"}
  IN  IF stops = {} THEN input ELSE SubSeq(input, 1, Min(stops))

\* Reply i to connection c is the pair <<c, i>>.
Replies(c, n) == [i \in 1 .. n |-> <<c, conn[c].asked + i>>]

\* onReadable with data: the commands run and their replies wait for the write handler.  REPLICAOF
\* closes the link to the master, which is another client's descriptor.
readData(fd) ==
  LET k == client[fd]
      done == Executed(k, conn[k.conn].arrived)
      out == k.out \o Replies(k.conn, Len(done))
      gone == IF "REPLICAOF" \in ToSet(done) THEN Master ELSE {}
  IN  /\ client' = [f \in Fds |->
           IF f = fd THEN [k EXCEPT !.out = out, !.closeAsap = @ \/ "QUIT" \in ToSet(done)]
           ELSE IF f \in gone THEN None ELSE client[f]]
      /\ events' = [f \in DOMAIN events |->
           IF f = fd THEN events[f] \cup {"W"}
           ELSE IF f \in gone THEN {} ELSE events[f]]
      /\ conn' = [c \in Conns |->
           IF c = k.conn THEN [conn[c] EXCEPT !.arrived = <<>>, !.asked = @ + Len(done)]
           ELSE IF \E f \in gone : client[f].conn = c THEN Socket("closed") ELSE conn[c]]

\* onReadable with an answer of the master that syncWithMaster does not expect: the client is
\* destroyed, and asked afterwards whether it has pending output.
readUnexpected(fd) ==
  /\ client' = [client EXCEPT ![fd] = None]
  /\ \E pending \in BOOLEAN : events' = [events EXCEPT ![fd] = IF pending THEN {"W"} ELSE {}]
  /\ conn' = [conn EXCEPT ![client[fd].conn] = Socket("closed")]

\* onReadable: data, the end of the stream, or nothing there.
onReadable(fd) ==
  LET c == client[fd].conn
  IN  \/ client[fd] = None /\ UNCHANGED handled
      \/ /\ client[fd] # None /\ conn[c].arrived # <<>>
         /\ IF "ERR" \in ToSet(conn[c].arrived) THEN readUnexpected(fd) ELSE readData(fd)
      \/ client[fd] # None /\ conn[c].arrived = <<>> /\ conn[c].hungUp /\ removeClients({fd})
      \/ client[fd] # None /\ conn[c].arrived = <<>> /\ ~conn[c].hungUp /\ UNCHANGED handled

\* Faulty: a write of a part forgets the rest.
writeToSocketForgets(fd, n) ==
  LET k == client[fd]
  IN  /\ conn' = [conn EXCEPT ![k.conn].got = @ \o SubSeq(k.out, 1, n),
                              ![k.conn].full = n < Len(k.out)]
      /\ client' = [client EXCEPT ![fd].out = <<>>]
      /\ UNCHANGED events

\* writeToSocket of n replies, and not the last one: the send has filled the buffer.
writeToSocket(fd, n) ==
  LET k == client[fd]
  IN  /\ conn' = [conn EXCEPT ![k.conn].got = @ \o SubSeq(k.out, 1, n), ![k.conn].full = TRUE]
      /\ client' = [client EXCEPT ![fd].out = SubSeq(k.out, n + 1, Len(k.out))]
      /\ UNCHANGED events

\* Faulty: CLIENT_CLOSE_ASAP is not looked at.
writtenAllStays(fd) ==
  LET k == client[fd]
  IN  /\ conn' = [conn EXCEPT ![k.conn].got = @ \o k.out]
      /\ client' = [client EXCEPT ![fd].out = <<>>]
      /\ events' = [events EXCEPT ![fd] = @ \ {"W"}]

\* The rest of onWritable once nothing is pending.
writtenAll(fd) ==
  LET k == client[fd]
  IN  IF k.closeAsap THEN removeClients({fd})
      ELSE /\ conn' = [conn EXCEPT ![k.conn].got = @ \o k.out]
           /\ client' = [client EXCEPT ![fd].out = <<>>]
           /\ events' = [events EXCEPT ![fd] = @ \ {"W"}]

\* onWritable: all is sent (or nothing was to be), a part of it, the send fails, or would block.
onWritable(fd) ==
  LET k == client[fd]
  IN  \/ k = None /\ UNCHANGED handled
      \/ k # None /\ (k.out = <<>> \/ ~conn[k.conn].full) /\ writtenAll(fd)
      \/ /\ k # None /\ ~conn[k.conn].full
         /\ \E n \in 1 .. Len(k.out) - 1 : writeToSocket(fd, n)
      \/ k # None /\ k.out # <<>> /\ conn[k.conn].hungUp /\ removeClients({fd})
      \/ k # None /\ k.out # <<>> /\ conn[k.conn].full /\ UNCHANGED handled

-----------------------------------------------------------------------------
(* The event loop.                                                         *)

Resting == up /\ fired = {} /\ current = Quiet

ReadReady(fd) ==
  IF fd = Listener THEN waiting # <<>>
  ELSE conn[client[fd].conn].arrived # <<>> \/ conn[client[fd].conn].hungUp

WriteReady(fd) == ~conn[client[fd].conn].full \/ conn[client[fd].conn].hungUp

\* select and the list of fired events.  A descriptor that is closed makes select fail.
Select ==
  /\ Resting
  /\ \A fd \in Fds : events[fd] # {} => fd \in Clients
  /\ fired' = {e \in [fd : DOMAIN events, mask : SUBSET {"R", "W"}] :
                 /\ e.mask # {}
                 /\ e.mask = {x \in events[e.fd] : IF x = "R" THEN ReadReady(e.fd)
                                                   ELSE WriteReady(e.fd)}}
  /\ UNCHANGED <<network, server, current, up>>

\* The next event of the list, looked up again, and its read handler.  The accept loop has steps
\* of its own.
DispatchRead ==
  /\ up /\ current = Quiet
  /\ \E e \in fired :
       /\ fired' = fired \ {e}
       /\ \/ events[e.fd] = {} /\ UNCHANGED <<handled, current>>
          \/ /\ events[e.fd] # {}
             /\ current' = [fd |-> e.fd, mask |-> e.mask,
                            stage |-> IF e.fd = Listener THEN "accept"
                                      ELSE IF e.fd \in Master /\ e.mask = {"R", "W"} THEN "combined"
                                      ELSE "write"]
             /\ IF e.fd # Listener /\ "R" \in e.mask \cap events[e.fd]
                THEN onReadable(e.fd) ELSE UNCHANGED handled
  /\ UNCHANGED <<waiting, requests, up>>

Underway(stage) == up /\ current # Quiet /\ current.stage = stage

\* onAccept: one turn of its loop, until nobody waits.
Accept ==
  /\ Underway("accept")
  /\ \/ /\ waiting # <<>> /\ Free # {}
        /\ addClient(Head(waiting), Min(Free))
        /\ waiting' = Tail(waiting)
        /\ UNCHANGED current
     \/ /\ waiting = <<>> \/ Free = {}
        /\ current' = Quiet
        /\ UNCHANGED <<handled, waiting>>
  /\ UNCHANGED <<requests, fired, up>>

\* The second half of the handler of createOutboundClient.  When onReadable has removed the client,
\* the handler itself is gone: it may find its data still there, or the process dies.
DispatchCombined ==
  /\ Underway("combined")
  /\ current' = [current EXCEPT !.stage = "write"]
  /\ onWritable(current.fd)
  /\ up' \in IF events[current.fd] = {} THEN BOOLEAN ELSE {TRUE}
  /\ UNCHANGED <<waiting, requests, fired>>

\* The write handler of the event, looked up again.
DispatchWrite ==
  /\ Underway("write")
  /\ current' = Quiet
  /\ IF "W" \in current.mask \cap events[current.fd]
     THEN onWritable(current.fd) ELSE UNCHANGED handled
  /\ UNCHANGED <<waiting, requests, fired, up>>

\* serverCron: closeIdleClients, for the clients that have been idle, of which a master is none.
closeIdleClients ==
  /\ Resting
  /\ \E S \in SUBSET (Clients \ Master) : S # {} /\ removeClients(S)
  /\ UNCHANGED <<waiting, requests, loop, up>>

\* serverCron: replicationCron, connectToMaster and createOutboundClient; a PING is the first output.
connectToMaster(c) ==
  /\ Resting /\ Master = {} /\ conn[c].status = "new" /\ Free # {}
  /\ LET fd == Min(Free)
     IN  /\ client' = [client EXCEPT ![fd] = [conn |-> c, out |-> Replies(c, 1), closeAsap |-> FALSE]]
         /\ events' = [events EXCEPT ![fd] = {"R", "W"}]
  /\ conn' = [conn EXCEPT ![c].status = "open", ![c].asked = 1]
  /\ UNCHANGED <<waiting, requests, loop, up>>

-----------------------------------------------------------------------------
Init ==
  /\ conn = [c \in Conns |-> Socket("new")]
  /\ waiting = <<>> /\ requests = 0
  /\ client = [fd \in Fds |-> None]
  /\ events = [fd \in Fds \cup {Listener} |-> IF fd = Listener THEN {"R"} ELSE {}]
  /\ fired = {} /\ current = Quiet /\ up = TRUE

Loop == Select \/ DispatchRead \/ Accept \/ DispatchCombined \/ DispatchWrite

Next ==
  \/ \E c \in Peers : Connect(c) \/ \E r \in Requests : Send(c, r)
  \/ \E c \in Links, r \in Answers : Send(c, r)
  \/ \E c \in Conns : Drain(c) \/ HangUp(c)
  \/ Loop \/ closeIdleClients \/ \E c \in Links : connectToMaster(c)

Spec == Init /\ [][Next]_vars

\* The loop runs on, and peers read what they are sent.
FairSpec == Spec /\ WF_vars(Loop) /\ \A c \in Conns : WF_vars(Drain(c))

-----------------------------------------------------------------------------
(* Properties.                                                             *)

\* The event loop watches exactly the descriptors of clients, whatever handlers closed and accepted
\* in the round: each for reading, and for writing whenever output is pending.  A descriptor with
\* an event and no client would be one select fails on.
EventsMatchClients ==
  \A fd \in Fds :
    /\ client[fd] = None <=> events[fd] = {}
    /\ client[fd] # None => /\ "R" \in events[fd]
                            /\ client[fd].out # <<>> => "W" \in events[fd]

\* A connection is sent the replies to its own requests, in order, and none is lost while it is
\* open: a descriptor taken again within the round carries nothing over.
RepliesInOrder ==
  \A fd \in Clients :
    LET c == client[fd].conn
    IN  conn[c].got \o client[fd].out = [i \in 1 .. conn[c].asked |-> <<c, i>>]

\* A client that sent QUIT, and one whose peer hung up, is closed in the end, as long as the
\* process lives.
GoneClientsAreClosed ==
  \A c \in Conns :
    (\E fd \in Clients : client[fd].conn = c /\ (client[fd].closeAsap \/ conn[c].hungUp))
      ~> (conn[c].status = "closed" \/ ~up)
============================================================================
