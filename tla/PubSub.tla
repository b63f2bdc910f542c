------------------------------- MODULE PubSub -------------------------------
(***************************************************************************)
(* Publish/subscribe (commands/pubsub_commands.cpp and the methods of      *)
(* server/server.cpp): every subscription is kept twice, in the client and *)
(* in the server's tables of client pointers, and closeClient has to take  *)
(* a client out of both.                                                   *)
(*                                                                         *)
(* The tables are vectors; what matters of a vector is how often it holds  *)
(* a client, so a table counts.  A command with several arguments runs in  *)
(* one step; the replies it sends, one per argument, are one Reply.        *)
(***************************************************************************)
EXTENDS Integers, Sequences

CONSTANTS
  Clients,
  Channels,    \* channel names: sequences of letters
  Patterns,    \* records: the letters before a final '*' (star), or a whole name
  Messages,
  MaxOutput    \* bound on the unsent replies and messages of a client

\* publishMessage takes the last character of a pattern, which the empty one does not have.
ASSUME PatternsAssumption == \A p \in Patterns : p.star \/ p.name # <<>>

VARIABLES
  connected,        \* clients the connection manager holds
  pubsubChannels,   \* server table: how often a client is listed for a channel
  pubsubPatterns,   \* server table: how often a client is listed with a pattern
  channels,         \* pubsubChannels_ of each client
  patterns,         \* pubsubPatterns_ of each client
  flagged,          \* clients with CLIENT_PUBSUB
  output,           \* outputBuffer_ of each client
  armed             \* clients with a write handler

vars == <<connected, pubsubChannels, pubsubPatterns, channels, patterns, flagged,
          output, armed>>

tables == <<pubsubChannels, pubsubPatterns, channels, patterns>>

Reply == [kind |-> "reply"]

Copies == [direct : Nat, via : [Patterns -> Nat]]
Items == {Reply} \cup
         [kind : {"message"}, channel : Channels, message : Messages, copies : Copies]

\* Tables, flags and output have the types of the members they model.
TypeOK ==
  /\ connected \in SUBSET Clients
  /\ pubsubChannels \in [Channels -> [Clients -> Nat]]
  /\ pubsubPatterns \in [Patterns -> [Clients -> Nat]]
  /\ channels \in [Clients -> SUBSET Channels]
  /\ patterns \in [Clients -> SUBSET Patterns]
  /\ flagged \in SUBSET Clients
  /\ output \in [Clients -> Seq(Items)]
  /\ armed \in SUBSET connected

Init ==
  /\ connected = {}
  /\ pubsubChannels = [ch \in Channels |-> [c \in Clients |-> 0]]
  /\ pubsubPatterns = [p \in Patterns |-> [c \in Clients |-> 0]]
  /\ channels = [c \in Clients |-> {}]
  /\ patterns = [c \in Clients |-> {}]
  /\ flagged = {}
  /\ output = [c \in Clients |-> <<>>]
  /\ armed = {}

-----------------------------------------------------------------------------
(* Server methods.                                                         *)

\* Faulty: lists the client although it has the channel already.
subscribeChannelAgain(c, C) ==
  /\ channels' = [channels EXCEPT ![c] = @ \cup C]
  /\ pubsubChannels' = [ch \in Channels |->
       IF ch \in C THEN [pubsubChannels[ch] EXCEPT ![c] = @ + 1] ELSE pubsubChannels[ch]]

subscribeChannel(c, C) ==
  /\ channels' = [channels EXCEPT ![c] = @ \cup C]
  /\ pubsubChannels' = [ch \in Channels |->
       IF ch \in C \ channels[c] THEN [pubsubChannels[ch] EXCEPT ![c] = @ + 1]
       ELSE pubsubChannels[ch]]

psubscribePattern(c, P) ==
  /\ patterns' = [patterns EXCEPT ![c] = @ \cup P]
  /\ pubsubPatterns' = [p \in Patterns |->
       IF p \in P \ patterns[c] THEN [pubsubPatterns[p] EXCEPT ![c] = @ + 1]
       ELSE pubsubPatterns[p]]

\* std::remove takes every occurrence out.
unsubscribeChannel(c, C) ==
  /\ channels' = [channels EXCEPT ![c] = @ \ C]
  /\ pubsubChannels' = [ch \in Channels |->
       IF ch \in C \cap channels[c] THEN [pubsubChannels[ch] EXCEPT ![c] = 0]
       ELSE pubsubChannels[ch]]

punsubscribePattern(c, P) ==
  /\ patterns' = [patterns EXCEPT ![c] = @ \ P]
  /\ pubsubPatterns' = [p \in Patterns |->
       IF p \in P \cap patterns[c] THEN [pubsubPatterns[p] EXCEPT ![c] = 0]
       ELSE pubsubPatterns[p]]

\* A pattern with a final '*' matches by prefix, any other only itself.
match(p, ch) ==
  IF p.star THEN Len(p.name) <= Len(ch) /\ SubSeq(ch, 1, Len(p.name)) = p.name
  ELSE p.name = ch

\* What client c gets of a message on channel ch.
CopiesFor(c, ch) ==
  [direct |-> pubsubChannels[ch][c],
   via    |-> [p \in Patterns |-> IF match(p, ch) THEN pubsubPatterns[p][c] ELSE 0]]

Listed(copies) == copies.direct > 0 \/ \E p \in Patterns : copies.via[p] > 0

\* Faulty: the receivers get no write handler.
publishMessageUnarmed(c, ch, m) ==
  LET item(e) == [kind |-> "message", channel |-> ch, message |-> m, copies |-> CopiesFor(e, ch)]
      out(e)  == IF Listed(CopiesFor(e, ch)) THEN Append(output[e], item(e)) ELSE output[e]
  IN  /\ output' = [e \in Clients |-> IF e = c THEN Append(out(e), Reply) ELSE out(e)]
      /\ armed' = armed \cup {c}

\* publishMessage and the reply to the publisher, who may be a receiver too.
publishMessage(c, ch, m) ==
  LET item(e) == [kind |-> "message", channel |-> ch, message |-> m, copies |-> CopiesFor(e, ch)]
      out(e)  == IF Listed(CopiesFor(e, ch)) THEN Append(output[e], item(e)) ELSE output[e]
  IN  /\ output' = [e \in Clients |-> IF e = c THEN Append(out(e), Reply) ELSE out(e)]
      /\ armed' = armed \cup {c} \cup {e \in Clients : Listed(CopiesFor(e, ch))}

-----------------------------------------------------------------------------
(* Handlers.                                                               *)

\* A client the server reads a command from.
CanRun(c) == c \in connected /\ \A e \in Clients : Len(output[e]) < MaxOutput

\* The replies to client c, and the write handler onReadable installs for them.
Answer(c) ==
  /\ output' = [output EXCEPT ![c] = Append(@, Reply)]
  /\ armed' = armed \cup {c}

Subscribe(c, C) ==
  /\ CanRun(c)
  /\ flagged' = flagged \cup {c}
  /\ subscribeChannel(c, C)
  /\ Answer(c)
  /\ UNCHANGED <<connected, pubsubPatterns, patterns>>

Psubscribe(c, P) ==
  /\ CanRun(c)
  /\ flagged' = flagged \cup {c}
  /\ psubscribePattern(c, P)
  /\ Answer(c)
  /\ UNCHANGED <<connected, pubsubChannels, channels>>

\* The flag goes with the last subscription.
ClearFlag(c) ==
  flagged' = IF channels'[c] = {} /\ patterns'[c] = {} THEN flagged \ {c} ELSE flagged

Unsubscribe(c, C) ==
  /\ CanRun(c)
  /\ unsubscribeChannel(c, C)
  /\ Answer(c)
  /\ UNCHANGED <<connected, pubsubPatterns, patterns>>
  /\ ClearFlag(c)

\* Without arguments: every channel the client has, and no reply if it has none.
UnsubscribeAll(c) ==
  /\ CanRun(c)
  /\ unsubscribeChannel(c, channels[c])
  /\ IF channels[c] = {} THEN UNCHANGED <<output, armed>> ELSE Answer(c)
  /\ UNCHANGED <<connected, pubsubPatterns, patterns>>
  /\ ClearFlag(c)

Punsubscribe(c, P) ==
  /\ CanRun(c)
  /\ punsubscribePattern(c, P)
  /\ Answer(c)
  /\ UNCHANGED <<connected, pubsubChannels, channels>>
  /\ ClearFlag(c)

PunsubscribeAll(c) ==
  /\ CanRun(c)
  /\ punsubscribePattern(c, patterns[c])
  /\ IF patterns[c] = {} THEN UNCHANGED <<output, armed>> ELSE Answer(c)
  /\ UNCHANGED <<connected, pubsubChannels, channels>>
  /\ ClearFlag(c)

Publish(c, ch, m) ==
  /\ CanRun(c)
  /\ publishMessage(c, ch, m)
  /\ UNCHANGED <<connected, tables, flagged>>

\* onWritable: the output leaves and the handler is removed.
Writable(c) ==
  /\ c \in armed
  /\ output' = [output EXCEPT ![c] = <<>>]
  /\ armed' = armed \ {c}
  /\ UNCHANGED <<connected, tables, flagged>>

\* Faulty: the table of patterns keeps the client.
closeClientKeepsPatterns(c) ==
  /\ unsubscribeChannel(c, channels[c])
  /\ patterns' = [patterns EXCEPT ![c] = {}]
  /\ UNCHANGED pubsubPatterns

\* closeClient takes the client out of both tables.
closeClient(c) ==
  /\ unsubscribeChannel(c, channels[c])
  /\ punsubscribePattern(c, patterns[c])

\* Faulty: the write handler of the descriptor stays installed.
RemoveClientKeepsHandler(c) ==
  /\ c \in connected
  /\ closeClient(c)
  /\ connected' = connected \ {c}
  /\ flagged' = flagged \ {c}
  /\ output' = [output EXCEPT ![c] = <<>>]
  /\ UNCHANGED armed

\* removeClient: closeClient, then the handlers and the Client object go.
RemoveClient(c) ==
  /\ c \in connected
  /\ closeClient(c)
  /\ connected' = connected \ {c}
  /\ flagged' = flagged \ {c}
  /\ output' = [output EXCEPT ![c] = <<>>]
  /\ armed' = armed \ {c}

Connect(c) ==
  /\ c \notin connected
  /\ connected' = connected \cup {c}
  /\ UNCHANGED <<tables, flagged, output, armed>>

Next ==
  \E c \in Clients :
    \/ \E C \in (SUBSET Channels) \ {{}} : Subscribe(c, C) \/ Unsubscribe(c, C)
    \/ \E P \in (SUBSET Patterns) \ {{}} : Psubscribe(c, P) \/ Punsubscribe(c, P)
    \/ UnsubscribeAll(c)
    \/ PunsubscribeAll(c)
    \/ \E ch \in Channels, m \in Messages : Publish(c, ch, m)
    \/ Writable(c)
    \/ RemoveClient(c)
    \/ Connect(c)

Spec == Init /\ [][Next]_vars

\* The event loop polls every descriptor with a write handler.
FairSpec == Spec /\ \A c \in Clients : WF_vars(Writable(c))

-----------------------------------------------------------------------------
(* Properties.                                                             *)

\* The server's tables list a client once for each of its own subscriptions and never
\* otherwise, only connected clients have subscriptions, and the flag says whether a
\* client has any: publishMessage follows no pointer to a destroyed client and repeats no
\* message, after any sequence of repeated and crossed (un)subscriptions.
IndexesAgree ==
  /\ \A c \in Clients, ch \in Channels :
       pubsubChannels[ch][c] = IF ch \in channels[c] THEN 1 ELSE 0
  /\ \A c \in Clients, p \in Patterns :
       pubsubPatterns[p][c] = IF p \in patterns[c] THEN 1 ELSE 0
  /\ \A c \in Clients : c \in flagged <=> channels[c] # {} \/ patterns[c] # {}
  /\ flagged \subseteq connected

\* The subscriptions of the promise are the ones the clients keep.
Promise == INSTANCE Subscriptions WITH
  Matches <- match,
  subs <- [c \in Clients |-> [channels |-> channels[c], patterns |-> patterns[c]]]

\* Server tables, client sets and closeClient together implement the promise: a message
\* reaches each client once per matching subscription, in order, and nobody else.
KeepsPromise == Promise!Spec

\* Every message and every reply leaves the server.
EveryMessageLeaves == \A c \in Clients : (output[c] # <<>>) ~> (output[c] = <<>>)
=============================================================================
