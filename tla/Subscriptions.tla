--------------------------- MODULE Subscriptions ---------------------------
(***************************************************************************)
(* What publish/subscribe promises: a client has a set of channels and a   *)
(* set of patterns, and a message reaches it once for each of them that    *)
(* the channel of the message matches, in the order of publication.        *)
(***************************************************************************)
EXTENDS Integers, Sequences

CONSTANTS Clients, Channels, Patterns, Messages, Matches(_, _)

VARIABLES
  connected,
  subs,       \* per client: channels and patterns
  output      \* per client: what it has been sent and has not read

vars == <<connected, subs, output>>

Nothing == [channels |-> {}, patterns |-> {}]
Reply == [kind |-> "reply"]

\* How often a message published on channel ch goes to client c: by channel, by pattern.
Copies(c, ch) ==
  [direct |-> IF ch \in subs[c].channels THEN 1 ELSE 0,
   via    |-> [p \in Patterns |-> IF Matches(p, ch) /\ p \in subs[c].patterns THEN 1 ELSE 0]]

Wanted(copies) == copies.direct > 0 \/ \E p \in Patterns : copies.via[p] > 0

\* The output of client c with its copies of a message.
Sent(out, copies, ch, m) ==
  IF Wanted(copies)
  THEN Append(out, [kind |-> "message", channel |-> ch, message |-> m, copies |-> copies])
  ELSE out

Init ==
  /\ connected = {}
  /\ subs = [c \in Clients |-> Nothing]
  /\ output = [c \in Clients |-> <<>>]

\* A client changes its subscriptions; dropping all of none is not answered.
Change(c, new, answered) ==
  /\ c \in connected
  /\ subs' = [subs EXCEPT ![c] = new]
  /\ output' = [output EXCEPT ![c] = IF answered THEN Append(@, Reply) ELSE @]
  /\ UNCHANGED connected

Publish(c, ch, m) ==
  /\ c \in connected
  /\ output' = [e \in Clients |->
       LET out == Sent(output[e], Copies(e, ch), ch, m)
       IN  IF e = c THEN Append(out, Reply) ELSE out]
  /\ UNCHANGED <<connected, subs>>

Read(c) ==
  /\ output' = [output EXCEPT ![c] = <<>>]
  /\ UNCHANGED <<connected, subs>>

Leave(c) ==
  /\ connected' = connected \ {c}
  /\ subs' = [subs EXCEPT ![c] = Nothing]
  /\ output' = [output EXCEPT ![c] = <<>>]

Join(c) ==
  /\ connected' = connected \cup {c}
  /\ UNCHANGED <<subs, output>>

Next ==
  \E c \in Clients :
    \/ \E C \in SUBSET Channels, P \in SUBSET Patterns, answered \in BOOLEAN :
         Change(c, [channels |-> C, patterns |-> P], answered)
    \/ \E ch \in Channels, m \in Messages : Publish(c, ch, m)
    \/ Read(c)
    \/ Leave(c)
    \/ Join(c)

Spec == Init /\ [][Next]_vars
=============================================================================
