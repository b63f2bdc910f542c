---------------------------- MODULE PubSubProofs ----------------------------
(***************************************************************************)
(* Proofs about PubSub for any clients, channels, patterns and messages.   *)
(* IndexesAgree is inductive together with the types; on its states the    *)
(* counts of the server's tables are the zeros and ones of Subscriptions,  *)
(* so every step is a step of the promise.                                 *)
(***************************************************************************)
EXTENDS PubSub, TLAPS

IInv == TypeOK /\ IndexesAgree

LEMMA InitInv == Init => IInv
  BY DEF Init, IInv, TypeOK, IndexesAgree

-----------------------------------------------------------------------------
(* Pieces of handlers.                                                     *)

\* A reply keeps the outputs and write handlers well-typed.
LEMMA AnswerType ==
  ASSUME TypeOK, NEW c \in Clients, c \in connected, Answer(c)
  PROVE  output' \in [Clients -> Seq(Items)] /\ armed' \in SUBSET connected
  BY DEF TypeOK, Answer, Items

\* Listing a client for channels it does not have keeps table and client set in step.
LEMMA SubscribeAgrees ==
  ASSUME IInv, NEW c \in Clients, NEW C \in SUBSET Channels, subscribeChannel(c, C)
  PROVE  /\ pubsubChannels' \in [Channels -> [Clients -> Nat]]
         /\ channels' \in [Clients -> SUBSET Channels]
         /\ channels'[c] = channels[c] \cup C
         /\ \A e \in Clients : e # c => channels'[e] = channels[e]
         /\ \A e \in Clients, ch \in Channels :
              pubsubChannels'[ch][e] = IF ch \in channels'[e] THEN 1 ELSE 0
  BY DEF IInv, TypeOK, IndexesAgree, subscribeChannel

LEMMA PsubscribeAgrees ==
  ASSUME IInv, NEW c \in Clients, NEW P \in SUBSET Patterns, psubscribePattern(c, P)
  PROVE  /\ pubsubPatterns' \in [Patterns -> [Clients -> Nat]]
         /\ patterns' \in [Clients -> SUBSET Patterns]
         /\ patterns'[c] = patterns[c] \cup P
         /\ \A e \in Clients : e # c => patterns'[e] = patterns[e]
         /\ \A e \in Clients, p \in Patterns :
              pubsubPatterns'[p][e] = IF p \in patterns'[e] THEN 1 ELSE 0
  BY DEF IInv, TypeOK, IndexesAgree, psubscribePattern

\* Taking a client out of the channels it gives up does too.
LEMMA UnsubscribeAgrees ==
  ASSUME IInv, NEW c \in Clients, NEW C \in SUBSET Channels, unsubscribeChannel(c, C)
  PROVE  /\ pubsubChannels' \in [Channels -> [Clients -> Nat]]
         /\ channels' \in [Clients -> SUBSET Channels]
         /\ channels'[c] = channels[c] \ C
         /\ \A e \in Clients : e # c => channels'[e] = channels[e]
         /\ \A e \in Clients, ch \in Channels :
              pubsubChannels'[ch][e] = IF ch \in channels'[e] THEN 1 ELSE 0
  BY DEF IInv, TypeOK, IndexesAgree, unsubscribeChannel

LEMMA PunsubscribeAgrees ==
  ASSUME IInv, NEW c \in Clients, NEW P \in SUBSET Patterns, punsubscribePattern(c, P)
  PROVE  /\ pubsubPatterns' \in [Patterns -> [Clients -> Nat]]
         /\ patterns' \in [Clients -> SUBSET Patterns]
         /\ patterns'[c] = patterns[c] \ P
         /\ \A e \in Clients : e # c => patterns'[e] = patterns[e]
         /\ \A e \in Clients, p \in Patterns :
              pubsubPatterns'[p][e] = IF p \in patterns'[e] THEN 1 ELSE 0
  BY DEF IInv, TypeOK, IndexesAgree, punsubscribePattern

-----------------------------------------------------------------------------
(* Handlers preserve the invariant.                                        *)

LEMMA SubscribeInv ==
  ASSUME IInv, NEW c \in Clients, NEW C \in (SUBSET Channels) \ {{}}, Subscribe(c, C)
  PROVE  IInv'
<1>1. subscribeChannel(c, C) /\ Answer(c)
  BY DEF Subscribe
<1>2. TypeOK'
  BY <1>1, SubscribeAgrees, AnswerType DEF IInv, TypeOK, Subscribe, CanRun
<1>3. channels'[c] # {}
  BY <1>1, SubscribeAgrees
<1>4. c \in connected /\ connected' = connected /\ patterns' = patterns /\ flagged' = flagged \cup {c}
  BY DEF Subscribe, CanRun
<1>5. \A e \in Clients : e \in flagged' <=> channels'[e] # {} \/ patterns'[e] # {}
  <2> TAKE e \in Clients
  <2>1. CASE e = c
    BY <2>1, <1>3, <1>4
  <2>2. CASE e # c
    BY <2>2, <1>1, <1>4, SubscribeAgrees DEF IInv, IndexesAgree
  <2> QED BY <2>1, <2>2
<1>6. IndexesAgree'
  BY <1>1, <1>4, <1>5, SubscribeAgrees DEF IInv, IndexesAgree, Subscribe
<1> QED BY <1>2, <1>6 DEF IInv

LEMMA PsubscribeInv ==
  ASSUME IInv, NEW c \in Clients, NEW P \in (SUBSET Patterns) \ {{}}, Psubscribe(c, P)
  PROVE  IInv'
<1>1. psubscribePattern(c, P) /\ Answer(c)
  BY DEF Psubscribe
<1>2. TypeOK'
  BY <1>1, PsubscribeAgrees, AnswerType DEF IInv, TypeOK, Psubscribe, CanRun
<1>3. patterns'[c] # {}
  BY <1>1, PsubscribeAgrees
<1>4. c \in connected /\ connected' = connected /\ channels' = channels /\ flagged' = flagged \cup {c}
  BY DEF Psubscribe, CanRun
<1>5. \A e \in Clients : e \in flagged' <=> channels'[e] # {} \/ patterns'[e] # {}
  <2> TAKE e \in Clients
  <2>1. CASE e = c
    BY <2>1, <1>3, <1>4
  <2>2. CASE e # c
    BY <2>2, <1>1, <1>4, PsubscribeAgrees DEF IInv, IndexesAgree
  <2> QED BY <2>1, <2>2
<1>6. IndexesAgree'
  BY <1>1, <1>4, <1>5, PsubscribeAgrees DEF IInv, IndexesAgree, Psubscribe
<1> QED BY <1>2, <1>6 DEF IInv

\* UNSUBSCRIBE with and without arguments.
LEMMA UnsubscribeInv ==
  ASSUME IInv, NEW c \in Clients, c \in connected, NEW C \in SUBSET Channels,
         unsubscribeChannel(c, C), ClearFlag(c),
         Answer(c) \/ UNCHANGED <<output, armed>>,
         UNCHANGED <<connected, pubsubPatterns, patterns>>
  PROVE  IInv'
<1>1. output' \in [Clients -> Seq(Items)] /\ armed' \in SUBSET connected
  BY AnswerType DEF IInv, TypeOK
<1>2. TypeOK'
  BY <1>1, UnsubscribeAgrees DEF IInv, TypeOK, ClearFlag
<1>3. IndexesAgree'
  BY UnsubscribeAgrees DEF IInv, TypeOK, IndexesAgree, ClearFlag
<1> QED BY <1>2, <1>3 DEF IInv

\* PUNSUBSCRIBE with and without arguments.
LEMMA PunsubscribeInv ==
  ASSUME IInv, NEW c \in Clients, c \in connected, NEW P \in SUBSET Patterns,
         punsubscribePattern(c, P), ClearFlag(c),
         Answer(c) \/ UNCHANGED <<output, armed>>,
         UNCHANGED <<connected, pubsubChannels, channels>>
  PROVE  IInv'
<1>1. output' \in [Clients -> Seq(Items)] /\ armed' \in SUBSET connected
  BY AnswerType DEF IInv, TypeOK
<1>2. TypeOK'
  BY <1>1, PunsubscribeAgrees DEF IInv, TypeOK, ClearFlag
<1>3. IndexesAgree'
  BY PunsubscribeAgrees DEF IInv, TypeOK, IndexesAgree, ClearFlag
<1> QED BY <1>2, <1>3 DEF IInv

LEMMA CopiesType ==
  ASSUME TypeOK, NEW c \in Clients, NEW ch \in Channels
  PROVE  CopiesFor(c, ch) \in Copies
<1>1. pubsubChannels[ch][c] \in Nat /\ \A p \in Patterns : pubsubPatterns[p][c] \in Nat
  BY DEF TypeOK
<1>2. [p \in Patterns |-> IF match(p, ch) THEN pubsubPatterns[p][c] ELSE 0] \in [Patterns -> Nat]
  BY <1>1
<1> QED BY <1>1, <1>2 DEF CopiesFor, Copies

LEMMA PublishInv ==
  ASSUME IInv, NEW c \in Clients, NEW ch \in Channels, NEW m \in Messages, Publish(c, ch, m)
  PROVE  IInv'
<1> DEFINE item(e) == [kind |-> "message", channel |-> ch, message |-> m,
                       copies |-> CopiesFor(e, ch)]
           out(e)  == IF Listed(CopiesFor(e, ch)) THEN Append(output[e], item(e)) ELSE output[e]
<1>1. ASSUME NEW e \in Clients PROVE item(e) \in Items
  BY CopiesType DEF IInv, Items
<1>2. ASSUME NEW e \in Clients
      PROVE  out(e) \in Seq(Items) /\ Append(out(e), Reply) \in Seq(Items)
  <2>1. output[e] \in Seq(Items) /\ item(e) \in Items /\ Reply \in Items
    BY <1>1 DEF IInv, TypeOK, Items
  <2> HIDE DEF item
  <2> QED BY <2>1
<1>3. output' = [e \in Clients |-> IF e = c THEN Append(out(e), Reply) ELSE out(e)]
  BY DEF Publish, publishMessage
<1> HIDE DEF out
<1>4. output' \in [Clients -> Seq(Items)]
  BY <1>2, <1>3
<1>5. armed' \in SUBSET connected
  <2>1. ASSUME NEW e \in Clients, Listed(CopiesFor(e, ch)) PROVE e \in connected
    <3>1. CASE CopiesFor(e, ch).direct > 0
      BY <3>1 DEF CopiesFor, IInv, IndexesAgree
    <3>2. CASE \E p \in Patterns : CopiesFor(e, ch).via[p] > 0
      <4>1. PICK p \in Patterns : CopiesFor(e, ch).via[p] > 0
        BY <3>2
      <4>2. CopiesFor(e, ch).via[p] = IF match(p, ch) THEN pubsubPatterns[p][e] ELSE 0
        BY DEF CopiesFor
      <4>3. pubsubPatterns[p][e] # 0
        <5> SUFFICES ASSUME pubsubPatterns[p][e] = 0 PROVE FALSE
          OBVIOUS
        <5>1. CopiesFor(e, ch).via[p] = 0
          BY <4>2
        <5> QED BY <4>1, <5>1
      <4>4. p \in patterns[e]
        BY <4>3 DEF IInv, IndexesAgree
      <4> QED BY <4>4 DEF IInv, IndexesAgree
    <3> QED BY <2>1, <3>1, <3>2 DEF Listed
  <2>2. c \in connected /\ armed \in SUBSET connected
    BY DEF Publish, CanRun, IInv, TypeOK
  <2> QED BY <2>1, <2>2 DEF Publish, publishMessage
<1> QED BY <1>4, <1>5 DEF IInv, TypeOK, IndexesAgree, Publish, tables

LEMMA RemoveClientInv ==
  ASSUME IInv, NEW c \in Clients, RemoveClient(c)
  PROVE  IInv'
<1>1. channels[c] \in SUBSET Channels /\ patterns[c] \in SUBSET Patterns
  BY DEF IInv, TypeOK
<1>2. unsubscribeChannel(c, channels[c]) /\ punsubscribePattern(c, patterns[c])
  BY DEF RemoveClient, closeClient
<1>3. channels'[c] = {} /\ patterns'[c] = {}
  BY <1>1, <1>2, UnsubscribeAgrees, PunsubscribeAgrees
<1>4. TypeOK'
  BY <1>1, <1>2, UnsubscribeAgrees, PunsubscribeAgrees DEF IInv, TypeOK, RemoveClient
<1>5. IndexesAgree'
  BY <1>1, <1>2, <1>3, UnsubscribeAgrees, PunsubscribeAgrees
     DEF IInv, TypeOK, IndexesAgree, RemoveClient
<1> QED BY <1>4, <1>5 DEF IInv

LEMMA NextInv == IInv /\ [Next]_vars => IInv'
<1> SUFFICES ASSUME IInv, [Next]_vars PROVE IInv'
  OBVIOUS
<1>1. CASE UNCHANGED vars
  BY <1>1 DEF IInv, TypeOK, IndexesAgree, vars
<1>2. CASE Next
  <2> PICK c \in Clients :
        \/ \E C \in (SUBSET Channels) \ {{}} : Subscribe(c, C) \/ Unsubscribe(c, C)
        \/ \E P \in (SUBSET Patterns) \ {{}} : Psubscribe(c, P) \/ Punsubscribe(c, P)
        \/ UnsubscribeAll(c)
        \/ PunsubscribeAll(c)
        \/ \E ch \in Channels, m \in Messages : Publish(c, ch, m)
        \/ Writable(c)
        \/ RemoveClient(c)
        \/ Connect(c)
    BY <1>2 DEF Next
  <2>0. channels[c] \in SUBSET Channels /\ patterns[c] \in SUBSET Patterns
    BY DEF IInv, TypeOK
  <2>1. CASE \E C \in (SUBSET Channels) \ {{}} : Subscribe(c, C)
    BY <2>1, SubscribeInv
  <2>2. CASE \E C \in (SUBSET Channels) \ {{}} : Unsubscribe(c, C)
    BY <2>2, UnsubscribeInv DEF Unsubscribe, CanRun
  <2>3. CASE \E P \in (SUBSET Patterns) \ {{}} : Psubscribe(c, P)
    BY <2>3, PsubscribeInv
  <2>4. CASE \E P \in (SUBSET Patterns) \ {{}} : Punsubscribe(c, P)
    BY <2>4, PunsubscribeInv DEF Punsubscribe, CanRun
  <2>5. CASE UnsubscribeAll(c)
    BY <2>0, <2>5, UnsubscribeInv DEF UnsubscribeAll, CanRun
  <2>6. CASE PunsubscribeAll(c)
    BY <2>0, <2>6, PunsubscribeInv DEF PunsubscribeAll, CanRun
  <2>7. CASE \E ch \in Channels, m \in Messages : Publish(c, ch, m)
    BY <2>7, PublishInv
  <2>8. CASE Writable(c)
    <3>1. output' \in [Clients -> Seq(Items)] /\ armed' \in SUBSET connected
      BY <2>8 DEF Writable, IInv, TypeOK
    <3> QED BY <2>8, <3>1 DEF Writable, IInv, TypeOK, IndexesAgree, tables
  <2>9. CASE RemoveClient(c)
    BY <2>9, RemoveClientInv
  <2>10. CASE Connect(c)
    BY <2>10 DEF Connect, IInv, TypeOK, IndexesAgree, tables
  <2> QED BY <2>1, <2>2, <2>3, <2>4, <2>5, <2>6, <2>7, <2>8, <2>9, <2>10
<1> QED BY <1>1, <1>2

\* IInv holds in every reachable state.
THEOREM PubSubInvariance == Spec => []IInv
  BY InitInv, NextInv, PTL DEF Spec

\* Subscriptions, tables, outputs and handlers keep their types (TypeOK).
THEOREM PubSubTypeCorrect == Spec => []TypeOK
<1>1. IInv => TypeOK
  BY DEF IInv
<1> QED BY <1>1, PubSubInvariance, PTL

\* The server's tables and the clients' own sets never disagree (subscribeChannel,
\* unsubscribeChannel, psubscribePattern, punsubscribePattern and closeClient).
THEOREM SubscriptionsConsistent == Spec => []IndexesAgree
<1>1. IInv => IndexesAgree
  BY DEF IInv
<1> QED BY <1>1, PubSubInvariance, PTL

-----------------------------------------------------------------------------
(* Refinement of Subscriptions.                                            *)

mapped == [c \in Clients |-> [channels |-> channels[c], patterns |-> patterns[c]]]

LEMMA InitRefines == Init => Promise!Init
  BY DEF Init, Promise!Init, Promise!Nothing

\* On the states of the invariant the counts are those of the promise.
LEMMA CopiesRefine ==
  ASSUME IInv, NEW c \in Clients, NEW ch \in Channels
  PROVE  CopiesFor(c, ch) = Promise!Copies(c, ch)
<1>1. pubsubChannels[ch][c] = IF ch \in channels[c] THEN 1 ELSE 0
  BY DEF IInv, IndexesAgree
<1>2. \A p \in Patterns : pubsubPatterns[p][c] = IF p \in patterns[c] THEN 1 ELSE 0
  BY DEF IInv, IndexesAgree
<1>3. [p \in Patterns |-> IF match(p, ch) THEN pubsubPatterns[p][c] ELSE 0]
        = [p \in Patterns |-> IF match(p, ch) /\ p \in patterns[c] THEN 1 ELSE 0]
  BY <1>2
<1> QED BY <1>1, <1>3 DEF CopiesFor, Promise!Copies

\* A command that changes the subscriptions of one client and answers it, or not, is a
\* Change of the promise.
LEMMA ChangeRefines ==
  ASSUME IInv, IInv', NEW c \in Clients, c \in connected, UNCHANGED connected,
         \A e \in Clients : e # c => channels'[e] = channels[e] /\ patterns'[e] = patterns[e],
         Answer(c) \/ UNCHANGED <<output, armed>>
  PROVE  Promise!Next
<1> DEFINE new == [channels |-> channels'[c], patterns |-> patterns'[c]]
<1>1. channels'[c] \in SUBSET Channels /\ patterns'[c] \in SUBSET Patterns
  BY DEF IInv, TypeOK
<1>2. mapped' = [mapped EXCEPT ![c] = new]
  BY DEF mapped
<1>3. output \in [Clients -> Seq(Items)]
  BY DEF IInv, TypeOK
<1>4. CASE Answer(c)
  <2>1. Promise!Change(c, new, TRUE)
    BY <1>2, <1>4 DEF Answer, Promise!Change, Promise!Reply, Reply, mapped
  <2> QED BY <1>1, <2>1 DEF Promise!Next
<1>5. CASE UNCHANGED <<output, armed>>
  <2>1. Promise!Change(c, new, FALSE)
    BY <1>2, <1>3, <1>5 DEF Promise!Change, mapped
  <2> QED BY <1>1, <2>1 DEF Promise!Next
<1> QED BY <1>4, <1>5

LEMMA PublishRefines ==
  ASSUME IInv, NEW c \in Clients, NEW ch \in Channels, NEW m \in Messages, Publish(c, ch, m)
  PROVE  Promise!Next
<1> DEFINE out(e) == Promise!Sent(output[e], Promise!Copies(e, ch), ch, m)
<1>1. ASSUME NEW e \in Clients
      PROVE  out(e) = IF Listed(CopiesFor(e, ch))
                      THEN Append(output[e], [kind |-> "message", channel |-> ch,
                                              message |-> m, copies |-> CopiesFor(e, ch)])
                      ELSE output[e]
  BY CopiesRefine DEF Promise!Sent, Promise!Wanted, Listed
<1>2. output' = [e \in Clients |-> IF e = c THEN Append(out(e), Promise!Reply) ELSE out(e)]
  BY <1>1 DEF Publish, publishMessage, Promise!Reply, Reply
<1>3. c \in connected /\ UNCHANGED <<connected, channels, patterns>>
  BY DEF Publish, CanRun, tables
<1>4. Promise!Publish(c, ch, m)
  BY <1>2, <1>3 DEF Promise!Publish
<1> QED BY <1>4 DEF Promise!Next

LEMMA NextRefines == IInv /\ IInv' /\ [Next]_vars => [Promise!Next]_Promise!vars
<1> SUFFICES ASSUME IInv, IInv', [Next]_vars PROVE [Promise!Next]_Promise!vars
  OBVIOUS
<1>1. CASE UNCHANGED vars
  BY <1>1 DEF vars, Promise!vars
<1>2. ASSUME NEW c \in Clients, NEW C \in (SUBSET Channels) \ {{}},
             Subscribe(c, C) \/ Unsubscribe(c, C)
      PROVE  Promise!Next
  <2>1. C \in SUBSET Channels
    OBVIOUS
  <2> QED BY <1>2, <2>1, ChangeRefines, SubscribeAgrees, UnsubscribeAgrees
          DEF Subscribe, Unsubscribe, CanRun
<1>3. ASSUME NEW c \in Clients, NEW P \in (SUBSET Patterns) \ {{}},
             Psubscribe(c, P) \/ Punsubscribe(c, P)
      PROVE  Promise!Next
  <2>1. P \in SUBSET Patterns
    OBVIOUS
  <2> QED BY <1>3, <2>1, ChangeRefines, PsubscribeAgrees, PunsubscribeAgrees
          DEF Psubscribe, Punsubscribe, CanRun
<1>4. ASSUME NEW c \in Clients, UnsubscribeAll(c) \/ PunsubscribeAll(c)
      PROVE  Promise!Next
  <2>1. channels[c] \in SUBSET Channels /\ patterns[c] \in SUBSET Patterns
    BY DEF IInv, TypeOK
  <2>2. Answer(c) \/ UNCHANGED <<output, armed>>
    BY <1>4 DEF UnsubscribeAll, PunsubscribeAll
  <2> QED BY <1>4, <2>1, <2>2, ChangeRefines, UnsubscribeAgrees, PunsubscribeAgrees
          DEF UnsubscribeAll, PunsubscribeAll, CanRun
<1>5. ASSUME NEW c \in Clients, Writable(c)
      PROVE  Promise!Next
  <2>1. Promise!Read(c)
    BY <1>5 DEF Writable, tables, Promise!Read
  <2> QED BY <2>1 DEF Promise!Next
<1>6. ASSUME NEW c \in Clients, RemoveClient(c)
      PROVE  Promise!Next
  <2>1. unsubscribeChannel(c, channels[c]) /\ punsubscribePattern(c, patterns[c])
    BY <1>6 DEF RemoveClient, closeClient
  <2>2. channels[c] \in SUBSET Channels /\ patterns[c] \in SUBSET Patterns
    BY DEF IInv, TypeOK
  <2>3. /\ channels'[c] = {} /\ patterns'[c] = {}
        /\ \A e \in Clients : e # c => channels'[e] = channels[e] /\ patterns'[e] = patterns[e]
    BY <2>1, <2>2, UnsubscribeAgrees, PunsubscribeAgrees
  <2>4. mapped' = [mapped EXCEPT ![c] = Promise!Nothing]
    BY <2>3 DEF mapped, Promise!Nothing
  <2>5. Promise!Leave(c)
    BY <1>6, <2>4 DEF RemoveClient, Promise!Leave, mapped
  <2> QED BY <2>5 DEF Promise!Next
<1>7. ASSUME NEW c \in Clients, Connect(c)
      PROVE  Promise!Next
  <2>1. Promise!Join(c)
    BY <1>7 DEF Connect, tables, Promise!Join
  <2> QED BY <2>1 DEF Promise!Next
<1>8. CASE Next
  BY <1>2, <1>3, <1>4, <1>5, <1>6, <1>7, <1>8, PublishRefines DEF Next
<1> QED BY <1>1, <1>8

\* Publish/subscribe does what Subscriptions promises: every message reaches every client
\* once per matching subscription, in order, whatever the clients do (publishMessage).
THEOREM DeliveryRefines == Spec => KeepsPromise
<1>1. Spec => []IInv
  BY PubSubInvariance
<1> QED BY <1>1, InitRefines, NextRefines, PTL DEF Spec, KeepsPromise, Promise!Spec
=============================================================================
