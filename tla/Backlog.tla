------------------------------ MODULE Backlog ------------------------------
(***************************************************************************)
(* The replication backlog of a master (feedReplicationBacklog,            *)
(* server/replication.cpp): a ring of replBacklogSize_ bytes that keeps    *)
(* the tail of everything sent to the replicas, with the offset of its     *)
(* first byte in that stream.                                              *)
(*                                                                         *)
(* feedReplicationBacklog runs through the data byte by byte in one call;  *)
(* Feed is the state after the loop.                                       *)
(***************************************************************************)
EXTENDS Integers, Sequences, FiniteSetsExt

CONSTANTS
  Size,        \* replBacklogSize_
  Bytes,
  NoByte       \* a slot that was never written

ASSUME SizeAssumption == Size \in Nat \ {0}
ASSUME NoByteAssumption == NoByte \notin Bytes

VARIABLES
  replBacklog, replBacklogIdx, replBacklogHistLen, replBacklogOff, masterReplOffset,
  fed          \* history: every byte fed

backlog == <<replBacklog, replBacklogIdx, replBacklogHistLen, replBacklogOff,
             masterReplOffset, fed>>

Slots == 0 .. Size - 1

BacklogInit ==
  /\ replBacklog = [i \in Slots |-> NoByte]
  /\ replBacklogIdx = 0
  /\ replBacklogHistLen = 0
  /\ replBacklogOff = 0
  /\ masterReplOffset = 0
  /\ fed = <<>>

\* The positions of data that the loop writes to slot i.
Hits(i, data) == {j \in 1 .. Len(data) : (replBacklogIdx + j - 1) % Size = i}

\* Faulty: the offset of the first byte moves with every chunk, full ring or not.
FeedMovesOffset(data) ==
  /\ replBacklog' = [i \in Slots |-> IF Hits(i, data) = {} THEN replBacklog[i]
                                     ELSE data[Max(Hits(i, data))]]
  /\ replBacklogIdx' = (replBacklogIdx + Len(data)) % Size
  /\ replBacklogHistLen' = Min({Size, replBacklogHistLen + Len(data)})
  /\ replBacklogOff' = replBacklogOff + Len(data)
  /\ masterReplOffset' = masterReplOffset + Len(data)
  /\ fed' = fed \o data

\* The last byte written to a slot stays; the history grows until the ring is full, then the
\* offset of its first byte moves on.
Feed(data) ==
  /\ replBacklog' = [i \in Slots |-> IF Hits(i, data) = {} THEN replBacklog[i]
                                     ELSE data[Max(Hits(i, data))]]
  /\ replBacklogIdx' = (replBacklogIdx + Len(data)) % Size
  /\ replBacklogHistLen' = Min({Size, replBacklogHistLen + Len(data)})
  /\ replBacklogOff' = replBacklogOff + Max({0, replBacklogHistLen + Len(data) - Size})
  /\ masterReplOffset' = masterReplOffset + Len(data)
  /\ fed' = fed \o data

BacklogNext == \E data \in Seq(Bytes) : Feed(data)

BacklogSpec == BacklogInit /\ [][BacklogNext]_backlog

BacklogTypeOK ==
  /\ replBacklog \in [Slots -> Bytes \cup {NoByte}]
  /\ replBacklogIdx \in Slots
  /\ replBacklogHistLen \in 0 .. Size
  /\ replBacklogOff \in Nat
  /\ masterReplOffset \in Nat
  /\ fed \in Seq(Bytes)

\* The ring holds the last replBacklogHistLen_ bytes of the stream, in order, ending before
\* replBacklogIdx_, and its first byte is the one at offset replBacklogOff_, also after any
\* number of turns and for data longer than the ring.
BacklogHoldsTheLastBytes ==
  /\ masterReplOffset = Len(fed)
  /\ replBacklogOff + replBacklogHistLen = masterReplOffset
  /\ \A i \in 1 .. replBacklogHistLen :
       replBacklog[(replBacklogIdx + Size - i) % Size] = fed[Len(fed) + 1 - i]
=============================================================================
