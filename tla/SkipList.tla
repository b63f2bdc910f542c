------------------------------ MODULE SkipList ------------------------------
(***************************************************************************)
(* The skip list of a sorted set (storage/data_structures/skip_list.cpp):  *)
(* nodes in order of score, then of member, with forward pointers and      *)
(* spans on several levels.                                                *)
(*                                                                         *)
(* A list is a record; the methods are operators on it.  A node is named   *)
(* by its member: a sorted set holds a member once.  Members are numbers,  *)
(* ordered as std::string::compare orders the strings they stand for; the  *)
(* head is 0.                                                              *)
(***************************************************************************)
EXTENDS Integers, Sequences, FiniteSets, SequencesExt

CONSTANTS
  Members,     \* numbers above 0
  MaxLevel     \* SKIPLIST_MAXLEVEL, 32 in the code

ASSUME MembersAssumption == Members \subseteq Nat \ {0}
ASSUME MaxLevelAssumption == MaxLevel \in Nat \ {0}

Head_ == 0
Nil   == -1
Nodes == Members \cup {Head_}
Levels == 1 .. MaxLevel

\* forward, span: per node and level; height: how many levels a node has, 0 when it is not in
\* the list; backward: per node, Nil before the first.
EmptyList ==
  [forward  |-> [x \in Nodes |-> [i \in Levels |-> Nil]],
   span     |-> [x \in Nodes |-> [i \in Levels |-> 0]],
   score    |-> [x \in Nodes |-> 0],
   height   |-> [x \in Nodes |-> IF x = Head_ THEN MaxLevel ELSE 0],
   backward |-> [x \in Nodes |-> Nil],
   tail |-> Nil, length |-> 0, level |-> 1]

\* Node x comes before (score, member).
Before(l, x, score, member) == l.score[x] < score \/ (l.score[x] = score /\ x < member)

\* Where a search stands: the node, and the spans it passed over to get there.
Places == [node : Nodes, rank : Int]
Start  == [node |-> Head_, rank |-> 0]

\* The place after p on level i.
Ahead(l, p, i) ==
  [node |-> l.forward[p.node][i], rank |-> p.rank + l.span[p.node][i]]

\* The loop of all searches: on level i, move on while the place ahead is one that they Pass.
Walk(l, Pass, i) ==
  LET walk[p \in Places] ==
        IF l.forward[p.node][i] # Nil /\ Ahead(l, p, i) \in Pass
        THEN walk[Ahead(l, p, i)] ELSE p
  IN  walk

\* From the head, on every level from the top down.  The result gives for every level the place
\* where the search left it.
Search(l, Pass) ==
  LET left[i \in 1 .. l.level + 1] ==
        IF i = l.level + 1 THEN Start ELSE Walk(l, Pass, i)[left[i + 1]]
  IN  [i \in 1 .. l.level |-> left[i]]

\* The update and rank arrays of insert and deleteNode.
Position(l, score, member) ==
  Search(l, {p \in Places : Before(l, p.node, score, member)})

-----------------------------------------------------------------------------
(* insert and deleteNode.                                                  *)

\* Faulty: the levels above the new node keep their spans.
insertNoSpan(l, score, member, level) ==
  LET found == Position(l, score, member)
      at(i) == IF i <= l.level THEN found[i] ELSE Start
      old(i) == IF i <= l.level THEN l.span[at(i).node][i] ELSE l.length
      gap(i) == at(1).rank - at(i).rank
      next == l.forward[at(1).node][1]
  IN  [forward |-> [x \in Nodes |-> [i \in Levels |->
             IF i > level THEN l.forward[x][i]
             ELSE IF x = member THEN l.forward[at(i).node][i]
             ELSE IF x = at(i).node THEN member ELSE l.forward[x][i]]],
       span |-> [x \in Nodes |-> [i \in Levels |->
             IF i <= level /\ x = member THEN old(i) - gap(i)
             ELSE IF i <= level /\ x = at(i).node THEN gap(i) + 1
             ELSE l.span[x][i]]],
       score  |-> [l.score EXCEPT ![member] = score],
       height |-> [l.height EXCEPT ![member] = level],
       backward |-> [x \in Nodes |->
             IF x = member THEN (IF at(1).node = Head_ THEN Nil ELSE at(1).node)
             ELSE IF x = next THEN member ELSE l.backward[x]],
       tail   |-> IF next = Nil THEN member ELSE l.tail,
       length |-> l.length + 1,
       level  |-> IF level > l.level THEN level ELSE l.level]

\* insert, with the level that randomLevel draws: levels the list did not have start at the
\* head, with a span over the whole list.
insert(l, score, member, level) ==
  LET found == Position(l, score, member)
      at(i) == IF i <= l.level THEN found[i] ELSE Start
      old(i) == IF i <= l.level THEN l.span[at(i).node][i] ELSE l.length
      gap(i) == at(1).rank - at(i).rank
      next == l.forward[at(1).node][1]
  IN  [forward |-> [x \in Nodes |-> [i \in Levels |->
             IF i > level THEN l.forward[x][i]
             ELSE IF x = member THEN l.forward[at(i).node][i]
             ELSE IF x = at(i).node THEN member ELSE l.forward[x][i]]],
       span |-> [x \in Nodes |-> [i \in Levels |->
             IF i <= level /\ x = member THEN old(i) - gap(i)
             ELSE IF i <= level /\ x = at(i).node THEN gap(i) + 1
             ELSE IF i > level /\ i <= l.level /\ x = at(i).node THEN l.span[x][i] + 1
             ELSE l.span[x][i]]],
       score  |-> [l.score EXCEPT ![member] = score],
       height |-> [l.height EXCEPT ![member] = level],
       backward |-> [x \in Nodes |->
             IF x = member THEN (IF at(1).node = Head_ THEN Nil ELSE at(1).node)
             ELSE IF x = next THEN member ELSE l.backward[x]],
       tail   |-> IF next = Nil THEN member ELSE l.tail,
       length |-> l.length + 1,
       level  |-> IF level > l.level THEN level ELSE l.level]

\* The list without the fields of a node that was deleted.  The node may come back.
Forget(l, x) ==
  [forward  |-> [l.forward EXCEPT ![x] = EmptyList.forward[x]],
   span     |-> [l.span EXCEPT ![x] = EmptyList.span[x]],
   score    |-> [l.score EXCEPT ![x] = 0],
   height   |-> [l.height EXCEPT ![x] = 0],
   backward |-> [l.backward EXCEPT ![x] = Nil],
   tail |-> l.tail, length |-> l.length, level |-> l.level]

\* deleteNodeInternal, with the levels that become empty given up.
deleteNodeInternal(l, x, update) ==
  LET forward == [n \in Nodes |-> [i \in Levels |->
                    IF i <= l.level /\ n = update[i].node /\ l.forward[n][i] = x
                    THEN l.forward[x][i] ELSE l.forward[n][i]]]
      next == l.forward[x][1]
      used == {i \in 2 .. l.level : forward[Head_][i] # Nil}
  IN  [forward |-> forward,
       span |-> [n \in Nodes |-> [i \in Levels |->
             IF i > l.level \/ n # update[i].node THEN l.span[n][i]
             ELSE IF l.forward[n][i] = x THEN l.span[n][i] + l.span[x][i] - 1
             ELSE l.span[n][i] - 1]],
       score |-> l.score, height |-> l.height,
       backward |-> [n \in Nodes |-> IF n = next THEN l.backward[x] ELSE l.backward[n]],
       tail   |-> IF next = Nil THEN l.backward[x] ELSE l.tail,
       length |-> l.length - 1,
       level  |-> IF used = {} THEN 1 ELSE Max(used)]

\* deleteNode: nothing happens unless the node after the position is the one meant; it is freed.
deleteNode(l, score, member) ==
  LET update == Position(l, score, member)
      x == l.forward[update[1].node][1]
  IN  IF x = member /\ l.score[x] = score THEN Forget(deleteNodeInternal(l, x, update), x) ELSE l

-----------------------------------------------------------------------------
(* Queries.                                                                *)

\* The rank of a member, from 1; 0 when it is not found.  The answer is taken on the highest
\* level where the search stops at the member.
getRank(l, score, member) ==
  LET found == Search(l, {p \in Places : Before(l, p.node, score, member + 1)})
      hits  == {i \in DOMAIN found : found[i].node = member}
  IN  IF hits = {} THEN 0 ELSE found[Max(hits)].rank

\* The node of a rank, Nil for none; again from the highest level where the search stops at it.
getElementByRank(l, rank) ==
  LET found == Search(l, {p \in Places : p.rank <= rank})
      hits  == {i \in DOMAIN found : found[i].rank = rank}
  IN  IF hits = {} THEN Nil ELSE found[Max(hits)].node

getFirstInRange(l, min, max) ==
  LET found == Search(l, {p \in Places : l.score[p.node] < min})
      x == l.forward[found[1].node][1]
  IN  IF x = Nil \/ l.score[x] > max THEN Nil ELSE x

getLastInRange(l, min, max) ==
  LET x == Search(l, {p \in Places : l.score[p.node] <= max})[1].node
  IN  IF x = Head_ \/ l.score[x] < min THEN Nil ELSE x
=============================================================================
