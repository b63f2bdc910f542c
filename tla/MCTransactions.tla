--------------------------- MODULE MCTransactions ---------------------------
(***************************************************************************)
(* Command sets for model checking Transactions: one per question.         *)
(***************************************************************************)
EXTENDS Transactions, TLC

CONSTANTS k1, k2, m1, m2, c1, c2

ClientSymmetry == Permutations(Clients)

Set(k, s) == [op |-> "SET", key |-> k, str |-> s, flags |-> {}, ttl |-> NoTTL]
SetPx(k, s, ttl) == [Set(k, s) EXCEPT !.ttl = ttl]
Expire(k, ttl) == [op |-> "EXPIRE", key |-> k, ttl |-> ttl]
Read(K) == [op |-> "READ", keys |-> K]
Del(K) == [op |-> "DEL", keys |-> K]
IncrBy(k, n) == [op |-> "INCRBY", key |-> k, by |-> n]
Sadd(k, K) == [op |-> "ADD", key |-> k, type |-> "set", members |-> K]
Srem(k, K) == [op |-> "REM", key |-> k, type |-> "set", members |-> K]
WatchKeys(K) == [op |-> "WATCH", upper |-> TRUE, keys |-> K]
SelectDb(d) == [op |-> "SELECT", db |-> d]
Control(names) == [op : names, upper : {TRUE}]

\* Transactions that cross databases, control commands in small letters, which reach the
\* queue and run in the loop of EXEC, a key that is created and expires.
WatchCommands ==
  Control(ControlOps \ {"WATCH"})
    \cup {[op |-> "EXEC", upper |-> FALSE], [op |-> "WATCH", upper |-> FALSE, keys |-> {k1}]}
    \cup {WatchKeys({k1}), SelectDb(0), SelectDb(1), SetPx(k1, 1, 1), Read({k1})}

\* Every data command of the model, on one key of each kind.
KeyspaceCommands ==
  {Set(k1, MaxInt), SetPx(k1, 0, 1), SetPx(k2, 0, 0),
   [Set(k1, 0) EXCEPT !.flags = {"NX"}], [Set(k2, 0) EXCEPT !.flags = {"XX"}],
   [op |-> "MSET", keys |-> {k2}, strs |-> [k \in Keys |-> NotInt]],
   Read({k1, k2}), Del({k1, k2}), IncrBy(k1, 1), IncrBy(k1, -1),
   [op |-> "DECRBY", key |-> k1, by |-> MinInt],
   [op |-> "APPEND", key |-> k1], [op |-> "PERSIST", key |-> k1],
   [op |-> "RENAME", key |-> k1, new |-> k2], [op |-> "RENAME", key |-> k2, new |-> k1],
   Expire(k1, 1), Expire(k2, 2), [op |-> "EXPIREAT", key |-> k2, at |-> 1],
   Sadd(k2, {m1}), Sadd(k2, {m2}), Srem(k2, {m1}), Srem(k2, {m1, m2}),
   [op |-> "ADD", key |-> k1, type |-> "zset", members |-> {}],
   [op |-> "REM", key |-> k1, type |-> "zset", members |-> {m1}],
   [op |-> "ADD", key |-> k2, type |-> "hash", members |-> {m1}],
   [op |-> "FLUSHDB"]}

\* Commands that replace whole values, and one that changes a value in place.
WholeValueCommands ==
  Control({"MULTI", "EXEC", "DISCARD"})
    \cup {WatchKeys({k1}), SetPx(k1, 1, 1), Set(k1, 0), IncrBy(k1, 1), Del({k1})}
InPlaceCommands == WholeValueCommands \cup {[op |-> "APPEND", key |-> k1]}
=============================================================================
