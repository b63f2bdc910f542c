------------------------------ MODULE Database ------------------------------
(***************************************************************************)
(* One logical database of the server (storage/db.cpp): the keyspace       *)
(* data_, the TTL table expires_ and the calls of touchWatchedKey.         *)
(*                                                                         *)
(* A method of class Database is an operator from a database value to the  *)
(* database value it leaves behind, so a command handler, which calls      *)
(* several methods in a row, is a composition of operators and one atomic  *)
(* step.  A database value is a record                                     *)
(*   data    [Keys -> Objects \cup {Missing}]     data_                    *)
(*   expires [Keys -> Int \cup {NoTTL}]           expires_, absolute time  *)
(*   touched the keys touchWatchedKey was called on during the command     *)
(* The module that owns the clients turns "touched" into CLIENT_DIRTY_EXEC *)
(* flags, since only that module knows who watches what.                   *)
(*                                                                         *)
(* Abstracted: memory accounting, LRU clocks, hit and dirty counters.      *)
(***************************************************************************)
EXTENDS Integers, FiniteSets

CONSTANTS
  Keys,        \* key names
  Members,     \* elements of sets, fields of hashes, members of sorted sets
  MaxInt,      \* stands for INT64_MAX
  NotInt,      \* every string value that does not parse as an integer
  NoTTL        \* no entry in expires_

ASSUME MaxIntAssumption == MaxInt \in Nat \ {0}
ASSUME NotIntAssumption == NotInt \notin Int
ASSUME NoTTLAssumption == NoTTL \notin Int

MinInt == -MaxInt - 1
Int64 == MinInt .. MaxInt
Strings == Int64 \cup {NotInt}
ContainerTypes == {"set", "hash", "zset"}

Missing == [type |-> "none"]
StringObj(s) == [type |-> "string", str |-> s]
ContainerObj(t, ms) == [type |-> t, members |-> ms]

Objects == [type : {"string"}, str : Strings]
             \cup [type : ContainerTypes, members : SUBSET Members]

DbType == [data    : [Keys -> Objects \cup {Missing}],
           expires : [Keys -> Int \cup {NoTTL}],
           touched : SUBSET Keys]

Present(db, k) == db.data[k] # Missing

-----------------------------------------------------------------------------
(* Primitive methods.  A method the code calls in a loop over distinct     *)
(* keys takes the set of keys: the iterations do not influence each other. *)

isExpired(db, k, now) == db.expires[k] # NoTTL /\ now >= db.expires[k]

\* checkAndExpire drops an expired key together with its deadline and touches it.
\* Also what one sampled entry of activeExpireCycle goes through.
checkAndExpire(db, K, now) ==
  LET gone == {k \in K : isExpired(db, k, now)}
  IN  [data    |-> [k \in Keys |-> IF k \in gone THEN Missing ELSE db.data[k]],
       expires |-> [k \in Keys |-> IF k \in gone THEN NoTTL ELSE db.expires[k]],
       touched |-> db.touched \cup {k \in gone : Present(db, k)}]

\* get, getObject and getObjectForWrite look a key up after checkAndExpire.
get(db, K, now) == checkAndExpire(db, K, now)

\* Faulty: the watchers of the key are not told.
setObjectNoTouch(db, k, obj) ==
  [db EXCEPT !.data[k] = obj, !.expires[k] = NoTTL]

\* set and setObject: replace the object, drop its deadline, touch the key.
setObject(db, k, obj) ==
  [db EXCEPT !.data[k] = obj, !.expires[k] = NoTTL, !.touched = @ \cup {k}]

set(db, k, s) == setObject(db, k, StringObj(s))

\* The loop of MSET; of a key given twice the last value counts.
mset(db, K, strs) ==
  [data    |-> [k \in Keys |-> IF k \in K THEN StringObj(strs[k]) ELSE db.data[k]],
   expires |-> [k \in Keys |-> IF k \in K THEN NoTTL ELSE db.expires[k]],
   touched |-> db.touched \cup K]

del(db, K) ==
  [data    |-> [k \in Keys |-> IF k \in K THEN Missing ELSE db.data[k]],
   expires |-> [k \in Keys |-> IF k \in K THEN NoTTL ELSE db.expires[k]],
   touched |-> db.touched \cup {k \in K : Present(db, k)}]

\* Faulty: the deadline of the old key stays behind.
renameLeaveTTL(db, old, new) ==
  IF ~Present(db, old) THEN db
  ELSE setObject([db EXCEPT !.data[old] = Missing, !.touched = @ \cup {old}],
                 new, db.data[old])

\* The deadline of the old key goes to the new one and is erased by setObject.
rename(db, old, new) ==
  IF ~Present(db, old) THEN db
  ELSE setObject([db EXCEPT !.data[old] = Missing, !.expires[old] = NoTTL,
                            !.touched = @ \cup {old}],
                 new, db.data[old])

\* The integer a string value parses to; a missing key counts as 0.
Current(db, k) == IF Present(db, k) THEN db.data[k].str ELSE 0

\* Faulty: no overflow test.
incrbyUnguarded(db, k, by) ==
  IF db.data[k].type \in {"none", "string"} /\ Current(db, k) # NotInt
  THEN set(db, k, Current(db, k) + by) ELSE db

\* incrby works on data_ directly: no expiry check before, and set() after.
incrby(db, k, by) ==
  LET ok == /\ db.data[k].type \in {"none", "string"}
            /\ Current(db, k) # NotInt
            /\ ~(by > 0 /\ Current(db, k) > MaxInt - by)
            /\ ~(by < 0 /\ Current(db, k) < MinInt - by)
  IN  IF ok THEN set(db, k, Current(db, k) + by) ELSE db

\* The suffix is a non-empty text that is not a numeral.
\* An existing string is changed in place: no touch, no expiry check, TTL kept.
append(db, k) ==
  CASE db.data[k].type = "string" -> [db EXCEPT !.data[k] = StringObj(NotInt)]
    [] db.data[k].type = "none"   -> set(db, k, NotInt)
    [] OTHER                      -> db

\* A deadline in the past is stored like any other.
setExpiryAt(db, k, at) ==
  IF Present(db, k) THEN [db EXCEPT !.expires[k] = at] ELSE db

setExpiry(db, k, ttl, now) == setExpiryAt(db, k, now + ttl)

persist(db, k) == [db EXCEPT !.expires[k] = NoTTL]

\* flushDb marks every watcher of every key, present or not.
flushDb(db) ==
  [data    |-> [k \in Keys |-> Missing],
   expires |-> [k \in Keys |-> NoTTL],
   touched |-> Keys]

-----------------------------------------------------------------------------
(* Command handlers.  A handler that only reads still expires lazily.      *)

\* Faulty: NX and XX look at data_ without expiring the key first.
setCommandNoCheck(db, cmd, now) ==
  LET fresh == set(db, cmd.key, cmd.str)
  IN  CASE cmd.ttl # NoTTL /\ cmd.ttl <= 0                 -> db
        [] "NX" \in cmd.flags /\ Present(db, cmd.key)      -> db
        [] "XX" \in cmd.flags /\ ~Present(db, cmd.key)     -> db
        [] cmd.ttl = NoTTL                                 -> fresh
        [] OTHER -> setExpiryAt(fresh, cmd.key, now + cmd.ttl)

\* SET key str [NX] [XX] [PX ttl]; ttl = NoTTL when no expiry is given.
setCommand(db, cmd, now) ==
  LET nx     == "NX" \in cmd.flags
      xx     == "XX" \in cmd.flags
      looked == IF nx \/ xx THEN checkAndExpire(db, {cmd.key}, now) ELSE db
      fresh  == set(looked, cmd.key, cmd.str)
  IN  CASE cmd.ttl # NoTTL /\ cmd.ttl <= 0    -> db
        [] nx /\ Present(looked, cmd.key)     -> looked
        [] xx /\ ~Present(looked, cmd.key)    -> looked
        [] cmd.ttl = NoTTL                    -> fresh
        [] OTHER -> setExpiryAt(fresh, cmd.key, now + cmd.ttl)

\* SADD, HSET and ZADD: an absent container is created empty with setObject, an
\* existing one is changed in place.  ZADD stops at the first malformed score, so
\* its members may be none.
addCommand(db, cmd, now) ==
  LET looked  == get(db, {cmd.key}, now)
      created == IF Present(looked, cmd.key) THEN looked
                 ELSE setObject(looked, cmd.key, ContainerObj(cmd.type, {}))
  IN  IF created.data[cmd.key].type = cmd.type
      THEN [created EXCEPT !.data[cmd.key] =
               ContainerObj(cmd.type, @.members \cup cmd.members)]
      ELSE created

\* SREM and ZREM: in place, and the key goes with its last element.
remCommand(db, cmd, now) ==
  LET looked == get(db, {cmd.key}, now)
      obj    == looked.data[cmd.key]
      left   == obj.members \ cmd.members
  IN  IF obj.type # cmd.type THEN looked
      ELSE IF left = {} THEN del(looked, {cmd.key})
      ELSE [looked EXCEPT !.data[cmd.key] = ContainerObj(cmd.type, left)]

\* -decrement of INT64_MIN wraps to itself.
Negate(n) == IF n = MinInt THEN n ELSE -n

\* The effect of each data command on the selected database.
Apply(db, cmd, now) ==
  CASE cmd.op = "SET"      -> setCommand(db, cmd, now)
    [] cmd.op = "MSET"     -> mset(db, cmd.keys, cmd.strs)
    [] cmd.op = "READ"     -> get(db, cmd.keys, now)
    [] cmd.op = "DEL"      -> del(db, cmd.keys)
    [] cmd.op = "INCRBY"   -> incrby(db, cmd.key, cmd.by)
    [] cmd.op = "DECRBY"   -> incrby(db, cmd.key, Negate(cmd.by))
    [] cmd.op = "APPEND"   -> append(db, cmd.key)
    [] cmd.op = "RENAME"   -> rename(db, cmd.key, cmd.new)
    [] cmd.op = "EXPIRE"   -> setExpiry(db, cmd.key, cmd.ttl, now)
    [] cmd.op = "EXPIREAT" -> setExpiryAt(db, cmd.key, cmd.at)
    [] cmd.op = "PERSIST"  -> persist(db, cmd.key)
    [] cmd.op = "ADD"      -> addCommand(db, cmd, now)
    [] cmd.op = "REM"      -> remCommand(db, cmd, now)
    [] cmd.op = "FLUSHDB"  -> flushDb(db)

-----------------------------------------------------------------------------
(* What clients can observe.                                               *)

\* The keyspace with every key gone whose deadline has passed.
Visible(db, now) ==
  LET left == checkAndExpire(db, Keys, now)
  IN  [data |-> left.data, expires |-> left.expires, touched |-> {}]

\* Command cmd cannot tell an expired key still in memory from a key already removed.
ExpiryIsInvisible(db, cmd, now) ==
  Visible(Apply(db, cmd, now), now) = Visible(Apply(Visible(db, now), cmd, now), now)

\* Commands whose handler expires the key first, overwrites it or deletes it.
CheckedOps == {"SET", "MSET", "READ", "DEL", "ADD", "REM", "FLUSHDB"}

\* The data commands; READ is GET, STRLEN, EXISTS, TYPE, MGET and the container reads.
DataCommands ==
  [op : {"SET"}, key : Keys, str : Strings, flags : SUBSET {"NX", "XX"},
   ttl : Int \cup {NoTTL}]
  \cup [op : {"READ", "DEL"}, keys : SUBSET Keys]
  \cup [op : {"INCRBY", "DECRBY"}, key : Keys, by : Int64]
  \cup [op : {"APPEND", "PERSIST"}, key : Keys]
  \cup [op : {"RENAME"}, key : Keys, new : Keys]
  \cup [op : {"EXPIRE"}, key : Keys, ttl : Int]
  \cup [op : {"EXPIREAT"}, key : Keys, at : Int]
  \cup [op : {"MSET"}, keys : SUBSET Keys, strs : [Keys -> Strings]]
  \cup [op : {"ADD"}, key : Keys, type : {"set", "hash"},
        members : (SUBSET Members) \ {{}}]
  \cup [op : {"ADD"}, key : Keys, type : {"zset"}, members : SUBSET Members]
  \cup [op : {"REM"}, key : Keys, type : {"set", "zset"},
        members : SUBSET Members]
  \cup [op : {"FLUSHDB"}]
=============================================================================
