--------------------------- MODULE DatabaseProofs ---------------------------
(***************************************************************************)
(* What every method and every data command of a database guarantees, for  *)
(* every set of keys, members, and every integer width.                    *)
(***************************************************************************)
EXTENDS Database, TLAPS

\* A key has a deadline only while it exists.
NoOrphan(db) == \A k \in Keys : db.expires[k] # NoTTL => db.data[k] # Missing

\* What a method may do to a database: it keeps the types, forgets no touch, tells the
\* watchers of every key whose kind it changes, and leaves no deadline without a key.
Sound(db, r) ==
  /\ r \in DbType
  /\ db.touched \subseteq r.touched
  /\ \A k \in Keys \ r.touched : r.data[k].type = db.data[k].type
  /\ NoOrphan(db) => NoOrphan(r)

\* Methods compose: a handler that calls sound methods in a row is sound.
LEMMA SoundTransitive ==
  ASSUME NEW a \in DbType, NEW b, NEW c, Sound(a, b), Sound(b, c)
  PROVE  Sound(a, c)
BY DEF Sound

LEMMA SoundReflexive ==
  ASSUME NEW a \in DbType
  PROVE  Sound(a, a)
BY DEF Sound

\* The kinds of objects, for the provers.
LEMMA KindFacts ==
  /\ Missing.type = "none"
  /\ \A o \in Objects : o.type # "none" /\ o # Missing
  /\ \A o \in Objects : o.type = "string" => o.str \in Strings
  /\ \A o \in Objects : o.type \in ContainerTypes => o.members \subseteq Members
  /\ \A s \in Strings : StringObj(s) \in Objects /\ StringObj(s).type = "string"
  /\ \A t \in ContainerTypes, ms \in SUBSET Members :
        /\ ContainerObj(t, ms) \in Objects
        /\ ContainerObj(t, ms).type = t
        /\ ContainerObj(t, ms).members = ms
BY DEF Missing, Objects, StringObj, ContainerObj, ContainerTypes

\* checkAndExpire is sound: a key leaves with its deadline, and its watchers hear of it.
LEMMA ExpireSound ==
  ASSUME NEW db \in DbType, NEW K \in SUBSET Keys, NEW now \in Int
  PROVE  Sound(db, checkAndExpire(db, K, now))
BY KindFacts DEF Sound, NoOrphan, checkAndExpire, DbType, Present, isExpired

\* setObject is sound.
LEMMA SetObjectSound ==
  ASSUME NEW db \in DbType, NEW k \in Keys, NEW obj \in Objects
  PROVE  Sound(db, setObject(db, k, obj))
BY KindFacts DEF Sound, NoOrphan, setObject, DbType

\* del is sound.
LEMMA DelSound ==
  ASSUME NEW db \in DbType, NEW K \in SUBSET Keys
  PROVE  Sound(db, del(db, K))
BY KindFacts DEF Sound, NoOrphan, del, DbType, Present

\* The loop of MSET is sound.
LEMMA MsetSound ==
  ASSUME NEW db \in DbType, NEW K \in SUBSET Keys, NEW strs \in [Keys -> Strings]
  PROVE  Sound(db, mset(db, K, strs))
BY KindFacts DEF Sound, NoOrphan, mset, DbType

\* RENAME is sound, and it touches both names.
LEMMA RenameSound ==
  ASSUME NEW db \in DbType, NEW old \in Keys, NEW new \in Keys
  PROVE  Sound(db, rename(db, old, new))
<1>1. CASE ~Present(db, old)
  BY <1>1, SoundReflexive DEF rename
<1>2. CASE Present(db, old)
  <2> DEFINE mid == [db EXCEPT !.data[old] = Missing, !.expires[old] = NoTTL,
                               !.touched = @ \cup {old}]
  <2>1. Sound(db, mid)
    BY KindFacts DEF Sound, NoOrphan, DbType
  <2>2. db.data[old] \in Objects
    BY <1>2 DEF Present, DbType
  <2>3. mid \in DbType
    BY <2>1 DEF Sound
  <2>4. Sound(mid, setObject(mid, new, db.data[old]))
    BY <2>2, <2>3, SetObjectSound
  <2>5. rename(db, old, new) = setObject(mid, new, db.data[old])
    BY <1>2 DEF rename
  <2> HIDE DEF mid
  <2> QED
    BY <2>1, <2>4, <2>5, SoundTransitive
<1> QED
  BY <1>1, <1>2

\* incrby is sound: its overflow tests keep the result in 64 bits.
LEMMA IncrbySound ==
  ASSUME NEW db \in DbType, NEW k \in Keys, NEW by \in Int64
  PROVE  Sound(db, incrby(db, k, by))
<1> DEFINE cur == Current(db, k)
           ok == /\ db.data[k].type \in {"none", "string"}
                 /\ cur # NotInt
                 /\ ~(by > 0 /\ cur > MaxInt - by)
                 /\ ~(by < 0 /\ cur < MinInt - by)
<1>1. CASE ~ok
  BY <1>1, SoundReflexive DEF incrby
<1>2. CASE ok
  <2>1. cur \in Int64
    <3>1. CASE Present(db, k)
      <4>1. db.data[k] \in Objects /\ db.data[k].type = "string"
        BY <1>2, <3>1, KindFacts DEF Present, DbType
      <4> QED
        BY <1>2, <3>1, <4>1, KindFacts DEF Current, Strings
    <3>2. CASE ~Present(db, k)
      BY <3>2, MaxIntAssumption DEF Current, Int64, MinInt
    <3> QED
      BY <3>1, <3>2
  <2>2. cur + by \in Int64
    <3> HIDE DEF cur
    <3> QED
      BY <1>2, <2>1, MaxIntAssumption DEF Int64, MinInt
  <2>3. StringObj(cur + by) \in Objects
    BY <2>2, KindFacts DEF Strings
  <2>4. incrby(db, k, by) = setObject(db, k, StringObj(cur + by))
    BY <1>2 DEF incrby, set
  <2> QED
    BY <2>3, <2>4, SetObjectSound
<1> QED
  BY <1>1, <1>2

\* APPEND is sound: what it changes without a touch stays a string.
LEMMA AppendSound ==
  ASSUME NEW db \in DbType, NEW k \in Keys
  PROVE  Sound(db, append(db, k))
<1>0. StringObj(NotInt) \in Objects /\ StringObj(NotInt).type = "string"
  BY KindFacts DEF Strings
<1>1. CASE db.data[k].type = "string"
  <2>1. append(db, k) = [db EXCEPT !.data[k] = StringObj(NotInt)]
    BY <1>1 DEF append
  <2> QED
    BY <1>0, <1>1, <2>1, KindFacts DEF Sound, NoOrphan, DbType
<1>2. CASE db.data[k].type = "none"
  BY <1>0, <1>2, SetObjectSound DEF append, set
<1>3. CASE db.data[k].type \notin {"string", "none"}
  <2>1. append(db, k) = db
    BY <1>3 DEF append
  <2> QED
    BY <2>1, SoundReflexive
<1> QED
  BY <1>1, <1>2, <1>3

\* setExpiry and setExpiryAt are sound: a deadline is set only on an existing key.
LEMMA SetExpirySound ==
  ASSUME NEW db \in DbType, NEW k \in Keys, NEW at \in Int
  PROVE  Sound(db, setExpiryAt(db, k, at))
<1>1. CASE Present(db, k)
  BY <1>1 DEF Sound, NoOrphan, DbType, setExpiryAt, Present
<1>2. CASE ~Present(db, k)
  BY <1>2, SoundReflexive DEF setExpiryAt
<1> QED
  BY <1>1, <1>2

\* persist is sound.
LEMMA PersistSound ==
  ASSUME NEW db \in DbType, NEW k \in Keys
  PROVE  Sound(db, persist(db, k))
BY DEF Sound, NoOrphan, DbType, persist

\* flushDb is sound.
LEMMA FlushSound ==
  ASSUME NEW db \in DbType
  PROVE  Sound(db, flushDb(db))
BY DEF Sound, NoOrphan, DbType, flushDb

\* SET with any combination of NX, XX and an expiry is sound.
LEMMA SetCommandSound ==
  ASSUME NEW db \in DbType, NEW cmd \in DataCommands, cmd.op = "SET", NEW now \in Int
  PROVE  Sound(db, setCommand(db, cmd, now))
<1> DEFINE nx     == "NX" \in cmd.flags
           xx     == "XX" \in cmd.flags
           looked == IF nx \/ xx THEN checkAndExpire(db, {cmd.key}, now) ELSE db
           fresh  == set(looked, cmd.key, cmd.str)
           timed  == setExpiryAt(fresh, cmd.key, now + cmd.ttl)
<1>1. cmd.key \in Keys /\ cmd.str \in Strings /\ cmd.ttl \in Int \cup {NoTTL}
  BY DEF DataCommands
<1>2. Sound(db, looked)
  BY <1>1, ExpireSound, SoundReflexive
<1>3. looked \in DbType
  BY <1>2 DEF Sound
<1>4. Sound(looked, fresh)
  <2>1. StringObj(cmd.str) \in Objects
    BY <1>1, KindFacts
  <2> HIDE DEF looked
  <2> QED
    BY <1>1, <1>3, <2>1, SetObjectSound DEF set
<1>5. fresh \in DbType
  BY <1>4 DEF Sound
<1>6. Sound(db, fresh)
  <2> HIDE DEF looked, fresh
  <2> QED
    BY <1>2, <1>4, SoundTransitive
<1>7. ASSUME cmd.ttl # NoTTL PROVE Sound(db, timed)
  <2>1. now + cmd.ttl \in Int
    BY <1>1, <1>7
  <2> HIDE DEF fresh
  <2>2. Sound(fresh, timed)
    BY <1>1, <1>5, <2>1, SetExpirySound
  <2> HIDE DEF timed
  <2> QED
    BY <1>6, <2>2, SoundTransitive
<1>8. \/ setCommand(db, cmd, now) = db
      \/ setCommand(db, cmd, now) = looked
      \/ setCommand(db, cmd, now) = fresh
      \/ cmd.ttl # NoTTL /\ setCommand(db, cmd, now) = timed
  BY DEF setCommand
<1> HIDE DEF looked, fresh, timed
<1> QED
  BY <1>2, <1>6, <1>7, <1>8, SoundReflexive

\* SADD, HSET and ZADD are sound: only the creation of the container changes its kind.
LEMMA AddCommandSound ==
  ASSUME NEW db \in DbType, NEW cmd \in DataCommands, cmd.op = "ADD", NEW now \in Int
  PROVE  Sound(db, addCommand(db, cmd, now))
<1> DEFINE looked  == checkAndExpire(db, {cmd.key}, now)
           created == IF Present(looked, cmd.key) THEN looked
                      ELSE setObject(looked, cmd.key, ContainerObj(cmd.type, {}))
           obj     == ContainerObj(cmd.type, created.data[cmd.key].members \cup cmd.members)
           filled  == [created EXCEPT !.data[cmd.key] = obj]
<1>1. cmd.key \in Keys /\ cmd.type \in ContainerTypes /\ cmd.members \subseteq Members
  BY DEF DataCommands, ContainerTypes
<1>2. Sound(db, looked)
  BY <1>1, ExpireSound
<1>3. looked \in DbType
  BY <1>2 DEF Sound
<1>4. Sound(looked, created)
  <2> HIDE DEF looked
  <2> QED
    BY <1>1, <1>3, KindFacts, SetObjectSound, SoundReflexive
<1>5. Sound(db, created) /\ created \in DbType
  <2> HIDE DEF looked, created
  <2> QED
    BY <1>2, <1>4, SoundTransitive DEF Sound
<1>6. ASSUME created.data[cmd.key].type = cmd.type PROVE Sound(created, filled)
  <2> HIDE DEF created
  <2>1. created.data[cmd.key] \in Objects
    BY <1>1, <1>5, <1>6, KindFacts DEF DbType, ContainerTypes
  <2>2. obj \in Objects /\ obj.type = cmd.type
    BY <1>1, <1>6, <2>1, KindFacts
  <2> HIDE DEF obj
  <2> QED
    BY <1>1, <1>5, <1>6, <2>2, KindFacts DEF Sound, NoOrphan, DbType
<1>7. \/ created.data[cmd.key].type = cmd.type /\ addCommand(db, cmd, now) = filled
      \/ addCommand(db, cmd, now) = created
  BY DEF addCommand, get
<1> HIDE DEF created, filled
<1> QED
  BY <1>5, <1>6, <1>7, SoundTransitive

\* SREM and ZREM are sound: the key goes, and is touched, with its last element.
LEMMA RemCommandSound ==
  ASSUME NEW db \in DbType, NEW cmd \in DataCommands, cmd.op = "REM", NEW now \in Int
  PROVE  Sound(db, remCommand(db, cmd, now))
<1> DEFINE looked == checkAndExpire(db, {cmd.key}, now)
           left   == looked.data[cmd.key].members \ cmd.members
           kept   == [looked EXCEPT !.data[cmd.key] = ContainerObj(cmd.type, left)]
<1>1. cmd.key \in Keys /\ cmd.type \in ContainerTypes
  BY DEF DataCommands, ContainerTypes
<1>2. Sound(db, looked) /\ looked \in DbType
  BY <1>1, ExpireSound DEF Sound
<1> HIDE DEF looked
<1>3. Sound(looked, del(looked, {cmd.key}))
  BY <1>1, <1>2, DelSound
<1>4. ASSUME looked.data[cmd.key].type = cmd.type PROVE Sound(looked, kept)
  <2>1. looked.data[cmd.key] \in Objects
    BY <1>1, <1>2, <1>4, KindFacts DEF DbType, ContainerTypes
  <2>2. ContainerObj(cmd.type, left) \in Objects
        /\ ContainerObj(cmd.type, left).type = cmd.type
    BY <1>1, <1>4, <2>1, KindFacts
  <2> HIDE DEF left
  <2> QED
    BY <1>1, <1>2, <1>4, <2>2, KindFacts DEF Sound, NoOrphan, DbType
<1>5. \/ remCommand(db, cmd, now) = looked
      \/ remCommand(db, cmd, now) = del(looked, {cmd.key})
      \/ looked.data[cmd.key].type = cmd.type /\ remCommand(db, cmd, now) = kept
  BY DEF remCommand, get, looked
<1> HIDE DEF kept
<1> QED
  BY <1>2, <1>3, <1>4, <1>5, SoundTransitive

\* Every data command is sound: for any keys, members and width, it keeps the types, tells
\* the watchers of each key whose kind it changes, and leaves no deadline without a key.
THEOREM ApplySound ==
  ASSUME NEW db \in DbType, NEW cmd \in DataCommands, NEW now \in Int
  PROVE  Sound(db, Apply(db, cmd, now))
<1>1. CASE cmd.op = "SET"
  BY <1>1, SetCommandSound DEF Apply
<1>2. CASE cmd.op = "MSET"
  <2>1. cmd.keys \in SUBSET Keys /\ cmd.strs \in [Keys -> Strings]
    BY <1>2 DEF DataCommands
  <2> QED
    BY <1>2, <2>1, MsetSound DEF Apply
<1>3. CASE cmd.op \in {"READ", "DEL"}
  <2>1. cmd.keys \in SUBSET Keys
    BY <1>3 DEF DataCommands
  <2> QED
    BY <1>3, <2>1, ExpireSound, DelSound DEF Apply, get
<1>4. CASE cmd.op \in {"INCRBY", "DECRBY"}
  <2>1. cmd.key \in Keys /\ cmd.by \in Int64 /\ Negate(cmd.by) \in Int64
    BY <1>4, MaxIntAssumption DEF DataCommands, Negate, Int64, MinInt
  <2> QED
    BY <1>4, <2>1, IncrbySound DEF Apply
<1>5. CASE cmd.op \in {"APPEND", "PERSIST"}
  <2>1. cmd.key \in Keys
    BY <1>5 DEF DataCommands
  <2> QED
    BY <1>5, <2>1, AppendSound, PersistSound DEF Apply
<1>6. CASE cmd.op = "RENAME"
  <2>1. cmd.key \in Keys /\ cmd.new \in Keys
    BY <1>6 DEF DataCommands
  <2> QED
    BY <1>6, <2>1, RenameSound DEF Apply
<1>7. CASE cmd.op = "EXPIRE"
  <2>1. cmd.key \in Keys /\ now + cmd.ttl \in Int
    BY <1>7 DEF DataCommands
  <2> QED
    BY <1>7, <2>1, SetExpirySound DEF Apply, setExpiry
<1>8. CASE cmd.op = "EXPIREAT"
  <2>1. cmd.key \in Keys /\ cmd.at \in Int
    BY <1>8 DEF DataCommands
  <2> QED
    BY <1>8, <2>1, SetExpirySound DEF Apply
<1>9. CASE cmd.op = "ADD"
  BY <1>9, AddCommandSound DEF Apply
<1>10. CASE cmd.op = "REM"
  BY <1>10, RemCommandSound DEF Apply
<1>11. CASE cmd.op = "FLUSHDB"
  BY <1>11, FlushSound DEF Apply
<1> QED
  <2>1. cmd.op \in {"SET", "MSET", "READ", "DEL", "INCRBY", "DECRBY", "APPEND", "PERSIST",
                    "RENAME", "EXPIRE", "EXPIREAT", "ADD", "REM", "FLUSHDB"}
    BY DEF DataCommands
  <2> QED
    BY <1>1, <1>2, <1>3, <1>4, <1>5, <1>6, <1>7, <1>8, <1>9, <1>10, <1>11, <2>1

-----------------------------------------------------------------------------
(* Lazy expiration is invisible to the commands that check first.          *)

\* a and b hold the same at key k.
Agree(a, b, k) == a.data[k] = b.data[k] /\ a.expires[k] = b.expires[k]

\* a and b show clients the same keyspace at time now: at each key they agree, or neither
\* has a live object there.
Gone(db, k, now) == isExpired(db, k, now) \/ (db.data[k] = Missing /\ db.expires[k] = NoTTL)
Same(a, b, now) ==
  \A k \in Keys : Agree(a, b, k) \/ (Gone(a, k, now) /\ Gone(b, k, now))

LEMMA VisibleSame ==
  ASSUME NEW db \in DbType, NEW now \in Int
  PROVE  Visible(db, now) \in DbType /\ Same(db, Visible(db, now), now)
BY DEF Visible, checkAndExpire, Same, Agree, Gone, isExpired, DbType

LEMMA SameVisible ==
  ASSUME NEW a \in DbType, NEW b \in DbType, NEW now \in Int, Same(a, b, now)
  PROVE  Visible(a, now) = Visible(b, now)
<1>1. \A k \in Keys : /\ checkAndExpire(a, Keys, now).data[k] = checkAndExpire(b, Keys, now).data[k]
                      /\ checkAndExpire(a, Keys, now).expires[k] = checkAndExpire(b, Keys, now).expires[k]
  BY DEF checkAndExpire, Same, Agree, Gone, isExpired, DbType
<1>2. /\ checkAndExpire(a, Keys, now).data = checkAndExpire(b, Keys, now).data
      /\ checkAndExpire(a, Keys, now).expires = checkAndExpire(b, Keys, now).expires
  BY <1>1 DEF checkAndExpire
<1> QED
  BY <1>2 DEF Visible

\* After the check, databases that look the same agree on the keys checked.
LEMMA ExpireSame ==
  ASSUME NEW a \in DbType, NEW b \in DbType, NEW now \in Int, NEW K \in SUBSET Keys,
         Same(a, b, now)
  PROVE  /\ Same(checkAndExpire(a, K, now), checkAndExpire(b, K, now), now)
         /\ \A k \in K : Agree(checkAndExpire(a, K, now), checkAndExpire(b, K, now), k)
BY DEF checkAndExpire, Same, Agree, Gone, isExpired, DbType

\* Overwriting or deleting keys needs no check.
LEMMA OverwriteSame ==
  ASSUME NEW a \in DbType, NEW b \in DbType, NEW now \in Int, Same(a, b, now)
  PROVE  /\ \A k \in Keys, o \in Objects : Same(setObject(a, k, o), setObject(b, k, o), now)
                                           /\ Agree(setObject(a, k, o), setObject(b, k, o), k)
         /\ \A K \in SUBSET Keys : Same(del(a, K), del(b, K), now)
         /\ \A K \in SUBSET Keys, strs \in [Keys -> Strings] :
               Same(mset(a, K, strs), mset(b, K, strs), now)
<1>1. ASSUME NEW k \in Keys, NEW o \in Objects
      PROVE  Same(setObject(a, k, o), setObject(b, k, o), now)
             /\ Agree(setObject(a, k, o), setObject(b, k, o), k)
  BY DEF setObject, Same, Agree, Gone, isExpired, DbType
<1>2. ASSUME NEW K \in SUBSET Keys PROVE Same(del(a, K), del(b, K), now)
  BY DEF del, Same, Agree, Gone, isExpired, DbType
<1>3. ASSUME NEW K \in SUBSET Keys, NEW strs \in [Keys -> Strings]
      PROVE  Same(mset(a, K, strs), mset(b, K, strs), now)
  BY DEF mset, Same, Agree, Gone, isExpired, DbType
<1> QED
  BY <1>1, <1>2, <1>3

\* A change in place, or a new deadline, at a key both agree on.
LEMMA InPlaceSame ==
  ASSUME NEW a \in DbType, NEW b \in DbType, NEW now \in Int, Same(a, b, now),
         NEW k \in Keys, Agree(a, b, k), NEW o, NEW at \in Int
  PROVE  /\ Same([a EXCEPT !.data[k] = o], [b EXCEPT !.data[k] = o], now)
         /\ Same(setExpiryAt(a, k, at), setExpiryAt(b, k, at), now)
<1>1. Same([a EXCEPT !.data[k] = o], [b EXCEPT !.data[k] = o], now)
  BY DEF Same, Agree, Gone, isExpired, DbType
<1>2. Same(setExpiryAt(a, k, at), setExpiryAt(b, k, at), now)
  BY DEF setExpiryAt, Present, Same, Agree, Gone, isExpired, DbType
<1> QED
  BY <1>1, <1>2

\* SET does the same to databases that look the same.
LEMMA SetCommandSame ==
  ASSUME NEW a \in DbType, NEW b \in DbType, NEW now \in Int, Same(a, b, now),
         NEW cmd \in DataCommands, cmd.op = "SET"
  PROVE  Same(setCommand(a, cmd, now), setCommand(b, cmd, now), now)
<1> DEFINE nx == "NX" \in cmd.flags
           xx == "XX" \in cmd.flags
           L(db) == IF nx \/ xx THEN checkAndExpire(db, {cmd.key}, now) ELSE db
           F(db) == set(L(db), cmd.key, cmd.str)
           T(db) == setExpiryAt(F(db), cmd.key, now + cmd.ttl)
<1>1. cmd.key \in Keys /\ StringObj(cmd.str) \in Objects /\ cmd.ttl \in Int \cup {NoTTL}
  BY KindFacts DEF DataCommands
<1>2. L(a) \in DbType /\ L(b) \in DbType
  BY <1>1, ExpireSound DEF Sound
<1>3. Same(L(a), L(b), now)
  BY <1>1, ExpireSame
<1>4. ASSUME nx \/ xx
      PROVE  Present(L(a), cmd.key) <=> Present(L(b), cmd.key)
  <2>1. Agree(checkAndExpire(a, {cmd.key}, now), checkAndExpire(b, {cmd.key}, now), cmd.key)
    BY <1>1, ExpireSame
  <2> QED
    BY <1>4, <2>1 DEF Agree, Present
<1> HIDE DEF L
<1>5. F(a) \in DbType /\ F(b) \in DbType
  BY <1>1, <1>2, SetObjectSound DEF Sound, set
<1>6. Same(F(a), F(b), now) /\ Agree(F(a), F(b), cmd.key)
  BY <1>1, <1>2, <1>3, OverwriteSame DEF set
<1> HIDE DEF F
<1>7. cmd.ttl # NoTTL => Same(T(a), T(b), now)
  <2> SUFFICES ASSUME cmd.ttl # NoTTL PROVE Same(T(a), T(b), now)
    OBVIOUS
  <2>1. now + cmd.ttl \in Int
    BY <1>1
  <2> QED
    BY <1>1, <1>5, <1>6, <2>1, InPlaceSame
<1> HIDE DEF T
<1>8. \A db : setCommand(db, cmd, now) =
         CASE cmd.ttl # NoTTL /\ cmd.ttl <= 0  -> db
           [] nx /\ Present(L(db), cmd.key)    -> L(db)
           [] xx /\ ~Present(L(db), cmd.key)   -> L(db)
           [] cmd.ttl = NoTTL                  -> F(db)
           [] OTHER                            -> T(db)
  BY DEF setCommand, L, F, T
<1> QED
  BY <1>3, <1>4, <1>6, <1>7, <1>8

\* SADD, HSET and ZADD do the same to databases that look the same.
LEMMA AddCommandSame ==
  ASSUME NEW a \in DbType, NEW b \in DbType, NEW now \in Int, Same(a, b, now),
         NEW cmd \in DataCommands, cmd.op = "ADD"
  PROVE  Same(addCommand(a, cmd, now), addCommand(b, cmd, now), now)
<1> DEFINE L(db) == checkAndExpire(db, {cmd.key}, now)
           C(db) == IF Present(L(db), cmd.key) THEN L(db)
                    ELSE setObject(L(db), cmd.key, ContainerObj(cmd.type, {}))
           O(db) == ContainerObj(cmd.type, C(db).data[cmd.key].members \cup cmd.members)
<1>1. cmd.key \in Keys /\ ContainerObj(cmd.type, {}) \in Objects
  BY KindFacts DEF DataCommands, ContainerTypes
<1>2. L(a) \in DbType /\ L(b) \in DbType
  BY <1>1, ExpireSound DEF Sound
<1>3. Same(L(a), L(b), now) /\ Agree(L(a), L(b), cmd.key)
  BY <1>1, ExpireSame
<1> HIDE DEF L
<1>4. C(a) \in DbType /\ C(b) \in DbType
  BY <1>1, <1>2, SetObjectSound DEF Sound
<1>5. Same(C(a), C(b), now) /\ Agree(C(a), C(b), cmd.key)
  <2>1. Present(L(a), cmd.key) <=> Present(L(b), cmd.key)
    BY <1>3 DEF Agree, Present
  <2>2. CASE Present(L(a), cmd.key)
    BY <1>3, <2>1, <2>2
  <2>3. CASE ~Present(L(a), cmd.key)
    <3>1. C(a) = setObject(L(a), cmd.key, ContainerObj(cmd.type, {}))
          /\ C(b) = setObject(L(b), cmd.key, ContainerObj(cmd.type, {}))
      BY <2>1, <2>3
    <3> QED
      BY <1>1, <1>2, <1>3, <3>1, OverwriteSame
  <2> QED
    BY <2>2, <2>3
<1>6. \A db : addCommand(db, cmd, now) =
         IF C(db).data[cmd.key].type = cmd.type
         THEN [C(db) EXCEPT !.data[cmd.key] = O(db)] ELSE C(db)
  BY DEF addCommand, get, L
<1> HIDE DEF C
<1>7. C(a).data[cmd.key] = C(b).data[cmd.key] /\ O(a) = O(b)
  BY <1>5 DEF Agree
<1> HIDE DEF O
<1>8. Same([C(a) EXCEPT !.data[cmd.key] = O(a)], [C(b) EXCEPT !.data[cmd.key] = O(a)], now)
  BY <1>1, <1>4, <1>5, InPlaceSame
<1>9. CASE C(a).data[cmd.key].type = cmd.type
  BY <1>6, <1>7, <1>8, <1>9
<1>10. CASE C(a).data[cmd.key].type # cmd.type
  BY <1>5, <1>6, <1>7, <1>10
<1> QED
  BY <1>9, <1>10

\* SREM and ZREM do the same to databases that look the same.
LEMMA RemCommandSame ==
  ASSUME NEW a \in DbType, NEW b \in DbType, NEW now \in Int, Same(a, b, now),
         NEW cmd \in DataCommands, cmd.op = "REM"
  PROVE  Same(remCommand(a, cmd, now), remCommand(b, cmd, now), now)
<1> DEFINE L(db) == checkAndExpire(db, {cmd.key}, now)
           R(db) == L(db).data[cmd.key].members \ cmd.members
           O(db) == ContainerObj(cmd.type, R(db))
<1>1. cmd.key \in Keys
  BY DEF DataCommands
<1>2. L(a) \in DbType /\ L(b) \in DbType
  BY <1>1, ExpireSound DEF Sound
<1>3. Same(L(a), L(b), now) /\ Agree(L(a), L(b), cmd.key)
  BY <1>1, ExpireSame
<1>4. \A db : remCommand(db, cmd, now) =
         IF L(db).data[cmd.key].type # cmd.type THEN L(db)
         ELSE IF R(db) = {} THEN del(L(db), {cmd.key})
         ELSE [L(db) EXCEPT !.data[cmd.key] = O(db)]
  BY DEF remCommand, get
<1> HIDE DEF L
<1>5. L(a).data[cmd.key] = L(b).data[cmd.key] /\ R(a) = R(b) /\ O(a) = O(b)
  BY <1>3 DEF Agree
<1> HIDE DEF R, O
<1>6. Same([L(a) EXCEPT !.data[cmd.key] = O(a)], [L(b) EXCEPT !.data[cmd.key] = O(a)], now)
  BY <1>1, <1>2, <1>3, InPlaceSame
<1>7. Same(del(L(a), {cmd.key}), del(L(b), {cmd.key}), now)
  BY <1>1, <1>2, <1>3, OverwriteSame
<1>8. CASE L(a).data[cmd.key].type # cmd.type
  BY <1>3, <1>4, <1>5, <1>8
<1>9. CASE L(a).data[cmd.key].type = cmd.type /\ R(a) = {}
  BY <1>4, <1>5, <1>7, <1>9
<1>10. CASE L(a).data[cmd.key].type = cmd.type /\ R(a) # {}
  BY <1>4, <1>5, <1>6, <1>10
<1> QED
  BY <1>8, <1>9, <1>10

\* The commands that expire a key first, overwrite it or delete it cannot tell an expired key
\* still in memory from one already removed, in any database at any time: for them, lazy
\* expiration behaves like expiration at the deadline.
THEOREM LazyExpiryIsInvisible ==
  ASSUME NEW db \in DbType, NEW cmd \in DataCommands, NEW now \in Int,
         cmd.op \in CheckedOps
  PROVE  ExpiryIsInvisible(db, cmd, now)
<1> DEFINE v == Visible(db, now)
<1>1. v \in DbType /\ Same(db, v, now)
  BY VisibleSame
<1>2. Apply(db, cmd, now) \in DbType /\ Apply(v, cmd, now) \in DbType
  BY <1>1, ApplySound DEF Sound
<1> HIDE DEF v
<1>3. Same(Apply(db, cmd, now), Apply(v, cmd, now), now)
  <2>1. CASE cmd.op = "SET"
    BY <1>1, <2>1, SetCommandSame DEF Apply
  <2>2. CASE cmd.op = "MSET"
    <3>1. cmd.keys \in SUBSET Keys /\ cmd.strs \in [Keys -> Strings]
      BY <2>2 DEF DataCommands
    <3> QED
      BY <1>1, <2>2, <3>1, OverwriteSame DEF Apply
  <2>3. CASE cmd.op \in {"READ", "DEL"}
    <3>1. cmd.keys \in SUBSET Keys
      BY <2>3 DEF DataCommands
    <3>2. CASE cmd.op = "READ"
      BY <1>1, <3>1, <3>2, ExpireSame DEF Apply, get
    <3>3. CASE cmd.op = "DEL"
      BY <1>1, <3>1, <3>3, OverwriteSame DEF Apply
    <3> QED
      BY <2>3, <3>2, <3>3
  <2>4. CASE cmd.op = "ADD"
    BY <1>1, <2>4, AddCommandSame DEF Apply
  <2>5. CASE cmd.op = "REM"
    BY <1>1, <2>5, RemCommandSame DEF Apply
  <2>6. CASE cmd.op = "FLUSHDB"
    BY <2>6 DEF Apply, flushDb, Same, Agree
  <2> QED
    BY <2>1, <2>2, <2>3, <2>4, <2>5, <2>6 DEF CheckedOps
<1> QED
  BY <1>2, <1>3, SameVisible DEF ExpiryIsInvisible, v
=============================================================================
