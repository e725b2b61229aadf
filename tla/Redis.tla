-------------------------------- MODULE Redis --------------------------------
(***************************************************************************)
(* The Redis server as util/redis/RedisUtil uses it: what each command     *)
(* does to the database and what it answers.  The server executes one      *)
(* command at a time.  External: modelled from the commands the code in    *)
(* src/ sends.                                                             *)
(*                                                                         *)
(* Time is abstracted to one bit per key: a volatile key has a time to     *)
(* live and may vanish at any moment, any other key stays.                 *)
(***************************************************************************)
EXTENDS Integers, FiniteSets

CONSTANTS Key,   \* the keys in use
          Null   \* Java's null, for a reply that holds nothing

Missing == [kind |-> "none"]

\* life is "timed" for a volatile key and "endless" for another.
Entry(kind, val, life) == [kind |-> kind, val |-> val, life |-> life]

EmptyDb == [k \in Key |-> Missing]

Present(db, k) == db[k] # Missing
Volatile(db, k) == Present(db, k) /\ db[k].life = "timed"

\* A hash or a sorted set as a function; a missing key counts as an empty one.
NoFields == [f \in {} |-> 0]
Content(db, k) == IF Present(db, k) THEN db[k].val ELSE NoFields
ValueAt(f, x) == IF x \in DOMAIN f THEN f[x] ELSE 0

Override(f, g) ==
  [x \in DOMAIN f \cup DOMAIN g |-> IF x \in DOMAIN g THEN g[x] ELSE f[x]]

\* Commands on a hash or a sorted set keep the time to live of their key.
Store(db, c, kind, val) ==
  [db EXCEPT ![c.key] = Entry(kind, Override(Content(db, c.key), val),
                              IF Volatile(db, c.key) THEN "timed" ELSE "endless")]
-----------------------------------------------------------------------------
HashOp == {"HMSET", "HSET", "HINCRBY", "HGET", "HGETALL"}
SortedSetOp == {"ZADD", "ZINCRBY", "ZSCORE", "ZREVRANK", "ZREVRANGE"}

KindOf(op) == IF op \in HashOp THEN "hash"
              ELSE IF op \in SortedSetOp THEN "zset" ELSE "string"

\* Error replies: a value of another kind, a time to live that is not
\* positive, no field to set.
Rejected(db, c) ==
  \/ /\ c.op \in HashOp \cup SortedSetOp \cup {"GET"}
     /\ Present(db, c.key) /\ db[c.key].kind # KindOf(c.op)
  \/ c.op = "SETEX" /\ c.seconds <= 0
  \/ c.op = "HMSET" /\ DOMAIN c.map = {}

\* The database after command c.
Effect(db, c) ==
  CASE c.op = "DEL" -> [db EXCEPT ![c.key] = Missing]
    [] c.op = "SETEX" ->
         [db EXCEPT ![c.key] = Entry("string", c.value, "timed")]
    [] c.op = "EXPIRE" /\ Present(db, c.key) ->
         [db EXCEPT ![c.key] = IF c.seconds <= 0 THEN Missing
                               ELSE [@ EXCEPT !.life = "timed"]]
    [] c.op = "PERSIST" /\ Present(db, c.key) ->
         [db EXCEPT ![c.key].life = "endless"]
    [] c.op \in {"HMSET", "HSET"} -> Store(db, c, "hash", c.map)
    [] c.op = "ZADD" -> Store(db, c, "zset", c.map)
    [] c.op \in {"HINCRBY", "ZINCRBY"} ->
         Store(db, c, KindOf(c.op),
               [x \in {c.member} |-> ValueAt(Content(db, c.key), x) + c.by])
    [] OTHER -> db

Execute(db, c) == IF Rejected(db, c) THEN db ELSE Effect(db, c)

\* A sorted set read from the highest score down, equal scores by member name
\* in reverse: the members ahead of x.
Ahead(z, x) == {y \in DOMAIN z : z[y] > z[x] \/ (z[y] = z[x] /\ y > x)}

\* What command c answers when it is not rejected.  Commands whose answer
\* RedisUtil drops answer Null.
Reply(db, c) ==
  LET here == Present(db, c.key)
      content == Content(db, c.key)
  IN CASE c.op \in {"DEL", "EXPIRE"} -> IF here THEN 1 ELSE 0
       [] c.op = "PERSIST" -> IF Volatile(db, c.key) THEN 1 ELSE 0
       [] c.op = "EXISTS" -> here
       [] c.op = "SETEX" -> "OK"
       [] c.op = "GET" -> IF here THEN db[c.key].val ELSE Null
       [] c.op = "TTL" -> IF ~here THEN -2
                          ELSE IF Volatile(db, c.key) THEN 1 ELSE -1
       [] c.op = "HINCRBY" -> ValueAt(content, c.member) + c.by
       [] c.op \in {"HGET", "ZSCORE"} ->
            IF c.member \in DOMAIN content THEN content[c.member] ELSE Null
       [] c.op = "ZREVRANK" ->
            IF c.member \in DOMAIN content
              THEN Cardinality(Ahead(content, c.member)) ELSE Null
       [] c.op = "HGETALL" -> content
       [] c.op = "ZREVRANGE" ->
            [x \in {y \in DOMAIN content :
                      Cardinality(Ahead(content, y)) \in c.from .. c.to}
               |-> content[x]]
       [] c.op = "KEYS" -> {k \in c.pattern : Present(db, k)}
       [] OTHER -> Null

\* The time to live of a volatile key runs out.
Expired(db, k) == [db EXCEPT ![k] = Missing]
=============================================================================
