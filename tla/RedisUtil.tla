------------------------------ MODULE RedisUtil ------------------------------
(***************************************************************************)
(* util/redis/RedisUtil: each method is one Redis command and the value    *)
(* its caller gets when anything at all goes wrong ("failed"), because     *)
(* every method prints the exception and falls through to its default      *)
(* return.  A caller cannot tell that default from an answer that happens  *)
(* to be equal to it.  ConnectionManager models the frame the methods      *)
(* share; here a method either gets its connection or fails.               *)
(***************************************************************************)
EXTENDS Redis, Bags

CONSTANT MaxFaults   \* bound: Redis commands that do not get their answer

ASSUME FaultsAssumption == MaxFaults \in Nat

VARIABLES
  db,      \* the database of the Redis server
  doubt,   \* the bag of commands that timed out and may still reach the server
  faults   \* faults that may still happen

redisVars == <<db, doubt, faults>>

RedisInit == db = EmptyDb /\ doubt = EmptyBag /\ faults = MaxFaults
-----------------------------------------------------------------------------
(* The methods.                                                            *)
incrSortSetItem(key, increment, member) ==
  [op |-> "ZINCRBY", key |-> key, member |-> member, by |-> increment, failed |-> Null]

updateSortSetItem(key, increment, member) ==
  [op |-> "ZADD", key |-> key, map |-> [x \in {member} |-> increment], failed |-> Null]

rangeWithScores(key, start, end) ==
  [op |-> "ZREVRANGE", key |-> key, from |-> start, to |-> end, failed |-> Null]

rank(key, member) ==
  [op |-> "ZREVRANK", key |-> key, member |-> member, failed |-> -1]

queryScore(key, member) ==
  [op |-> "ZSCORE", key |-> key, member |-> member, failed |-> Null]

hmSet(key, map) == [op |-> "HMSET", key |-> key, map |-> map, failed |-> Null]

hSet(key, field, value) ==
  [op |-> "HSET", key |-> key, map |-> [f \in {field} |-> value], failed |-> Null]

hget(key, field) ==
  [op |-> "HGET", key |-> key, member |-> field, failed |-> Null]

hgetAll(key) == [op |-> "HGETALL", key |-> key, failed |-> Null]

\* Mutant: 0 for a failure, as delete and expire have it.
hincrbyOrZero(key, field, value) ==
  [op |-> "HINCRBY", key |-> key, member |-> field, by |-> value, failed |-> 0]

hincrby(key, field, value) ==
  [op |-> "HINCRBY", key |-> key, member |-> field, by |-> value, failed |-> Null]

keys(pattern) == [op |-> "KEYS", pattern |-> pattern, failed |-> Null]

delete(key) == [op |-> "DEL", key |-> key, failed |-> 0]

\* Both overloads: the long one differs by String.valueOf(value).
setex(key, value, seconds) ==
  [op |-> "SETEX", key |-> key, value |-> value, seconds |-> seconds, failed |-> FALSE]

getValue(key) == [op |-> "GET", key |-> key, failed |-> Null]

exists(key) == [op |-> "EXISTS", key |-> key, failed |-> FALSE]

getTtl(key) == [op |-> "TTL", key |-> key, failed |-> -1]

persist(key) == [op |-> "PERSIST", key |-> key, failed |-> -1]

expire(key, seconds) ==
  [op |-> "EXPIRE", key |-> key, seconds |-> seconds, failed |-> 0]
-----------------------------------------------------------------------------
(* What may come of one method call: the database it leaves, the value it  *)
(* returns, and the bag of commands it leaves in doubt.                    *)

Reads == {"EXISTS", "GET", "TTL", "HGET", "HGETALL", "KEYS", "ZSCORE", "ZREVRANK", "ZREVRANGE"}

Outcome(after, ret, left, fault) ==
  [db |-> after, ret |-> ret, doubt |-> left, faults |-> fault]

\* setex turns the reply into a boolean; the other methods return it.
Answer(c) == IF c.op = "SETEX" THEN TRUE ELSE Reply(db, c)

\* The server answers, with a value or with an error that Jedis throws.
Answered(c) ==
  Outcome(Execute(db, c), IF Rejected(db, c) THEN c.failed ELSE Answer(c), EmptyBag, 0)

\* No connection, or the request is lost; the reply is lost; the request is
\* delayed beyond redis_timeout and may be executed when nobody waits for it.
Unanswered(c) ==
  {Outcome(db, c.failed, EmptyBag, 1), Outcome(Execute(db, c), c.failed, EmptyBag, 1)}
    \cup IF c.op \in Reads THEN {} ELSE {Outcome(db, c.failed, SetToBag({c}), 1)}

Outcomes(c) == {Answered(c)} \cup Unanswered(c)

\* The step of a thread that ends a method call with outcome o.
Ends(o) ==
  /\ o.faults <= faults
  /\ db' = o.db
  /\ doubt' = doubt (+) o.doubt
  /\ faults' = faults - o.faults

InDoubt == BagToSet(doubt)

\* A command in doubt reaches the server after all.  One that was sent twice
\* may be executed twice.
ExecuteLate(c) ==
  /\ c \in InDoubt
  /\ db' = Execute(db, c)
  /\ doubt' = doubt (-) SetToBag({c})
  /\ UNCHANGED faults

\* A volatile key vanishes.
Expire(k) ==
  /\ Volatile(db, k)
  /\ db' = Expired(db, k)
  /\ UNCHANGED <<doubt, faults>>
=============================================================================
