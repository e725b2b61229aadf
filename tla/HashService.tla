----------------------------- MODULE HashService -----------------------------
(***************************************************************************)
(* The hash half of util/redis/RedisService.  Request threads call Redis   *)
(* themselves; every method is one command, except hmSet with a time to    *)
(* live, which is HMSET and then EXPIRE with no transaction around them.   *)
(*                                                                         *)
(* A one-command method does nothing before or after its command that      *)
(* another thread could see, so its call is one step.  hget, hgetAll and   *)
(* keys change nothing and are not steps.  Fields hold integers: a HINCRBY *)
(* of anything else is one more command that fails.                        *)
(***************************************************************************)
EXTENDS RedisUtil, Sequences

CONSTANTS Thread, Field,
          Number,     \* values of fields, and increments
          Seconds,    \* times to live the callers pass
          MaxCalls    \* bound: calls made

ASSUME NumberAssumption == Number \subseteq Int
ASSUME SecondsAssumption == Seconds \subseteq Int
ASSUME NullAssumption == Null \notin {expire(k, s) : k \in Key, s \in Seconds}
ASSUME MaxCallsAssumption == MaxCalls \in Nat

VARIABLES
  todo,     \* calls that may still be made
  rest,     \* the command each thread has left in its hmSet, or Null
  tickets,  \* history: the numbers hincrby returned for each field since it
            \* was last set, lost or counted down, in order
  exempt    \* history: keys that nobody owes a time to live

vars == <<redisVars, todo, rest, tickets, exempt>>

Init ==
  /\ RedisInit
  /\ todo = MaxCalls
  /\ rest = [t \in Thread |-> Null]
  /\ tickets = [k \in Key |-> [f \in Field |-> <<>>]]
  /\ exempt = {}
-----------------------------------------------------------------------------
(* History of a step: the fields it may do something else to than count    *)
(* up, the numbers it hands out, the keys it is to give a time to live,    *)
(* and the keys it failed to.                                              *)
Of(k) == {k} \X Field

Resets(c) ==
  CASE c.op = "HINCRBY" -> IF c.by <= 0 THEN {<<c.key, c.member>>} ELSE {}
    [] c.op \in {"HMSET", "HSET"} -> {c.key} \X DOMAIN c.map
    [] c.op = "EXPIRE" -> IF c.seconds <= 0 THEN Of(c.key) ELSE {}
    [] OTHER -> Of(c.key)

Made == {k \in Key : ~Present(db, k) /\ Present(db', k)}
There == {k \in Key : Present(db', k)}

Records(reset, handed, owed, failed) ==
  /\ tickets' = [k \in Key |-> [f \in Field |->
       (IF <<k, f>> \in reset THEN <<>> ELSE tickets[k][f])
         \o (IF <<k, f>> \in DOMAIN handed THEN <<handed[<<k, f>>]>> ELSE <<>>)]]
  /\ exempt' = (exempt \cup (Made \ owed) \cup failed) \cap There

Nothing == [x \in {} |-> 0]
-----------------------------------------------------------------------------
(* The calls of one command.                                               *)
Asks(t) == rest[t] = Null /\ todo > 0 /\ todo' = todo - 1

Sends(t, c) ==
  /\ Asks(t)
  /\ \E o \in Outcomes(c) : Ends(o)
  /\ Records(Resets(c), Nothing, {}, {})
  /\ UNCHANGED rest

HmSet(t, key, map) == Sends(t, hmSet(key, map))

\* Mutant: ZADD, copied from the sorted sets.
HSetSorted(t, key, field, value) == Sends(t, updateSortSetItem(key, value, field))

HSet(t, key, field, value) == Sends(t, hSet(key, field, value))

ExpireKey(t, key, seconds) == Sends(t, expire(key, seconds))
DeleteKey(t, key) == Sends(t, delete(key))

Hincrby(t, key, field, value) ==
  /\ Asks(t)
  /\ \E o \in Outcomes(hincrby(key, field, value)) :
       /\ Ends(o)
       /\ Records(Resets(hincrby(key, field, value)),
                  IF o.ret = Null THEN Nothing ELSE [x \in {<<key, field>>} |-> o.ret],
                  {}, {})
  /\ UNCHANGED rest
-----------------------------------------------------------------------------
(* hmSet with seconds: the second command follows whatever came of the     *)
(* first, and both answers are dropped.                                    *)

\* Mutant: the two calls in the other order.
CommandsSwapped(key, map, seconds) == <<expire(key, seconds), hmSet(key, map)>>

Commands(key, map, seconds) == <<hmSet(key, map), expire(key, seconds)>>

HmSetFor(t, key, map, seconds) ==
  /\ Asks(t)
  /\ \E o \in Outcomes(Commands(key, map, seconds)[1]) : Ends(o)
  /\ rest' = [rest EXCEPT ![t] = Commands(key, map, seconds)[2]]
  /\ Records(Resets(Commands(key, map, seconds)[1]), Nothing, {key}, {})

\* A call whose EXPIRE fails has left a key that stays for ever, and nobody
\* knows: the method returns nothing.
Finish(t) ==
  /\ rest[t] # Null
  /\ \E o \in Outcomes(rest[t]) :
       /\ Ends(o)
       /\ Records(Resets(rest[t]), Nothing, {rest[t].key},
                  IF o.faults = 1 THEN {rest[t].key} ELSE {})
  /\ rest' = [rest EXCEPT ![t] = Null]
  /\ UNCHANGED todo
-----------------------------------------------------------------------------
\* A late HMSET can bring back a key that is gone, without a time to live.
Late(c) ==
  /\ ExecuteLate(c)
  /\ Records(Resets(c), Nothing, {}, {})
  /\ UNCHANGED <<todo, rest>>

Vanish(k) ==
  /\ Expire(k)
  /\ Records(Of(k), Nothing, {}, {})
  /\ UNCHANGED <<todo, rest>>

Maps == UNION {[fs -> Number] : fs \in SUBSET Field}

Call(t) ==
  \E k \in Key :
    \/ DeleteKey(t, k)
    \/ \E map \in Maps : HmSet(t, k, map) \/ \E s \in Seconds : HmSetFor(t, k, map, s)
    \/ \E f \in Field, v \in Number : HSet(t, k, f, v) \/ Hincrby(t, k, f, v)
    \/ \E s \in Seconds : ExpireKey(t, k, s)

Next ==
  \/ \E t \in Thread : Call(t) \/ Finish(t)
  \/ \E c \in InDoubt : Late(c)
  \/ \E k \in Key : Vanish(k)

Spec == Init /\ [][Next]_vars
-----------------------------------------------------------------------------
TypeOK ==
  /\ \A k \in Key : Present(db, k) =>
       /\ db[k].kind = "hash" /\ db[k].life \in {"timed", "endless"}
       /\ DOMAIN db[k].val \in (SUBSET Field) \ {{}}
       /\ \A f \in DOMAIN db[k].val : db[k].val[f] \in Int
  /\ IsABag(doubt) /\ faults \in 0 .. MaxFaults /\ todo \in 0 .. MaxCalls
  /\ \A t \in Thread : rest[t] # Null => rest[t] \in {expire(k, s) : k \in Key, s \in Seconds}
  /\ tickets \in [Key -> [Field -> Seq(Int)]]
  /\ exempt \subseteq Key

(* As long as a field is only counted up, whoever gets a number from       *)
(* hincrby gets one nobody got before, larger than every earlier one,      *)
(* however many threads count and whatever increments are lost or late: a  *)
(* counter that failed says null and never a number.  When the field is    *)
(* set, is counted up by nothing or down, or goes with its key, numbers    *)
(* may come again.                                                         *)
TicketsIncrease ==
  \A k \in Key, f \in Field :
    /\ \A i, j \in DOMAIN tickets[k][f] : i < j => tickets[k][f][i] < tickets[k][f][j]
    /\ \A i \in DOMAIN tickets[k][f] : tickets[k][f][i] <= ValueAt(Content(db, k), f)

(* Only three things leave a key without a time to live that an hmSet with *)
(* seconds made: that hmSet is not over, its EXPIRE failed, or the key     *)
(* went and a plain write or a late command made it again.                 *)
CacheExpires ==
  \A k \in Key : Present(db, k) /\ ~Volatile(db, k) =>
    k \in exempt \/ \E t \in Thread : rest[t] # Null /\ rest[t].key = k
=============================================================================
