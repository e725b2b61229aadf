---------------------------- MODULE TokenService ----------------------------
(***************************************************************************)
(* The login tokens of util/redis/RedisService: setKsToken stores the      *)
(* token of a player of a game with a time to live, getKsToken says        *)
(* whether the token a player shows is the stored one.  Any number of      *)
(* request threads call them; each call is several Redis commands, and     *)
(* other calls, late commands and expiries come between them.              *)
(***************************************************************************)
EXTENDS RedisUtil

CONSTANTS Thread, Token,
          Account,    \* pairs <<game_key, player_id>>
          KeyName,    \* game_key + player_id, not always different
          Seconds,    \* times to live the callers pass
          MaxCalls    \* bound: calls of setKsToken and getKsToken

ASSUME KeyNameAssumption == KeyName \in [Account -> Key]
Argument ==
  [op : {"set"}, key : Key, token : Token, seconds : Seconds]
    \cup [op : {"get"}, key : Key, token : Token]

ASSUME TokenAssumption == Null \notin Token /\ Null \notin Argument
ASSUME SecondsAssumption == Seconds \subseteq Int
ASSUME MaxCallsAssumption == MaxCalls \in Nat

VARIABLES
  pc,    \* where each thread is
  arg,   \* the arguments of its call, Null outside
  ret,   \* its local variable b, the value its call returns
  todo   \* calls that may still be made

threadVars == <<pc, arg, ret, todo>>
vars == <<redisVars, threadVars>>

SetLocation == {"setExists", "setDelete", "setSetex"}
GetLocation == {"getExists", "getValue"}
Location == {"out", "return"} \cup SetLocation \cup GetLocation

Init ==
  /\ RedisInit
  /\ pc = [t \in Thread |-> "out"]
  /\ arg = [t \in Thread |-> Null]
  /\ ret = [t \in Thread |-> FALSE]
  /\ todo = MaxCalls

Start(t, a, location) ==
  /\ pc[t] = "out"
  /\ todo > 0
  /\ pc' = [pc EXCEPT ![t] = location]
  /\ arg' = [arg EXCEPT ![t] = a]
  /\ todo' = todo - 1
  /\ UNCHANGED <<ret, redisVars>>

\* From one command to the next.
Proceed(t, to, b) ==
  /\ pc' = [pc EXCEPT ![t] = to]
  /\ ret' = [ret EXCEPT ![t] = b]
  /\ UNCHANGED <<arg, todo>>
-----------------------------------------------------------------------------
(* setKsToken                                                              *)
SetKsToken(t, account, player_token, seconds) ==
  Start(t, [op |-> "set", key |-> KeyName[account],
            token |-> player_token, seconds |-> seconds], "setExists")

\* A failed exists answers false, and the delete is skipped.
SetExists(t) ==
  /\ pc[t] = "setExists"
  /\ \E o \in Outcomes(exists(arg[t].key)) :
       Ends(o) /\ Proceed(t, IF o.ret THEN "setDelete" ELSE "setSetex", FALSE)

\* Mutant: the old token is kept alive instead of deleted.
SetDeletePersists(t) ==
  /\ pc[t] = "setDelete"
  /\ \E o \in Outcomes(persist(arg[t].key)) :
       Ends(o) /\ Proceed(t, "setSetex", FALSE)

\* Its answer is ignored.
SetDelete(t) ==
  /\ pc[t] = "setDelete"
  /\ \E o \in Outcomes(delete(arg[t].key)) :
       Ends(o) /\ Proceed(t, "setSetex", FALSE)

\* Mutant: success is reported whatever setex answers.
SetSetexUnchecked(t) ==
  /\ pc[t] = "setSetex"
  /\ \E o \in Outcomes(setex(arg[t].key, arg[t].token, arg[t].seconds)) :
       Ends(o) /\ Proceed(t, "return", TRUE)

SetSetex(t) ==
  /\ pc[t] = "setSetex"
  /\ \E o \in Outcomes(setex(arg[t].key, arg[t].token, arg[t].seconds)) :
       Ends(o) /\ Proceed(t, "return", o.ret)
-----------------------------------------------------------------------------
(* getKsToken                                                              *)
GetKsToken(t, account, player_token) ==
  Start(t, [op |-> "get", key |-> KeyName[account],
            token |-> player_token], "getExists")

\* No such key: value stays null, value.equals throws and b stays false.
GetExists(t) ==
  /\ pc[t] = "getExists"
  /\ \E o \in Outcomes(exists(arg[t].key)) :
       Ends(o) /\ Proceed(t, IF o.ret THEN "getValue" ELSE "return", FALSE)

\* Mutant: a token that cannot be read is taken for the right one.
GetValueOpen(t) ==
  /\ pc[t] = "getValue"
  /\ \E o \in Outcomes(getValue(arg[t].key)) :
       Ends(o) /\ Proceed(t, "return", o.ret \in {arg[t].token, Null})

\* The key may have gone since: then getValue gives null, and the same holds.
GetValue(t) ==
  /\ pc[t] = "getValue"
  /\ \E o \in Outcomes(getValue(arg[t].key)) :
       Ends(o) /\ Proceed(t, "return", o.ret = arg[t].token)
-----------------------------------------------------------------------------
\* The caller gets ret[t].
Return(t) ==
  /\ pc[t] = "return"
  /\ pc' = [pc EXCEPT ![t] = "out"]
  /\ arg' = [arg EXCEPT ![t] = Null]
  /\ ret' = [ret EXCEPT ![t] = FALSE]
  /\ UNCHANGED <<todo, redisVars>>

Call(t) ==
  \E a \in Account, x \in Token :
    GetKsToken(t, a, x) \/ \E s \in Seconds : SetKsToken(t, a, x, s)

ThreadStep(t) ==
  \/ SetExists(t) \/ SetDelete(t) \/ SetSetex(t)
  \/ GetExists(t) \/ GetValue(t)
  \/ Return(t)

Next ==
  \/ \E t \in Thread : Call(t) \/ ThreadStep(t)
  \/ \E c \in InDoubt : ExecuteLate(c) /\ UNCHANGED threadVars
  \/ \E k \in Key : Expire(k) /\ UNCHANGED threadVars

Spec == Init /\ [][Next]_vars
=============================================================================
