---------------------------- MODULE TokenPromise ----------------------------
(***************************************************************************)
(* What a caller of TokenService may rely on.  History variables watch the *)
(* steps of TokenService and change none of them.                          *)
(*                                                                         *)
(* A setKsToken is calm if, from its call to its return, no other          *)
(* setKsToken works on its key, no command on the key is in doubt and the  *)
(* token it stored does not expire; the old token may go at any time.  A   *)
(* calm setKsToken that returns true makes a promise: its token stays the  *)
(* player's token until the next setKsToken on the key begins, or the key  *)
(* expires.                                                                *)
(***************************************************************************)
EXTENDS TokenService

VARIABLES
  calm,      \* threads in a setKsToken that has been calm so far
  promised,  \* the token promised for each key, or Null
  steady,    \* threads in a getKsToken whose key had a promise all along
  answered   \* threads in steady all of whose commands were answered

historyVars == <<calm, promised, steady, answered>>

InitH ==
  /\ Init
  /\ calm = {}
  /\ promised = [k \in Key |-> Null]
  /\ steady = {}
  /\ answered = {}

On(k, threads) == {t \in threads : arg[t] # Null /\ arg[t].key = k}
Writers(k) == {t \in On(k, Thread) : arg[t].op = "set"}
Uncertain(k) == \E c \in InDoubt : c.key = k

\* The promise on k ends, and with it what the calls on k could rely on.
Withdraw(k) ==
  /\ promised' = [promised EXCEPT ![k] = Null]
  /\ steady' = steady \ On(k, Thread)
  /\ answered' = answered \ On(k, Thread)

SetKsTokenH(t, a, x, s) ==
  LET k == KeyName[a]
  IN /\ SetKsToken(t, a, x, s)
     /\ Withdraw(k)
     /\ calm' = (calm \ On(k, Thread))
                  \cup {u \in {t} : Writers(k) = {} /\ ~Uncertain(k)}

GetKsTokenH(t, a, x) ==
  LET promise == {u \in {t} : promised[KeyName[a]] # Null}
  IN /\ GetKsToken(t, a, x)
     /\ steady' = steady \cup promise
     /\ answered' = answered \cup promise
     /\ UNCHANGED <<calm, promised>>

CommandH(t) ==
  /\ SetExists(t) \/ SetDelete(t) \/ SetSetex(t) \/ GetExists(t) \/ GetValue(t)
  /\ calm' = {u \in calm : ~Uncertain(arg[u].key)'}
  /\ answered' = {u \in answered : u = t => faults' = faults}
  /\ UNCHANGED <<promised, steady>>

ReturnH(t) ==
  /\ Return(t)
  /\ promised' = IF t \in calm /\ ret[t]
                   THEN [promised EXCEPT ![arg[t].key] = arg[t].token]
                   ELSE promised
  /\ calm' = calm \ {t}
  /\ steady' = steady \ {t}
  /\ answered' = answered \ {t}

ExpireH(k) ==
  /\ Expire(k) /\ UNCHANGED threadVars
  /\ Withdraw(k)
  /\ calm' = {t \in calm : t \in On(k, Thread) => pc[t] # "return"}

ExecuteLateH(c) ==
  ExecuteLate(c) /\ UNCHANGED <<threadVars, historyVars>>

NextH ==
  \/ \E t \in Thread, a \in Account, x \in Token :
       \/ GetKsTokenH(t, a, x)
       \/ \E s \in Seconds : SetKsTokenH(t, a, x, s)
  \/ \E t \in Thread : CommandH(t) \/ ReturnH(t)
  \/ \E c \in InDoubt : ExecuteLateH(c)
  \/ \E k \in Key : ExpireH(k)

SpecH == InitH /\ [][NextH]_<<vars, historyVars>>
-----------------------------------------------------------------------------
TypeOK ==
  /\ IsABag(doubt)
  /\ InDoubt \subseteq {delete(k) : k \in Key}
       \cup {setex(k, x, s) : k \in Key, x \in Token, s \in Seconds}
  /\ faults \in Nat
  /\ db \in [Key -> {Missing} \cup {Entry("string", x, "timed") : x \in Token}]
  /\ pc \in [Thread -> Location]
  /\ arg \in [Thread -> Argument \cup {Null}]
  /\ ret \in [Thread -> BOOLEAN]
  /\ todo \in Nat
  /\ \A t \in Thread : pc[t] = "out" <=> arg[t] = Null
  /\ \A t \in Thread : pc[t] \in SetLocation => arg[t].op = "set"
  /\ \A t \in Thread : pc[t] \in GetLocation => arg[t].op = "get"
  /\ calm \cup steady \cup answered \subseteq Thread
  /\ promised \in [Key -> Token \cup {Null}]

(* A promise is kept: after a calm setKsToken that returned true the key   *)
(* holds its token, and whatever the other calls of RedisService do, only  *)
(* the next setKsToken on the key or an expiry ends that.                  *)
PromiseKept ==
  \A k \in Key : promised[k] # Null => db[k] = Entry("string", promised[k], "timed")

(* getKsToken never accepts another token than the promised one, faults or *)
(* no faults, and accepts that one if Redis answers: a fault may lock a    *)
(* player out and may never let one in.                                    *)
LoginDecided ==
  \A t \in steady : pc[t] = "return" =>
    /\ ret[t] => arg[t].token = promised[arg[t].key]
    /\ t \in answered => ret[t] = (arg[t].token = promised[arg[t].key])
=============================================================================
