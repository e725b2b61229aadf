-------------------------- MODULE TokenPromiseProofs --------------------------
(***************************************************************************)
(* Theorems about TokenPromise, for any number of threads, tokens, players *)
(* and keys, whatever keys the players share, and any number of faults.    *)
(***************************************************************************)
EXTENDS TokenPromise, TLAPS

Stored(x) == Entry("string", x, "timed")

\* A promise stands only on a key nobody works on.
PromiseAlone ==
  \A k \in Key : promised[k] # Null => Writers(k) = {} /\ ~Uncertain(k)

\* A calm setKsToken is alone on its key, and true means that it has stored
\* its token.
CalmAlone ==
  \A t \in calm :
    /\ arg[t] # Null /\ arg[t].op = "set"
    /\ Writers(arg[t].key) = {t}
    /\ ~Uncertain(arg[t].key)
    /\ pc[t] = "return" /\ ret[t] => db[arg[t].key] = Stored(arg[t].token)

\* A steady getKsToken looks at a key with a promise.
SteadyPromised ==
  \A t \in steady : arg[t] # Null /\ arg[t].op = "get" /\ promised[arg[t].key] # Null

IInv ==
  TypeOK /\ PromiseAlone /\ PromiseKept /\ CalmAlone /\ SteadyPromised /\ LoginDecided

USE TokenAssumption, FaultsAssumption, MaxCallsAssumption DEF InDoubt
-----------------------------------------------------------------------------
(* Bags of commands: one more, and one less.                               *)

LEMMA NoMore == IsABag(EmptyBag) /\ BagToSet(EmptyBag) = {}
  BY DEF IsABag, BagToSet, EmptyBag, SetToBag

LEMMA OneMore ==
  ASSUME NEW B, IsABag(B), NEW c
  PROVE  /\ IsABag(B (+) SetToBag({c}))
         /\ BagToSet(B (+) SetToBag({c})) = BagToSet(B) \cup {c}
         /\ B (+) EmptyBag = B
<1> DEFINE more == B (+) SetToBag({c})
           same == B (+) EmptyBag
<1>1. /\ B = [e \in DOMAIN B |-> B[e]]
      /\ \A e \in DOMAIN B : B[e] \in Nat /\ B[e] > 0
  BY DEF IsABag
<1>2. /\ DOMAIN more = DOMAIN B \cup {c}
      /\ more \in [DOMAIN B \cup {c} -> {n \in Nat : n > 0}]
  BY <1>1 DEF (+), SetToBag
<1>3. same = [e \in DOMAIN B |-> B[e]]
  BY <1>1 DEF (+), SetToBag, EmptyBag
<1> QED BY <1>1, <1>2, <1>3 DEF IsABag, BagToSet

LEMMA OneLess ==
  ASSUME NEW B, IsABag(B), NEW c
  PROVE  /\ IsABag(B (-) SetToBag({c}))
         /\ BagToSet(B (-) SetToBag({c})) \subseteq BagToSet(B)
<1> DEFINE left == [e \in DOMAIN B |-> IF e \in {c} THEN B[e] - 1 ELSE B[e]]
           less == [e \in {d \in DOMAIN B : left[d] > 0} |-> left[e]]
<1>1. B (-) SetToBag({c}) = less
  BY DEF (-), SetToBag
<1>2. \A e \in DOMAIN B : left[e] \in Int
  BY DEF IsABag
<1>3. less \in [DOMAIN less -> {n \in Nat : n > 0}] /\ DOMAIN less \subseteq DOMAIN B
  BY <1>2
<1> QED BY <1>1, <1>3 DEF IsABag, BagToSet
-----------------------------------------------------------------------------
(* What the commands of TokenService do to the database.                   *)

LEMMA StoredPresent ==
  /\ \A x : Stored(x) # Missing
  /\ \A x, y : Stored(x) = Stored(y) => x = y
  BY DEF Stored, Entry, Missing

LEMMA DelCommand ==
  ASSUME NEW c, c.op = "DEL"
  PROVE  Effect(db, c) = [db EXCEPT ![c.key] = Missing]
  BY Zenon DEF Effect

LEMMA SetexCommand ==
  ASSUME NEW c, c.op = "SETEX"
  PROVE  Effect(db, c) = [db EXCEPT ![c.key] = Stored(c.value)]
  BY Zenon DEF Effect, Stored

LEMMA GetCommand ==
  ASSUME NEW c, c.op = "GET"
  PROVE  /\ Effect(db, c) = db
         /\ Reply(db, c) = IF Present(db, c.key) THEN db[c.key].val ELSE Null
  BY Zenon DEF Effect, Reply

LEMMA ExistsCommand ==
  ASSUME NEW c, c.op = "EXISTS"
  PROVE  Effect(db, c) = db /\ Reply(db, c) = Present(db, c.key)
  BY Zenon DEF Effect, Reply

\* A step that ends with a known outcome.
LEMMA EndsWith ==
  ASSUME TypeOK, NEW o, o.faults \in {0, 1}, Ends(o)
  PROVE  /\ db' = o.db
         /\ o.doubt = EmptyBag => doubt' = doubt /\ IsABag(doubt') /\ InDoubt' = InDoubt
         /\ \A c : o.doubt = SetToBag({c}) => IsABag(doubt') /\ InDoubt' = InDoubt \cup {c}
         /\ faults' \in Nat
         /\ o.faults = 1 => faults' # faults
<1>1. /\ db' = o.db /\ doubt' = doubt (+) o.doubt
      /\ faults' = faults - o.faults /\ o.faults <= faults
      /\ faults \in Nat /\ IsABag(doubt)
  BY DEF Ends, TypeOK
<1>2. o.doubt = EmptyBag => doubt' = doubt
  BY <1>1, OneMore
<1>3. ASSUME NEW c, o.doubt = SetToBag({c})
      PROVE  IsABag(doubt') /\ InDoubt' = InDoubt \cup {c}
  BY <1>1, <1>3, OneMore
<1>4. faults' \in Nat /\ (o.faults = 1 => faults' # faults)
  BY <1>1
<1> QED BY <1>1, <1>2, <1>3, <1>4

LEMMA ExistsOutcome ==
  ASSUME TypeOK, NEW k \in Key, NEW o \in Outcomes(exists(k)), Ends(o)
  PROVE  /\ db' = db /\ doubt' = doubt /\ faults' \in Nat
         /\ faults' = faults => o.ret = Present(db, k)
         /\ o.ret \in BOOLEAN
<1> DEFINE c == exists(k)
<1>1. c.op = "EXISTS" /\ c.key = k /\ c.failed = FALSE
  BY DEF exists
<1>2. Execute(db, c) = db /\ Answer(c) = Present(db, k) /\ ~Rejected(db, c)
  BY <1>1, ExistsCommand DEF Execute, Answer, Rejected, HashOp, SortedSetOp
<1>3. \/ o = Outcome(db, Present(db, k), EmptyBag, 0)
      \/ o = Outcome(db, FALSE, EmptyBag, 1)
  BY <1>1, <1>2 DEF Outcomes, Answered, Unanswered, Reads
<1>4. Present(db, k) \in BOOLEAN
  BY DEF Present
<1>5. CASE o = Outcome(db, Present(db, k), EmptyBag, 0)
  <2>1. o.ret = Present(db, k) /\ o.db = db /\ o.doubt = EmptyBag /\ o.faults = 0
    BY <1>5 DEF Outcome
  <2> QED BY <2>1, <1>4, EndsWith
<1>6. CASE o = Outcome(db, FALSE, EmptyBag, 1)
  <2>1. o.ret = FALSE /\ o.db = db /\ o.doubt = EmptyBag /\ o.faults = 1
    BY <1>6 DEF Outcome
  <2>2. db' = db /\ doubt' = doubt /\ faults' \in Nat /\ faults' # faults
    BY <2>1, EndsWith
  <2> QED BY <2>1, <2>2
<1> QED
  BY <1>3, <1>5, <1>6

LEMMA GetOutcome ==
  ASSUME TypeOK, NEW k \in Key, NEW o \in Outcomes(getValue(k)), Ends(o)
  PROVE  /\ db' = db /\ doubt' = doubt /\ faults' \in Nat
         /\ o.ret # Null => db[k] = Stored(o.ret)
         /\ faults' = faults /\ db[k] # Missing => db[k] = Stored(o.ret)
<1> DEFINE c == getValue(k)
<1>1. c.op = "GET" /\ c.key = k /\ c.failed = Null
  BY DEF getValue
<1>2. ASSUME Present(db, k)
      PROVE  /\ db[k].kind = "string" /\ db[k].val \in Token
             /\ db[k] = Stored(db[k].val)
  <2>1. db[k] \in {Missing} \cup {Entry("string", x, "timed") : x \in Token}
    BY DEF TypeOK
  <2>2. \A v \in {Entry("string", x, "timed") : x \in Token} : \E x \in Token : v = Stored(x)
    BY Zenon DEF Stored
  <2>3. PICK x \in Token : db[k] = Stored(x)
    BY <1>2, <2>1, <2>2 DEF Present
  <2>4. db[k].kind = "string" /\ db[k].val = x
    BY <2>3 DEF Stored, Entry
  <2> QED BY <2>3, <2>4
<1>3. Execute(db, c) = db
  BY <1>1, GetCommand DEF Execute
<1>4. Answer(c) = IF Present(db, k) THEN db[k].val ELSE Null
  BY <1>1, GetCommand DEF Answer
<1>5. ~Rejected(db, c)
  <2>1. KindOf("GET") = "string"
    BY DEF KindOf, HashOp, SortedSetOp
  <2> QED BY <1>1, <1>2, <2>1 DEF Rejected
<1>6. o = Outcome(db, Answer(c), EmptyBag, 0) \/ o = Outcome(db, Null, EmptyBag, 1)
  BY <1>1, <1>3, <1>5 DEF Outcomes, Answered, Unanswered, Reads
<1>7. /\ Answer(c) # Null => db[k] = Stored(Answer(c))
      /\ db[k] # Missing => db[k] = Stored(Answer(c))
  BY <1>2, <1>4 DEF Present
<1> HIDE DEF c
<1>8. o.ret \in {Answer(c), Null} /\ o.db = db /\ o.doubt = EmptyBag /\ o.faults \in {0, 1}
  BY <1>6 DEF Outcome
<1>9. o.ret = Null => o.faults = 1 \/ Answer(c) = Null
  BY <1>6 DEF Outcome
<1> QED
  BY <1>7, <1>8, <1>9, EndsWith

LEMMA DeleteOutcome ==
  ASSUME TypeOK, NEW k \in Key, NEW o \in Outcomes(delete(k)), Ends(o)
  PROVE  /\ db' \in {db, [db EXCEPT ![k] = Missing]}
         /\ IsABag(doubt') /\ InDoubt' \in {InDoubt, InDoubt \cup {delete(k)}}
         /\ faults' \in Nat
<1> DEFINE c == delete(k)
           after == [db EXCEPT ![k] = Missing]
<1>1. c.op = "DEL" /\ c.key = k
  BY DEF delete
<1>2. Execute(db, c) = after
  BY <1>1, DelCommand DEF Execute, Rejected, HashOp, SortedSetOp
<1>3. \E r : o \in {Outcome(after, r, EmptyBag, 0), Outcome(db, r, EmptyBag, 1),
                    Outcome(after, r, EmptyBag, 1), Outcome(db, r, SetToBag({c}), 1)}
  BY <1>1, <1>2 DEF Outcomes, Answered, Unanswered, Reads
<1>4. /\ o.db \in {db, after} /\ o.doubt \in {EmptyBag, SetToBag({c})}
      /\ o.faults \in {0, 1}
  BY <1>3 DEF Outcome
<1> HIDE DEF c, after
<1>5. CASE o.doubt = EmptyBag
  BY <1>4, <1>5, EndsWith DEF c, after
<1>6. CASE o.doubt = SetToBag({c})
  <2>1. IsABag(doubt') /\ InDoubt' = InDoubt \cup {c} /\ db' \in {db, after} /\ faults' \in Nat
    BY <1>4, <1>6, EndsWith
  <2> QED BY <2>1 DEF c, after
<1> QED
  BY <1>4, <1>5, <1>6

LEMMA SetexOutcome ==
  ASSUME TypeOK, NEW k \in Key, NEW x \in Token, NEW s \in Seconds,
         NEW o \in Outcomes(setex(k, x, s)), Ends(o)
  PROVE  /\ db' \in {db, [db EXCEPT ![k] = Stored(x)]}
         /\ IsABag(doubt') /\ InDoubt' \in {InDoubt, InDoubt \cup {setex(k, x, s)}}
         /\ faults' \in Nat
         /\ o.ret \in BOOLEAN
         /\ o.ret => db' = [db EXCEPT ![k] = Stored(x)]
<1> DEFINE c == setex(k, x, s)
           after == [db EXCEPT ![k] = Stored(x)]
<1>1. /\ c.op = "SETEX" /\ c.key = k /\ c.value = x /\ c.seconds = s
      /\ c.failed = FALSE
  BY DEF setex
<1>2. Execute(db, c) = IF Rejected(db, c) THEN db ELSE after
  BY <1>1, SetexCommand DEF Execute
<1>3. o \in {Outcome(Execute(db, c), ~Rejected(db, c), EmptyBag, 0), Outcome(db, FALSE, EmptyBag, 1),
             Outcome(Execute(db, c), FALSE, EmptyBag, 1), Outcome(db, FALSE, SetToBag({c}), 1)}
  BY <1>1 DEF Outcomes, Answered, Unanswered, Reads, Answer
<1>4. Rejected(db, c) \in BOOLEAN
  BY DEF Rejected
<1>5. Execute(db, c) \in {db, after} /\ (~Rejected(db, c) => Execute(db, c) = after)
  BY <1>2, <1>4
<1> HIDE DEF c, after
<1>6. /\ db' \in {db, after} /\ IsABag(doubt') /\ InDoubt' \in {InDoubt, InDoubt \cup {c}}
      /\ faults' \in Nat /\ o.ret \in BOOLEAN
      /\ o.ret => db' = after
  <2>1. CASE o = Outcome(Execute(db, c), ~Rejected(db, c), EmptyBag, 0)
    <3>1. /\ o.ret = ~Rejected(db, c) /\ o.db = Execute(db, c)
          /\ o.doubt = EmptyBag /\ o.faults = 0
      BY <2>1 DEF Outcome
    <3>2. db' = Execute(db, c) /\ IsABag(doubt') /\ InDoubt' = InDoubt /\ faults' \in Nat
      BY <3>1, EndsWith
    <3> QED BY <3>1, <3>2, <1>4, <1>5
  <2>2. CASE o = Outcome(db, FALSE, EmptyBag, 1) \/ o = Outcome(Execute(db, c), FALSE, EmptyBag, 1)
    <3>1. o.ret = FALSE /\ o.db \in {db, after} /\ o.doubt = EmptyBag /\ o.faults = 1
      BY <2>2, <1>5 DEF Outcome
    <3>2. db' \in {db, after} /\ IsABag(doubt') /\ InDoubt' = InDoubt /\ faults' \in Nat
      BY <3>1, EndsWith
    <3> QED BY <3>1, <3>2
  <2>3. CASE o = Outcome(db, FALSE, SetToBag({c}), 1)
    <3>1. o.ret = FALSE /\ o.db = db /\ o.doubt = SetToBag({c}) /\ o.faults = 1
      BY <2>3 DEF Outcome
    <3>2. db' = db /\ IsABag(doubt') /\ InDoubt' = InDoubt \cup {c} /\ faults' \in Nat
      BY <3>1, EndsWith
    <3> QED BY <3>1, <3>2
  <2> QED BY <1>3, <2>1, <2>2, <2>3
<1> QED
  BY <1>6 DEF c, after
-----------------------------------------------------------------------------
(* The parts of IInv about one thread, in the form the proofs use.          *)

LEMMA Facts ==
  ASSUME IInv
  PROVE  /\ \A k \in Key, u \in Thread :
              promised[k] # Null /\ arg[u] # Null /\ arg[u].key = k => arg[u].op # "set"
         /\ \A t \in calm, u \in Thread :
              arg[u] # Null /\ arg[u].key = arg[t].key /\ arg[u].op = "set" => u = t
         /\ \A t \in calm : t \in Thread /\ arg[t] \in Argument /\ arg[t].key \in Key
  BY DEF IInv, TypeOK, PromiseAlone, CalmAlone, Writers, On, Argument

LEMMA InitIInv == InitH => IInv
<1> SUFFICES ASSUME InitH PROVE IInv
  OBVIOUS
<1> USE DEF InitH, Init, RedisInit
<1>1. TypeOK
  BY NoMore DEF TypeOK, EmptyDb, Location, SetLocation, GetLocation
<1>2. PromiseAlone /\ PromiseKept /\ CalmAlone /\ SteadyPromised /\ LoginDecided
  BY DEF PromiseAlone, PromiseKept, CalmAlone, SteadyPromised, LoginDecided
<1> QED BY <1>1, <1>2 DEF IInv

LEMMA SetKsTokenIInv ==
  ASSUME IInv, NEW t \in Thread, NEW a \in Account, NEW x \in Token, NEW s \in Seconds,
         SetKsTokenH(t, a, x, s)
  PROVE  IInv'
<1> DEFINE k == KeyName[a]
           new == [op |-> "set", key |-> k, token |-> x, seconds |-> s]
<1>1. k \in Key
  BY KeyNameAssumption
<1>2. new \in Argument /\ new # Null
  BY <1>1 DEF Argument
<1>3. arg[t] = Null /\ pc[t] = "out"
  BY DEF IInv, TypeOK, SetKsTokenH, SetKsToken, Start
<1>4. /\ arg' = [arg EXCEPT ![t] = new] /\ pc' = [pc EXCEPT ![t] = "setExists"]
      /\ todo > 0 /\ todo' = todo - 1
      /\ UNCHANGED <<ret, db, doubt, faults>>
  BY DEF SetKsTokenH, SetKsToken, Start, redisVars
<1>5. /\ promised' = [promised EXCEPT ![k] = Null]
      /\ steady' = steady \ On(k, Thread)
      /\ answered' = answered \ On(k, Thread)
      /\ calm' = (calm \ On(k, Thread)) \cup {u \in {t} : Writers(k) = {} /\ ~Uncertain(k)}
  BY DEF SetKsTokenH, Withdraw
<1> HIDE DEF k
<1>6. TypeOK'
  BY <1>1, <1>2, <1>3, <1>4, <1>5
     DEF IInv, TypeOK, Location, SetLocation, GetLocation, On
<1>7. PromiseAlone'
  BY <1>1, <1>2, <1>3, <1>4, <1>5
     DEF IInv, TypeOK, PromiseAlone, Writers, On, Uncertain
<1>8. PromiseKept'
  BY <1>1, <1>4, <1>5 DEF IInv, TypeOK, PromiseKept
<1>9. CalmAlone'
  BY <1>1, <1>2, <1>3, <1>4, <1>5 DEF IInv, TypeOK, CalmAlone, Writers, On, Uncertain
<1>10. SteadyPromised' /\ LoginDecided'
  BY <1>1, <1>2, <1>3, <1>4, <1>5 DEF IInv, TypeOK, SteadyPromised, LoginDecided, On
<1> QED BY <1>6, <1>7, <1>8, <1>9, <1>10 DEF IInv

LEMMA GetKsTokenIInv ==
  ASSUME IInv, NEW t \in Thread, NEW a \in Account, NEW x \in Token,
         GetKsTokenH(t, a, x)
  PROVE  IInv'
<1> DEFINE k == KeyName[a]
           new == [op |-> "get", key |-> k, token |-> x]
<1>1. k \in Key
  BY KeyNameAssumption
<1>2. new \in Argument /\ new # Null
  BY <1>1 DEF Argument
<1>3. arg[t] = Null /\ pc[t] = "out"
  BY DEF IInv, TypeOK, GetKsTokenH, GetKsToken, Start
<1>4. /\ arg' = [arg EXCEPT ![t] = new] /\ pc' = [pc EXCEPT ![t] = "getExists"]
      /\ todo > 0 /\ todo' = todo - 1
      /\ UNCHANGED <<ret, db, doubt, faults, calm, promised>>
  BY DEF GetKsTokenH, GetKsToken, Start, redisVars
<1>5. /\ steady' = steady \cup {u \in {t} : promised[k] # Null}
      /\ answered' = answered \cup {u \in {t} : promised[k] # Null}
  BY DEF GetKsTokenH
<1> HIDE DEF k
<1>6. TypeOK'
  BY <1>1, <1>2, <1>3, <1>4, <1>5
     DEF IInv, TypeOK, Location, SetLocation, GetLocation
<1>7. PromiseAlone'
  BY <1>2, <1>3, <1>4 DEF IInv, TypeOK, PromiseAlone, Writers, On, Uncertain
<1>8. PromiseKept'
  BY <1>4 DEF IInv, PromiseKept
<1>9. CalmAlone'
  BY <1>2, <1>3, <1>4 DEF IInv, TypeOK, CalmAlone, Writers, On, Uncertain
<1>10. SteadyPromised' /\ LoginDecided'
  BY <1>2, <1>3, <1>4, <1>5 DEF IInv, TypeOK, SteadyPromised, LoginDecided
<1> QED BY <1>6, <1>7, <1>8, <1>9, <1>10 DEF IInv

CommandInDoubt ==
  {delete(k) : k \in Key} \cup {setex(k, x, s) : k \in Key, x \in Token, s \in Seconds}

\* A command of a setKsToken touches the thread's own key, on which there is
\* no promise and no other calm call.
LEMMA WriterStep ==
  ASSUME IInv, NEW t \in Thread, pc[t] \in SetLocation, CommandH(t),
         NEW to \in SetLocation \cup {"return"}, NEW b \in BOOLEAN,
         Proceed(t, to, b),
         NEW new \in {Missing, Stored(arg[t].token)},
         db' \in {db, [db EXCEPT ![arg[t].key] = new]},
         NEW c \in {delete(arg[t].key), setex(arg[t].key, arg[t].token, arg[t].seconds)},
         IsABag(doubt'), InDoubt' \in {InDoubt, InDoubt \cup {c}},
         faults' \in Nat,
         to = "return" /\ b => db'[arg[t].key] = Stored(arg[t].token)
  PROVE  IInv'
<1> DEFINE k == arg[t].key
<1>1. /\ arg[t] # Null /\ arg[t].op = "set"
      /\ arg[t] \in [op : {"set"}, key : Key, token : Token, seconds : Seconds]
  BY DEF IInv, TypeOK, Argument, SetLocation
<1>2. k \in Key /\ arg[t].token \in Token /\ arg[t].seconds \in Seconds
  BY <1>1
<1>3. /\ pc' = [pc EXCEPT ![t] = to] /\ ret' = [ret EXCEPT ![t] = b]
      /\ UNCHANGED <<arg, todo, promised, steady>>
      /\ calm' = {u \in calm : ~Uncertain(arg[u].key)'}
      /\ answered' = {u \in answered : u = t => faults' = faults}
  BY DEF Proceed, CommandH
<1>4. c.key = k
  BY DEF delete, setex
<1>5. promised[k] = Null
  BY <1>1, <1>2, Facts
<1>6. \A k2 \in Key : k2 # k => db'[k2] = db[k2] /\ (Uncertain(k2)' => Uncertain(k2))
  BY <1>4 DEF IInv, TypeOK, Uncertain
<1>7. \A u \in calm : u # t => arg[u].key # k
  BY <1>1, Facts
<1> HIDE DEF k
<1>8. TypeOK'
  <2>1. InDoubt' \subseteq CommandInDoubt
    BY <1>2 DEF IInv, TypeOK, CommandInDoubt, k
  <2>2. db' \in [Key -> {Missing} \cup {Entry("string", x, "timed") : x \in Token}]
    BY <1>2 DEF IInv, TypeOK, Stored, k
  <2>3. pc' \in [Thread -> Location] /\ ret' \in [Thread -> BOOLEAN]
    BY <1>3 DEF IInv, TypeOK, Location
  <2>4. /\ \A u \in Thread : pc'[u] = "out" <=> arg'[u] = Null
        /\ \A u \in Thread : pc'[u] \in SetLocation => arg'[u].op = "set"
        /\ \A u \in Thread : pc'[u] \in GetLocation => arg'[u].op = "get"
    BY <1>1, <1>3 DEF IInv, TypeOK, SetLocation, GetLocation
  <2>5. calm' \cup steady' \cup answered' \subseteq Thread
    BY <1>3 DEF IInv, TypeOK
  <2> QED BY <1>3, <2>1, <2>2, <2>3, <2>4, <2>5 DEF IInv, TypeOK, CommandInDoubt
<1>9. PromiseAlone'
  BY <1>3, <1>5, <1>6 DEF IInv, PromiseAlone, Writers, On
<1>10. PromiseKept'
  BY <1>3, <1>5, <1>6 DEF IInv, PromiseKept
<1>11. CalmAlone'
  <2> SUFFICES ASSUME NEW u \in calm'
               PROVE  /\ arg[u] # Null /\ arg[u].op = "set"
                      /\ Writers(arg[u].key)' = {u}
                      /\ ~Uncertain(arg[u].key)'
                      /\ pc'[u] = "return" /\ ret'[u]
                           => db'[arg[u].key] = Stored(arg[u].token)
    BY <1>3 DEF CalmAlone
  <2>1. u \in calm /\ ~Uncertain(arg[u].key)' /\ u \in Thread
    BY <1>3 DEF IInv, TypeOK
  <2>2. /\ arg[u] # Null /\ arg[u].op = "set"
        /\ Writers(arg[u].key) = {u}
        /\ pc[u] = "return" /\ ret[u] => db[arg[u].key] = Stored(arg[u].token)
    BY <2>1 DEF IInv, CalmAlone
  <2>3. Writers(arg[u].key)' = Writers(arg[u].key)
    BY <1>3 DEF Writers, On
  <2>4. CASE u = t
    BY <2>1, <2>2, <2>3, <2>4, <1>3 DEF IInv, TypeOK
  <2>5. CASE u # t
    <3>1. db'[arg[u].key] = db[arg[u].key]
      BY <2>1, <2>5, <1>6, <1>7, Facts
    <3> QED BY <2>1, <2>2, <2>3, <2>5, <3>1, <1>3 DEF IInv, TypeOK
  <2> QED BY <2>4, <2>5
<1>12. SteadyPromised' /\ LoginDecided'
  BY <1>1, <1>3 DEF IInv, TypeOK, SteadyPromised, LoginDecided
<1> QED BY <1>8, <1>9, <1>10, <1>11, <1>12 DEF IInv

\* A command of a getKsToken only reads, and the last one decides the login.
LEMMA ReaderStep ==
  ASSUME IInv, NEW t \in Thread, pc[t] \in GetLocation, CommandH(t),
         NEW to \in GetLocation \cup {"return"}, NEW b \in BOOLEAN,
         Proceed(t, to, b),
         UNCHANGED <<db, doubt>>, faults' \in Nat,
         t \in steady /\ to = "return" =>
           /\ b => arg[t].token = promised[arg[t].key]
           /\ faults' = faults => b = (arg[t].token = promised[arg[t].key])
  PROVE  IInv'
<1>1. arg[t] # Null /\ arg[t].op = "get"
  BY DEF IInv, TypeOK, GetLocation
<1>2. /\ pc' = [pc EXCEPT ![t] = to] /\ ret' = [ret EXCEPT ![t] = b]
      /\ UNCHANGED <<arg, todo, promised, steady>>
      /\ calm' = {u \in calm : ~Uncertain(arg[u].key)'}
      /\ answered' = {u \in answered : u = t => faults' = faults}
  BY DEF Proceed, CommandH
<1>3. TypeOK'
  BY <1>1, <1>2 DEF IInv, TypeOK, Location, SetLocation, GetLocation
<1>4. PromiseAlone' /\ PromiseKept'
  BY <1>2 DEF IInv, PromiseAlone, PromiseKept, Writers, On, Uncertain
<1>5. CalmAlone'
  BY <1>1, <1>2 DEF IInv, TypeOK, CalmAlone, Writers, On, Uncertain
<1>6. SteadyPromised'
  BY <1>2 DEF IInv, SteadyPromised
<1>7. LoginDecided'
  BY <1>2 DEF IInv, TypeOK, LoginDecided
<1> QED BY <1>3, <1>4, <1>5, <1>6, <1>7 DEF IInv

LEMMA CommandIInv ==
  ASSUME IInv, NEW t \in Thread, CommandH(t)
  PROVE  IInv'
<1>0. TypeOK
  BY DEF IInv
<1>1. ASSUME pc[t] \in SetLocation
      PROVE  arg[t].key \in Key /\ arg[t].token \in Token /\ arg[t].seconds \in Seconds
  BY <1>0, <1>1 DEF TypeOK, Argument, SetLocation
<1>2. ASSUME pc[t] \in GetLocation
      PROVE  arg[t].key \in Key /\ arg[t].token \in Token
  BY <1>0, <1>2 DEF TypeOK, Argument, GetLocation
<1>3. CASE SetExists(t)
  <2>1. pc[t] \in SetLocation
    BY <1>3 DEF SetExists, SetLocation
  <2>2. PICK o \in Outcomes(exists(arg[t].key)) :
          Ends(o) /\ Proceed(t, IF o.ret THEN "setDelete" ELSE "setSetex", FALSE)
    BY <1>3 DEF SetExists
  <2>3. db' = db /\ doubt' = doubt /\ faults' \in Nat /\ o.ret \in BOOLEAN
    BY <1>0, <1>1, <2>1, <2>2, ExistsOutcome
  <2>4. PICK to \in {"setDelete", "setSetex"} : Proceed(t, to, FALSE)
    BY <2>2, <2>3
  <2>5. IsABag(doubt') /\ InDoubt' = InDoubt
    BY <1>0, <2>3 DEF TypeOK
  <2> QED BY <2>1, <2>3, <2>4, <2>5, WriterStep DEF SetLocation
<1>4. CASE SetDelete(t)
  <2>1. pc[t] \in SetLocation
    BY <1>4 DEF SetDelete, SetLocation
  <2>2. PICK o \in Outcomes(delete(arg[t].key)) : Ends(o) /\ Proceed(t, "setSetex", FALSE)
    BY <1>4 DEF SetDelete
  <2>3. /\ db' \in {db, [db EXCEPT ![arg[t].key] = Missing]}
        /\ IsABag(doubt') /\ InDoubt' \in {InDoubt, InDoubt \cup {delete(arg[t].key)}} /\ faults' \in Nat
    BY <1>0, <1>1, <2>1, <2>2, DeleteOutcome
  <2> QED BY <2>1, <2>2, <2>3, WriterStep DEF SetLocation
<1>5. CASE SetSetex(t)
  <2> DEFINE k == arg[t].key
             x == arg[t].token
             s == arg[t].seconds
  <2>1. pc[t] \in SetLocation
    BY <1>5 DEF SetSetex, SetLocation
  <2>2. k \in Key /\ x \in Token /\ s \in Seconds
    BY <1>1, <2>1
  <2>3. PICK o \in Outcomes(setex(k, x, s)) : Ends(o) /\ Proceed(t, "return", o.ret)
    BY <1>5 DEF SetSetex
  <2>4. /\ db' \in {db, [db EXCEPT ![k] = Stored(x)]}
        /\ IsABag(doubt') /\ InDoubt' \in {InDoubt, InDoubt \cup {setex(k, x, s)}} /\ faults' \in Nat
        /\ o.ret \in BOOLEAN
        /\ o.ret => db' = [db EXCEPT ![k] = Stored(x)]
    BY <1>0, <2>2, <2>3, SetexOutcome
  <2>5. PICK b \in BOOLEAN : b = o.ret
    BY <2>4
  <2>6. b => db'[k] = Stored(x)
    BY <1>0, <2>2, <2>4, <2>5 DEF TypeOK
  <2> QED BY <2>1, <2>3, <2>4, <2>5, <2>6, WriterStep
<1>6. CASE GetExists(t)
  <2>1. pc[t] \in GetLocation
    BY <1>6 DEF GetExists, GetLocation
  <2>2. PICK o \in Outcomes(exists(arg[t].key)) :
          Ends(o) /\ Proceed(t, IF o.ret THEN "getValue" ELSE "return", FALSE)
    BY <1>6 DEF GetExists
  <2>3. /\ db' = db /\ doubt' = doubt /\ faults' \in Nat /\ o.ret \in BOOLEAN
        /\ faults' = faults => o.ret = Present(db, arg[t].key)
    BY <1>0, <1>2, <2>1, <2>2, ExistsOutcome
  <2>4. t \in steady => Present(db, arg[t].key)
    <3>1. t \in steady => db[arg[t].key] = Stored(promised[arg[t].key])
      BY <1>2, <2>1 DEF IInv, SteadyPromised, PromiseKept, Stored
    <3> QED BY <3>1, StoredPresent DEF Present
  <2>5. CASE o.ret
    <3>1. Proceed(t, "getValue", FALSE)
      BY <2>2, <2>5
    <3> QED BY <2>1, <2>3, <3>1, <1>6, ReaderStep DEF GetLocation
  <2>6. CASE ~o.ret
    <3>1. Proceed(t, "return", FALSE)
      BY <2>2, <2>6
    <3>2. t \in steady => faults' # faults
      BY <2>3, <2>4, <2>6
    <3> QED BY <2>1, <2>3, <3>1, <3>2, <1>6, ReaderStep
  <2> QED BY <2>3, <2>5, <2>6
<1>7. CASE GetValue(t)
  <2> DEFINE k == arg[t].key
  <2>1. pc[t] \in GetLocation
    BY <1>7 DEF GetValue, GetLocation
  <2>2. k \in Key /\ arg[t].token \in Token
    BY <1>2, <2>1
  <2>3. PICK o \in Outcomes(getValue(k)) : Ends(o) /\ Proceed(t, "return", o.ret = arg[t].token)
    BY <1>7 DEF GetValue
  <2>4. /\ db' = db /\ doubt' = doubt /\ faults' \in Nat
        /\ o.ret # Null => db[k] = Stored(o.ret)
        /\ faults' = faults /\ db[k] # Missing => db[k] = Stored(o.ret)
    BY <1>0, <2>2, <2>3, GetOutcome
  <2>5. t \in steady => db[k] = Stored(promised[k])
    BY <2>2 DEF IInv, SteadyPromised, PromiseKept, Stored
  <2>8. t \in steady =>
          /\ o.ret = arg[t].token => arg[t].token = promised[k]
          /\ faults' = faults => o.ret = promised[k]
    BY <2>2, <2>4, <2>5, StoredPresent
  <2>9. CASE o.ret = arg[t].token
    <3>1. Proceed(t, "return", TRUE)
      BY <2>3, <2>9
    <3> QED BY <1>7, <2>1, <2>4, <2>8, <2>9, <3>1, ReaderStep
  <2>10. CASE o.ret # arg[t].token
    <3>1. Proceed(t, "return", FALSE)
      BY <2>3, <2>10
    <3> QED BY <1>7, <2>1, <2>4, <2>8, <2>10, <3>1, ReaderStep
  <2> QED BY <2>9, <2>10
<1> QED BY <1>3, <1>4, <1>5, <1>6, <1>7 DEF CommandH

LEMMA ReturnIInv ==
  ASSUME IInv, NEW t \in Thread, ReturnH(t)
  PROVE  IInv'
<1>1. /\ pc[t] = "return" /\ arg[t] # Null /\ arg[t] \in Argument
      /\ arg[t].key \in Key /\ arg[t].token \in Token /\ arg[t].token # Null
  BY DEF ReturnH, Return, IInv, TypeOK, Argument
<1>2. /\ pc' = [pc EXCEPT ![t] = "out"] /\ arg' = [arg EXCEPT ![t] = Null]
      /\ ret' = [ret EXCEPT ![t] = FALSE]
      /\ UNCHANGED <<todo, db, doubt, faults>>
  BY DEF ReturnH, Return, redisVars
<1>3. /\ promised' = IF t \in calm /\ ret[t]
                       THEN [promised EXCEPT ![arg[t].key] = arg[t].token] ELSE promised
      /\ calm' = calm \ {t} /\ steady' = steady \ {t} /\ answered' = answered \ {t}
  BY DEF ReturnH
<1>4. TypeOK'
  BY <1>1, <1>2, <1>3 DEF IInv, TypeOK, Location, SetLocation, GetLocation
<1>5. CASE t \in calm /\ ret[t]
  <2> DEFINE k == arg[t].key
  <2>1. /\ arg[t].op = "set" /\ Writers(k) = {t} /\ ~Uncertain(k)
        /\ db[k] = Stored(arg[t].token)
    BY <1>1, <1>5 DEF IInv, CalmAlone
  <2>2. promised[k] = Null
    BY <1>1, <2>1, Facts
  <2>3. promised' = [promised EXCEPT ![k] = arg[t].token]
    BY <1>3, <1>5
  <2>4. \A u \in Thread : arg'[u] # Null => u # t /\ arg'[u] = arg[u]
    BY <1>2 DEF IInv, TypeOK
  <2> HIDE DEF k
  <2>5. PromiseAlone'
    BY <1>2, <2>1, <2>3, <2>4 DEF IInv, TypeOK, PromiseAlone, Writers, On, Uncertain
  <2>6. PromiseKept'
    BY <1>2, <2>1, <2>3 DEF IInv, TypeOK, PromiseKept, Stored, k
  <2>7. CalmAlone'
    BY <1>2, <1>3, <2>4 DEF IInv, TypeOK, CalmAlone, Writers, On, Uncertain
  <2>8. \A u \in steady : arg[u].key # k
    BY <2>2 DEF IInv, SteadyPromised
  <2>9. SteadyPromised'
    BY <1>2, <1>3, <2>3, <2>8 DEF IInv, TypeOK, SteadyPromised
  <2>10. LoginDecided'
    BY <1>2, <1>3, <2>3, <2>8 DEF IInv, TypeOK, LoginDecided
  <2> QED BY <1>4, <2>5, <2>6, <2>7, <2>9, <2>10 DEF IInv
<1>6. CASE ~(t \in calm /\ ret[t])
  <2>1. promised' = promised
    BY <1>3, <1>6
  <2>2. \A u \in Thread : arg'[u] # Null => u # t /\ arg'[u] = arg[u]
    BY <1>2 DEF IInv, TypeOK
  <2>3. PromiseAlone' /\ PromiseKept'
    BY <1>2, <2>1, <2>2 DEF IInv, PromiseAlone, PromiseKept, Writers, On, Uncertain
  <2>4. CalmAlone'
    BY <1>2, <1>3, <2>2 DEF IInv, TypeOK, CalmAlone, Writers, On, Uncertain
  <2>5. SteadyPromised' /\ LoginDecided'
    BY <1>2, <1>3, <2>1 DEF IInv, TypeOK, SteadyPromised, LoginDecided
  <2> QED BY <1>4, <2>3, <2>4, <2>5 DEF IInv
<1> QED BY <1>5, <1>6

LEMMA ExpireIInv ==
  ASSUME IInv, NEW k \in Key, ExpireH(k)
  PROVE  IInv'
<1>1. /\ db' = [db EXCEPT ![k] = Missing]
      /\ UNCHANGED <<doubt, faults, pc, arg, ret, todo>>
      /\ promised' = [promised EXCEPT ![k] = Null]
      /\ steady' = steady \ On(k, Thread) /\ answered' = answered \ On(k, Thread)
      /\ calm' = {t \in calm : t \in On(k, Thread) => pc[t] # "return"}
  BY DEF ExpireH, Expire, Expired, Withdraw, threadVars
<1>2. TypeOK'
  BY <1>1 DEF IInv, TypeOK
<1>3. PromiseAlone' /\ PromiseKept'
  BY <1>1 DEF IInv, TypeOK, PromiseAlone, PromiseKept, Writers, On, Uncertain
<1>4. CalmAlone'
  BY <1>1, Facts DEF IInv, TypeOK, CalmAlone, Writers, On, Uncertain
<1>5. SteadyPromised' /\ LoginDecided'
  BY <1>1 DEF IInv, TypeOK, SteadyPromised, LoginDecided, On
<1> QED BY <1>2, <1>3, <1>4, <1>5 DEF IInv

\* A command in doubt touches its own key, on which nothing is promised.
LEMMA ExecuteLateIInv ==
  ASSUME IInv, NEW c \in InDoubt, ExecuteLateH(c)
  PROVE  IInv'
<1>0. IsABag(doubt) /\ IsABag(doubt') /\ InDoubt' \subseteq InDoubt
  <2>1. IsABag(doubt) /\ doubt' = doubt (-) SetToBag({c})
    BY DEF ExecuteLateH, ExecuteLate, IInv, TypeOK
  <2> QED BY <2>1, OneLess
<1>1. /\ db' = Execute(db, c)
      /\ UNCHANGED <<faults, pc, arg, ret, todo, calm, promised, steady, answered>>
  BY DEF ExecuteLateH, ExecuteLate, threadVars, historyVars
<1>2. c.key \in Key /\ (c.op = "DEL" \/ (c.op = "SETEX" /\ c.value \in Token))
  BY DEF IInv, TypeOK, delete, setex
<1>3. PICK new \in {Missing} \cup {Entry("string", x, "timed") : x \in Token} :
        db' \in {db, [db EXCEPT ![c.key] = new]}
  <2>1. CASE c.op = "DEL"
    BY <1>1, <2>1, DelCommand DEF Execute
  <2>2. CASE c.op = "SETEX" /\ c.value \in Token
    <3>1. db' \in {db, [db EXCEPT ![c.key] = Entry("string", c.value, "timed")]}
      BY <1>1, <2>2, SetexCommand DEF Execute, Stored
    <3> QED BY <2>2, <3>1
  <2> QED BY <1>2, <2>1, <2>2
<1>4. Uncertain(c.key)
  BY DEF Uncertain
<1>5. TypeOK'
  BY <1>0, <1>1, <1>2, <1>3 DEF IInv, TypeOK
<1>6. PromiseAlone' /\ PromiseKept'
  BY <1>0, <1>1, <1>2, <1>3, <1>4 DEF IInv, TypeOK, PromiseAlone, PromiseKept, Writers, On, Uncertain
<1>7. CalmAlone'
  BY <1>0, <1>1, <1>2, <1>3, <1>4, Facts DEF IInv, TypeOK, CalmAlone, Writers, On, Uncertain
<1>8. SteadyPromised' /\ LoginDecided'
  BY <1>1 DEF IInv, SteadyPromised, LoginDecided
<1> QED BY <1>5, <1>6, <1>7, <1>8 DEF IInv

LEMMA NextIInv == IInv /\ [NextH]_<<vars, historyVars>> => IInv'
<1> SUFFICES ASSUME IInv, [NextH]_<<vars, historyVars>> PROVE IInv'
  OBVIOUS
<1>1. CASE UNCHANGED <<vars, historyVars>>
  BY <1>1 DEF vars, redisVars, threadVars, historyVars, IInv, TypeOK, PromiseAlone, PromiseKept,
     CalmAlone, SteadyPromised, LoginDecided, Writers, On, Uncertain
<1>2. CASE NextH
  BY <1>2, SetKsTokenIInv, GetKsTokenIInv, CommandIInv, ReturnIInv, ExpireIInv,
     ExecuteLateIInv DEF NextH
<1> QED BY <1>1, <1>2
-----------------------------------------------------------------------------
\* The inductive invariant of the token service and its history.
THEOREM Invariance == SpecH => []IInv
  BY InitIInv, NextIInv, PTL DEF SpecH

\* Types, and that only tokens with a time to live are ever stored.
THEOREM TypeCorrect == SpecH => []TypeOK
  BY Invariance, PTL DEF IInv

\* What a calm setKsToken stored stays until the next one or an expiry.
THEOREM PromisesAreKept == SpecH => []PromiseKept
  BY Invariance, PTL DEF IInv

\* getKsToken accepts no token but the promised one, and that one if answered.
THEOREM LoginsAreDecided == SpecH => []LoginDecided
  BY Invariance, PTL DEF IInv
=============================================================================
