-------------------------- MODULE RedisServiceProofs --------------------------
(***************************************************************************)
(* Theorems about the two halves of util/redis/RedisService: HashService,  *)
(* for any number of threads, keys and fields and any times to live, and   *)
(* RankBoard, for any boards, players and scores; for any number of calls  *)
(* and faults.                                                             *)
(***************************************************************************)
EXTENDS HashService, SequenceTheorems, NaturalsInduction, WellFoundedInduction, TLAPS

Life == {"timed", "endless"}

\* What a hash may hold: never nothing.
Fields == UNION {[fs -> Int] : fs \in (SUBSET Field) \ {{}}}

Hash == [kind : {"hash"}, val : Fields, life : Life]

\* The commands that write, with the arguments callers pass.
ExpireCommand == {expire(k, s) : k \in Key, s \in Seconds}
DelCommand == {delete(k) : k \in Key}
SetCommand == {hmSet(k, map) : k \in Key, map \in Maps}
HSetCommand == {hSet(k, f, v) : k \in Key, f \in Field, v \in Number}
CountCommand == {hincrby(k, f, v) : k \in Key, f \in Field, v \in Number}

Command == ExpireCommand \cup DelCommand \cup SetCommand \cup HSetCommand \cup CountCommand

\* The database holds hashes and nothing else, and so do the commands that
\* may still reach it: a late command is no worse than a command in time.
DbInv == db \in [Key -> {Missing} \cup Hash]
DoubtInv == IsABag(doubt) /\ InDoubt \subseteq Command
BoundInv == faults \in 0 .. MaxFaults /\ todo \in 0 .. MaxCalls
RestInv == rest \in [Thread -> {Null} \cup ExpireCommand]
HistoryInv == tickets \in [Key -> [Field -> Seq(Int)]] /\ exempt \subseteq Key

IInv ==
  /\ DbInv /\ DoubtInv /\ BoundInv /\ RestInv /\ HistoryInv
  /\ TicketsIncrease /\ CacheExpires
USE DEF InDoubt
-----------------------------------------------------------------------------
(* Bags of commands: one more, and one less.                               *)

LEMMA NoMore == IsABag(EmptyBag) /\ BagToSet(EmptyBag) = {}
  BY DEF IsABag, BagToSet, EmptyBag, SetToBag

LEMMA OneMore ==
  ASSUME NEW B, IsABag(B), NEW c
  PROVE  /\ IsABag(B (+) SetToBag({c}))
         /\ BagToSet(B (+) SetToBag({c})) = BagToSet(B) \cup {c}
         /\ B (+) EmptyBag = B
<1> DEFINE more == B (+) SetToBag({c})
           same == B (+) EmptyBag
<1>1. /\ B = [e \in DOMAIN B |-> B[e]]
      /\ \A e \in DOMAIN B : B[e] \in Nat /\ B[e] > 0
  BY DEF IsABag
<1>2. /\ DOMAIN more = DOMAIN B \cup {c}
      /\ more \in [DOMAIN B \cup {c} -> {n \in Nat : n > 0}]
  BY <1>1 DEF (+), SetToBag
<1>3. same = [e \in DOMAIN B |-> B[e]]
  BY <1>1 DEF (+), SetToBag, EmptyBag
<1> QED BY <1>1, <1>2, <1>3 DEF IsABag, BagToSet

LEMMA OneLess ==
  ASSUME NEW B, IsABag(B), NEW c
  PROVE  /\ IsABag(B (-) SetToBag({c}))
         /\ BagToSet(B (-) SetToBag({c})) \subseteq BagToSet(B)
<1> DEFINE left == [e \in DOMAIN B |-> IF e \in {c} THEN B[e] - 1 ELSE B[e]]
           less == [e \in {d \in DOMAIN B : left[d] > 0} |-> left[e]]
<1>1. B (-) SetToBag({c}) = less
  BY DEF (-), SetToBag
<1>2. \A e \in DOMAIN B : left[e] \in Int
  BY DEF IsABag
<1>3. less \in [DOMAIN less -> {n \in Nat : n > 0}] /\ DOMAIN less \subseteq DOMAIN B
  BY <1>2
<1> QED BY <1>1, <1>3 DEF IsABag, BagToSet
-----------------------------------------------------------------------------
(* What the commands of RedisService do to a database of hashes.           *)

LEMMA HashIsHash ==
  ASSUME NEW h \in Hash
  PROVE  /\ h # Missing /\ h.kind = "hash" /\ h.val \in Fields /\ h.life \in Life
         /\ [h EXCEPT !.life = "timed"] \in Hash
         /\ [h EXCEPT !.life = "timed"].life = "timed"
<1> DEFINE timed == [h EXCEPT !.life = "timed"]
<1>1. h.kind = "hash" /\ h.val \in Fields /\ h.life \in Life
  BY DEF Hash
<1>2. Missing.kind = "none"
  BY DEF Missing
<1>3. timed \in Hash /\ timed.life = "timed"
  BY DEF Hash, Life
<1> QED BY <1>1, <1>2, <1>3

LEMMA FieldsType ==
  ASSUME NEW m
  PROVE  m \in Fields <=> /\ DOMAIN m \in (SUBSET Field) \ {{}}
                          /\ m \in [DOMAIN m -> Int]
<1>1. ASSUME m \in Fields PROVE DOMAIN m \in (SUBSET Field) \ {{}} /\ m \in [DOMAIN m -> Int]
  <2>1. PICK fs \in (SUBSET Field) \ {{}} : m \in [fs -> Int]
    BY <1>1 DEF Fields
  <2> QED BY <2>1
<1> QED BY <1>1 DEF Fields

LEMMA ContentType ==
  ASSUME NEW d, d \in [Key -> {Missing} \cup Hash], NEW k \in Key
  PROVE  /\ DOMAIN Content(d, k) \subseteq Field
         /\ Content(d, k) \in [DOMAIN Content(d, k) -> Int]
         /\ \A f : ValueAt(Content(d, k), f) \in Int
<1> DEFINE m == Content(d, k)
<1>1. DOMAIN m \subseteq Field /\ m \in [DOMAIN m -> Int]
  <2>1. CASE d[k] = Missing
    BY <2>1 DEF Content, Present, NoFields
  <2>2. CASE d[k] \in Hash
    <3>1. m = d[k].val /\ m \in Fields
      BY <2>2, HashIsHash DEF Content, Present
    <3> QED BY <3>1, FieldsType
  <2> QED BY <2>1, <2>2
<1> HIDE DEF m
<1> QED BY <1>1 DEF ValueAt, m

LEMMA OverrideType ==
  ASSUME NEW m, DOMAIN m \subseteq Field, m \in [DOMAIN m -> Int], NEW n \in Fields
  PROVE  Override(m, n) \in Fields
<1>1. DOMAIN n \subseteq Field /\ DOMAIN n # {} /\ n \in [DOMAIN n -> Int]
  <2>1. DOMAIN n \in (SUBSET Field) \ {{}} /\ n \in [DOMAIN n -> Int]
    BY Zenon, FieldsType
  <2> QED BY <2>1
<1> DEFINE o == Override(m, n)
<1>2. DOMAIN o = DOMAIN m \cup DOMAIN n
  BY DEF Override
<1>3. o \in [DOMAIN o -> Int]
  BY <1>1 DEF Override
<1>4. DOMAIN o \in (SUBSET Field) \ {{}}
  BY <1>1, <1>2
<1> HIDE DEF o
<1>5. o \in Fields
  BY <1>3, <1>4 DEF Fields
<1> QED BY <1>5 DEF o

\* What a command may put at key k: nothing, or a hash that keeps the time to
\* live of the one before it.
Keeps(k, e) ==
  /\ e \in {Missing} \cup Hash
  /\ Volatile(db, k) /\ e # Missing => e.life = "timed"

\* No field outside S holds less in database d than now.
NotBelow(d, S) ==
  \A k \in Key, f \in Field :
    <<k, f>> \notin S => ValueAt(Content(db, k), f) <= ValueAt(Content(d, k), f)

LEMMA EntryNotBelow ==
  ASSUME DbInv, NEW k \in Key, NEW e, NEW S, NEW d, d = [db EXCEPT ![k] = e],
         \A f \in Field :
           <<k, f>> \in S \/ ValueAt(Content(db, k), f) <= ValueAt(Content(d, k), f)
  PROVE  NotBelow(d, S)
<1>1. ASSUME NEW j \in Key, NEW f \in Field, j # k
      PROVE  ValueAt(Content(db, j), f) <= ValueAt(Content(d, j), f)
  <2>1. Content(d, j) = Content(db, j)
    BY <1>1 DEF Content, Present, DbInv
  <2>2. ValueAt(Content(db, j), f) \in Int
    BY ContentType DEF DbInv
  <2> QED BY <2>1, <2>2
<1> QED BY <1>1 DEF NotBelow

LEMMA SameNotBelow ==
  ASSUME DbInv, NEW S
  PROVE  NotBelow(db, S)
<1>1. \A k \in Key, f \in Field : ValueAt(Content(db, k), f) \in Int
  BY ContentType DEF DbInv
<1> QED BY <1>1 DEF NotBelow

LEMMA StoreKeeps ==
  ASSUME DbInv, NEW c, c.key \in Key, NEW val \in Fields
  PROVE  \E e \in Hash : /\ Keeps(c.key, e)
                         /\ e.val = Override(Content(db, c.key), val)
                         /\ Store(db, c, "hash", val) = [db EXCEPT ![c.key] = e]
<1> DEFINE life == IF Volatile(db, c.key) THEN "timed" ELSE "endless"
           new == Override(Content(db, c.key), val)
           e == Entry("hash", new, life)
<1>1. new \in Fields
  BY ContentType, OverrideType DEF DbInv
<1>2. life \in Life /\ (Volatile(db, c.key) => life = "timed")
  BY DEF Life
<1>3. Store(db, c, "hash", val) = [db EXCEPT ![c.key] = e]
  BY DEF Store
<1> HIDE DEF life, new
<1>4. e \in Hash /\ e.val = new /\ e.life = life
  BY <1>1, <1>2 DEF Entry, Hash
<1> HIDE DEF e
<1> QED BY <1>2, <1>3, <1>4, HashIsHash DEF Keeps, new

LEMMA StoreNotBelow ==
  ASSUME DbInv, NEW c, c.key \in Key, NEW val \in Fields, NEW S,
         \A f \in DOMAIN val :
           <<c.key, f>> \in S \/ ValueAt(Content(db, c.key), f) <= val[f]
  PROVE  NotBelow(Store(db, c, "hash", val), S)
<1> DEFINE k == c.key
           m == Content(db, k)
           d == Store(db, c, "hash", val)
<1>1. PICK e \in Hash : e.val = Override(m, val) /\ d = [db EXCEPT ![k] = e]
  BY StoreKeeps
<1>2. Content(d, k) = Override(m, val)
  <2>1. d[k] = e /\ e # Missing
    BY <1>1, HashIsHash DEF DbInv
  <2> HIDE DEF d
  <2> QED BY <1>1, <2>1 DEF Content, Present
<1> HIDE DEF d, m
<1>3. ASSUME NEW f \in Field
      PROVE  <<k, f>> \in S \/ ValueAt(m, f) <= ValueAt(Override(m, val), f)
  <2>1. ValueAt(m, f) \in Int
    BY ContentType DEF DbInv, m
  <2>2. CASE f \in DOMAIN val
    <3>1. ValueAt(Override(m, val), f) = val[f]
      BY <2>2 DEF ValueAt, Override
    <3> QED BY <2>2, <3>1 DEF m
  <2>3. CASE f \notin DOMAIN val
    <3>1. ValueAt(Override(m, val), f) = ValueAt(m, f)
      BY <2>3 DEF ValueAt, Override
    <3> QED BY <2>1, <3>1
  <2> QED BY <2>2, <2>3
<1>4. NotBelow(d, S)
  <2>1. \A f \in Field :
          <<k, f>> \in S \/ ValueAt(Content(db, k), f) <= ValueAt(Content(d, k), f)
    BY <1>2, <1>3 DEF m
  <2> QED BY <1>1, <2>1, EntryNotBelow
<1> QED BY <1>4 DEF d

\* A hash is never refused as a value of another kind.
LEMMA OneKind ==
  ASSUME DbInv, NEW c, c.key \in Key,
         c.op \in {"DEL", "EXPIRE", "HMSET", "HSET", "HINCRBY"}
  PROVE  Rejected(db, c) => c.op = "HMSET" /\ DOMAIN c.map = {}
<1>1. db[c.key] = Missing \/ db[c.key].kind = "hash"
  BY HashIsHash DEF DbInv
<1>2. c.op \in HashOp => KindOf(c.op) = "hash"
  BY DEF KindOf
<1>3. c.op \notin SortedSetOp \cup {"GET", "SETEX"}
  BY DEF SortedSetOp
<1> QED BY <1>1, <1>2, <1>3 DEF Rejected, Present

LEMMA DelEffect ==
  ASSUME NEW c, c.op = "DEL"
  PROVE  Effect(db, c) = [db EXCEPT ![c.key] = Missing]
  BY Zenon DEF Effect

LEMMA ExpireEffect ==
  ASSUME NEW c, c.op = "EXPIRE"
  PROVE  /\ ~Present(db, c.key) => Effect(db, c) = db
         /\ Present(db, c.key) =>
              Effect(db, c) = [db EXCEPT ![c.key] =
                IF c.seconds <= 0 THEN Missing ELSE [db[c.key] EXCEPT !.life = "timed"]]
  BY Zenon DEF Effect

LEMMA SetEffect ==
  ASSUME NEW c, c.op = "HMSET" \/ c.op = "HSET"
  PROVE  Effect(db, c) = Store(db, c, "hash", c.map)
<1>1. c.op \in {"HMSET", "HSET"}
  OBVIOUS
<1>2. c.op # "DEL" /\ c.op # "SETEX" /\ c.op # "EXPIRE" /\ c.op # "PERSIST"
      /\ c.op # "ZADD" /\ c.op \notin {"HINCRBY", "ZINCRBY"}
  OBVIOUS
<1> QED BY <1>1, <1>2, Zenon DEF Effect

LEMMA CountEffect ==
  ASSUME NEW c, c.op = "HINCRBY"
  PROVE  /\ Effect(db, c) = Store(db, c, "hash",
                [x \in {c.member} |-> ValueAt(Content(db, c.key), x) + c.by])
         /\ Reply(db, c) = ValueAt(Content(db, c.key), c.member) + c.by
<1>1. KindOf(c.op) = "hash"
  BY DEF KindOf, HashOp
<1>2. c.op \in {"HINCRBY", "ZINCRBY"} /\ c.op \notin {"HMSET", "HSET"}
      /\ c.op # "DEL" /\ c.op # "SETEX" /\ c.op # "EXPIRE" /\ c.op # "PERSIST"
      /\ c.op # "ZADD" /\ c.op \notin {"DEL", "EXPIRE"} /\ c.op # "EXISTS"
      /\ c.op # "GET" /\ c.op # "TTL"
  OBVIOUS
<1>3. Effect(db, c) = Store(db, c, KindOf(c.op),
        [x \in {c.member} |-> ValueAt(Content(db, c.key), x) + c.by])
  BY <1>2, Zenon DEF Effect
<1>4. Reply(db, c) = ValueAt(Content(db, c.key), c.member) + c.by
  BY <1>2, Zenon DEF Reply
<1> QED BY <1>1, <1>3, <1>4
-----------------------------------------------------------------------------
(* A command that writes, whichever it is.                                 *)

LEMMA KeepsItself ==
  ASSUME DbInv, NEW k \in Key
  PROVE  Keeps(k, db[k]) /\ db = [db EXCEPT ![k] = db[k]]
  BY DEF DbInv, Keeps, Volatile

LEMMA ExpireKeeps ==
  ASSUME DbInv, NEW c \in ExpireCommand
  PROVE  /\ c.key \in Key /\ c.op = "EXPIRE" /\ c.failed = 0
         /\ \E e : /\ Keeps(c.key, e)
                   /\ Execute(db, c) = [db EXCEPT ![c.key] = e]
                   /\ e = Missing \/ (Present(db, c.key) /\ e.life = "timed")
         /\ NotBelow(Execute(db, c), Resets(c))
<1> DEFINE k == c.key
<1>1. k \in Key /\ c.op = "EXPIRE" /\ c.failed = 0
  BY DEF ExpireCommand, expire
<1>2. Execute(db, c) = Effect(db, c)
  BY <1>1, OneKind DEF Execute
<1>3. CASE ~Present(db, k)
  <2>1. Execute(db, c) = [db EXCEPT ![k] = db[k]] /\ Keeps(k, db[k]) /\ db[k] = Missing
    BY <1>1, <1>2, <1>3, ExpireEffect, KeepsItself DEF Present
  <2>2. NotBelow(Execute(db, c), Resets(c))
    <3>1. Execute(db, c) = db
      BY <1>1, <1>2, <1>3, ExpireEffect
    <3> QED BY <3>1, SameNotBelow
  <2> QED BY <1>1, <2>1, <2>2
<1>4. CASE Present(db, k)
  <2>1. db[k] \in Hash
    BY <1>1, <1>4 DEF DbInv, Present
  <2> DEFINE timed == [db[k] EXCEPT !.life = "timed"]
  <2>2. timed \in Hash /\ timed.life = "timed" /\ timed.val = db[k].val
    BY <2>1, HashIsHash DEF Hash
  <2>3. Execute(db, c) = [db EXCEPT ![k] = IF c.seconds <= 0 THEN Missing ELSE timed]
    BY <1>1, <1>2, <1>4, ExpireEffect
  <2> HIDE DEF timed
  <2>4. PICK e \in {Missing, timed} :
          /\ Execute(db, c) = [db EXCEPT ![k] = e]
          /\ e = Missing => c.seconds <= 0
    BY <2>2, <2>3, HashIsHash
  <2>5. Keeps(k, e)
    BY <2>2, <2>4 DEF Keeps
  <2>6. NotBelow(Execute(db, c), Resets(c))
    <3>1. CASE e = Missing
      <4>1. Resets(c) = Of(k)
        BY <1>1, <2>4, <3>1, Zenon DEF Resets
      <4>2. \A f \in Field : <<k, f>> \in Resets(c)
        BY <4>1 DEF Of
      <4> QED BY <1>1, <2>4, <4>2, EntryNotBelow
    <3>2. CASE e = timed
      <4>1. Content(Execute(db, c), k) = Content(db, k)
        <5>1. Execute(db, c)[k] = timed /\ timed # Missing
          BY <1>1, <2>2, <2>4, <3>2, HashIsHash DEF DbInv
        <5> QED BY <1>4, <2>2, <5>1 DEF Content, Present
      <4>2. \A f \in Field : ValueAt(Content(db, k), f) <= ValueAt(Content(Execute(db, c), k), f)
        BY <1>1, <4>1, ContentType DEF DbInv
      <4> QED BY <1>1, <2>4, <4>2, EntryNotBelow
    <3> QED BY <2>4, <3>1, <3>2
  <2> QED BY <1>1, <1>4, <2>2, <2>4, <2>5, <2>6
<1> QED BY <1>3, <1>4

LEMMA DelKeeps ==
  ASSUME DbInv, NEW c \in DelCommand
  PROVE  /\ c.key \in Key /\ c.op = "DEL"
         /\ \E e : Keeps(c.key, e) /\ Execute(db, c) = [db EXCEPT ![c.key] = e]
         /\ NotBelow(Execute(db, c), Resets(c))
<1>1. c.key \in Key /\ c.op = "DEL"
  BY DEF DelCommand, delete
<1>2. Execute(db, c) = [db EXCEPT ![c.key] = Missing]
  BY <1>1, OneKind, DelEffect DEF Execute
<1>3. Keeps(c.key, Missing)
  BY DEF Keeps
<1>4. Resets(c) = Of(c.key)
  BY <1>1, Zenon DEF Resets
<1>5. \A f \in Field : <<c.key, f>> \in Resets(c)
  BY <1>4 DEF Of
<1>6. NotBelow(Execute(db, c), Resets(c))
  BY <1>1, <1>2, <1>5, EntryNotBelow
<1> QED BY <1>1, <1>2, <1>3, <1>6

LEMMA SetKeeps ==
  ASSUME DbInv, NEW c \in SetCommand \cup HSetCommand
  PROVE  /\ c.key \in Key /\ c.op \in {"HMSET", "HSET"}
         /\ \E e : Keeps(c.key, e) /\ Execute(db, c) = [db EXCEPT ![c.key] = e]
         /\ NotBelow(Execute(db, c), Resets(c))
<1>1. /\ c.key \in Key /\ c.op \in {"HMSET", "HSET"}
      /\ DOMAIN c.map \subseteq Field /\ c.map \in [DOMAIN c.map -> Int]
      /\ c.op = "HSET" => DOMAIN c.map # {}
  <2>1. ASSUME NEW k \in Key, NEW map \in Maps, c = hmSet(k, map)
        PROVE  /\ c.key \in Key /\ c.op \in {"HMSET", "HSET"}
               /\ DOMAIN c.map \subseteq Field /\ c.map \in [DOMAIN c.map -> Int]
               /\ c.op = "HSET" => DOMAIN c.map # {}
    <3>1. c.key = k /\ c.op = "HMSET" /\ c.map = map
      BY <2>1 DEF hmSet
    <3>2. PICK fs \in SUBSET Field : map \in [fs -> Number]
      BY DEF Maps
    <3>3. DOMAIN map \subseteq Field /\ map \in [DOMAIN map -> Int]
      BY <3>2, NumberAssumption
    <3> QED BY <3>1, <3>3
  <2>2. ASSUME NEW k \in Key, NEW f \in Field, NEW v \in Number, c = hSet(k, f, v)
        PROVE  /\ c.key \in Key /\ c.op \in {"HMSET", "HSET"}
               /\ DOMAIN c.map \subseteq Field /\ c.map \in [DOMAIN c.map -> Int]
               /\ c.op = "HSET" => DOMAIN c.map # {}
    <3>1. c.key = k /\ c.op = "HSET" /\ c.map = [x \in {f} |-> v] /\ v \in Int
      BY <2>2, NumberAssumption DEF hSet
    <3> QED BY <3>1
  <2> QED BY <2>1, <2>2 DEF SetCommand, HSetCommand
<1>2. CASE Rejected(db, c)
  <2>1. Execute(db, c) = [db EXCEPT ![c.key] = db[c.key]] /\ Keeps(c.key, db[c.key])
    BY <1>1, <1>2, KeepsItself DEF Execute
  <2>2. NotBelow(Execute(db, c), Resets(c))
    BY <1>2, SameNotBelow DEF Execute
  <2> QED BY <1>1, <2>1, <2>2
<1>3. CASE ~Rejected(db, c)
  <2>1. DOMAIN c.map # {}
    <3>1. c.op = "HMSET" /\ DOMAIN c.map = {} => Rejected(db, c)
      BY DEF Rejected
    <3> QED BY <1>1, <1>3, <3>1
  <2>2. c.map \in Fields
    BY <1>1, <2>1 DEF Fields
  <2>3. Execute(db, c) = Store(db, c, "hash", c.map)
    BY <1>1, <1>3, SetEffect DEF Execute
  <2>4. Resets(c) = {c.key} \X DOMAIN c.map
    BY <1>1, Zenon DEF Resets
  <2>5. NotBelow(Execute(db, c), Resets(c))
    BY <1>1, <2>2, <2>3, <2>4, StoreNotBelow
  <2> QED BY <1>1, <2>2, <2>3, <2>5, StoreKeeps
<1> QED BY <1>2, <1>3

\* A count is never refused, and answers the value it leaves.
LEMMA CountKeeps ==
  ASSUME DbInv, NEW k \in Key, NEW f \in Field, NEW v \in Number
  PROVE  LET c == hincrby(k, f, v)
             value == ValueAt(Content(db, k), f)
         IN /\ c.key = k /\ c.op = "HINCRBY" /\ c.failed = Null
            /\ ~Rejected(db, c) /\ Answer(c) = value + v
            /\ value \in Int /\ v \in Int
            /\ \E e \in Hash : /\ Keeps(k, e) /\ Execute(db, c) = [db EXCEPT ![k] = e]
                               /\ ValueAt(e.val, f) = value + v
            /\ Resets(c) = IF v <= 0 THEN {<<k, f>>} ELSE {}
            /\ NotBelow(Execute(db, c), Resets(c))
<1> DEFINE c == hincrby(k, f, v)
           m == Content(db, k)
           value == ValueAt(m, f)
           new == [x \in {f} |-> ValueAt(m, x) + v]
<1>1. /\ c.key = k /\ c.op = "HINCRBY" /\ c.member = f /\ c.by = v
      /\ c.failed = Null
  BY DEF hincrby
<1>2. value \in Int /\ v \in Int
  BY ContentType, NumberAssumption DEF DbInv
<1>3. ~Rejected(db, c)
  BY <1>1, OneKind
<1>4. Effect(db, c) = Store(db, c, "hash", new) /\ Answer(c) = value + v
  BY <1>1, CountEffect DEF Answer
<1>5. DOMAIN new = {f} /\ new[f] = value + v
  OBVIOUS
<1> HIDE DEF value
<1>6. new \in Fields
  <2>1. DOMAIN new \in (SUBSET Field) \ {{}}
    BY <1>5
  <2>2. new \in [DOMAIN new -> Int]
    BY <1>2, <1>5
  <2> HIDE DEF new
  <2> QED BY <2>1, <2>2 DEF Fields
<1> HIDE DEF c, new
<1>7. PICK e \in Hash : /\ Keeps(k, e) /\ e.val = Override(m, new)
                        /\ Store(db, c, "hash", new) = [db EXCEPT ![k] = e]
  BY <1>1, <1>6, StoreKeeps
<1>8. ValueAt(Override(m, new), f) = new[f]
  BY <1>5 DEF ValueAt, Override
<1>9. Execute(db, c) = [db EXCEPT ![k] = e] /\ ValueAt(e.val, f) = value + v
  BY <1>3, <1>4, <1>5, <1>7, <1>8 DEF Execute
<1>10. Resets(c) = IF v <= 0 THEN {<<k, f>>} ELSE {}
  BY <1>1, Zenon DEF Resets
<1>11. NotBelow(Execute(db, c), Resets(c))
  <2>1. \A g \in DOMAIN new : <<c.key, g>> \in Resets(c) \/ ValueAt(Content(db, c.key), g) <= new[g]
    BY <1>1, <1>2, <1>5, <1>10 DEF value
  <2> QED BY <1>1, <1>3, <1>4, <1>6, <2>1, StoreNotBelow DEF Execute
<1> QED BY <1>1, <1>2, <1>3, <1>4, <1>7, <1>9, <1>10, <1>11 DEF c, value

LEMMA CommandKeeps ==
  ASSUME DbInv, NEW c \in Command
  PROVE  /\ c.key \in Key /\ c.op \notin Reads
         /\ \E e : Keeps(c.key, e) /\ Execute(db, c) = [db EXCEPT ![c.key] = e]
         /\ NotBelow(Execute(db, c), Resets(c))
<1>1. CASE c \in ExpireCommand
  BY <1>1, ExpireKeeps DEF Reads
<1>2. CASE c \in DelCommand
  BY <1>2, DelKeeps DEF Reads
<1>3. CASE c \in SetCommand \cup HSetCommand
  BY <1>3, SetKeeps DEF Reads
<1>4. CASE c \in CountCommand
  <2>1. PICK k \in Key, f \in Field, v \in Number : c = hincrby(k, f, v)
    BY <1>4 DEF CountCommand
  <2> QED BY <2>1, CountKeeps DEF Reads
<1> QED BY <1>1, <1>2, <1>3, <1>4 DEF Command

\* What a call that writes may leave, whoever gets the answer.
LEMMA WriteOutcome ==
  ASSUME IInv, NEW c \in Command, NEW o \in Outcomes(c), Ends(o)
  PROVE  /\ db' \in {db, Execute(db, c)}
         /\ IsABag(doubt') /\ InDoubt' \subseteq Command
         /\ faults' \in 0 .. MaxFaults
         /\ o.faults # 1 => db' = Execute(db, c)
         /\ o.ret # c.failed =>
              db' = Execute(db, c) /\ ~Rejected(db, c) /\ o.ret = Answer(c)
<1>1. c.op \notin Reads
  BY CommandKeeps DEF IInv
<1>2. \/ o = Outcome(Execute(db, c), IF Rejected(db, c) THEN c.failed ELSE Answer(c), EmptyBag, 0)
      \/ o = Outcome(db, c.failed, EmptyBag, 1)
      \/ o = Outcome(Execute(db, c), c.failed, EmptyBag, 1)
      \/ o = Outcome(db, c.failed, SetToBag({c}), 1)
  BY <1>1 DEF Outcomes, Answered, Unanswered
<1>3. /\ o.db \in {db, Execute(db, c)} /\ o.doubt \in {EmptyBag, SetToBag({c})} /\ o.faults \in {0, 1}
      /\ o.faults # 1 => o.db = Execute(db, c)
      /\ o.ret # c.failed => o.db = Execute(db, c) /\ ~Rejected(db, c) /\ o.ret = Answer(c)
  <2> DEFINE after == Execute(db, c)
             answer == Answer(c)
             refused == Rejected(db, c)
  <2> HIDE DEF after, answer, refused
  <2>1. CASE o = Outcome(after, IF refused THEN c.failed ELSE answer, EmptyBag, 0)
    <3>1. /\ o.db = after /\ o.doubt = EmptyBag /\ o.faults = 0
          /\ o.ret = IF refused THEN c.failed ELSE answer
      BY <2>1 DEF Outcome
    <3> QED BY <3>1 DEF after, answer, refused
  <2>2. CASE o = Outcome(db, c.failed, EmptyBag, 1)
    <3>1. o.db = db /\ o.ret = c.failed /\ o.doubt = EmptyBag /\ o.faults = 1
      BY <2>2 DEF Outcome
    <3> QED BY <3>1
  <2>3. CASE o = Outcome(after, c.failed, EmptyBag, 1)
    <3>1. o.db = after /\ o.ret = c.failed /\ o.doubt = EmptyBag /\ o.faults = 1
      BY <2>3 DEF Outcome
    <3> QED BY <3>1 DEF after
  <2>4. CASE o = Outcome(db, c.failed, SetToBag({c}), 1)
    <3>1. o.db = db /\ o.ret = c.failed /\ o.doubt = SetToBag({c}) /\ o.faults = 1
      BY <2>4 DEF Outcome
    <3> QED BY <3>1
  <2> QED BY <1>2, <2>1, <2>2, <2>3, <2>4 DEF after, answer, refused
<1>4. o.faults <= faults /\ db' = o.db /\ doubt' = doubt (+) o.doubt /\ faults' = faults - o.faults
  BY DEF Ends
<1>5. faults' \in 0 .. MaxFaults
  BY <1>3, <1>4, FaultsAssumption DEF IInv, BoundInv
<1>6. IsABag(doubt') /\ InDoubt' \subseteq Command
  <2>1. IsABag(doubt) /\ InDoubt \subseteq Command
    BY DEF IInv, DoubtInv
  <2>2. CASE o.doubt = EmptyBag
    BY <1>4, <2>1, <2>2, OneMore
  <2>3. CASE o.doubt = SetToBag({c})
    <3>1. IsABag(doubt') /\ InDoubt' = InDoubt \cup {c}
      BY <1>4, <2>1, <2>3, OneMore
    <3> QED BY <2>1, <3>1
  <2> QED BY <1>3, <2>2, <2>3
<1> QED BY <1>3, <1>4, <1>5, <1>6
-----------------------------------------------------------------------------
(* What a step does to one key decides what it does to the invariant.      *)

LEMMA DbStep ==
  ASSUME DbInv, NEW k \in Key, NEW e, Keeps(k, e), db' = [db EXCEPT ![k] = e]
  PROVE  /\ DbInv'
         /\ db'[k] = e
         /\ \A j \in Key : Volatile(db, j) /\ Present(db', j) => Volatile(db', j)
         /\ \A j \in Key : j # k => db'[j] = db[j]
<1>1. db'[k] = e /\ (\A j \in Key : j # k => db'[j] = db[j]) /\ DbInv'
  BY DEF DbInv, Keeps
<1>2. Volatile(db, k) /\ Present(db', k) => Volatile(db', k)
  BY <1>1 DEF Keeps, Volatile, Present
<1>3. \A j \in Key : j # k => (Present(db', j) <=> Present(db, j))
                              /\ (Volatile(db, j) => Volatile(db', j))
  BY <1>1 DEF Volatile, Present
<1> QED BY <1>1, <1>2, <1>3

\* The numbers of a field stay in order as long as it does not fall, or is
\* reset, and only a number that is the new value, and more than the old one,
\* is handed out.
LEMMA TicketsStep ==
  ASSUME IInv, DbInv', NEW reset, NEW handed, NEW owed, NEW failed,
         Records(reset, handed, owed, failed), NotBelow(db', reset),
         \A k \in Key, f \in Field : <<k, f>> \in DOMAIN handed =>
            /\ handed[<<k, f>>] = ValueAt(Content(db', k), f)
            /\ <<k, f>> \in reset \/ handed[<<k, f>>] > ValueAt(Content(db, k), f)
  PROVE  tickets' \in [Key -> [Field -> Seq(Int)]] /\ TicketsIncrease'
<1>1. ASSUME NEW k \in Key, NEW f \in Field
      PROVE  /\ tickets'[k][f] \in Seq(Int)
             /\ \A i, j \in DOMAIN tickets'[k][f] :
                  i < j => tickets'[k][f][i] < tickets'[k][f][j]
             /\ \A i \in DOMAIN tickets'[k][f] :
                  tickets'[k][f][i] <= ValueAt(Content(db', k), f)
  <2>1. PICK a \in Int : a = ValueAt(Content(db, k), f)
    BY ContentType DEF IInv, DbInv
  <2>2. PICK b \in Int : b = ValueAt(Content(db', k), f)
    BY ContentType DEF DbInv
  <2>3. PICK s \in Seq(Int) :
          /\ s = IF <<k, f>> \in reset THEN <<>> ELSE tickets[k][f]
          /\ \A i, j \in DOMAIN s : i < j => s[i] < s[j]
          /\ \A i \in DOMAIN s : s[i] <= b
          /\ \A i \in DOMAIN s : s[i] <= a /\ <<k, f>> \notin reset
    <3>1. CASE <<k, f>> \in reset
      <4>1. <<>> \in Seq(Int) /\ DOMAIN <<>> = {}
        OBVIOUS
      <4> QED BY <3>1, <4>1
    <3>2. CASE <<k, f>> \notin reset
      <4>1. PICK s \in Seq(Int) : s = tickets[k][f]
        BY DEF IInv, HistoryInv
      <4>2. /\ \A i, j \in DOMAIN s : i < j => s[i] < s[j]
            /\ \A i \in DOMAIN s : s[i] <= a
        BY <2>1, <4>1 DEF IInv, TicketsIncrease
      <4>3. a <= b
        BY <2>1, <2>2, <3>2 DEF NotBelow
      <4>4. \A i \in DOMAIN s : s[i] <= b
        BY <4>2, <4>3
      <4> QED BY <3>2, <4>1, <4>2, <4>4
    <3> QED BY <3>1, <3>2
  <2>4. tickets'[k][f] = s \o (IF <<k, f>> \in DOMAIN handed THEN <<handed[<<k, f>>]>> ELSE <<>>)
    BY <2>3 DEF Records
  <2>5. CASE <<k, f>> \in DOMAIN handed
    <3>1. tickets'[k][f] = s \o <<b>> /\ (<<k, f>> \in reset \/ a < b)
      BY <2>1, <2>2, <2>4, <2>5
    <3>2. s \o <<b>> = Append(s, b)
      OBVIOUS
    <3>3. ASSUME NEW i \in DOMAIN s PROVE s[i] < b
      <4>1. s[i] \in Int
        BY ElementOfSeq, LenProperties
      <4>2. a < b /\ s[i] <= a
        BY <2>3, <3>1
      <4> QED BY <4>1, <4>2
    <3>4. /\ Append(s, b) \in Seq(Int)
          /\ \A i, j \in DOMAIN Append(s, b) : i < j => Append(s, b)[i] < Append(s, b)[j]
          /\ \A i \in DOMAIN Append(s, b) : Append(s, b)[i] <= b
      <4>1. \A i, j \in DOMAIN s : i < j => s[i] < s[j]
        BY <2>3
      <4>2. /\ Append(s, b) \in Seq(Int) /\ DOMAIN s = 1 .. Len(s)
            /\ Len(s) \in Nat
            /\ DOMAIN Append(s, b) = 1 .. Len(s) + 1
            /\ Append(s, b)[Len(s) + 1] = b
            /\ \A i \in DOMAIN s : Append(s, b)[i] = s[i]
        OBVIOUS
      <4> QED BY <3>3, <4>1, <4>2
    <3> QED BY <2>2, <3>1, <3>2, <3>4
  <2>6. CASE <<k, f>> \notin DOMAIN handed
    <3>1. tickets'[k][f] = s
      BY <2>4, <2>6
    <3> QED BY <2>2, <2>3, <3>1
  <2> QED BY <2>5, <2>6
<1>2. tickets' = [k \in Key |-> [f \in Field |-> tickets'[k][f]]]
  BY DEF Records
<1>3. tickets' \in [Key -> [Field -> Seq(Int)]]
  BY <1>1, <1>2
<1>4. TicketsIncrease'
  BY <1>1 DEF TicketsIncrease
<1> QED BY <1>3, <1>4

\* A key stays for ever only if the history says why.
LEMMA LifeStep ==
  ASSUME IInv, NEW reset, NEW handed, NEW owed, NEW failed,
         Records(reset, handed, owed, failed),
         \A k \in Key : Volatile(db, k) /\ Present(db', k) => Volatile(db', k),
         \A k \in owed : ~Present(db, k) /\ Present(db', k) =>
            \E t \in Thread : rest'[t] # Null /\ rest'[t].key = k,
         \A t \in Thread : rest[t] # Null =>
            \/ rest'[t] = rest[t]
            \/ rest[t].key \in failed
            \/ Present(db', rest[t].key) => Volatile(db', rest[t].key)
  PROVE  exempt' \subseteq Key /\ CacheExpires'
<1>1. exempt' = (exempt \cup (Made \ owed) \cup failed) \cap There
  BY DEF Records
<1>2. exempt' \subseteq Key
  BY <1>1 DEF There
<1>3. ASSUME NEW k \in Key, Present(db', k), ~Volatile(db', k)
      PROVE  k \in exempt' \/ \E t \in Thread : rest'[t] # Null /\ rest'[t].key = k
  <2>1. k \in There
    BY <1>3 DEF There
  <2>2. CASE ~Present(db, k)
    <3>1. k \in Made
      BY <1>3, <2>2 DEF Made
    <3> QED BY <1>1, <1>3, <2>1, <2>2, <3>1
  <2>3. CASE Present(db, k) /\ ~Volatile(db, k)
    <3>1. CASE k \in exempt
      BY <1>1, <2>1, <3>1
    <3>2. CASE k \notin exempt
      <4>1. PICK t \in Thread : rest[t] # Null /\ rest[t].key = k
        BY <2>3, <3>2 DEF IInv, CacheExpires
      <4> QED BY <1>1, <1>3, <2>1, <4>1
    <3> QED BY <3>1, <3>2
  <2> QED BY <1>3, <2>2, <2>3
<1> QED BY <1>2, <1>3 DEF CacheExpires

\* The database after a command that was sent, or that arrives late.
LEMMA WriteStep ==
  ASSUME IInv, NEW c \in Command, db' \in {db, Execute(db, c)}
  PROVE  /\ DbInv' /\ NotBelow(db', Resets(c))
         /\ \A j \in Key : Volatile(db, j) /\ Present(db', j) => Volatile(db', j)
<1>1. PICK e : Keeps(c.key, e) /\ Execute(db, c) = [db EXCEPT ![c.key] = e]
  BY CommandKeeps DEF IInv
<1>2. c.key \in Key
  BY CommandKeeps DEF IInv
<1>3. CASE db' = db
  BY <1>3, SameNotBelow DEF IInv, DbInv
<1>4. CASE db' = Execute(db, c)
  BY <1>1, <1>2, <1>4, CommandKeeps, DbStep DEF IInv
<1> QED BY <1>3, <1>4

LEMMA NothingHanded == DOMAIN Nothing = {}
  BY DEF Nothing
-----------------------------------------------------------------------------
(* The steps.                                                              *)

LEMMA InitIInv == Init => IInv
<1> SUFFICES ASSUME Init PROVE IInv
  OBVIOUS
<1> USE DEF Init, RedisInit
<1>1. DbInv /\ DoubtInv /\ RestInv
  BY NoMore DEF DbInv, EmptyDb, DoubtInv, RestInv
<1>2. BoundInv
  BY FaultsAssumption, MaxCallsAssumption DEF BoundInv
<1>3. HistoryInv
  BY DEF HistoryInv
<1>4. TicketsIncrease
  BY DEF TicketsIncrease
<1>5. CacheExpires
  BY DEF CacheExpires, EmptyDb, Present
<1> QED BY <1>1, <1>2, <1>3, <1>4, <1>5 DEF IInv

LEMMA AsksBound ==
  ASSUME IInv, NEW t \in Thread, Asks(t), faults' \in 0 .. MaxFaults
  PROVE  BoundInv'
  BY MaxCallsAssumption DEF IInv, BoundInv, Asks

\* A call of one command that hands out no number.
LEMMA SendsIInv ==
  ASSUME IInv, NEW t \in Thread, NEW c \in Command, Sends(t, c)
  PROVE  IInv'
<1>1. PICK o \in Outcomes(c) : Ends(o)
  BY DEF Sends
<1>2. Asks(t) /\ Records(Resets(c), Nothing, {}, {}) /\ rest' = rest
  BY DEF Sends
<1>3. db' \in {db, Execute(db, c)} /\ IsABag(doubt') /\ InDoubt' \subseteq Command /\ faults' \in 0 .. MaxFaults
  BY <1>1, WriteOutcome
<1>4. /\ DbInv' /\ NotBelow(db', Resets(c))
      /\ \A j \in Key : Volatile(db, j) /\ Present(db', j) => Volatile(db', j)
  BY <1>3, WriteStep
<1>5. DoubtInv' /\ BoundInv' /\ RestInv'
  BY <1>2, <1>3, AsksBound DEF DoubtInv, RestInv, IInv
<1>6. tickets' \in [Key -> [Field -> Seq(Int)]] /\ TicketsIncrease'
  BY <1>2, <1>4, NothingHanded, TicketsStep
<1>7. exempt' \subseteq Key /\ CacheExpires'
  BY <1>2, <1>4, LifeStep
<1> QED BY <1>4, <1>5, <1>6, <1>7 DEF IInv, HistoryInv

LEMMA HincrbyIInv ==
  ASSUME IInv, NEW t \in Thread, NEW k \in Key, NEW f \in Field, NEW v \in Number,
         Hincrby(t, k, f, v)
  PROVE  IInv'
<1> DEFINE c == hincrby(k, f, v)
<1>1. PICK o \in Outcomes(c) :
        /\ Ends(o)
        /\ Records(Resets(c), IF o.ret = Null THEN Nothing ELSE [x \in {<<k, f>>} |-> o.ret],
                   {}, {})
  BY DEF Hincrby
<1>2. Asks(t) /\ rest' = rest
  BY DEF Hincrby
<1>3. c \in Command
  BY DEF Command, CountCommand
<1>4. PICK value \in Int, e \in Hash :
        /\ c.failed = Null /\ Answer(c) = value + v
        /\ value = ValueAt(Content(db, k), f) /\ v \in Int
        /\ Resets(c) = IF v <= 0 THEN {<<k, f>>} ELSE {}
        /\ Keeps(k, e) /\ Execute(db, c) = [db EXCEPT ![k] = e]
        /\ ValueAt(e.val, f) = value + v
  BY CountKeeps DEF IInv
<1> HIDE DEF c
<1>5. /\ db' \in {db, Execute(db, c)} /\ IsABag(doubt') /\ InDoubt' \subseteq Command /\ faults' \in 0 .. MaxFaults
      /\ o.ret # Null => db' = Execute(db, c) /\ o.ret = value + v
  BY <1>1, <1>3, <1>4, WriteOutcome
<1>6. /\ DbInv' /\ NotBelow(db', Resets(c))
      /\ \A j \in Key : Volatile(db, j) /\ Present(db', j) => Volatile(db', j)
  BY <1>3, <1>5, WriteStep
<1>7. DoubtInv' /\ BoundInv' /\ RestInv'
  BY <1>2, <1>5, AsksBound DEF DoubtInv, RestInv, IInv
<1>8. tickets' \in [Key -> [Field -> Seq(Int)]] /\ TicketsIncrease'
  <2>1. CASE o.ret = Null
    <3>1. Records(Resets(c), Nothing, {}, {})
      BY <1>1, <2>1
    <3> QED BY <1>6, <3>1, NothingHanded, TicketsStep
  <2>2. CASE o.ret # Null
    <3> DEFINE handed == [x \in {<<k, f>>} |-> o.ret]
    <3>1. Records(Resets(c), handed, {}, {})
      BY <1>1, <2>2
    <3>2. DOMAIN handed = {<<k, f>>} /\ handed[<<k, f>>] = value + v
      BY <1>5, <2>2
    <3>3. Content(db', k) = e.val
      <4>1. db'[k] = e
        BY <1>4, <1>5, <2>2, DbStep DEF IInv
      <4>2. e # Missing
        BY HashIsHash
      <4> QED BY <4>1, <4>2 DEF Content, Present
    <3>4. ValueAt(Content(db', k), f) = value + v
      BY <1>4, <3>3
    <3>5. <<k, f>> \in Resets(c) \/ value + v > ValueAt(Content(db, k), f)
      BY <1>4
    <3> HIDE DEF handed
    <3>6. \A j \in Key, g \in Field : <<j, g>> \in DOMAIN handed =>
            /\ handed[<<j, g>>] = ValueAt(Content(db', j), g)
            /\ <<j, g>> \in Resets(c) \/ handed[<<j, g>>] > ValueAt(Content(db, j), g)
      BY <3>2, <3>4, <3>5
    <3> QED BY <1>6, <3>1, <3>6, TicketsStep
  <2> QED BY <2>1, <2>2
<1>9. exempt' \subseteq Key /\ CacheExpires'
  BY <1>1, <1>2, <1>6, LifeStep
<1> QED BY <1>6, <1>7, <1>8, <1>9 DEF IInv, HistoryInv

\* The thread that has sent HMSET owes the EXPIRE.
LEMMA HmSetForIInv ==
  ASSUME IInv, NEW t \in Thread, NEW k \in Key, NEW map \in Maps, NEW s \in Seconds,
         HmSetFor(t, k, map, s)
  PROVE  IInv'
<1> DEFINE c == hmSet(k, map)
           owes == expire(k, s)
<1>1. Commands(k, map, s)[1] = c /\ Commands(k, map, s)[2] = owes
  BY DEF Commands
<1>2. PICK o \in Outcomes(c) : Ends(o)
  BY <1>1 DEF HmSetFor
<1>3. Asks(t) /\ Records(Resets(c), Nothing, {k}, {}) /\ rest' = [rest EXCEPT ![t] = owes]
  BY <1>1 DEF HmSetFor
<1>4. c \in Command
  BY DEF Command, SetCommand
<1>5. owes \in ExpireCommand /\ owes.key = k
  BY DEF ExpireCommand, expire
<1> HIDE DEF c, owes
<1>6. owes # Null
  BY <1>5, NullAssumption DEF ExpireCommand
<1>7. rest[t] = Null /\ rest'[t] = owes /\ \A u \in Thread \ {t} : rest'[u] = rest[u]
  BY <1>3 DEF IInv, RestInv, Asks
<1>8. db' \in {db, Execute(db, c)} /\ IsABag(doubt') /\ InDoubt' \subseteq Command /\ faults' \in 0 .. MaxFaults
  BY <1>2, <1>4, WriteOutcome
<1>9. /\ DbInv' /\ NotBelow(db', Resets(c))
      /\ \A j \in Key : Volatile(db, j) /\ Present(db', j) => Volatile(db', j)
  BY <1>4, <1>8, WriteStep
<1>10. DoubtInv' /\ BoundInv' /\ RestInv'
  <2>1. RestInv'
    BY <1>3, <1>5 DEF IInv, RestInv
  <2> QED BY <1>3, <1>8, <2>1, AsksBound DEF DoubtInv
<1>11. tickets' \in [Key -> [Field -> Seq(Int)]] /\ TicketsIncrease'
  BY <1>3, <1>9, NothingHanded, TicketsStep
<1>12. exempt' \subseteq Key /\ CacheExpires'
  <2>1. \A u \in Thread : rest[u] # Null => rest'[u] = rest[u]
    BY <1>7
  <2>2. \A j \in {k} : \E u \in Thread : rest'[u] # Null /\ rest'[u].key = j
    BY <1>5, <1>6, <1>7
  <2> QED BY <1>3, <1>9, <2>1, <2>2, LifeStep
<1> QED BY <1>9, <1>10, <1>11, <1>12 DEF IInv, HistoryInv

\* EXPIRE, unless it fails, leaves the key with a time to live or without an
\* entry; it never makes one.
LEMMA FinishIInv ==
  ASSUME IInv, NEW t \in Thread, Finish(t)
  PROVE  IInv'
<1> DEFINE c == rest[t]
           k == c.key
<1>1. PICK o \in Outcomes(c) :
        Ends(o) /\ Records(Resets(c), Nothing, {k}, IF o.faults = 1 THEN {k} ELSE {})
  BY DEF Finish
<1>2. c # Null /\ rest' = [rest EXCEPT ![t] = Null] /\ todo' = todo
  BY DEF Finish
<1>3. c \in ExpireCommand
  BY <1>2 DEF IInv, RestInv
<1> HIDE DEF c
<1>4. c \in Command /\ k \in Key
  BY <1>3, ExpireKeeps DEF Command, IInv
<1>5. PICK e : /\ Keeps(k, e) /\ Execute(db, c) = [db EXCEPT ![k] = e]
               /\ e = Missing \/ (Present(db, k) /\ e.life = "timed")
  BY <1>3, ExpireKeeps DEF IInv
<1>6. /\ db' \in {db, Execute(db, c)} /\ IsABag(doubt') /\ InDoubt' \subseteq Command /\ faults' \in 0 .. MaxFaults
      /\ o.faults # 1 => db' = Execute(db, c)
  BY <1>1, <1>4, WriteOutcome
<1>7. /\ DbInv' /\ NotBelow(db', Resets(c))
      /\ \A j \in Key : Volatile(db, j) /\ Present(db', j) => Volatile(db', j)
  BY <1>4, <1>6, WriteStep
<1>8. DoubtInv' /\ BoundInv' /\ RestInv'
  BY <1>2, <1>6 DEF DoubtInv, BoundInv, RestInv, IInv
<1>9. tickets' \in [Key -> [Field -> Seq(Int)]] /\ TicketsIncrease'
  BY <1>1, <1>7, NothingHanded, TicketsStep
<1>10. db' = Execute(db, c) => db'[k] = e
  BY <1>4, <1>5 DEF IInv, DbInv
<1>11. Present(db', k) => Present(db, k)
  BY <1>5, <1>6, <1>10 DEF Present
<1>12. o.faults = 1 \/ (Present(db', k) => Volatile(db', k))
  BY <1>5, <1>6, <1>10 DEF Present, Volatile
<1>13. exempt' \subseteq Key /\ CacheExpires'
  <2> DEFINE failed == IF o.faults = 1 THEN {k} ELSE {}
  <2>1. o.faults = 1 => k \in failed
    OBVIOUS
  <2>2. Records(Resets(c), Nothing, {k}, failed)
    BY <1>1
  <2>3. \A j \in {k} : ~(~Present(db, j) /\ Present(db', j))
    BY <1>11
  <2>4. \A u \in Thread : rest[u] # Null =>
          \/ rest'[u] = rest[u]
          \/ rest[u].key \in failed
          \/ Present(db', rest[u].key) => Volatile(db', rest[u].key)
    <3> SUFFICES ASSUME NEW u \in Thread, rest[u] # Null, rest'[u] # rest[u]
                 PROVE  \/ rest[u].key \in failed
                        \/ Present(db', rest[u].key) => Volatile(db', rest[u].key)
      OBVIOUS
    <3>1. u = t
      BY <1>2 DEF IInv, RestInv
    <3> QED BY <1>12, <2>1, <3>1 DEF c
  <2> HIDE DEF failed
  <2> QED BY <1>7, <2>2, <2>3, <2>4, LifeStep
<1> QED BY <1>7, <1>8, <1>9, <1>13 DEF IInv, HistoryInv

LEMMA LateIInv ==
  ASSUME IInv, NEW c \in InDoubt, Late(c)
  PROVE  IInv'
<1>1. /\ db' = Execute(db, c) /\ doubt' = doubt (-) SetToBag({c}) /\ faults' = faults
      /\ Records(Resets(c), Nothing, {}, {}) /\ todo' = todo /\ rest' = rest
  BY DEF Late, ExecuteLate
<1>2. c \in Command
  BY DEF IInv, DoubtInv
<1>3. /\ DbInv' /\ NotBelow(db', Resets(c))
      /\ \A j \in Key : Volatile(db, j) /\ Present(db', j) => Volatile(db', j)
  BY <1>1, <1>2, WriteStep
<1>4. DoubtInv' /\ BoundInv' /\ RestInv'
  BY <1>1, OneLess DEF DoubtInv, BoundInv, RestInv, IInv
<1>5. tickets' \in [Key -> [Field -> Seq(Int)]] /\ TicketsIncrease'
  BY <1>1, <1>3, NothingHanded, TicketsStep
<1>6. exempt' \subseteq Key /\ CacheExpires'
  BY <1>1, <1>3, LifeStep
<1> QED BY <1>3, <1>4, <1>5, <1>6 DEF IInv, HistoryInv

LEMMA VanishIInv ==
  ASSUME IInv, NEW k \in Key, Vanish(k)
  PROVE  IInv'
<1>1. /\ db' = [db EXCEPT ![k] = Missing] /\ doubt' = doubt /\ faults' = faults
      /\ Records(Of(k), Nothing, {}, {}) /\ todo' = todo /\ rest' = rest
  BY DEF Vanish, Expire, Expired
<1>2. Keeps(k, Missing)
  BY DEF Keeps
<1>3. /\ DbInv'
      /\ \A j \in Key : Volatile(db, j) /\ Present(db', j) => Volatile(db', j)
  BY <1>1, <1>2, DbStep DEF IInv
<1>4. DoubtInv' /\ BoundInv' /\ RestInv'
  BY <1>1 DEF DoubtInv, BoundInv, RestInv, IInv
<1>5. tickets' \in [Key -> [Field -> Seq(Int)]] /\ TicketsIncrease'
  <2>1. \A f \in Field : <<k, f>> \in Of(k)
    BY DEF Of
  <2>2. NotBelow(db', Of(k))
    BY <1>1, <2>1, EntryNotBelow DEF IInv
  <2> QED BY <1>1, <1>3, <2>2, NothingHanded, TicketsStep
<1>6. exempt' \subseteq Key /\ CacheExpires'
  <2>1. Records(Of(k), Nothing, {}, {}) /\ \A t \in Thread : rest'[t] = rest[t]
    BY <1>1
  <2> QED BY <1>3, <2>1, LifeStep
<1> QED BY <1>3, <1>4, <1>5, <1>6 DEF IInv, HistoryInv

LEMMA CallIInv ==
  ASSUME IInv, NEW t \in Thread, Call(t)
  PROVE  IInv'
<1>1. PICK k \in Key :
        \/ DeleteKey(t, k)
        \/ \E map \in Maps : HmSet(t, k, map)
        \/ \E map \in Maps : \E s \in Seconds : HmSetFor(t, k, map, s)
        \/ \E f \in Field, v \in Number : HSet(t, k, f, v)
        \/ \E f \in Field, v \in Number : Hincrby(t, k, f, v)
        \/ \E s \in Seconds : ExpireKey(t, k, s)
  BY DEF Call
<1>2. CASE DeleteKey(t, k)
  BY <1>2, SendsIInv DEF DeleteKey, Command, DelCommand
<1>3. ASSUME NEW map \in Maps, HmSet(t, k, map) PROVE IInv'
  BY <1>3, SendsIInv DEF HmSet, Command, SetCommand
<1>4. ASSUME NEW f \in Field, NEW v \in Number, HSet(t, k, f, v) PROVE IInv'
  BY <1>4, SendsIInv DEF HSet, Command, HSetCommand
<1>5. ASSUME NEW s \in Seconds, ExpireKey(t, k, s) PROVE IInv'
  BY <1>5, SendsIInv DEF ExpireKey, Command, ExpireCommand
<1> QED BY <1>1, <1>2, <1>3, <1>4, <1>5, HincrbyIInv, HmSetForIInv

LEMMA NextIInv == IInv /\ [Next]_vars => IInv'
<1> SUFFICES ASSUME IInv, [Next]_vars PROVE IInv'
  OBVIOUS
<1>1. CASE UNCHANGED vars
  <2>1. /\ db' = db /\ doubt' = doubt /\ faults' = faults /\ todo' = todo
        /\ rest' = rest /\ tickets' = tickets /\ exempt' = exempt
    BY <1>1 DEF vars, redisVars
  <2> QED BY <2>1 DEF IInv, DbInv, DoubtInv, BoundInv, RestInv, HistoryInv,
                      TicketsIncrease, CacheExpires
<1>2. CASE Next
  BY <1>2, CallIInv, FinishIInv, LateIInv, VanishIInv DEF Next
<1> QED BY <1>1, <1>2

LEMMA IInvTypeOK == IInv => TypeOK
<1> SUFFICES ASSUME IInv PROVE TypeOK
  OBVIOUS
<1>1. ASSUME NEW k \in Key, Present(db, k)
      PROVE  /\ db[k].kind = "hash" /\ db[k].life \in {"timed", "endless"}
             /\ DOMAIN db[k].val \in (SUBSET Field) \ {{}}
             /\ \A f \in DOMAIN db[k].val : db[k].val[f] \in Int
  <2>1. db[k] \in Hash
    BY <1>1 DEF IInv, DbInv, Present
  <2>2. db[k].kind = "hash" /\ db[k].life \in Life /\ db[k].val \in Fields
    BY <2>1, HashIsHash
  <2> DEFINE m == db[k].val
  <2> HIDE DEF m
  <2>3. DOMAIN m \in (SUBSET Field) \ {{}} /\ m \in [DOMAIN m -> Int]
    <3>1. m \in Fields
      BY <2>2 DEF m
    <3> QED BY <3>1, FieldsType
  <2> QED BY <2>2, <2>3 DEF m, Life
<1>2. /\ IsABag(doubt) /\ faults \in 0 .. MaxFaults /\ todo \in 0 .. MaxCalls
      /\ tickets \in [Key -> [Field -> Seq(Int)]] /\ exempt \subseteq Key
  BY DEF IInv, DoubtInv, BoundInv, HistoryInv
<1>3. \A t \in Thread : rest[t] # Null => rest[t] \in {expire(k, s) : k \in Key, s \in Seconds}
  BY DEF IInv, RestInv, ExpireCommand
<1> QED BY <1>1, <1>2, <1>3 DEF TypeOK
-----------------------------------------------------------------------------
\* The inductive invariant holds of every behaviour of the hash service.
THEOREM Invariance == Spec => []IInv
  BY InitIInv, NextIInv, PTL DEF Spec

\* The database holds hashes that are never empty, and what a thread has left
\* to send is the EXPIRE of its hmSet.
THEOREM TypeCorrect == Spec => []TypeOK
  BY Invariance, IInvTypeOK, PTL

\* The numbers hincrby hands out for a field grow, for as long as it is only
\* counted up.
THEOREM NumbersGrow == Spec => []TicketsIncrease
  BY Invariance, PTL DEF IInv

\* A key that hmSet was to give a time to live stays for ever only for the
\* three reasons CacheExpires names.
THEOREM StaysForAReason == Spec => []CacheExpires
  BY Invariance, PTL DEF IInv

-----------------------------------------------------------------------------
(* The sorted-set half, RankBoard: the executor and its queue over a       *)
(* database of its own.                                                    *)
CONSTANTS Member, Value, Broken, MaxTasks
VARIABLES queue, running, stuck, log

Board == INSTANCE RankBoard

Task == Board!Updates \cup {Broken}

\* What a sorted set may hold.
Scores == UNION {[ms -> Int] : ms \in SUBSET Member}

SortedSet == [kind : {"zset"}, val : Scores, life : {"endless"}]

BoardDbInv == db \in [Key -> {Missing} \cup SortedSet]

\* The bag of updates that may still reach the server.
BoardDoubtInv == IsABag(doubt) /\ InDoubt \subseteq Board!Updates

\* Bags are the same in all three modules.
LEMMA SameBags ==
  /\ Board!EmptyBag = EmptyBag /\ Board!Leader!EmptyBag = EmptyBag
  /\ \A c : Board!SetToBag({c}) = SetToBag({c}) /\ Board!Leader!SetToBag({c}) = SetToBag({c})
  /\ Board!InDoubt = InDoubt /\ Board!Leader!BagToSet(doubt) = InDoubt
  /\ Board!IsABag(doubt) <=> IsABag(doubt)
  BY DEF Board!EmptyBag, Board!Leader!EmptyBag, EmptyBag, Board!SetToBag,
         Board!Leader!SetToBag, SetToBag, Board!InDoubt, Board!BagToSet,
         Board!Leader!BagToSet, BagToSet, Board!IsABag, IsABag

LEMMA NoneMore ==
  ASSUME BoardDoubtInv, UNCHANGED doubt
  PROVE  BoardDoubtInv'
  BY DEF BoardDoubtInv

LEMMA OneMoreUpdate ==
  ASSUME BoardDoubtInv, NEW u \in Board!Updates, doubt' = doubt (+) SetToBag({u})
  PROVE  BoardDoubtInv'
<1>1. IsABag(doubt') /\ InDoubt' = InDoubt \cup {u}
  BY OneMore DEF BoardDoubtInv
<1> QED BY <1>1 DEF BoardDoubtInv

LEMMA ScoresType ==
  ASSUME NEW m
  PROVE  m \in Scores <=> DOMAIN m \subseteq Member /\ m \in [DOMAIN m -> Int]
<1>1. ASSUME m \in Scores PROVE DOMAIN m \subseteq Member /\ m \in [DOMAIN m -> Int]
  <2>1. PICK ms \in SUBSET Member : m \in [ms -> Int]
    BY <1>1 DEF Scores
  <2> QED BY <2>1
<1> QED BY <1>1 DEF Scores

LEMMA SortedSetIs ==
  ASSUME NEW z \in SortedSet
  PROVE  /\ z # Missing /\ z.kind = "zset" /\ z.val \in Scores /\ z.life = "endless"
<1>1. Missing.kind = "none"
  BY DEF Missing
<1> QED BY <1>1 DEF SortedSet

LEMMA ScoresOf ==
  ASSUME BoardDbInv, NEW k \in Key
  PROVE  /\ Board!Content(db, k) \in Scores
         /\ \A x : Board!ValueAt(Board!Content(db, k), x) \in Int
         /\ ~Board!Volatile(db, k)
<1> DEFINE m == Board!Content(db, k)
<1>1. db[k] = Missing \/ db[k] \in SortedSet
  BY DEF BoardDbInv
<1>2. Board!Missing = Missing
  BY DEF Board!Missing, Missing
<1>3. m \in Scores /\ ~Board!Volatile(db, k)
  <2>1. CASE db[k] = Missing
    <3>1. m = [f \in {} |-> 0]
      BY <2>1, <1>2 DEF Board!Content, Board!Present, Board!NoFields
    <3> HIDE DEF m
    <3>2. m \in Scores
      BY <3>1, ScoresType
    <3> QED BY <2>1, <1>2, <3>2 DEF Board!Volatile, Board!Present, m
  <2>2. CASE db[k] \in SortedSet
    BY <2>2, <1>2, SortedSetIs DEF Board!Content, Board!Present, Board!Volatile
  <2> QED BY <1>1, <2>1, <2>2
<1> HIDE DEF m
<1>4. m \in [DOMAIN m -> Int]
  BY <1>3, ScoresType
<1>5. \A x : Board!ValueAt(m, x) \in Int
  BY <1>4 DEF Board!ValueAt
<1> QED BY <1>3, <1>5 DEF m

LEMMA ScoresOverride ==
  ASSUME NEW m \in Scores, NEW n \in Scores
  PROVE  Board!Override(m, n) \in Scores
<1> DEFINE o == Board!Override(m, n)
<1>1. /\ DOMAIN m \subseteq Member /\ m \in [DOMAIN m -> Int]
      /\ DOMAIN n \subseteq Member /\ n \in [DOMAIN n -> Int]
  BY ScoresType
<1>2. DOMAIN o = DOMAIN m \cup DOMAIN n
  BY DEF Board!Override
<1>3. o \in [DOMAIN o -> Int]
  BY <1>1 DEF Board!Override
<1> HIDE DEF o
<1>4. o \in Scores
  BY <1>1, <1>2, <1>3, ScoresType
<1> QED BY <1>4 DEF o
LEMMA UpdateIs ==
  ASSUME Value \subseteq Int, NEW u \in Board!Updates
  PROVE  /\ u.key \in Key
         /\ \/ u.op = "ZADD" /\ u.map \in Scores
            \/ u.op = "ZINCRBY" /\ u.member \in Member /\ u.by \in Int
<1>1. ASSUME NEW k \in Key, NEW v \in Value, NEW m \in Member,
             u = Board!incrSortSetItem(k, v, m)
      PROVE  u.key \in Key /\ u.op = "ZINCRBY" /\ u.member \in Member /\ u.by \in Int
  BY <1>1 DEF Board!incrSortSetItem
<1>2. ASSUME NEW k \in Key, NEW v \in Value, NEW m \in Member,
             u = Board!updateSortSetItem(k, v, m)
      PROVE  u.key \in Key /\ u.op = "ZADD" /\ u.map \in Scores
  <2>1. u.key = k /\ u.op = "ZADD" /\ u.map = [x \in {m} |-> v]
    BY <1>2 DEF Board!updateSortSetItem
  <2>2. DOMAIN u.map \subseteq Member /\ u.map \in [DOMAIN u.map -> Int]
    BY <2>1
  <2> QED BY <2>1, <2>2, ScoresType
<1> QED BY <1>1, <1>2 DEF Board!Updates

\* A command that Redis carries out does to the boards what the update says.
LEMMA UpdateExecutes ==
  ASSUME Value \subseteq Int, Broken \notin Board!Updates, BoardDbInv,
         NEW u \in Board!Updates
  PROVE  /\ ~Board!Rejected(db, u)
         /\ \E z \in SortedSet :
              /\ Board!Execute(db, u) = [db EXCEPT ![u.key] = z]
              /\ Board!BoardsAfter(Board!Boards, u) = [Board!Boards EXCEPT ![u.key] = z.val]
<1> DEFINE k == u.key
           old == Board!Content(db, k)
           by == [x \in {u.member} |-> Board!ValueAt(old, x) + u.by]
           change == IF u.op = "ZADD" THEN u.map ELSE by
           new == Board!Override(old, change)
           z == Board!Entry("zset", new, "endless")
<1>1. k \in Key /\ u.op \in {"ZADD", "ZINCRBY"}
  BY UpdateIs
<1>2. ~Board!Rejected(db, u)
  <2>1. db[k] = Board!Missing \/ db[k].kind = "zset"
    BY <1>1, SortedSetIs DEF BoardDbInv, Board!Missing, Missing
  <2>2. Board!KindOf(u.op) = "zset"
    BY <1>1 DEF Board!KindOf, Board!HashOp, Board!SortedSetOp
  <2> QED BY <1>1, <2>1, <2>2 DEF Board!Rejected, Board!Present
<1>3. change \in Scores
  <2>1. CASE u.op = "ZADD"
    BY <2>1, UpdateIs
  <2>2. CASE u.op = "ZINCRBY"
    <3>1. u.member \in Member /\ Board!ValueAt(old, u.member) + u.by \in Int
      BY <1>1, <2>2, UpdateIs, ScoresOf
    <3>2. DOMAIN by \subseteq Member /\ by \in [DOMAIN by -> Int]
      BY <3>1
    <3> HIDE DEF by, old
    <3> QED BY <2>2, <3>2, ScoresType
  <2> QED BY <1>1, <2>1, <2>2
<1>4. new \in Scores
  BY <1>1, <1>3, ScoresOf, ScoresOverride
<1>5. z \in SortedSet /\ z.val = new
  BY <1>4 DEF Board!Entry, SortedSet
<1>6. Board!Store(db, u, "zset", change) = [db EXCEPT ![k] = z]
  BY <1>1, ScoresOf DEF Board!Store
<1>7. Board!Effect(db, u) = Board!Store(db, u, "zset", change)
  <2>1. CASE u.op = "ZADD"
    BY <2>1, Zenon DEF Board!Effect
  <2>2. CASE u.op = "ZINCRBY"
    <3>1. Board!KindOf(u.op) = "zset"
      BY <2>2 DEF Board!KindOf, Board!HashOp, Board!SortedSetOp
    <3>2. /\ u.op \in {"HINCRBY", "ZINCRBY"} /\ u.op \notin {"HMSET", "HSET"}
          /\ u.op # "DEL" /\ u.op # "SETEX" /\ u.op # "EXPIRE" /\ u.op # "PERSIST"
          /\ u.op # "ZADD"
      BY <2>2
    <3>3. Board!Effect(db, u) = Board!Store(db, u, Board!KindOf(u.op), by)
      BY <3>2, Zenon DEF Board!Effect
    <3> QED BY <3>1, <3>2, <3>3
  <2> QED BY <1>1, <2>1, <2>2
<1>8. Board!Execute(db, u) = [db EXCEPT ![k] = z]
  BY <1>2, <1>6, <1>7 DEF Board!Execute
<1>9. Board!BoardsAfter(Board!Boards, u) = [Board!Boards EXCEPT ![k] = new]
  <2>1. Board!Boards[k] = old /\ u # Broken
    BY <1>1 DEF Board!Boards
  <2>2. CASE u.op = "ZADD"
    BY <2>1, <2>2 DEF Board!BoardsAfter
  <2>3. CASE u.op = "ZINCRBY"
    BY <2>1, <2>3 DEF Board!BoardsAfter
  <2> QED BY <1>1, <2>2, <2>3
<1> HIDE DEF z
<1> QED BY <1>2, <1>5, <1>8, <1>9

LEMMA UpdateStep ==
  ASSUME Value \subseteq Int, Broken \notin Board!Updates, BoardDbInv,
         NEW u \in Board!Updates, db' = Board!Execute(db, u)
  PROVE  BoardDbInv' /\ Board!Boards' = Board!BoardsAfter(Board!Boards, u)
<1>1. PICK z \in SortedSet :
        /\ db' = [db EXCEPT ![u.key] = z]
        /\ Board!BoardsAfter(Board!Boards, u) = [Board!Boards EXCEPT ![u.key] = z.val]
  BY UpdateExecutes
<1>2. u.key \in Key
  BY UpdateIs
<1>3. BoardDbInv'
  BY <1>1, <1>2 DEF BoardDbInv
<1>4. \A k \in Key : Board!Content(db', k) = IF k = u.key THEN z.val ELSE Board!Content(db, k)
  <2>1. z # Board!Missing
    BY SortedSetIs DEF Board!Missing, Missing
  <2> QED BY <1>1, <1>2, <2>1 DEF BoardDbInv, Board!Content, Board!Present
<1>5. Board!Boards' = [k \in Key |-> IF k = u.key THEN z.val ELSE Board!Content(db, k)]
  BY <1>4 DEF Board!Boards
<1>6. [Board!Boards EXCEPT ![u.key] = z.val] =
        [k \in Key |-> IF k = u.key THEN z.val ELSE Board!Content(db, k)]
  BY DEF Board!Boards
<1> QED BY <1>1, <1>3, <1>5, <1>6

\* What may come of one call of RedisUtil by a task.
LEMMA RunOutcome ==
  ASSUME Value \subseteq Int, Broken \notin Board!Updates, BoardDbInv, BoardDoubtInv,
         faults \in 0 .. MaxFaults,
         NEW u \in Board!Updates, NEW o \in Board!Outcomes(u), Board!Ends(o)
  PROVE  /\ BoardDbInv' /\ BoardDoubtInv' /\ faults' \in 0 .. faults
         /\ \/ Board!Boards' = Board!BoardsAfter(Board!Boards, u) /\ UNCHANGED doubt
            \/ UNCHANGED <<Board!Boards, doubt>> /\ faults' # faults
            \/ /\ doubt' = doubt (+) SetToBag({u})
               /\ UNCHANGED Board!Boards /\ faults' # faults
<1> DEFINE after == Board!Execute(db, u)
           ret == IF Board!Rejected(db, u) THEN u.failed ELSE Board!Answer(u)
<1>1. \/ o = Board!Outcome(after, ret, EmptyBag, 0)
      \/ o = Board!Outcome(db, u.failed, EmptyBag, 1)
      \/ o = Board!Outcome(after, u.failed, EmptyBag, 1)
      \/ o = Board!Outcome(db, u.failed, SetToBag({u}), 1)
  BY SameBags DEF Board!Outcomes, Board!Answered, Board!Unanswered
<1> HIDE DEF after, ret
<1>2. \/ o.db = after /\ o.doubt = EmptyBag /\ o.faults \in {0, 1}
      \/ o.db = db /\ o.doubt \in {EmptyBag, SetToBag({u})} /\ o.faults = 1
  BY <1>1 DEF Board!Outcome
<1>3. /\ o.faults <= faults /\ db' = o.db /\ faults' = faults - o.faults
      /\ doubt' = doubt (+) o.doubt
  BY DEF Board!Ends, Board!(+), (+)
<1>4. faults' \in 0 .. faults /\ (o.faults = 1 => faults' # faults)
  BY <1>2, <1>3
<1>5. o.doubt = EmptyBag => doubt' = doubt
  BY <1>3, OneMore DEF BoardDoubtInv
<1>6. CASE o.db = after /\ o.doubt = EmptyBag
  <2>1. BoardDbInv' /\ Board!Boards' = Board!BoardsAfter(Board!Boards, u)
    BY <1>3, <1>6, UpdateStep DEF after
  <2> QED BY <1>4, <1>5, <1>6, <2>1, NoneMore
<1>7. CASE o.db = db /\ o.doubt \in {EmptyBag, SetToBag({u})} /\ o.faults = 1
  <2>1. db' = db /\ faults' # faults
    BY <1>3, <1>4, <1>7
  <2>2. BoardDbInv' /\ Board!Boards' = Board!Boards
    BY <2>1 DEF BoardDbInv, Board!Boards
  <2>3. CASE o.doubt = EmptyBag
    BY <1>4, <1>5, <2>1, <2>2, <2>3, NoneMore
  <2>4. CASE o.doubt = SetToBag({u})
    <3>1. doubt' = doubt (+) SetToBag({u})
      BY <1>3, <2>4
    <3> QED BY <1>4, <2>1, <2>2, <3>1, OneMoreUpdate
  <2> QED BY <1>7, <2>3, <2>4
<1> QED BY <1>2, <1>6, <1>7
-----------------------------------------------------------------------------
(* Replay.  That the function exists is shown by its first values: the      *)
(* least number they cannot be continued beyond would be one they can.      *)

LEMMA LeastNat ==
  ASSUME NEW S \in SUBSET Nat, S # {}
  PROVE  \E m \in S : \A x \in S : m <= x
<1> DEFINE R == OpToRel(<, Nat)
<1>1. PICK m \in S : \A x \in S : ~ (<<x, m>> \in R)
  BY NatLessThanWellFounded, WFMin
<1>2. ASSUME NEW x \in S PROVE m <= x
  <2>1. R = {ss \in Nat \X Nat : ss[1] < ss[2]}
    BY Zenon DEF OpToRel
  <2> HIDE DEF R
  <2>2. <<x, m>> \in Nat \X Nat /\ <<x, m>>[1] = x /\ <<x, m>>[2] = m
    OBVIOUS
  <2>3. ~ (x < m)
    BY <1>1, <2>1, <2>2
  <2> QED BY <2>3
<1> QED BY <1>2

NoScores == [k \in Key |-> Board!NoFields]

After(g, l, n) == IF n = 0 THEN NoScores ELSE Board!BoardsAfter(g[n - 1], l[n])

\* Board!Replay for the log l.
Replayed(l) ==
  CHOOSE g : g = [n \in Nat |-> IF n = 0 THEN [k \in Key |-> Board!NoFields]
                                ELSE Board!BoardsAfter(g[n - 1], l[n])]

\* Two replays of logs that begin alike begin alike.
LEMMA ReplaysAlike ==
  ASSUME NEW n \in Nat, NEW g, NEW h, NEW l, NEW k,
         \A m \in 0 .. n : g[m] = After(g, l, m) /\ h[m] = After(h, k, m),
         \A m \in 1 .. n : l[m] = k[m]
  PROVE  \A m \in 0 .. n : g[m] = h[m]
<1> DEFINE Bad == {m \in 0 .. n : g[m] # h[m]}
<1> SUFFICES ASSUME Bad # {} PROVE FALSE
  OBVIOUS
<1>1. PICK m \in Bad : \A x \in Bad : m <= x
  <2>1. Bad \in SUBSET Nat
    OBVIOUS
  <2> HIDE DEF Bad
  <2> QED BY <2>1, LeastNat
<1>2. m \in 0 .. n /\ g[m] # h[m]
  OBVIOUS
<1>3. m # 0
  BY <1>2 DEF After
<1>4. m - 1 \in 0 .. n /\ m \in 1 .. n /\ ~ (m <= m - 1)
  BY <1>2, <1>3
<1>5. g[m - 1] = h[m - 1]
  BY <1>1, <1>4
<1>6. g[m] = After(g, l, m) /\ h[m] = After(h, k, m) /\ l[m] = k[m]
  BY <1>2, <1>4
<1> QED BY <1>2, <1>3, <1>5, <1>6 DEF After

LEMMA ReplayBegins ==
  ASSUME NEW l, NEW n \in Nat
  PROVE  \E g : g = [m \in 0 .. n |-> After(g, l, m)]
<1> DEFINE Begins(g, i) == g = [m \in 0 .. i |-> After(g, l, m)]
           Bad == {i \in Nat : ~ \E g : Begins(g, i)}
<1> SUFFICES ASSUME Bad # {} PROVE FALSE
  OBVIOUS
<1>1. PICK i \in Bad : \A x \in Bad : i <= x
  <2>1. Bad \in SUBSET Nat
    OBVIOUS
  <2> HIDE DEF Bad
  <2> QED BY <2>1, LeastNat
<1>2. i \in Nat /\ ~ \E g : Begins(g, i)
  OBVIOUS
<1>3. CASE i = 0
  <2> DEFINE g == [m \in 0 .. i |-> NoScores]
  <2>1. \A m \in 0 .. i : After(g, l, m) = NoScores
    BY <1>3 DEF After
  <2>2. Begins(g, i)
    BY <2>1
  <2> QED BY <1>2, <2>2
<1>4. CASE i # 0
  <2>1. i - 1 \in Nat /\ ~ (i <= i - 1)
    BY <1>2, <1>4
  <2>2. PICK f : Begins(f, i - 1)
    BY <1>1, <2>1
  <2> DEFINE g == [m \in 0 .. i |-> IF m = i THEN After(f, l, m) ELSE f[m]]
  <2>3. ASSUME NEW m \in 0 .. i PROVE g[m] = After(g, l, m)
    <3>1. CASE m = 0
      BY <3>1, <1>4, <2>1, <2>2 DEF After
    <3>2. CASE m # 0
      <4>1. m - 1 \in 0 .. i /\ m - 1 # i
        BY <2>1, <3>2
      <4>2. g[m - 1] = f[m - 1]
        BY <4>1
      <4>3. After(g, l, m) = After(f, l, m)
        BY <3>2, <4>2 DEF After
      <4>4. m # i => m \in 0 .. (i - 1)
        BY <2>1
      <4>5. m # i => f[m] = After(f, l, m)
        BY <2>2, <4>4
      <4> QED BY <4>3, <4>5
    <3> QED BY <3>1, <3>2
  <2>4. DOMAIN g = 0 .. i /\ g = [m \in 0 .. i |-> g[m]]
    OBVIOUS
  <2> HIDE DEF g
  <2>5. Begins(g, i)
    BY <2>3, <2>4
  <2> QED BY <1>2, <2>5
<1> QED BY <1>3, <1>4

LEMMA ReplayedIs ==
  ASSUME NEW l
  PROVE  \A n \in Nat : Replayed(l)[n] = After(Replayed(l), l, n)
<1> DEFINE First(n) == CHOOSE g : g = [m \in 0 .. n |-> After(g, l, m)]
           h == [n \in Nat |-> First(n)[n]]
<1>1. \A n \in Nat : First(n) = [m \in 0 .. n |-> After(First(n), l, m)]
  BY ReplayBegins
<1> HIDE DEF First
<1>2. ASSUME NEW n \in Nat PROVE h[n] = After(h, l, n)
  <2>1. First(n)[n] = After(First(n), l, n)
    BY <1>1
  <2>2. CASE n = 0
    BY <2>1, <2>2 DEF After
  <2>3. CASE n # 0
    <3>1. PICK p \in Nat : p = n - 1
      BY <2>3
    <3>2. \A m \in 0 .. p : /\ First(n)[m] = After(First(n), l, m)
                            /\ First(p)[m] = After(First(p), l, m)
      BY <1>1, <3>1
    <3>3. First(n)[p] = First(p)[p]
      <4>1. \A m \in 0 .. p : First(n)[m] = First(p)[m]
        BY <3>2, ReplaysAlike
      <4> QED BY <4>1
    <3>4. h[p] = First(p)[p]
      OBVIOUS
    <3> QED BY <2>1, <2>3, <3>1, <3>3, <3>4 DEF After
  <2> QED BY <2>2, <2>3
<1>3. h = [n \in Nat |-> After(h, l, n)]
  <2>1. h = [n \in Nat |-> h[n]]
    OBVIOUS
  <2> HIDE DEF h
  <2> QED BY <1>2, <2>1
<1> HIDE DEF h
<1>4. Replayed(l) = CHOOSE g : g = [n \in Nat |-> After(g, l, n)]
  BY DEF Replayed, After, NoScores
<1>5. Replayed(l) = [n \in Nat |-> After(Replayed(l), l, n)]
  BY <1>3, <1>4
<1> QED BY <1>5

LEMMA ReplayedAlike ==
  ASSUME NEW n \in Nat, NEW l, NEW m, \A i \in 1 .. n : m[i] = l[i]
  PROVE  Replayed(m)[n] = Replayed(l)[n]
<1>1. PICK g : g = Replayed(m)
  OBVIOUS
<1>2. PICK h : h = Replayed(l)
  OBVIOUS
<1>3. \A i \in 0 .. n : g[i] = After(g, m, i) /\ h[i] = After(h, l, i)
  BY <1>1, <1>2, ReplayedIs
<1>4. \A i \in 0 .. n : g[i] = h[i]
  BY <1>3, ReplaysAlike
<1> QED BY <1>1, <1>2, <1>4

-----------------------------------------------------------------------------
(* The queue and the log.                                                  *)

\* What is pending is the end of the log.
InStep(l, p) ==
  /\ Len(p) <= Len(l)
  /\ \A i \in 1 .. Len(p) : p[i] = l[Len(l) - Len(p) + i]

LEMMA SubmitReplay ==
  ASSUME NEW l \in Seq(Task), NEW p \in Seq(Task), InStep(l, p), NEW u \in Task
  PROVE  /\ InStep(Append(l, u), Append(p, u))
         /\ Replayed(Append(l, u))[Len(Append(l, u)) - Len(Append(p, u))] =
              Replayed(l)[Len(l) - Len(p)]
<1> DEFINE m == Append(l, u)
           q == Append(p, u)
<1>1. /\ Len(l) \in Nat /\ Len(p) \in Nat /\ Len(m) = Len(l) + 1 /\ Len(q) = Len(p) + 1
      /\ \A i \in 1 .. Len(l) : m[i] = l[i]
      /\ \A i \in 1 .. Len(p) : q[i] = p[i]
      /\ m[Len(l) + 1] = u /\ q[Len(p) + 1] = u
  OBVIOUS
<1> HIDE DEF m, q
<1>2. Len(p) <= Len(l) /\ Len(q) <= Len(m) /\ Len(m) - Len(q) = Len(l) - Len(p)
  <2>1. Len(p) <= Len(l)
    BY DEF InStep
  <2> QED BY <1>1, <2>1
<1>3. InStep(m, q)
  <2>1. ASSUME NEW i \in 1 .. Len(q) PROVE q[i] = m[Len(m) - Len(q) + i]
    <3>1. PICK d \in Nat : d = Len(l) - Len(p)
      <4>1. Len(l) - Len(p) \in Nat
        BY <1>1, <1>2
      <4> QED BY <4>1
    <3>2. Len(m) - Len(q) + i = d + i
      BY <1>1, <3>1
    <3>3. CASE i = Len(p) + 1
      BY <1>1, <3>1, <3>2, <3>3
    <3>4. CASE i # Len(p) + 1
      <4>1. i \in 1 .. Len(p) /\ d + i \in 1 .. Len(l)
        BY <1>1, <3>1, <3>4
      <4>2. p[i] = l[d + i]
        BY <4>1, <3>1 DEF InStep
      <4> QED BY <1>1, <3>2, <4>1, <4>2
    <3> QED BY <3>3, <3>4
  <2> QED BY <1>2, <2>1 DEF InStep
<1>4. PICK n \in Nat : n = Len(l) - Len(p) /\ n = Len(m) - Len(q)
  <2>1. Len(l) - Len(p) \in Nat
    BY <1>1, <1>2
  <2> QED BY <1>2, <2>1
<1>5. \A i \in 1 .. n : m[i] = l[i]
  BY <1>1, <1>4
<1>6. Replayed(m)[n] = Replayed(l)[n]
  BY <1>5, ReplayedAlike
<1>7. /\ InStep(m, q)
      /\ Replayed(m)[Len(m) - Len(q)] = Replayed(l)[Len(l) - Len(p)]
  BY <1>3, <1>4, <1>6
<1> QED BY <1>7 DEF m, q

LEMMA SettleReplay ==
  ASSUME NEW l \in Seq(Task), NEW p \in Seq(Task), InStep(l, p), p # <<>>,
         NEW q, q = Tail(p)
  PROVE  /\ InStep(l, q)
         /\ Replayed(l)[Len(l) - Len(q)] =
              Board!BoardsAfter(Replayed(l)[Len(l) - Len(p)], Head(p))
<1>1. /\ Len(l) \in Nat /\ Len(p) \in Nat /\ Len(p) > 0 /\ Len(q) = Len(p) - 1
      /\ \A i \in 1 .. Len(q) : q[i] = p[i + 1]
      /\ Head(p) = p[1]
  OBVIOUS
<1>2. InStep(l, q)
  <2>1. ASSUME NEW i \in 1 .. Len(q) PROVE q[i] = l[Len(l) - Len(q) + i]
    <3>1. i + 1 \in 1 .. Len(p) /\ Len(l) - Len(q) + i = Len(l) - Len(p) + (i + 1)
      BY <1>1
    <3> QED BY <1>1, <3>1 DEF InStep
  <2> QED BY <1>1, <2>1 DEF InStep
<1>3. PICK n \in Nat : n = Len(l) - Len(p)
  <2>1. Len(p) <= Len(l)
    BY DEF InStep
  <2> QED BY <1>1, <2>1
<1>4. PICK k \in Nat : k = n + 1 /\ k = Len(l) - Len(q)
  <2>1. Len(l) - Len(q) = n + 1
    BY <1>1, <1>3
  <2> QED BY <2>1
<1>5. Head(p) = l[k]
  <2>1. 1 \in 1 .. Len(p) /\ Len(l) - Len(p) + 1 = k
    BY <1>1, <1>3, <1>4
  <2> QED BY <1>1, <2>1 DEF InStep
<1>6. Replayed(l)[k] = Board!BoardsAfter(Replayed(l)[n], l[k])
  <2>1. Replayed(l)[k] = After(Replayed(l), l, k) /\ k # 0 /\ k - 1 = n
    BY <1>4, ReplayedIs
  <2> QED BY <2>1 DEF After
<1> QED BY <1>2, <1>3, <1>4, <1>5, <1>6

PendingOf(r, q) == (IF r = Null THEN <<>> ELSE <<r>>) \o q

LEMMA PendingForms ==
  ASSUME Null \notin Task, NEW q \in Seq(Task), NEW r \in Task \cup {Null}
  PROVE  /\ PendingOf(r, q) \in Seq(Task)
         /\ r = Null => PendingOf(r, q) = q
         /\ r # Null => /\ PendingOf(r, q) # <<>>
                        /\ Head(PendingOf(r, q)) = r /\ Tail(PendingOf(r, q)) = q
         /\ \A u \in Task : PendingOf(r, Append(q, u)) = Append(PendingOf(r, q), u)
         /\ q # <<>> => PendingOf(Head(q), Tail(q)) = q
<1>1. q # <<>> => PendingOf(Head(q), Tail(q)) = q
  <2> SUFFICES ASSUME q # <<>> PROVE PendingOf(Head(q), Tail(q)) = q
    OBVIOUS
  <2>1. Head(q) \in Task /\ q = <<Head(q)>> \o Tail(q)
    OBVIOUS
  <2>2. Head(q) # Null
    BY <2>1
  <2> QED BY <2>1, <2>2 DEF PendingOf
<1>2. CASE r = Null
  <2>1. \A s \in Seq(Task) : PendingOf(r, s) = s
    BY <1>2 DEF PendingOf
  <2>2. \A u \in Task : Append(q, u) \in Seq(Task)
    OBVIOUS
  <2>3. \A u \in Task : PendingOf(r, Append(q, u)) = Append(PendingOf(r, q), u)
    BY <2>1, <2>2
  <2>4. PendingOf(r, q) = q
    BY <2>1
  <2> QED BY <1>2, <1>1, <2>3, <2>4
<1>3. CASE r # Null
  <2>1. r \in Task /\ PendingOf(r, q) = <<r>> \o q
    BY <1>3 DEF PendingOf
  <2>2. \A u \in Task : PendingOf(r, Append(q, u)) = Append(PendingOf(r, q), u)
    BY <1>3, <2>1 DEF PendingOf
  <2>3. /\ PendingOf(r, q) \in Seq(Task) /\ PendingOf(r, q) # <<>>
        /\ Head(PendingOf(r, q)) = r /\ Tail(PendingOf(r, q)) = q
    <3>1. <<r>> \o q \in Seq(Task) /\ <<r>> \o q # <<>> /\ Head(<<r>> \o q) = r
      BY <2>1
    <3>2. Tail(<<r>> \o q) = q
      BY <2>1
    <3> QED BY <2>1, <3>1, <3>2
  <2> QED BY <1>3, <1>1, <2>2, <2>3
<1> QED BY <1>2, <1>3

\* As long as Redis has answered everything, the boards are the replay of the
\* part of the log that is not pending, and the rest of the log is pending.
Fresh ==
  /\ doubt = EmptyBag
  /\ InStep(log, Board!Pending)
  /\ Board!Boards = Replayed(log)[Len(log) - Len(Board!Pending)]

BoardInv ==
  /\ BoardDbInv /\ BoardDoubtInv /\ faults \in 0 .. MaxFaults
  /\ stuck \subseteq {"worker"} /\ ("worker" \in stuck => running["worker"] # Broken)
  /\ queue \in Seq(Task) /\ running \in [{"worker"} -> Task \cup {Null}]
  /\ log \in Seq(Task)
  /\ faults = MaxFaults => Fresh

BoardAssumptions == Board!ValueAssumption /\ Board!TaskAssumption

LEMMA ConstantsAre ==
  ASSUME BoardAssumptions
  PROVE  /\ Value \subseteq Int /\ Broken \notin Board!Updates /\ Null \notin Task
         /\ Broken # Null
  BY DEF BoardAssumptions, Board!ValueAssumption, Board!TaskAssumption, Task

-----------------------------------------------------------------------------
(* The steps of the board: each keeps BoardInv and is a step of            *)
(* Leaderboard, or none.                                                   *)

LEMMA SubmitStep ==
  ASSUME BoardAssumptions, BoardInv, NEW u \in Task, Board!Submit(u), log' = Append(log, u)
  PROVE  BoardInv' /\ Board!Leader!Submit(u)
<1>1. /\ queue' = Append(queue, u) /\ UNCHANGED <<running, stuck, db, doubt, faults>>
      /\ queue \in Seq(Task) /\ running["worker"] \in Task \cup {Null}
      /\ log \in Seq(Task)
  BY DEF Board!Submit, Board!redisVars, BoardInv
<1>2. Board!Pending' = Append(Board!Pending, u) /\ Board!Pending \in Seq(Task)
  BY <1>1, ConstantsAre, PendingForms DEF Board!Pending, Board!Running, PendingOf
<1>3. Board!Boards' = Board!Boards /\ BoardDbInv'
  BY <1>1 DEF Board!Boards, BoardDbInv, BoardInv
<1>4. log' \in Seq(Task) /\ queue' \in Seq(Task)
  BY <1>1
<1>5. ASSUME faults = MaxFaults PROVE Fresh'
  <2>1. PICK l \in Seq(Task) : l = log
    BY <1>1
  <2>2. PICK p \in Seq(Task) : p = Board!Pending
    BY <1>2
  <2>3. PICK m : m = log' /\ m = Append(l, u)
    BY <2>1
  <2>4. PICK q : q = Board!Pending' /\ q = Append(p, u)
    BY <1>2, <2>2
  <2>5. doubt = EmptyBag /\ InStep(l, p) /\ Board!Boards = Replayed(l)[Len(l) - Len(p)]
    BY <1>5, <2>1, <2>2 DEF BoardInv, Fresh
  <2>6. InStep(m, q) /\ Replayed(m)[Len(m) - Len(q)] = Replayed(l)[Len(l) - Len(p)]
    BY <2>3, <2>4, <2>5, SubmitReplay
  <2> QED BY <1>1, <1>3, <2>3, <2>4, <2>5, <2>6 DEF Fresh
<1>6. BoardInv'
  BY <1>1, <1>3, <1>4, <1>5, NoneMore DEF BoardInv
<1> QED BY <1>1, <1>2, <1>3, <1>6 DEF Board!Leader!Submit

LEMMA TakeStep ==
  ASSUME BoardAssumptions, BoardInv, Board!Take("worker")
  PROVE  BoardInv' /\ UNCHANGED Board!Leader!vars
<1>1. /\ running["worker"] = Null /\ queue # <<>> /\ "worker" \notin stuck
      /\ running' = [running EXCEPT !["worker"] = Head(queue)]
      /\ queue' = Tail(queue) /\ UNCHANGED <<db, doubt, faults, stuck, log>>
      /\ queue \in Seq(Task) /\ running \in [{"worker"} -> Task \cup {Null}]
  BY DEF Board!Take, Board!redisVars, BoardInv
<1>2. Head(queue) \in Task /\ Tail(queue) \in Seq(Task)
  BY <1>1
<1>3. running'["worker"] = Head(queue) /\ running' \in [{"worker"} -> Task \cup {Null}]
  BY <1>1, <1>2
<1>4. Board!Pending' = Board!Pending
  <2>1. Board!Pending = queue
    BY <1>1, ConstantsAre, PendingForms DEF Board!Pending, Board!Running, PendingOf
  <2>2. Board!Pending' = PendingOf(Head(queue), Tail(queue))
    BY <1>1, <1>3 DEF Board!Pending, Board!Running, PendingOf
  <2>3. PendingOf(Head(queue), Tail(queue)) = queue
    BY <1>1, ConstantsAre, PendingForms
  <2> QED BY <2>1, <2>2, <2>3
<1>5. Board!Boards' = Board!Boards /\ BoardDbInv'
  BY <1>1 DEF Board!Boards, BoardDbInv, BoardInv
<1>6. (faults = MaxFaults => Fresh)' 
  BY <1>1, <1>4, <1>5 DEF BoardInv, Fresh
<1>7. BoardInv'
  BY <1>1, <1>2, <1>3, <1>5, <1>6, NoneMore DEF BoardInv
<1> QED BY <1>1, <1>4, <1>5, <1>7 DEF Board!Leader!vars

\* The worker is done with task u.
LEMMA DoneStep ==
  ASSUME BoardAssumptions, BoardInv, NEW u \in Task, running["worker"] = u, Board!Done("worker")
  PROVE  /\ queue' \in Seq(Task) /\ running' \in [{"worker"} -> Task \cup {Null}]
         /\ log' \in Seq(Task) /\ log' = log
         /\ Board!Pending \in Seq(Task) /\ Board!Pending # <<>>
         /\ Head(Board!Pending) = u /\ Board!Pending' = Tail(Board!Pending)
         /\ InStep(log, Board!Pending) => InStep(log', Board!Pending')
         /\ InStep(log, Board!Pending) =>
              Replayed(log)[Len(log) - Len(Board!Pending')] =
                Board!BoardsAfter(Replayed(log)[Len(log) - Len(Board!Pending)], u)
<1>1. /\ running' = [running EXCEPT !["worker"] = Null] /\ UNCHANGED <<queue, log>>
      /\ queue \in Seq(Task) /\ running \in [{"worker"} -> Task \cup {Null}]
      /\ log \in Seq(Task) /\ u # Null
  BY ConstantsAre DEF Board!Done, BoardInv
<1>2. running'["worker"] = Null /\ running' \in [{"worker"} -> Task \cup {Null}]
  BY <1>1
<1>3. Board!Pending = PendingOf(u, queue)
  BY DEF Board!Pending, Board!Running, PendingOf
<1>4. /\ Board!Pending \in Seq(Task) /\ Board!Pending # <<>>
      /\ Head(Board!Pending) = u /\ Tail(Board!Pending) = queue
  BY <1>1, <1>3, ConstantsAre, PendingForms
<1>5. Board!Pending' = queue
  BY <1>1, <1>2 DEF Board!Pending, Board!Running
<1>6. PICK l \in Seq(Task) : l = log
  BY <1>1
<1>7. PICK p \in Seq(Task) : p = Board!Pending
  BY <1>4
<1>8. PICK q : q = Board!Pending' /\ q = Tail(p)
  BY <1>4, <1>5, <1>7
<1>9. InStep(l, p) => /\ InStep(l, q)
                      /\ Replayed(l)[Len(l) - Len(q)] =
                           Board!BoardsAfter(Replayed(l)[Len(l) - Len(p)], u)
  BY <1>4, <1>7, <1>8, SettleReplay
<1> QED BY <1>1, <1>2, <1>4, <1>5, <1>6, <1>7, <1>8, <1>9

\* An update that settles in doubt, as Leaderboard has it.
LEMMA SettlesInDoubt ==
  ASSUME Board!Pending # <<>>, Board!Pending' = Tail(Board!Pending), stuck = {},
         doubt' = doubt (+) SetToBag({Head(Board!Pending)}), UNCHANGED Board!Boards
  PROVE  Board!Leader!Settle
<1>1. doubt' = Board!Leader!(+)(doubt, Board!Leader!SetToBag({Head(Board!Pending)}))
  BY DEF (+), SetToBag, Board!Leader!(+), Board!Leader!SetToBag
<1> QED BY <1>1 DEF Board!Leader!Settle

LEMMA RunStep ==
  ASSUME BoardAssumptions, BoardInv, Board!Run("worker")
  PROVE  BoardInv' /\ Board!Leader!Settle
<1> DEFINE u == running["worker"]
<1>1. /\ \E o \in Board!Outcomes(u) : Board!Ends(o) /\ Board!Done("worker")
      /\ "worker" \notin stuck /\ stuck' \in {stuck, stuck \cup {"worker"}}
  BY DEF Board!Run
<1>2. u \in Board!Updates /\ u \in Task
  BY DEF Board!Run, BoardInv, Task
<1>3. /\ BoardDbInv' /\ BoardDoubtInv' /\ faults' \in 0 .. faults
      /\ \/ Board!Boards' = Board!BoardsAfter(Board!Boards, u) /\ UNCHANGED doubt
         \/ UNCHANGED <<Board!Boards, doubt>> /\ faults' # faults
         \/ doubt' = doubt (+) SetToBag({u}) /\ UNCHANGED Board!Boards /\ faults' # faults
  BY <1>1, <1>2, ConstantsAre, RunOutcome DEF BoardInv
<1>4. faults' \in 0 .. MaxFaults /\ (faults' = MaxFaults => faults = MaxFaults)
  BY <1>3, FaultsAssumption DEF BoardInv
<1>5. /\ queue' \in Seq(Task) /\ running' \in [{"worker"} -> Task \cup {Null}]
      /\ log' \in Seq(Task) /\ log' = log
      /\ Board!Pending # <<>>
      /\ Head(Board!Pending) = u /\ Board!Pending' = Tail(Board!Pending)
      /\ InStep(log, Board!Pending) => InStep(log', Board!Pending')
      /\ InStep(log, Board!Pending) =>
           Replayed(log)[Len(log) - Len(Board!Pending')] =
             Board!BoardsAfter(Replayed(log)[Len(log) - Len(Board!Pending)], u)
  BY <1>1, <1>2, DoneStep
<1> HIDE DEF u
<1>6. ASSUME faults' = MaxFaults PROVE Fresh'
  <2>1. faults = MaxFaults /\ Fresh
    BY <1>4, <1>6 DEF BoardInv
  <2>2. Board!Boards' = Board!BoardsAfter(Board!Boards, u) /\ doubt' = doubt
    BY <1>3, <1>6, <2>1
  <2> QED BY <1>5, <2>1, <2>2 DEF Fresh
<1>7. running'["worker"] = Null
  BY <1>1 DEF Board!Done, BoardInv
<1>8. BoardInv'
  <2>1. stuck' \subseteq {"worker"} /\ running'["worker"] # Broken
    BY <1>1, <1>7, ConstantsAre DEF BoardInv
  <2> QED BY <1>3, <1>4, <1>5, <1>6, <2>1 DEF BoardInv
<1>9. Board!Leader!Settle
  <2>1. stuck = {} /\ (stuck' # {}) \in BOOLEAN
    BY <1>1 DEF BoardInv
  <2>2. CASE doubt' = doubt (+) SetToBag({u}) /\ UNCHANGED Board!Boards
    BY <1>5, <2>1, <2>2, SettlesInDoubt
  <2>3. CASE /\ UNCHANGED doubt
             /\ Board!Boards' \in {Board!Boards, Board!BoardsAfter(Board!Boards, u)}
    BY <1>5, <2>1, <2>3 DEF Board!Leader!Settle
  <2> QED BY <1>3, <2>2, <2>3
<1> QED BY <1>8, <1>9

LEMMA DieStep ==
  ASSUME BoardAssumptions, BoardInv, Board!Die("worker")
  PROVE  BoardInv' /\ Board!Leader!Settle
<1>1. /\ running["worker"] = Broken /\ Board!Done("worker") /\ Broken \in Task
      /\ UNCHANGED <<db, doubt, faults, stuck>>
  BY DEF Board!Die, Board!redisVars, Task
<1>2. /\ queue' \in Seq(Task) /\ running' \in [{"worker"} -> Task \cup {Null}]
      /\ log' \in Seq(Task) /\ log' = log
      /\ Board!Pending # <<>>
      /\ Head(Board!Pending) = Broken /\ Board!Pending' = Tail(Board!Pending)
      /\ InStep(log, Board!Pending) => InStep(log', Board!Pending')
      /\ InStep(log, Board!Pending) =>
           Replayed(log)[Len(log) - Len(Board!Pending')] =
             Board!BoardsAfter(Replayed(log)[Len(log) - Len(Board!Pending)], Broken)
  BY <1>1, DoneStep
<1>3. \A boards : Board!BoardsAfter(boards, Broken) = boards
  BY DEF Board!BoardsAfter
<1>4. Board!Boards' = Board!Boards /\ BoardDbInv'
  BY <1>1 DEF Board!Boards, BoardDbInv, BoardInv
<1>5. (faults = MaxFaults => Fresh)'
  BY <1>1, <1>2, <1>3, <1>4 DEF BoardInv, Fresh
<1>6. running'["worker"] # Broken
  BY <1>1, ConstantsAre DEF Board!Done, BoardInv
<1>7. BoardInv'
  BY <1>1, <1>2, <1>4, <1>5, <1>6, NoneMore DEF BoardInv
<1>8. stuck = {} /\ (stuck' # {}) \in BOOLEAN
  BY <1>1 DEF BoardInv
<1> QED BY <1>1, <1>2, <1>4, <1>7, <1>8 DEF Board!Leader!Settle

\* The worker's call hangs: nothing settles from now on.
LEMMA HangStep ==
  ASSUME BoardAssumptions, BoardInv, Board!Hang("worker")
  PROVE  BoardInv' /\ Board!Leader!Stall
<1>1. /\ running["worker"] \notin {Null, Broken} /\ stuck' = stuck \cup {"worker"}
      /\ UNCHANGED <<db, doubt, faults, queue, running, log>>
  BY DEF Board!Hang, Board!redisVars
<1>2. Board!Boards' = Board!Boards /\ BoardDbInv' /\ Board!Pending' = Board!Pending
  BY <1>1 DEF Board!Boards, BoardDbInv, BoardInv, Board!Pending, Board!Running
<1>3. (faults = MaxFaults => Fresh)'
  BY <1>1, <1>2 DEF BoardInv, Fresh
<1>4. BoardInv'
  BY <1>1, <1>2, <1>3, NoneMore DEF BoardInv
<1>5. Board!Pending # <<>>
  <2>1. running["worker"] \in Task \cup {Null} /\ queue \in Seq(Task)
    BY DEF BoardInv
  <2>2. Board!Pending = PendingOf(running["worker"], queue)
    BY DEF Board!Pending, Board!Running, PendingOf
  <2> QED BY <1>1, <2>1, <2>2, ConstantsAre, PendingForms
<1>6. (stuck' # {}) = TRUE
  BY <1>1
<1> QED BY <1>1, <1>2, <1>4, <1>5, <1>6 DEF Board!Leader!Stall

LEMMA LateStep ==
  ASSUME BoardAssumptions, BoardInv, NEW c \in InDoubt, Board!ExecuteLate(c),
         UNCHANGED <<queue, running, stuck, log>>
  PROVE  BoardInv' /\ Board!Leader!Surprise(c)
<1>1. /\ c \in Board!Updates /\ faults' = faults /\ db' = Board!Execute(db, c)
      /\ doubt' = doubt (-) SetToBag({c})
  BY DEF Board!ExecuteLate, Board!(-), (-), Board!SetToBag, SetToBag, BoardInv, BoardDoubtInv
<1>2. faults # MaxFaults
  BY NoMore DEF BoardInv, Fresh
<1>3. BoardDbInv' /\ Board!Boards' = Board!BoardsAfter(Board!Boards, c)
  BY <1>1, ConstantsAre, UpdateStep DEF BoardInv
<1>4. Board!Pending' = Board!Pending
  BY DEF Board!Pending, Board!Running
<1>5. BoardDoubtInv'
  <2>1. IsABag(doubt') /\ InDoubt' \subseteq InDoubt
    BY <1>1, OneLess DEF BoardInv, BoardDoubtInv
  <2> QED BY <2>1 DEF BoardInv, BoardDoubtInv
<1>6. BoardInv'
  BY <1>1, <1>2, <1>3, <1>5 DEF BoardInv
<1>7. doubt' = Board!Leader!(-)(doubt, Board!Leader!SetToBag({c}))
  BY <1>1 DEF (-), SetToBag, Board!Leader!(-), Board!Leader!SetToBag
<1> QED BY <1>3, <1>4, <1>6, <1>7, SameBags DEF Board!Leader!Surprise

LEMMA CrashStep ==
  ASSUME BoardAssumptions, BoardInv, Board!Crash
  PROVE  BoardInv' /\ Board!Leader!Crash
<1> DEFINE u == running["worker"]
           sending == u \notin {Null, Broken} /\ "worker" \notin stuck
<1>1. /\ queue' = <<>> /\ running' = [w \in {"worker"} |-> Null] /\ UNCHANGED <<db, log>>
      /\ stuck' = {}
      /\ faults \in 0 .. MaxFaults /\ faults > 0 /\ faults' = faults - 1
      /\ u \in Task \cup {Null} /\ queue \in Seq(Task) /\ BoardDoubtInv
  BY DEF Board!Crash, Board!Workers, BoardInv
<1>2. faults' \in 0 .. MaxFaults /\ faults' # MaxFaults
  BY <1>1, FaultsAssumption
<1>3. doubt' = IF sending THEN doubt (+) SetToBag({u}) ELSE doubt
  <2> DEFINE sent == {running[w] : w \in Board!Sending}
  <2>1. sent = IF sending THEN {u} ELSE {}
    BY DEF Board!Sending, Board!Workers
  <2> HIDE DEF sent, sending
  <2>2. doubt' = doubt (+) SetToBag(sent)
    BY DEF Board!Crash, Board!(+), (+), Board!SetToBag, SetToBag, sent
  <2>3. SetToBag({}) = EmptyBag
    BY DEF EmptyBag
  <2>4. doubt (+) EmptyBag = doubt
    BY <1>1, OneMore DEF BoardDoubtInv
  <2> QED BY <2>1, <2>2, <2>3, <2>4
<1>4. Board!Boards' = Board!Boards /\ BoardDbInv'
  BY <1>1 DEF Board!Boards, BoardDbInv, BoardInv
<1>5. Board!Pending' = <<>>
  <2>1. running'["worker"] = Null
    BY <1>1
  <2> QED BY <1>1, <2>1 DEF Board!Pending, Board!Running
<1>6. sending => Board!Pending # <<>> /\ Head(Board!Pending) = u /\ stuck = {}
  <2>1. Board!Pending = PendingOf(u, queue)
    BY DEF Board!Pending, Board!Running, PendingOf
  <2>2. stuck \subseteq {"worker"}
    BY DEF BoardInv
  <2> QED BY <1>1, <2>1, <2>2, ConstantsAre, PendingForms
<1>7. BoardInv'
  <2>1. BoardDoubtInv'
    <3>1. sending => u \in Board!Updates
      BY <1>1 DEF Task
    <3> HIDE DEF sending, u
    <3> QED BY <1>1, <1>3, <3>1, NoneMore, OneMoreUpdate
  <2>2. queue' \in Seq(Task) /\ running' \in [{"worker"} -> Task \cup {Null}] /\ stuck' = {}
    BY <1>1
  <2> QED BY <1>1, <1>2, <1>4, <2>1, <2>2 DEF BoardInv
<1>8. (stuck' # {}) = FALSE
  BY <1>1
<1>9. CASE sending
  <2>1. doubt' = Board!Leader!(+)(doubt, Board!Leader!SetToBag({u}))
    BY <1>3, <1>9 DEF (+), SetToBag, Board!Leader!(+), Board!Leader!SetToBag
  <2> QED BY <1>4, <1>5, <1>6, <1>7, <1>8, <1>9, <2>1 DEF Board!Leader!Crash
<1>10. CASE ~sending
  BY <1>3, <1>4, <1>5, <1>7, <1>8, <1>10 DEF Board!Leader!Crash
<1> QED BY <1>9, <1>10

LEMMA BoardInit ==
  ASSUME BoardAssumptions, Board!Init
  PROVE  BoardInv /\ Board!Leader!Init
<1>1. /\ db = [k \in Key |-> Board!Missing] /\ doubt = EmptyBag /\ faults = MaxFaults
      /\ queue = <<>> /\ running = [w \in {"worker"} |-> Null] /\ stuck = {} /\ log = <<>>
  BY SameBags DEF Board!Init, Board!RedisInit, Board!EmptyDb, Board!Workers
<1>2. Board!Pending = <<>>
  <2>1. running["worker"] = Null
    BY <1>1
  <2> QED BY <1>1, <2>1 DEF Board!Pending, Board!Running
<1>3. Board!Boards = NoScores
  BY <1>1 DEF Board!Boards, Board!Content, Board!Present, NoScores
<1>4. BoardDbInv
  BY <1>1 DEF BoardDbInv, Missing, Board!Missing
<1>5. Fresh
  <2>1. InStep(log, Board!Pending) /\ Len(log) - Len(Board!Pending) = 0
    BY <1>1, <1>2 DEF InStep
  <2>2. Replayed(log)[0] = NoScores
    BY ReplayedIs DEF After
  <2> QED BY <1>1, <1>3, <2>1, <2>2 DEF Fresh
<1>6. BoardInv
  <2>1. BoardDoubtInv
    BY <1>1, NoMore DEF BoardDoubtInv
  <2> QED BY <1>1, <1>4, <1>5, <2>1, FaultsAssumption DEF BoardInv
<1>7. (stuck # {}) = FALSE
  BY <1>1
<1> QED BY <1>1, <1>2, <1>3, <1>6, <1>7, SameBags DEF Board!Leader!Init, NoScores

\* Every step of the executor is one step of the leaderboard, or none.
LEMMA BoardNext ==
  ASSUME BoardAssumptions, BoardInv, [Board!Next]_Board!vars
  PROVE  BoardInv' /\ [Board!Leader!Next]_Board!Leader!vars
<1> DEFINE Good == BoardInv' /\ [Board!Leader!Next]_Board!Leader!vars
<1>1. ASSUME NEW u \in Task, Board!Submit(u), Board!Asks(u) PROVE Good
  <2>1. BoardInv' /\ Board!Leader!Submit(u)
    BY <1>1, SubmitStep DEF Board!Asks
  <2> QED BY <2>1 DEF Board!Leader!Next, Task
<1>2. ASSUME NEW k \in Key, NEW v \in Value, NEW m \in Member, Board!SetSortSetItem(k, v, m)
      PROVE  Good
  <2>1. Board!incrSortSetItem(k, v, m) \in Task
    BY DEF Task, Board!Updates
  <2> QED BY <1>1, <1>2, <2>1 DEF Board!SetSortSetItem
<1>3. ASSUME NEW k \in Key, NEW v \in Value, NEW m \in Member, Board!UpdateSortSetItem(k, v, m)
      PROVE  Good
  <2>1. Board!updateSortSetItem(k, v, m) \in Task
    BY DEF Task, Board!Updates
  <2> QED BY <1>1, <1>3, <2>1 DEF Board!UpdateSortSetItem
<1>4. ASSUME NEW k \in Key, NEW v \in Value, NEW m \in Member, Board!IncrSortSetItem(k, v, m)
      PROVE  Good
  <2>1. Board!incrSortSetItem(k, v, m) \in Task
    BY DEF Task, Board!Updates
  <2> QED BY <1>1, <1>4, <2>1 DEF Board!IncrSortSetItem, Board!NothingToDo
<1>5. CASE Board!ExecuteBroken
  BY <1>1, <1>5 DEF Board!ExecuteBroken, Task
<1>6. CASE Board!Take("worker")
  BY <1>6, TakeStep
<1>7. CASE Board!Run("worker") \/ Board!Die("worker")
  <2>1. BoardInv' /\ Board!Leader!Settle
    BY <1>7, RunStep, DieStep
  <2> QED BY <2>1 DEF Board!Leader!Next
<1>8. CASE Board!Hang("worker")
  <2>1. BoardInv' /\ Board!Leader!Stall
    BY <1>8, HangStep
  <2> QED BY <2>1 DEF Board!Leader!Next
<1>9. ASSUME NEW c \in InDoubt, Board!ExecuteLate(c), UNCHANGED Board!executorVars PROVE Good
  <2>1. BoardInv' /\ Board!Leader!Surprise(c)
    BY <1>9, LateStep DEF Board!executorVars
  <2> QED BY <2>1, SameBags DEF Board!Leader!Next
<1>10. CASE Board!Crash
  <2>1. BoardInv' /\ Board!Leader!Crash
    BY <1>10, CrashStep
  <2> QED BY <2>1 DEF Board!Leader!Next
<1>11. CASE UNCHANGED Board!vars
  <2>1. UNCHANGED <<db, doubt, faults, queue, running, stuck, log>>
    BY <1>11 DEF Board!vars, Board!redisVars, Board!executorVars
  <2>2. Board!Boards' = Board!Boards /\ Board!Pending' = Board!Pending
    BY <2>1 DEF Board!Boards, Board!Pending, Board!Running
  <2>3. BoardDbInv' /\ Fresh' = Fresh
    BY <2>1, <2>2 DEF BoardDbInv, BoardInv, Fresh
  <2> QED BY <2>1, <2>2, <2>3, NoneMore DEF BoardInv, Board!Leader!vars
<1> QED BY <1>2, <1>3, <1>4, <1>5, <1>6, <1>7, <1>8, <1>9, <1>10, <1>11,
            SameBags
        DEF Board!Next, Board!Request, Board!Worker, Board!Workers

LEMMA BoardInvariance ==
  ASSUME BoardAssumptions
  PROVE  Board!Spec => []BoardInv
<1>1. Board!Init => BoardInv
  BY BoardInit
<1>2. BoardInv /\ [Board!Next]_Board!vars => BoardInv'
  BY BoardNext
<1> QED BY <1>1, <1>2, PTL DEF Board!Spec

(* Boards are sorted sets of players that never expire, and the queue, the *)
(* worker and the commands in doubt hold updates: whatever is submitted,   *)
(* lost, late or crashes.                                                  *)
THEOREM BoardsTyped ==
  ASSUME BoardAssumptions
  PROVE  Board!Spec => []Board!TypeOK
<1>1. ASSUME BoardInv PROVE Board!TypeOK
  <2>1. ASSUME NEW k \in Key, Board!Present(db, k)
        PROVE  /\ db[k].kind = "zset" /\ db[k].life = "endless"
               /\ DOMAIN db[k].val \subseteq Member
               /\ \A m \in DOMAIN db[k].val : db[k].val[m] \in Int
    <3>1. db[k] \in SortedSet
      BY <1>1, <2>1 DEF BoardInv, BoardDbInv, Board!Present, Missing, Board!Missing
    <3>2. /\ db[k].kind = "zset" /\ db[k].life = "endless" /\ db[k].val \in Scores
      BY <3>1, SortedSetIs
    <3>3. DOMAIN db[k].val \subseteq Member /\ db[k].val \in [DOMAIN db[k].val -> Int]
      BY <3>2, ScoresType
    <3> QED BY <3>2, <3>3
  <2>2. Task \cup {Null} = Board!Updates \cup {Broken, Null}
    BY DEF Task
  <2> QED BY <1>1, <2>1, <2>2, SameBags DEF BoardInv, BoardDoubtInv, Board!TypeOK, Board!Workers, Task
<1> QED BY <1>1, BoardInvariance, PTL

(* While Redis answers everything, the boards are the replay of the        *)
(* requests that are not pending: nothing is lost, doubled or overtaken.   *)
THEOREM BoardsReplayTheLog ==
  ASSUME BoardAssumptions
  PROVE  Board!Spec => []Board!ReplaysTheLog
<1>1. ASSUME BoardInv PROVE Board!ReplaysTheLog
  <2>1. Board!Replay = Replayed(log)
    BY DEF Board!Replay, Replayed
  <2> QED BY <1>1, <2>1 DEF Board!ReplaysTheLog, BoardInv, Fresh
<1> QED BY <1>1, BoardInvariance, PTL

(* The executor settles updates one at a time in the order of submission,  *)
(* or loses them with the process, or stalls with a Redis call that never  *)
(* returns, and an update changes the boards late as often at most as it   *)
(* is in doubt, however many equal ones there are: every step of the       *)
(* executor is a step of Leaderboard, or none.                             *)
THEOREM SettlesInOrder ==
  ASSUME BoardAssumptions
  PROVE  Board!Spec => Board!Leader!Init /\ [][Board!Leader!Next]_Board!Leader!vars
<1>1. Board!Init => BoardInv /\ Board!Leader!Init
  BY BoardInit
<1>2. BoardInv /\ [Board!Next]_Board!vars => BoardInv' /\ [Board!Leader!Next]_Board!Leader!vars
  BY BoardNext
<1> QED BY <1>1, <1>2, PTL DEF Board!Spec
=============================================================================
