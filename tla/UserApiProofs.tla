---------------------------- MODULE UserApiProofs ----------------------------
(***************************************************************************)
(* Theorems about UserApi, for any number of request threads, any table    *)
(* and any limit.                                                          *)
(***************************************************************************)
EXTENDS UserApi, FiniteSetTheorems, WellFoundedInduction, TLAPS

(***************************************************************************)
(* Counting the rows of a page: what order by id limit 0, n leaves.        *)
(***************************************************************************)
Below(S, x) == {y \in S : y < x}
First(S, n) == {x \in S : Cardinality(Below(S, x)) < n}

LEMMA LeastNat ==
  ASSUME NEW S \in SUBSET Nat, S # {}
  PROVE  \E m \in S : \A x \in S : m <= x
<1> DEFINE R == OpToRel(<, Nat)
<1>1. PICK m \in S : \A x \in S : ~ (<<x, m>> \in R)
  BY NatLessThanWellFounded, WFMin
<1>2. ASSUME NEW x \in S PROVE m <= x
  <2>1. R = {ss \in Nat \X Nat : ss[1] < ss[2]}
    BY Zenon DEF OpToRel
  <2> HIDE DEF R
  <2>2. <<x, m>> \in Nat \X Nat /\ <<x, m>>[1] = x /\ <<x, m>>[2] = m
    OBVIOUS
  <2>3. ~ (x < m)
    BY <1>1, <2>1, <2>2
  <2> QED BY <2>3
<1> QED BY <1>2

LEMMA PartOf ==
  ASSUME NEW S, IsFiniteSet(S)
  PROVE  /\ Cardinality(S) \in Nat
         /\ \A x : /\ Below(S, x) \in SUBSET S /\ IsFiniteSet(Below(S, x))
                   /\ Cardinality(Below(S, x)) \in Nat
         /\ \A n : First(S, n) \in SUBSET S /\ IsFiniteSet(First(S, n))
<1>1. Cardinality(S) \in Nat
  BY FS_CardinalityType
<1>2. ASSUME NEW x
      PROVE  /\ Below(S, x) \in SUBSET S /\ IsFiniteSet(Below(S, x))
             /\ Cardinality(Below(S, x)) \in Nat
  <2>1. Below(S, x) \in SUBSET S
    BY DEF Below
  <2>2. IsFiniteSet(Below(S, x))
    BY <2>1, FS_Subset
  <2> QED BY <2>1, <2>2, FS_CardinalityType
<1>3. ASSUME NEW n PROVE First(S, n) \in SUBSET S /\ IsFiniteSet(First(S, n))
  <2>1. First(S, n) \in SUBSET S
    BY DEF First
  <2> QED BY <2>1, FS_Subset
<1> QED BY <1>1, <1>2, <1>3

\* A larger id has more rows before it.
LEMMA RankGrows ==
  ASSUME NEW S \in SUBSET Int, IsFiniteSet(S), NEW x \in S, NEW y \in Int, x < y
  PROVE  /\ Cardinality(Below(S, x)) \in Nat /\ Cardinality(Below(S, y)) \in Nat
         /\ Cardinality(Below(S, x)) < Cardinality(Below(S, y))
<1>1. IsFiniteSet(Below(S, x)) /\ IsFiniteSet(Below(S, y))
  BY PartOf
<1>2. Cardinality(Below(S, x)) \in Nat /\ Cardinality(Below(S, y)) \in Nat
  BY PartOf
<1>3. Below(S, x) \subseteq Below(S, y) /\ x \in Below(S, y) /\ x \notin Below(S, x)
  <2>1. \A z \in S : z \in Int /\ (z < x => z < y)
    <3>1. x \in Int
      OBVIOUS
    <3> QED BY <3>1
  <2>2. x \in Int /\ ~(x < x)
    OBVIOUS
  <2> QED BY <2>1, <2>2 DEF Below
<1>4. Cardinality(Below(S, x)) <= Cardinality(Below(S, y))
      /\ Cardinality(Below(S, x)) # Cardinality(Below(S, y))
  BY <1>1, <1>3, FS_Subset
<1> QED BY <1>2, <1>4

LEMMA LeastElement ==
  ASSUME NEW S \in SUBSET Int, IsFiniteSet(S), NEW T \in SUBSET S, T # {}
  PROVE  \E m \in T : \A x \in T : m <= x
<1> DEFINE ranks == {Cardinality(Below(S, x)) : x \in T}
<1>1. \A x \in T : Cardinality(Below(S, x)) \in Nat
  BY PartOf
<1>2. ranks \in SUBSET Nat /\ ranks # {}
  BY <1>1
<1>3. PICK r \in ranks : \A q \in ranks : r <= q
  BY <1>2, LeastNat
<1>4. PICK m \in T : r = Cardinality(Below(S, m))
  BY <1>3
<1>5. ASSUME NEW x \in T, x < m PROVE FALSE
  <2>1. Cardinality(Below(S, x)) < Cardinality(Below(S, m))
    BY <1>5, RankGrows
  <2>2. Cardinality(Below(S, m)) <= Cardinality(Below(S, x))
    BY <1>3, <1>4
  <2> QED BY <1>1, <2>1, <2>2
<1>6. \A x \in T : m <= x
  BY <1>5
<1> QED BY <1>6

\* The first n rows are n rows, if there are as many.
LEMMA FirstCount ==
  ASSUME NEW S \in SUBSET Int, IsFiniteSet(S), NEW n \in Nat, n <= Cardinality(S)
  PROVE  Cardinality(First(S, n)) = n
<1> DEFINE Bad == {k \in 0 .. Cardinality(S) : Cardinality(First(S, k)) # k}
<1>0. Cardinality(S) \in Nat
  BY FS_CardinalityType
<1>1. SUFFICES ASSUME Bad # {} PROVE FALSE
  BY <1>0
<1>2. PICK k \in Bad : \A j \in Bad : k <= j
  <2>1. Bad \in SUBSET Nat
    BY <1>0
  <2> HIDE DEF Bad
  <2> QED BY <1>1, <2>1, LeastNat
<1>3. \A x \in S : Cardinality(Below(S, x)) \in Nat
  BY PartOf
<1>4. k # 0
  <2>1. First(S, 0) = {}
    <3>1. ASSUME NEW x \in S PROVE ~(Cardinality(Below(S, x)) < 0)
      <4>1. PICK c \in Nat : c = Cardinality(Below(S, x))
        BY <1>3
      <4> QED BY <4>1
    <3> QED BY <3>1 DEF First
  <2> QED BY <1>2, <2>1, FS_EmptySet
<1>5. PICK h \in Nat : k = h + 1 /\ h < Cardinality(S)
  BY <1>0, <1>2, <1>4
<1>6. Cardinality(First(S, h)) = h
  <2>1. h \notin Bad
    BY <1>2, <1>5
  <2> QED BY <1>0, <1>5, <2>1
<1>7. First(S, h) \subseteq S /\ IsFiniteSet(First(S, h))
  BY PartOf
<1>8. S \ First(S, h) # {}
  <2>1. First(S, h) # S
    BY <1>5, <1>6
  <2> QED BY <1>7, <2>1
<1>9. PICK x \in S \ First(S, h) : \A y \in S \ First(S, h) : x <= y
  BY <1>8, LeastElement
<1>10. Below(S, x) = First(S, h)
  <2>1. ASSUME NEW y \in Below(S, x) PROVE y \in First(S, h)
    BY <1>9 DEF Below
  <2>2. ASSUME NEW y \in First(S, h) PROVE y \in Below(S, x)
    <3>1. y \in S /\ Cardinality(Below(S, y)) < h /\ ~(Cardinality(Below(S, x)) < h)
      BY <1>9 DEF First
    <3>2. y # x
      BY <1>9
    <3>3. ~(x < y)
      BY <1>3, <3>1, RankGrows
    <3> QED BY <3>1, <3>2, <3>3 DEF Below
  <2> QED BY <2>1, <2>2
<1>11. Cardinality(Below(S, x)) = h
  BY <1>6, <1>10
<1>12. First(S, k) = First(S, h) \cup {x}
  <2>1. ASSUME NEW y \in S PROVE y \in First(S, k) <=> y \in First(S, h) \cup {x}
    <3>1. y < x \/ y = x \/ x < y
      OBVIOUS
    <3>2. CASE y < x
      <4>1. y \in First(S, h) /\ Cardinality(Below(S, y)) < h
        BY <1>10, <3>2 DEF Below, First
      <4> QED BY <1>3, <1>5, <4>1 DEF First
    <3>3. CASE y = x
      BY <1>5, <1>11, <3>3 DEF First
    <3>4. CASE x < y
      <4>1. h < Cardinality(Below(S, y))
        BY <1>11, <3>4, RankGrows
      <4> QED BY <1>3, <1>5, <3>4, <4>1 DEF First
    <3> QED BY <3>1, <3>2, <3>3, <3>4
  <2> QED BY <2>1, <1>7 DEF First
<1>13. Cardinality(First(S, k)) = h + 1
  <2>1. IsFiniteSet(First(S, h)) /\ x \notin First(S, h)
    BY <1>7, <1>9
  <2>2. Cardinality(First(S, h) \cup {x}) = Cardinality(First(S, h)) + 1
    BY <2>1, FS_AddElement
  <2> QED BY <1>6, <1>12, <2>2
<1> QED BY <1>2, <1>5, <1>13
-----------------------------------------------------------------------------

\* A "true" that is on its way is as good as one that has arrived.
Promised(t) ==
  reply[t].kind = "true" =>
    /\ arg[t] \in Rows
    /\ arg[t].id \in DOMAIN table /\ table[arg[t].id] = arg[t].name
    /\ \A row \in saved : row.id # arg[t].id
    /\ \A u \in Thread \ {t} : reply[u].kind = "true" => arg[u].id # arg[t].id

Saves == \A t \in Thread : pc[t] \in {"save", "commit"} => arg[t] \in Rows

\* What answer r shows of the rows that thread t could count on.
Shows(t, r) ==
  \A row \in known[t] :
    /\ r.kind = "users" =>
         \/ row.id \in DOMAIN r.rows /\ r.rows[row.id] = row.name
         \/ Cardinality({i \in DOMAIN r.rows : i < row.id}) = Limit
    /\ r.kind = "user" /\ arg[t].id = row.id => r.name = row.name

FiniteTable == IsFiniteSet(DOMAIN table)

\* The inductive invariant.  TypeOK keeps ids that are being inserted apart from
\* those in the table, Promised carries the commit to its answer.  The rows
\* before an id can be counted because a table is finite.
IInv ==
  /\ TypeOK /\ SavedForGood /\ Saves /\ \A t \in Thread : Promised(t)
  /\ SavedIsSeen /\ FiniteTable

LEMMA SeenShows == SavedIsSeen <=> \A t \in Thread : Shows(t, reply[t])
  BY DEF SavedIsSeen, Shows

LEMMA InitIInv == Init => IInv
<1> SUFFICES ASSUME Init PROVE IInv
  OBVIOUS
<1> USE DEF Init
<1>1. TypeOK
  BY PreloadedAssumption, CallsAssumption DEF TypeOK, Location, NoRow, NoReply
<1>2. SavedForGood /\ Saves /\ \A t \in Thread : Promised(t)
  BY DEF SavedForGood, Saves, Promised, NoReply
<1>3. SavedIsSeen /\ FiniteTable
  BY PreloadedAssumption DEF SavedIsSeen, FiniteTable
<1> QED BY <1>1, <1>2, <1>3 DEF IInv

LEMMA BeginIInv ==
  ASSUME IInv, NEW t \in Thread, Request(t)
  PROVE  IInv'
<1> USE DEF IInv
<1>1. PICK location \in {"save", "select", "list"}, id \in Id \cup {0}, name \in Name \cup {Null} :
        /\ Begin(t, location, id, name)
        /\ location = "save" => id \in Id /\ name \in Name
  BY DEF Request
<1> USE DEF Begin
<1>2. todo \in 1 .. MaxCalls /\ todo' \in 0 .. MaxCalls
  BY <1>1, CallsAssumption DEF TypeOK
<1>3. TypeOK'
  BY <1>1, <1>2 DEF TypeOK, Location
<1>4. SavedForGood'
  BY <1>1 DEF SavedForGood
<1>5. Saves'
  BY <1>1, <1>2 DEF Saves, Rows, TypeOK
<1>6. \A u \in Thread : Promised(u)'
  BY <1>1 DEF Promised, TypeOK
<1>7. SavedIsSeen'
  <2>1. reply[t].kind = "none"
    BY <1>1 DEF TypeOK
  <2> QED BY <1>1, <2>1 DEF SavedIsSeen, TypeOK
<1>8. FiniteTable'
  BY <1>1 DEF FiniteTable
<1> QED BY <1>3, <1>4, <1>5, <1>6, <1>7, <1>8

\* The steps that answer a request without a commit.
LEMMA AnswerIInv ==
  ASSUME IInv, NEW t \in Thread, NEW r,
         r.kind \notin {"none", "true"}, Shows(t, r), Answers(t, r),
         pc[t] \in {"save", "list", "select"},
         UNCHANGED <<table, inserted, arg, todo, saved, known>>,
         faults' = faults \/ Fault
  PROVE  IInv'
<1> USE DEF IInv, Answers
<1>1. TypeOK'
  BY CallsAssumption DEF TypeOK, Location, Fault
<1>2. SavedForGood' /\ Saves'
  BY DEF SavedForGood, Saves
<1>3. \A u \in Thread : Promised(u)'
  BY DEF Promised, TypeOK
<1>4. SavedIsSeen'
  <2>1. reply'[t] = r /\ \A u \in Thread \ {t} : reply'[u] = reply[u]
    BY DEF TypeOK
  <2>2. ASSUME NEW u \in Thread PROVE Shows(u, reply[u])'
    BY <2>1, SeenShows DEF Shows
  <2> QED BY <2>2 DEF SavedIsSeen, Shows
<1>5. FiniteTable'
  BY DEF FiniteTable
<1> QED BY <1>1, <1>2, <1>3, <1>4, <1>5

LEMMA ErrorShows == ASSUME NEW t \in Thread PROVE Shows(t, Error)
  BY DEF Shows, Error

\* A row that is not on the page has a full page before it.
LEMMA PageShows ==
  ASSUME IInv, NEW t \in Thread
  PROVE  Shows(t, Users([id \in Page |-> table[id]]))
<1> DEFINE D == DOMAIN table
           r == Users([id \in Page |-> table[id]])
<1>1. D \in SUBSET Int /\ IsFiniteSet(D)
  BY IdAssumption DEF IInv, TypeOK, IsTable, FiniteTable
<1>2. \A id : Before(id) = Below(D, id)
  BY DEF Before, Below
<1> HIDE DEF D
<1>3. Page = First(D, Limit)
  <2>1. ASSUME NEW id \in D
        PROVE  Cardinality(Before(id)) \in 0 .. Limit - 1 <=> Cardinality(Below(D, id)) < Limit
    <3>1. PICK c \in Nat : c = Cardinality(Below(D, id))
      BY <1>1, PartOf
    <3> QED BY <1>2, <3>1, LimitAssumption
  <2> QED BY <2>1 DEF Page, First, D
<1>4. r.kind = "users" /\ DOMAIN r.rows = Page /\ \A id \in Page : r.rows[id] = table[id]
  BY DEF Users
<1>5. ASSUME NEW row \in known[t]
      PROVE  \/ row.id \in Page /\ table[row.id] = row.name
             \/ Cardinality({i \in Page : i < row.id}) = Limit
  <2>1. row \in saved /\ row.id \in D /\ table[row.id] = row.name
    BY DEF IInv, TypeOK, SavedForGood, D
  <2> DEFINE x == row.id
             B == Below(D, x)
  <2>2. B \in SUBSET Int /\ IsFiniteSet(B)
    BY <1>1, PartOf
  <2>3. PICK c \in Nat : c = Cardinality(B)
    BY <1>1, PartOf
  <2>4. CASE c < Limit
    BY <1>3, <2>1, <2>3, <2>4 DEF First
  <2>5. CASE Limit <= c
    <3>1. {i \in Page : i < x} = First(B, Limit)
      <4>1. ASSUME NEW i \in D, i < x PROVE Below(B, i) = Below(D, i)
        <5>1. \A y \in D : y < i => y < x
          <6>1. i \in Int /\ x \in Int /\ \A y \in D : y \in Int
            BY <1>1, <2>1
          <6> HIDE DEF x
          <6> QED BY <4>1, <6>1
        <5> QED BY <5>1 DEF Below
      <4> QED BY <1>3, <4>1 DEF First, Below
    <3>2. Cardinality(First(B, Limit)) = Limit
      BY <2>2, <2>3, <2>5, FirstCount, LimitAssumption
    <3> QED BY <3>1, <3>2
  <2>6. c < Limit \/ Limit <= c
    BY LimitAssumption
  <2> QED BY <2>4, <2>5, <2>6
<1> HIDE DEF r
<1>6. Shows(t, r)
  BY <1>4, <1>5 DEF Shows
<1> QED BY <1>6 DEF r

LEMMA SelectShows ==
  ASSUME IInv, NEW t \in Thread
  PROVE  LET id == arg[t].id
         IN Shows(t, IF id \in DOMAIN table /\ table[id] # Null THEN User(table[id]) ELSE Error)
<1> DEFINE id == arg[t].id
<1>1. Shows(t, User(table[id]))
  <2>1. \A row \in known[t] : table[row.id] = row.name
    BY DEF IInv, TypeOK, SavedForGood
  <2>2. User(table[id]).kind = "user" /\ User(table[id]).name = table[id]
    BY DEF User
  <2> QED BY <2>1, <2>2 DEF Shows
<1> QED BY <1>1, ErrorShows

LEMMA InsertIInv ==
  ASSUME IInv, NEW t \in Thread, Insert(t)
  PROVE  IInv'
<1>1. CASE arg[t].id \in DOMAIN table
  BY <1>1, AnswerIInv, ErrorShows DEF Insert, Error
<1>2. CASE arg[t].id \notin DOMAIN table
  <2>0. /\ pc[t] = "save" /\ ~Locked(t, arg[t].id)
        /\ inserted' = [inserted EXCEPT ![t] = {arg[t].id}]
        /\ pc' = [pc EXCEPT ![t] = "commit"]
        /\ UNCHANGED <<reply, table, arg, todo, faults, saved, known>>
    BY <1>2 DEF Insert
  <2> USE <1>2, <2>0 DEF IInv
  <2>1. TypeOK'
    <3>1. arg[t].id \in Id
      BY DEF Saves, Rows
    <3>2. inserted' \in [Thread -> SUBSET Id]
      BY <3>1 DEF TypeOK
    <3>3. \A u \in Thread : inserted'[u] = IF pc'[u] = "commit" THEN {arg'[u].id} ELSE {}
      BY DEF TypeOK
    <3>4. \A u \in Thread : inserted'[u] \cap DOMAIN table' = {}
      BY DEF TypeOK
    <3>5. \A u \in Thread : \A v \in Thread \ {u} : inserted'[u] \cap inserted'[v] = {}
      BY DEF TypeOK, Locked
    <3> QED BY <3>2, <3>3, <3>4, <3>5 DEF TypeOK, Location
  <2>2. SavedForGood' /\ Saves'
    BY DEF SavedForGood, Saves, TypeOK
  <2>3. \A u \in Thread : Promised(u)'
    BY DEF Promised, TypeOK
  <2>4. SavedIsSeen' /\ FiniteTable'
    BY DEF SavedIsSeen, FiniteTable
  <2> QED BY <2>1, <2>2, <2>3, <2>4
<1> QED BY <1>1, <1>2

\* The row that a commit adds.
LEMMA WithRow ==
  ASSUME IInv, NEW row \in Rows
  PROVE  /\ IsTable(With(row))
         /\ DOMAIN With(row) = DOMAIN table \cup {row.id}
         /\ With(row)[row.id] = row.name
         /\ \A id \in DOMAIN table : id # row.id => With(row)[id] = table[id]
  BY DEF IInv, TypeOK, IsTable, With, Rows

LEMMA CommitIInv ==
  ASSUME IInv, NEW t \in Thread, Commit(t) \/ CommitFails(t)
  PROVE  IInv'
<1> USE DEF IInv
<1>1. /\ pc[t] = "commit" /\ arg[t] \in Rows
      /\ arg[t].id \notin DOMAIN table
      /\ \A u \in Thread \ {t} : arg[t].id \notin inserted[u]
  BY DEF Commit, CommitFails, Saves, TypeOK
<1>2. /\ DOMAIN table \subseteq DOMAIN table'
      /\ DOMAIN table' \subseteq DOMAIN table \cup {arg[t].id}
      /\ \A id \in DOMAIN table : table'[id] = table[id]
      /\ IsTable(table') /\ FiniteTable'
  <2>1. table' = table \/ table' = With(arg[t])
    BY DEF Commit, CommitFails, Committed
  <2>2. CASE table' = table
    BY <2>2 DEF TypeOK, FiniteTable
  <2>3. CASE table' = With(arg[t])
    <3>1. IsFiniteSet(DOMAIN table \cup {arg[t].id})
      BY FS_AddElement DEF FiniteTable
    <3> QED BY <2>3, <3>1, <1>1, WithRow DEF FiniteTable
  <2> QED BY <2>1, <2>2, <2>3
<1>3. /\ inserted' = [inserted EXCEPT ![t] = {}]
      /\ UNCHANGED <<arg, todo, saved, known>>
      /\ faults' \in 0 .. MaxFaults
      /\ \E r \in {True, Error} : Answers(t, r)
  BY CallsAssumption DEF Commit, CommitFails, Fault, TypeOK
<1>4. TypeOK'
  <2>1. PICK r \in {True, Error} : Answers(t, r)
    BY <1>3
  <2>2. r.kind # "none"
    BY DEF True, Error
  <2>3. \A u \in Thread : inserted'[u] \cap DOMAIN table' = {}
    BY <1>1, <1>2, <1>3 DEF TypeOK
  <2> QED BY <1>1, <1>2, <1>3, <2>1, <2>2, <2>3 DEF TypeOK, Location, Answers
<1>5. SavedForGood'
  BY <1>2, <1>3 DEF SavedForGood
<1>6. Saves'
  BY <1>3 DEF Saves, Answers, TypeOK
<1>7. Promised(t)'
  <2>1. CASE Commit(t)
    <3>1. table'[arg[t].id] = arg[t].name /\ arg[t].id \in DOMAIN table'
      BY <2>1, <1>1, WithRow DEF Commit, Committed
    <3> QED BY <3>1, <1>1, <1>3 DEF Promised, SavedForGood, Answers, TypeOK
  <2>2. CASE CommitFails(t)
    BY <2>2 DEF CommitFails, Answers, Error, Promised, TypeOK
  <2> QED BY <2>1, <2>2
<1>8. ASSUME NEW u \in Thread \ {t} PROVE Promised(u)'
  BY <1>1, <1>2, <1>3 DEF Promised, Answers, TypeOK
<1>9. SavedIsSeen'
  <2>1. PICK r \in {True, Error} : Answers(t, r)
    BY <1>3
  <2>2. r.kind # "users" /\ r.kind # "user"
    BY <2>1 DEF True, Error
  <2>3. reply'[t] = r /\ \A u \in Thread \ {t} : reply'[u] = reply[u]
    BY <2>1 DEF Answers, TypeOK
  <2>4. known' = known /\ arg' = arg
    BY <1>3
  <2>5. ASSUME NEW u \in Thread PROVE Shows(u, reply[u])'
    BY <2>2, <2>3, <2>4, SeenShows DEF Shows
  <2> QED BY <2>5 DEF SavedIsSeen, Shows
<1> QED BY <1>2, <1>4, <1>5, <1>6, <1>7, <1>8, <1>9

LEMMA RespondIInv ==
  ASSUME IInv, NEW t \in Thread, Respond(t)
  PROVE  IInv'
<1> USE DEF IInv, Respond
<1>1. TypeOK'
  <2>1. NoRow \in [call : 0 .. MaxCalls, id : Id \cup {0}, name : Name \cup {Null}]
    BY CallsAssumption DEF NoRow
  <2>2. saved' \subseteq Rows /\ saved \subseteq saved'
    BY DEF TypeOK, Promised
  <2> QED BY <2>1, <2>2 DEF TypeOK, Location, NoReply
<1>2. SavedForGood'
  BY DEF SavedForGood, Promised
<1>3. Saves'
  BY DEF Saves, TypeOK
<1>4. \A u \in Thread : Promised(u)'
  BY DEF Promised, TypeOK, NoReply
<1>5. SavedIsSeen'
  BY DEF SavedIsSeen, TypeOK, NoReply
<1>6. FiniteTable'
  BY DEF FiniteTable
<1> QED BY <1>1, <1>2, <1>3, <1>4, <1>5, <1>6

LEMMA NextIInv == IInv /\ [Next]_vars => IInv'
<1> SUFFICES ASSUME IInv, [Next]_vars PROVE IInv'
  OBVIOUS
<1>1. CASE UNCHANGED vars
  <2>1. /\ UNCHANGED <<table, inserted, pc, arg, reply>>
        /\ UNCHANGED <<todo, faults, saved, known>>
    BY <1>1 DEF vars
  <2>2. TypeOK'
    BY <2>1 DEF IInv, TypeOK
  <2>3. SavedForGood' /\ Saves' /\ \A t \in Thread : Promised(t)'
    BY <2>1 DEF IInv, SavedForGood, Saves, Promised
  <2>4. SavedIsSeen' /\ FiniteTable'
    BY <2>1 DEF IInv, SavedIsSeen, FiniteTable
  <2> QED BY <2>2, <2>3, <2>4 DEF IInv
<1>2. ASSUME NEW t \in Thread, InsertFails(t) \/ ReadFails(t) PROVE IInv'
  BY <1>2, AnswerIInv, ErrorShows DEF InsertFails, ReadFails, Error
<1>3. ASSUME NEW t \in Thread, List(t) PROVE IInv'
  BY <1>3, AnswerIInv, PageShows DEF List, Users
<1>4. ASSUME NEW t \in Thread, SelectIdwq(t) PROVE IInv'
  BY <1>4, AnswerIInv, SelectShows DEF SelectIdwq, User, Error
<1>5. CASE Next
  BY <1>5, <1>2, <1>3, <1>4, BeginIInv, InsertIInv, CommitIInv, RespondIInv
     DEF Next, ThreadStep
<1> QED BY <1>1, <1>5
-----------------------------------------------------------------------------
\* The inductive invariant holds of every behaviour of the user API.
THEOREM Invariance == Spec => []IInv
  BY InitIInv, NextIInv, PTL DEF Spec

\* The table is one, and what transactions insert never collides.
THEOREM TypeCorrect == Spec => []TypeOK
  BY Invariance, PTL DEF IInv

\* Every save answered "true" stays, and no id is promised twice.
THEOREM SavesAreForGood == Spec => []SavedForGood
  BY Invariance, PTL DEF IInv

\* A save answered "true" before a request begins is in what the request
\* reads, unless the list is full of smaller ids.
THEOREM SavesAreSeen == Spec => []SavedIsSeen
  BY Invariance, PTL DEF IInv
=============================================================================
