--------------------------- MODULE UserMapperProofs ---------------------------
(***************************************************************************)
(* Theorems about UserMapper, for any set of conditions, any table and any *)
(* number of criteria, calls and statements.                               *)
(***************************************************************************)
EXTENDS UserMapper, FiniteSetTheorems, SequenceTheorems, TLAPS

\* The criteria the caller has put in the list since clear are those in it.
Listing == listed = Range(oredCriteria)

\* The inductive invariant: Listing makes the where clause what was asked for.
IInv == TypeOK /\ Listing

LEMMA InitIInv == Init => IInv
<1> SUFFICES ASSUME Init PROVE IInv
  OBVIOUS
<1>1. oredCriteria = <<>> /\ criteria = <<>> /\ listed = {}
  BY DEF Init, ExampleInit
<1>2. DOMAIN oredCriteria = {} /\ DOMAIN criteria = {}
  BY <1>1
<1>3. Listing
  BY <1>1, <1>2 DEF Listing, Range
<1>4. ExampleTypeOK
  BY <1>1, <1>2, BoundAssumption DEF Init, ExampleInit, ExampleTypeOK, NoNulls
<1>5. IsTable(table) /\ writes \in 0 .. MaxWrites
  BY TableAssumption, WriteAssumption DEF Init
<1> QED BY <1>3, <1>4, <1>5 DEF IInv, TypeOK

-----------------------------------------------------------------------------
\* A criteria put at the end of the list is in its range.
LEMMA RangeOfAppend ==
  ASSUME NEW S, NEW s \in Seq(S), NEW e
  PROVE  Range(Append(s, e)) = Range(s) \cup {e}
<1>1. /\ DOMAIN Append(s, e) = 1 .. Len(s) + 1 /\ DOMAIN s = 1 .. Len(s)
      /\ Len(s) \in Nat
      /\ \A i \in 1 .. Len(s) : Append(s, e)[i] = s[i]
      /\ Append(s, e)[Len(s) + 1] = e
  OBVIOUS
<1>2. ASSUME NEW x \in Range(Append(s, e)) PROVE x \in Range(s) \cup {e}
  BY <1>1, <1>2 DEF Range
<1>3. ASSUME NEW x \in Range(s) \cup {e} PROVE x \in Range(Append(s, e))
  <2>1. CASE x \in Range(s)
    <3>1. PICK i \in 1 .. Len(s) : x = s[i]
      BY <2>1, <1>1 DEF Range
    <3>2. i \in DOMAIN Append(s, e) /\ Append(s, e)[i] = x
      BY <3>1, <1>1
    <3> QED BY <3>2 DEF Range
  <2>2. CASE x = e
    BY <2>2, <1>1 DEF Range
  <2> QED BY <1>3, <2>1, <2>2
<1> QED BY <1>2, <1>3

\* A list of criteria stays one when another criteria is made.
LEMMA MoreCriteria ==
  ASSUME NEW n \in Nat, NEW m \in Nat, n <= m, NEW s \in Seq(1 .. n)
  PROVE  s \in Seq(1 .. m)
  OBVIOUS

LEMMA ExampleLists ==
  ASSUME ExampleTypeOK
  PROVE  /\ criteria \in Seq(SUBSET Conditions)
         /\ Len(criteria) \in Nat /\ DOMAIN criteria = 1 .. Len(criteria)
         /\ oredCriteria \in Seq(1 .. Len(criteria))
<1>1. criteria \in Seq(SUBSET Conditions) /\ oredCriteria \in Seq(1 .. Len(criteria))
  BY DEF ExampleTypeOK
<1> QED BY <1>1

LEMMA BuildIInv ==
  ASSUME IInv, Build, UNCHANGED <<table, writes>>
  PROVE  IInv'
<1> USE BoundAssumption, LimitAssumption DEF IInv, TypeOK, Listing, PageUnchanged
<1>0. /\ criteria \in Seq(SUBSET Conditions)
      /\ Len(criteria) \in Nat /\ DOMAIN criteria = 1 .. Len(criteria)
      /\ oredCriteria \in Seq(1 .. Len(criteria))
  BY ExampleLists
<1>00. IsTable(table)' /\ (writes \in 0 .. MaxWrites)'
  BY DEF IsTable
<1>1. ASSUME Or \/ CreateCriteria PROVE IInv'
  <2>1. /\ criteria' = Append(criteria, {}) /\ Len(criteria) < MaxCriteria
        /\ UNCHANGED <<orderByClause, limit, offset>>
        /\ \/ UNCHANGED <<oredCriteria, listed>>
           \/ /\ oredCriteria' = Append(oredCriteria, Len(criteria) + 1)
              /\ Len(oredCriteria) < MaxOred
              /\ listed' = listed \cup {Len(criteria) + 1}
           \/ /\ oredCriteria = <<>> /\ oredCriteria' = <<Len(criteria) + 1>>
              /\ listed' = listed \cup {Len(criteria) + 1}
    BY <1>1 DEF Or, CreateCriteria, Fresh
  <2>2. Listing'
    <3>1. CASE oredCriteria = <<>> /\ oredCriteria' = <<Len(criteria) + 1>>
      <4>1. /\ oredCriteria' = Append(oredCriteria, Len(criteria) + 1)
            /\ listed' = listed \cup {Len(criteria) + 1}
        BY <1>0, <2>1, <3>1
      <4> QED BY <1>0, <4>1, RangeOfAppend
    <3> QED BY <1>0, <2>1, <3>1, RangeOfAppend
  <2>3. ExampleTypeOK'
    <3>1. /\ criteria' \in Seq(SUBSET Conditions)
          /\ Len(criteria') = Len(criteria) + 1
          /\ DOMAIN criteria' = 1 .. Len(criteria) + 1
          /\ \A k \in DOMAIN criteria' : criteria'[k] = {} \/ (k \in DOMAIN criteria /\ criteria'[k] = criteria[k])
      BY <1>0, <2>1
    <3>2. oredCriteria' \in Seq(1 .. Len(criteria)')
      <4>1. oredCriteria \in Seq(1 .. Len(criteria) + 1)
        BY <1>0, MoreCriteria
      <4>2. Len(criteria) + 1 \in 1 .. Len(criteria) + 1
        BY <1>0
      <4>3. CASE UNCHANGED oredCriteria
        BY <3>1, <4>1, <4>3
      <4>4. CASE oredCriteria' = Append(oredCriteria, Len(criteria) + 1)
        BY <3>1, <4>1, <4>2, <4>4
      <4>5. CASE oredCriteria' = <<Len(criteria) + 1>>
        BY <3>1, <4>2, <4>5
      <4> QED BY <2>1, <4>3, <4>4, <4>5
    <3>4. NoNulls'
      BY <1>0, <3>1 DEF ExampleTypeOK, NoNulls
    <3>3. Len(criteria)' <= MaxCriteria /\ Len(oredCriteria)' <= MaxOred
      <4>1. Len(criteria') <= MaxCriteria
        BY <1>0, <2>1, <3>1
      <4>2. Len(oredCriteria)' <= MaxOred
        <5>1. CASE UNCHANGED oredCriteria
          BY <5>1 DEF ExampleTypeOK
        <5>2. CASE Len(oredCriteria) < MaxOred /\ oredCriteria' = Append(oredCriteria, Len(criteria) + 1)
          BY <1>0, <5>2
        <5>3. CASE oredCriteria' = <<Len(criteria) + 1>>
          BY <5>3
        <5> QED BY <2>1, <5>1, <5>2, <5>3
      <4> QED BY <4>1, <4>2
    <3> QED BY <1>0, <2>1, <3>1, <3>2, <3>3, <3>4 DEF ExampleTypeOK
  <2> QED BY <1>00, <2>2, <2>3
<1>2. ASSUME NEW k \in DOMAIN criteria, OrCriteria(k) PROVE IInv'
  <2>1. Listing'
    BY <1>0, <1>2, RangeOfAppend DEF OrCriteria
  <2>2. ExampleTypeOK'
    <3>1. oredCriteria' \in Seq(1 .. Len(criteria')) /\ Len(oredCriteria') <= MaxOred
      BY <1>0, <1>2 DEF OrCriteria
    <3> QED BY <1>2, <3>1 DEF OrCriteria, ExampleTypeOK, NoNulls
  <2> QED BY <1>00, <2>1, <2>2
<1>3. ASSUME NEW k \in DOMAIN criteria, NEW c \in Conditions, AddCriterion(k, c) PROVE IInv'
  <2>1. Listing'
    BY <1>3 DEF AddCriterion
  <2>2. ExampleTypeOK'
    <3>1. /\ criteria' = [criteria EXCEPT ![k] = @ \cup {c}]
          /\ UNCHANGED <<oredCriteria, orderByClause, limit, offset>>
      BY <1>3 DEF AddCriterion
    <3>2. /\ criteria' \in Seq(SUBSET Conditions)
          /\ Len(criteria') = Len(criteria) /\ DOMAIN criteria' = DOMAIN criteria
      BY <1>0, <3>1
    <3>3. NoNulls'
      <4> SUFFICES ASSUME NEW j \in DOMAIN criteria', NEW d \in criteria'[j],
                          d.op \notin ListOperation, NEW i \in DOMAIN d.values
                   PROVE  d.values[i] # Null
        BY DEF NoNulls
      <4>1. CASE d \in criteria[j]
        BY <3>2, <4>1 DEF ExampleTypeOK, NoNulls
      <4>2. CASE d = c
        BY <1>3, <4>2 DEF AddCriterion, Rejects
      <4> QED BY <3>1, <3>2, <4>1, <4>2
    <3> QED BY <3>1, <3>2, <3>3 DEF ExampleTypeOK
  <2> QED BY <1>00, <2>1, <2>2
<1>4. ASSUME Clear PROVE IInv'
  <2>1. oredCriteria' = <<>> /\ listed' = {} /\ DOMAIN oredCriteria' = {}
    BY <1>4 DEF Clear, Cleared
  <2>2. Listing'
    BY <2>1 DEF Range
  <2>3. ExampleTypeOK'
    <3>1. oredCriteria' \in Seq(1 .. Len(criteria)) /\ Len(oredCriteria') <= MaxOred
      BY <2>1
    <3> QED BY <1>4, <3>1 DEF Clear, ExampleTypeOK, NoNulls
  <2> QED BY <1>00, <2>2, <2>3
<1>5. ASSUME SetPage PROVE IInv'
  <2>1. ExampleTypeOK'
    BY <1>5 DEF SetPage, ExampleTypeOK, NoNulls
  <2> QED BY <1>00, <1>5, <2>1 DEF SetPage
<1> QED BY <1>1, <1>2, <1>3, <1>4, <1>5 DEF Build
-----------------------------------------------------------------------------
\* A statement leaves the example alone, and the table a table.
LEMMA StatementIInv ==
  ASSUME IInv, Statement
  PROVE  IInv'
<1> USE TableAssumption DEF IInv, TypeOK, Writes, Reads, Fails, Succeeds, IsTable, Renamed, Without
<1>1. ASSUME NEW null \in BOOLEAN,
             SelectByExample(null) \/ CountByExample(null) \/ DeleteByExample(null)
      PROVE  UNCHANGED example /\ IsTable(table)' /\ (writes \in 0 .. MaxWrites)'
  BY <1>1, WriteAssumption DEF SelectByExample, CountByExample, DeleteByExample, example
<1>2. ASSUME UpdateByNull
      PROVE  UNCHANGED example /\ IsTable(table)' /\ (writes \in 0 .. MaxWrites)'
  BY <1>2, WriteAssumption DEF UpdateByNull
<1>3. ASSUME NEW id \in Id \cup {Null}, NEW name \in Name \cup {Null},
             UpdateByExample(id, name)
      PROVE  UNCHANGED example /\ IsTable(table)' /\ (writes \in 0 .. MaxWrites)'
  BY <1>3, WriteAssumption DEF UpdateByExample
<1>4. ASSUME NEW id \in Id \cup {Null}, NEW name \in Name \cup {Null},
             UpdateByExampleSelective(id, name)
      PROVE  UNCHANGED example /\ IsTable(table)' /\ (writes \in 0 .. MaxWrites)'
  BY <1>4, WriteAssumption DEF UpdateByExampleSelective, Matched
<1>5. ASSUME NEW id \in Id \cup {Null}, NEW name \in Name \cup {Null}, NEW s \in BOOLEAN,
             UpdateByPrimaryKey(id, name, s) \/ Insert(id, name, s)
      PROVE  UNCHANGED example /\ IsTable(table)' /\ (writes \in 0 .. MaxWrites)'
  <2>1. UNCHANGED example /\ (writes \in 0 .. MaxWrites)'
    BY <1>5, WriteAssumption DEF UpdateByPrimaryKey, Insert
  <2>2. ASSUME UNCHANGED table
        PROVE  IsTable(table)'
    BY <2>2
  <2>3. ASSUME table' = [i \in DOMAIN table |-> IF i = id THEN name ELSE table[i]]
        PROVE  IsTable(table)'
    BY <2>3
  <2>4. ASSUME \E i \in (IF id = Null THEN Id ELSE {id}) \ DOMAIN table :
                 table' = [j \in DOMAIN table \cup {i} |-> IF j = i THEN name ELSE table[j]]
        PROVE  IsTable(table)'
    <3>1. PICK i \in Id \cup {Null} :
            /\ i \notin DOMAIN table /\ (id = Null => i \in Id) /\ (id # Null => i = id)
            /\ table' = [j \in DOMAIN table \cup {i} |-> IF j = i THEN name ELSE table[j]]
      BY <2>4
    <3>2. i \in Id
      BY <3>1
    <3> QED BY <3>1, <3>2
  <2> QED BY <1>5, <2>1, <2>2, <2>3, <2>4 DEF UpdateByPrimaryKey, Insert
<1>6. ASSUME NEW id \in Id \cup {Null}, SelectByPrimaryKey(id) \/ DeleteByPrimaryKey(id)
      PROVE  UNCHANGED example /\ IsTable(table)' /\ (writes \in 0 .. MaxWrites)'
  BY <1>6, WriteAssumption DEF SelectByPrimaryKey, DeleteByPrimaryKey
<1>7. UNCHANGED example /\ IsTable(table)' /\ (writes \in 0 .. MaxWrites)'
  BY <1>1, <1>2, <1>3, <1>4, <1>5, <1>6 DEF Statement
<1> QED BY <1>7 DEF example, ExampleTypeOK, NoNulls, Listing

LEMMA NextIInv == IInv /\ [Next]_vars => IInv'
<1> SUFFICES ASSUME IInv, [Next]_vars PROVE IInv'
  OBVIOUS
<1>1. CASE Build /\ UNCHANGED <<table, writes>>
  BY <1>1, BuildIInv
<1>2. CASE Statement
  BY <1>2, StatementIInv
<1>3. CASE UNCHANGED vars
  BY <1>3 DEF vars, example, IInv, TypeOK, ExampleTypeOK, NoNulls, IsTable, Listing
<1> QED BY <1>1, <1>2, <1>3 DEF Next
-----------------------------------------------------------------------------
\* The example and the table keep their types, and no condition that a statement
\* renders compares a single value with null.
THEOREM TypeCorrect == Spec => []TypeOK
<1>1. IInv => TypeOK
  BY DEF IInv
<1> QED BY InitIInv, NextIInv, <1>1, PTL DEF Spec
-----------------------------------------------------------------------------
(* What the statements read and write.                                     *)

\* The where clause is made of the conditions asked for.
LEMMA AskedIsRendered ==
  ASSUME Listing
  PROVE  Asked = WhereClause
<1>1. Asked = {criteria[oredCriteria[i]] : i \in DOMAIN oredCriteria} \ {{}}
  BY DEF Asked, Listing, Range
<1> QED BY <1>1 DEF WhereClause, Renders

\* What a statement with an example may touch.
Touched(ids) ==
  \/ Asked = {}
  \/ \A id \in ids : \E conditions \in Asked : \A c \in conditions : Holds(c, id)

LEMMA MatchedAreAsked ==
  ASSUME Listing, NEW ids \in SUBSET Matched(WhereClause)
  PROVE  Touched(ids)
<1>1. Asked = WhereClause
  BY AskedIsRendered
<1>2. ASSUME NEW id \in ids, WhereClause # {}
      PROVE  \E conditions \in WhereClause : \A c \in conditions : Holds(c, id)
  BY <1>2 DEF Matched
<1> QED BY <1>1, <1>2 DEF Touched

\* A page has rows of the whole only.
LEMMA PageIsPart ==
  ASSUME IInv, NEW S, NEW rows \in Seq(S)
  PROVE  Range(Page(rows)) \subseteq S
<1>1. CASE limit = Null
  BY <1>1 DEF Page, Range
<1>2. CASE limit # Null
  <2>1. limit \in Nat /\ (offset = Null \/ offset \in Nat)
    BY <1>2, LimitAssumption DEF IInv, TypeOK, ExampleTypeOK
  <2> DEFINE from == IF offset = Null THEN 0 ELSE offset
             to == IF from + limit < Len(rows) THEN from + limit ELSE Len(rows)
  <2>2. from \in Nat /\ to \in Nat /\ to <= Len(rows)
    BY <2>1
  <2>3. Page(rows) = SubSeq(rows, from + 1, to)
    BY <1>2 DEF Page
  <2> HIDE DEF from, to
  <2>4. SubSeq(rows, from + 1, to) \in Seq(S)
    BY <2>2
  <2> QED BY <2>3, <2>4 DEF Range
<1> QED BY <1>1, <1>2

\* One conjunct of the action property for each kind of statement.
Touches ==
  last'.op \in {"select", "count", "delete", "update"} /\ last'.ok /\ ~last'.null
    => Touched(last'.ids)

LEMMA StatementTouches ==
  ASSUME IInv, Statement
  PROVE  Touches
<1> USE DEF Touches, Fails, Succeeds, Where
<1>0. Listing
  BY DEF IInv
<1>1. ASSUME NEW null \in BOOLEAN, SelectByExample(null)
      PROVE  Touches
  <2>1. CASE null \/ ~Parses(Where(null))
    BY <1>1, <2>1 DEF SelectByExample
  <2>2. CASE ~null /\ Parses(Where(null))
    <3>1. PICK rows \in SetToSeqs(Matched(WhereClause)) :
            last' = [op |-> "select", ok |-> TRUE, ids |-> Range(Page(rows)), null |-> FALSE]
      BY <1>1, <2>2 DEF SelectByExample
    <3>2. IsFiniteSet(Matched(WhereClause))
      <4>1. Matched(WhereClause) \subseteq Id
        BY DEF Matched, IInv, TypeOK, IsTable
      <4> QED BY <4>1, TableAssumption, FS_Subset
    <3>3. rows \in Seq(Matched(WhereClause))
      BY <3>2, FS_CardinalityType DEF SetToSeqs
    <3>4. Touched(Range(Page(rows)))
      BY <3>3, <1>0, PageIsPart, MatchedAreAsked
    <3> QED BY <3>1, <3>4
  <2> QED BY <2>1, <2>2
<1>2. ASSUME NEW null \in BOOLEAN, CountByExample(null) \/ DeleteByExample(null)
      PROVE  Touches
  BY <1>0, <1>2, MatchedAreAsked DEF CountByExample, DeleteByExample
<1>3. ASSUME NEW id, NEW name, UpdateByExample(id, name) \/ UpdateByExampleSelective(id, name)
      PROVE  Touches
  BY <1>0, <1>3, MatchedAreAsked DEF UpdateByExample, UpdateByExampleSelective
<1>4. ASSUME UpdateByNull
      PROVE  Touches
  BY <1>4 DEF UpdateByNull
<1>5. ASSUME NEW id, NEW name, NEW s \in BOOLEAN, UpdateByPrimaryKey(id, name, s) \/ Insert(id, name, s)
      PROVE  Touches
  BY <1>5 DEF UpdateByPrimaryKey, Insert, Nothing
<1>6. ASSUME NEW id, SelectByPrimaryKey(id) \/ DeleteByPrimaryKey(id)
      PROVE  Touches
  BY <1>6 DEF SelectByPrimaryKey, DeleteByPrimaryKey, Nothing
<1> QED BY <1>1, <1>2, <1>3, <1>4, <1>5, <1>6 DEF Statement

\* A statement touches the rows that meet all the conditions of some criteria
\* in the list, and no other, unless no conditions are in the list.
THEOREM TouchesOnlyWhatWasAsked == Spec => TouchesWhatWasAsked
<1>1. IInv /\ [Next]_vars =>
        [last'.op \in {"select", "count", "delete", "update"} /\ last'.ok /\ ~last'.null =>
           \/ Asked = {}
           \/ \A id \in last'.ids : \E conditions \in Asked :
                \A c \in conditions : Holds(c, id)]_vars
  BY StatementTouches DEF Next, Nothing, Touches, Touched
<1> QED BY InitIInv, NextIInv, <1>1, PTL DEF Spec, TouchesWhatWasAsked
-----------------------------------------------------------------------------
(* What a select and a count report.                                       *)

LEMMA TableIsFinite == IInv => IsFiniteSet(DOMAIN table) /\ DOMAIN table \subseteq Int
  BY TableAssumption, FS_Subset DEF IInv, TypeOK, IsTable

\* A sequence without repetition has as many elements as it is long.
LEMMA CountOfRange ==
  ASSUME NEW n \in Nat, NEW f, f \in [1 .. n -> Range(f)],
         \A i, j \in 1 .. n : i # j => f[i] # f[j]
  PROVE  IsFiniteSet(Range(f)) /\ Cardinality(Range(f)) = n
<1>1. DOMAIN f = 1 .. n
  OBVIOUS
<1>2. \A x \in Range(f) : \E i \in 1 .. n : f[i] = x
  BY <1>1 DEF Range
<1>3. f \in Surjection(1 .. n, Range(f))
  BY <1>2 DEF Surjection
<1>4. f \in Injection(1 .. n, Range(f))
  BY <1>1 DEF Injection, IsInjective
<1>5. IsFiniteSet(1 .. n) /\ Cardinality(1 .. n) = n
  BY FS_Interval
<1>6. IsFiniteSet(Range(f)) /\ Cardinality(Range(f)) = Cardinality(1 .. n)
  BY <1>3, <1>4, <1>5, FS_Surjection
<1> QED BY <1>5, <1>6

\* The rows in some order: all of them, each once.
LEMMA RowsInOrder ==
  ASSUME NEW S, IsFiniteSet(S), NEW rows \in SetToSeqs(S)
  PROVE  /\ rows \in Seq(S) /\ Len(rows) = Cardinality(S) /\ Cardinality(S) \in Nat
         /\ \A i, j \in 1 .. Len(rows) : i # j => rows[i] # rows[j]
         /\ Range(rows) = S
<1>1. PICK n \in Nat : n = Cardinality(S)
  BY FS_CardinalityType
<1>2. rows \in [1 .. n -> S] /\ \A i, j \in 1 .. n : i # j => rows[i] # rows[j]
  BY <1>1 DEF SetToSeqs
<1>3. rows \in Seq(S) /\ Len(rows) = n
  BY <1>2
<1>4. Range(rows) \subseteq S /\ rows \in [1 .. n -> Range(rows)]
  BY <1>2 DEF Range
<1>5. Cardinality(Range(rows)) = n
  BY <1>2, <1>4, CountOfRange
<1>6. Range(rows) = S
  BY <1>1, <1>4, <1>5, FS_Subset
<1> QED BY <1>1, <1>2, <1>3, <1>6

LEMMA MinAndMax ==
  ASSUME NEW x \in Int, NEW y \in Int
  PROVE  /\ Min({x, y}) = IF x <= y THEN x ELSE y
         /\ Max({x, y}) = IF x <= y THEN y ELSE x
<1>1. ASSUME NEW low \in {x, y}, NEW high \in {x, y}, low <= high, {x, y} = {low, high}
      PROVE  Min({x, y}) = low /\ Max({x, y}) = high
  <2>1. \A z \in {x, y} : low <= z /\ high >= z
    BY <1>1
  <2>2. /\ \A m \in {x, y} : (\A z \in {x, y} : m <= z) => m = low
        /\ \A m \in {x, y} : (\A z \in {x, y} : m >= z) => m = high
    BY <1>1
  <2> QED BY <2>1, <2>2 DEF Min, Max
<1> QED BY <1>1

\* How many of the rows come before row p: p - 1, if they are in order.
LEMMA RowsBefore ==
  ASSUME NEW S, S \subseteq Int, IsFiniteSet(S), NEW rows \in SetToSeqs(S),
         NEW p \in 1 .. Len(rows)
  PROVE  /\ Ascending(rows) => Cardinality({i \in S : i < rows[p]}) = p - 1
         /\ Descending(rows) => Cardinality({i \in S : i > rows[p]}) = p - 1
<1>1. /\ rows \in Seq(S) /\ Len(rows) \in Nat /\ Range(rows) = S
      /\ \A i, j \in 1 .. Len(rows) : i # j => rows[i] # rows[j]
  BY RowsInOrder
<1>2. \A x \in S : \E i \in 1 .. Len(rows) : rows[i] = x
  BY <1>1 DEF Range
<1>3. \A i \in 1 .. Len(rows) : rows[i] \in S
  BY <1>1
<1>9. \A i \in 1 .. Len(rows) : rows[i] \in Int
  BY <1>3
<1> DEFINE f == [j \in 1 .. p - 1 |-> rows[j]]
<1>4. f \in [1 .. p - 1 -> Range(f)] /\ \A i, j \in 1 .. p - 1 : i # j => f[i] # f[j]
  BY <1>1 DEF Range
<1>5. p - 1 \in Nat /\ Cardinality(Range(f)) = p - 1
  BY <1>1, <1>4, CountOfRange
<1>6. \A x : x \in Range(f) <=> \E i \in 1 .. p - 1 : x = rows[i]
  BY DEF Range
<1> HIDE DEF f
<1>7. ASSUME Ascending(rows) PROVE {i \in S : i < rows[p]} = Range(f)
  <2>1. \A i \in 1 .. Len(rows) : rows[i] < rows[p] <=> i < p
    BY <1>1, <1>9, <1>7 DEF Ascending
  <2>2. \A i \in 1 .. p - 1 : i \in 1 .. Len(rows) /\ i < p
    BY <1>1
  <2>3. \A i \in 1 .. Len(rows) : i < p => i \in 1 .. p - 1
    BY <1>1
  <2>4. ASSUME NEW x \in S, x < rows[p] PROVE x \in Range(f)
    BY <1>2, <1>6, <2>1, <2>3, <2>4
  <2>5. ASSUME NEW x \in Range(f) PROVE x \in S /\ x < rows[p]
    BY <1>3, <1>6, <2>1, <2>2
  <2> QED BY <2>4, <2>5
<1>8. ASSUME Descending(rows) PROVE {i \in S : i > rows[p]} = Range(f)
  <2>1. \A i \in 1 .. Len(rows) : rows[i] > rows[p] <=> i < p
    BY <1>1, <1>9, <1>8 DEF Descending
  <2>2. \A i \in 1 .. p - 1 : i \in 1 .. Len(rows) /\ i < p
    BY <1>1
  <2>3. \A i \in 1 .. Len(rows) : i < p => i \in 1 .. p - 1
    BY <1>1
  <2>4. ASSUME NEW x \in S, x > rows[p] PROVE x \in Range(f)
    BY <1>2, <1>6, <2>1, <2>3, <2>4
  <2>5. ASSUME NEW x \in Range(f) PROVE x \in S /\ x > rows[p]
    BY <1>3, <1>6, <2>1, <2>2
  <2> QED BY <2>4, <2>5
<1> QED BY <1>5, <1>7, <1>8

\* What a page of S with a limit shows: so many rows, and if they are in order,
\* those after the first from ones.
IsPage(S, ids) ==
  LET from == IF offset = Null THEN 0 ELSE offset IN
  /\ ids \subseteq S
  /\ Cardinality(ids) = Min({limit, Max({0, Cardinality(S) - from})})
  /\ orderByClause # Null =>
       \A id \in ids :
         LET before == IF orderByClause = "id" THEN {i \in S : i < id}
                       ELSE {i \in S : i > id}
         IN Cardinality(before) \in from .. from + limit - 1

LEMMA PageOfAll ==
  ASSUME IInv, NEW S, S \subseteq Int, IsFiniteSet(S), NEW rows \in SetToSeqs(S), Sorted(rows)
  PROVE  IF limit = Null THEN Range(Page(rows)) = S ELSE IsPage(S, Range(Page(rows)))
<1>1. PICK n \in Nat : n = Cardinality(S) /\ n = Len(rows)
  BY RowsInOrder
<1>2. CASE limit = Null
  BY <1>2, RowsInOrder DEF Page
<1>3. CASE limit # Null
  <2>1. /\ limit \in Nat /\ (offset = Null \/ offset \in Nat)
        /\ orderByClause \in {Null, "id", "id desc"}
    BY <1>3, LimitAssumption DEF IInv, TypeOK, ExampleTypeOK
  <2>2. PICK from \in Nat : from = IF offset = Null THEN 0 ELSE offset
    BY <2>1
  <2>0. PICK most \in Nat : most = limit
    BY <2>1
  <2>3. PICK to \in Nat : to = IF from + most < n THEN from + most ELSE n
    OBVIOUS
  <2>4. PICK m \in Nat : m = IF from <= to THEN to - from ELSE 0
    OBVIOUS
  <2> DEFINE page == SubSeq(rows, from + 1, to)
  <2>5. Page(rows) = page
    BY <1>1, <1>3, <2>0, <2>2, <2>3 DEF Page
  <2>6. rows \in Seq(S) /\ to <= Len(rows)
    BY <1>1, <2>3, RowsInOrder
  <2>7. page \in Seq(S) /\ Len(page) = m /\ \A i \in 1 .. m : page[i] = rows[from + i]
    BY <2>4, <2>6
  <2>8. \A i, j \in 1 .. m : i # j => page[i] # page[j]
    <3>1. \A i \in 1 .. m : from + i \in 1 .. Len(rows)
      BY <1>1, <2>3, <2>4, <2>6
    <3> QED BY <2>7, <3>1, RowsInOrder
  <2> HIDE DEF page
  <2>9. DOMAIN page = 1 .. m /\ page \in [1 .. m -> S]
    BY <2>7
  <2>10. Range(page) \subseteq S /\ page \in [1 .. m -> Range(page)]
    BY <2>9 DEF Range
  <2>11. Cardinality(Range(page)) = m
    BY <2>8, <2>10, CountOfRange
  <2>12. Min({most, Max({0, n - from})}) = m
    <3>1. Max({0, n - from}) = IF from <= n THEN n - from ELSE 0
      <4>1. 0 \in Int /\ n - from \in Int
        OBVIOUS
      <4>2. Max({0, n - from}) = IF 0 <= n - from THEN n - from ELSE 0
        BY <4>1, MinAndMax
      <4> QED BY <4>2
    <3>2. PICK rest \in Nat : rest = Max({0, n - from}) /\ rest = IF from <= n THEN n - from ELSE 0
      BY <3>1
    <3>3. Min({most, rest}) = IF most <= rest THEN most ELSE rest
      BY MinAndMax
    <3> QED BY <2>3, <2>4, <3>2, <3>3
  <2>13. ASSUME NEW id \in Range(page), orderByClause # Null
         PROVE  Cardinality(IF orderByClause = "id" THEN {i \in S : i < id}
                            ELSE {i \in S : i > id}) \in from .. from + most - 1
    <3>1. PICK k \in 1 .. m : id = page[k]
      BY <2>9 DEF Range
    <3>0. from + k \in 1 .. Len(rows)
      BY <1>1, <2>3, <2>4
    <3>2. PICK p \in 1 .. Len(rows) : p = from + k /\ id = rows[p]
      BY <2>7, <3>0, <3>1
    <3>3. p - 1 \in from .. from + most - 1
      BY <2>3, <2>4, <3>2
    <3>4. CASE orderByClause = "id"
      <4>1. Cardinality({i \in S : i < rows[p]}) = p - 1
        BY <3>4, RowsBefore DEF Sorted
      <4> QED BY <3>2, <3>3, <3>4, <4>1, Zenon
    <3>5. CASE orderByClause = "id desc"
      <4>1. Cardinality({i \in S : i > rows[p]}) = p - 1
        BY <3>5, RowsBefore DEF Sorted
      <4> QED BY <3>2, <3>3, <3>5, <4>1, Zenon
    <3> QED BY <2>1, <2>13, <3>4, <3>5
  <2>14. IsPage(S, Range(page))
    BY <1>1, <2>0, <2>2, <2>10, <2>11, <2>12, <2>13 DEF IsPage
  <2> QED BY <1>3, <2>5, <2>14
<1> QED BY <1>2, <1>3

\* The rows that are asked for.
All == {id \in DOMAIN table : Asked = {} \/ \E conditions \in Asked :
                                \A c \in conditions : Holds(c, id)}

LEMMA AllIsMatched ==
  ASSUME Listing
  PROVE  Matched(WhereClause) = All
  BY AskedIsRendered DEF Matched, All

ReadsIt ==
  last'.op \in {"select", "count"} /\ last'.ok /\ ~last'.null =>
     IF limit = Null \/ last'.op = "count" THEN last'.ids = All
     ELSE IsPage(All, last'.ids)

LEMMA StatementReads ==
  ASSUME IInv, Statement
  PROVE  ReadsIt
<1> USE DEF ReadsIt, Fails, Succeeds
<1>0. Matched(WhereClause) = All /\ IsFiniteSet(All) /\ All \subseteq Int
  <2>1. All \subseteq DOMAIN table
    BY DEF All
  <2> QED BY <2>1, AllIsMatched, TableIsFinite, FS_Subset DEF IInv
<1> HIDE DEF All
<1>1. ASSUME NEW null \in BOOLEAN, SelectByExample(null)
      PROVE  ReadsIt
  <2>1. CASE null \/ ~Parses(Where(null))
    BY <1>1, <2>1 DEF SelectByExample
  <2>2. CASE ~null /\ Parses(Where(null))
    <3>1. PICK rows \in SetToSeqs(All) :
            /\ Sorted(rows)
            /\ last' = [op |-> "select", ok |-> TRUE, ids |-> Range(Page(rows)), null |-> FALSE]
      BY <1>0, <1>1, <2>2 DEF SelectByExample, Where
    <3> QED BY <1>0, <3>1, PageOfAll
  <2> QED BY <2>1, <2>2
<1>2. ASSUME NEW null \in BOOLEAN, CountByExample(null)
      PROVE  ReadsIt
  <2>1. CASE null = TRUE
    <3>1. ASSUME Parses(Where(null)) PROVE last'.null = TRUE
      <4>1. PICK ids : last' = [op |-> "count", ok |-> TRUE, ids |-> ids, null |-> TRUE]
        BY <1>2, <2>1, <3>1, Zenon DEF CountByExample, Succeeds
      <4> QED BY <4>1
    <3>2. ASSUME ~Parses(Where(null)) PROVE last'.ok = FALSE
      BY <1>2, <3>2 DEF CountByExample
    <3> QED BY <3>1, <3>2, Zenon
  <2>2. CASE null = FALSE
    <3>1. \/ last' = [op |-> "count", ok |-> TRUE, ids |-> All, null |-> FALSE]
          \/ last' = [op |-> "count", ok |-> FALSE]
      BY <1>0, <1>2, <2>2 DEF CountByExample, Where
    <3> QED BY <3>1
  <2> QED BY <2>1, <2>2
<1>3. ASSUME NEW null \in BOOLEAN, DeleteByExample(null)
      PROVE  ReadsIt
  BY <1>3 DEF DeleteByExample
<1>4. ASSUME NEW id, NEW name, UpdateByExample(id, name) \/ UpdateByExampleSelective(id, name)
      PROVE  ReadsIt
  BY <1>4 DEF UpdateByExample, UpdateByExampleSelective
<1>5. ASSUME UpdateByNull
      PROVE  ReadsIt
  BY <1>5 DEF UpdateByNull
<1>6. ASSUME NEW id, NEW name, NEW s \in BOOLEAN, UpdateByPrimaryKey(id, name, s) \/ Insert(id, name, s)
      PROVE  ReadsIt
  BY <1>6 DEF UpdateByPrimaryKey, Insert, Nothing
<1>7. ASSUME NEW id, SelectByPrimaryKey(id) \/ DeleteByPrimaryKey(id)
      PROVE  ReadsIt
  BY <1>7 DEF SelectByPrimaryKey, DeleteByPrimaryKey, Nothing
<1> QED BY <1>1, <1>2, <1>3, <1>4, <1>5, <1>6, <1>7 DEF Statement

\* A count is of all the rows asked for; a select is all of them or, with a
\* limit, that many of those after the first offset ones, in the order asked for.
THEOREM ReadsAllOfThem == Spec => ReadsAll
<1>1. IInv /\ [Next]_vars =>
        [last'.op \in {"select", "count"} /\ last'.ok /\ ~last'.null =>
           LET all == {id \in DOMAIN table : Asked = {} \/ \E conditions \in Asked :
                                               \A c \in conditions : Holds(c, id)} IN
           IF limit = Null \/ last'.op = "count" THEN last'.ids = all
           ELSE LET from == IF offset = Null THEN 0 ELSE offset IN
                /\ last'.ids \subseteq all
                /\ Cardinality(last'.ids) = Min({limit, Max({0, Cardinality(all) - from})})
                /\ orderByClause # Null =>
                     \A id \in last'.ids :
                       LET before == IF orderByClause = "id" THEN {i \in all : i < id}
                                     ELSE {i \in all : i > id}
                       IN Cardinality(before) \in from .. from + limit - 1]_vars
  <2>1. ASSUME IInv, Next PROVE ReadsIt
    <3>1. CASE Statement
      BY <2>1, <3>1, StatementReads
    <3>2. CASE last' = Nothing
      BY <3>2 DEF Nothing, ReadsIt
    <3> QED BY <2>1, <3>1, <3>2 DEF Next
  <2> QED BY <2>1, Zenon DEF ReadsIt, IsPage, All
<1> QED BY InitIInv, NextIInv, <1>1, PTL DEF Spec, ReadsAll
=============================================================================
