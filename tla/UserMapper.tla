------------------------------ MODULE UserMapper ------------------------------
(***************************************************************************)
(* mapper/UserMapper and mybatis/UserMapper.xml: the statements on t_user, *)
(* run one after the other with one UserExample that its caller keeps and  *)
(* changes between them.  Each is a transaction of its own.                *)
(*                                                                         *)
(* The statement is the tree MyBatis makes of the XML, and MySQL runs it:  *)
(* a comparison with NULL is never true, a statement that MySQL cannot     *)
(* parse or that would give two rows one id changes nothing.               *)
(***************************************************************************)
EXTENDS UserExample, FiniteSetsExt, SequencesExt

CONSTANTS Id, Name, Preloaded,
          MaxWrites       \* bound: statements that may write

IsTable(f) == DOMAIN f \subseteq Id /\ \A id \in DOMAIN f : f[id] \in Name \cup {Null}

ASSUME TableAssumption == /\ Id \subseteq Int /\ IsFiniteSet(Id) /\ Name \subseteq Int
                          /\ IsTable(Preloaded)
ASSUME WriteAssumption == MaxWrites \in Nat

VARIABLES
  table,    \* the rows of t_user: a function from ids to names
  writes,   \* statements that may still write
  last      \* history: the last step, if it was a statement

vars == <<example, table, writes, last>>

Nothing == [op |-> "none"]
Init == ExampleInit /\ table = Preloaded /\ writes = MaxWrites /\ last = Nothing
-----------------------------------------------------------------------------
(* Conditions.                                                             *)
Field(id, column) == IF column = "id" THEN id ELSE table[id]
Elements(c) == Range(c.values)

\* What MySQL makes of a condition, when it is TRUE and not FALSE or NULL.
Holds(c, id) ==
  LET v == Field(id, c.column)
      a == c.values[1]
      b == c.values[2]
  IN IF v = Null \/ c.op = "is null" THEN v = Null /\ c.op = "is null"
     ELSE \/ c.op = "is not null"
          \/ c.op = "=" /\ v = a
          \/ c.op = "<>" /\ v # a
          \/ c.op = ">" /\ v > a
          \/ c.op = ">=" /\ v >= a
          \/ c.op = "<" /\ v < a
          \/ c.op = "<=" /\ v <= a
          \/ c.op = "between" /\ a <= v /\ v <= b
          \/ c.op = "not between" /\ ~(a <= v /\ v <= b)
          \/ c.op = "in" /\ v \in Elements(c)
          \/ c.op = "not in" /\ v \notin Elements(c) /\ Null \notin Elements(c)
          \/ c.op = "like" /\ v \in Elements(c)
          \/ c.op = "not like" /\ v \notin Elements(c)

\* foreach writes no parentheses around no elements.
Malformed(c) == c.op \in ListOperation /\ c.values = <<>>

\* Mutant: a criteria without conditions is rendered.
RendersAll(k) == TRUE

\* <if test="criteria.valid">
Renders(k) == criteria[k] # {}

\* Example_Where_Clause and Update_By_Example_Where_Clause: the disjuncts.
WhereClause == {criteria[oredCriteria[i]] : i \in {j \in DOMAIN oredCriteria : Renders(oredCriteria[j])}}

Parses(where) == \A disjunct \in where : \A c \in disjunct : ~Malformed(c)

Matched(where) ==
  {id \in DOMAIN table :
     where = {} \/ \E disjunct \in where : \A c \in disjunct : Holds(c, id)}
-----------------------------------------------------------------------------
(* Statements.  where is the where clause of the example, or none for an    *)
(* example that is null, which only an update does not survive.             *)
Where(null) == IF null THEN {} ELSE WhereClause
Fails(op) == last' = [op |-> op, ok |-> FALSE] /\ UNCHANGED table
Succeeds(op, ids, null) == last' = [op |-> op, ok |-> TRUE, ids |-> ids, null |-> null]
Reads == UNCHANGED <<example, table, writes>>
Writes == writes > 0 /\ writes' = writes - 1 /\ UNCHANGED example

Without(ids) == [id \in DOMAIN table \ ids |-> table[id]]

\* Mutant: an offset without a limit is used.
PageOfOffset(rows) ==
  LET from == IF offset = Null THEN 0 ELSE offset
      to == IF limit = Null THEN Len(rows) ELSE from + limit
  IN SubSeq(rows, from + 1, IF to < Len(rows) THEN to ELSE Len(rows))

\* limit ${offset}, ${limit}: without a limit there is no page.
Page(rows) ==
  IF limit = Null THEN rows
  ELSE LET from == IF offset = Null THEN 0 ELSE offset
           to == IF from + limit < Len(rows) THEN from + limit ELSE Len(rows)
       IN SubSeq(rows, from + 1, to)

Descending(rows) == \A i, j \in 1 .. Len(rows) : i < j => rows[i] > rows[j]
Ascending(rows) == \A i, j \in 1 .. Len(rows) : i < j => rows[i] < rows[j]

\* Without an order by the rows come in any order.
Sorted(rows) ==
  /\ orderByClause = "id" => Ascending(rows)
  /\ orderByClause = "id desc" => Descending(rows)

SelectByExample(null) ==
  /\ Reads
  /\ IF ~Parses(Where(null)) THEN Fails("select")
     ELSE \E rows \in SetToSeqs(Matched(Where(null))) :
            IF null THEN Succeeds("select", Range(rows), TRUE)
            ELSE Sorted(rows) /\ Succeeds("select", Range(Page(rows)), FALSE)

CountByExample(null) ==
  /\ Reads
  /\ IF Parses(Where(null)) THEN Succeeds("count", Matched(Where(null)), null)
     ELSE Fails("count")

DeleteByExample(null) ==
  /\ Writes
  /\ IF Parses(Where(null))
       THEN /\ table' = Without(Matched(Where(null)))
            /\ Succeeds("delete", Matched(Where(null)), null)
       ELSE Fails("delete")

\* MySQL's primary key.
Duplicates(ids, id) ==
  id \in DOMAIN table \ ids \/ (ids # {} /\ Cardinality(ids) > 1)

\* set id = ..., name = ... of the rows ids: of one row, or of none.
Renamed(ids, id, name) ==
  [i \in (DOMAIN table \ ids) \cup {id} |-> IF i = id THEN name ELSE table[i]]

\* updateByExample sets both columns.
UpdateByExample(id, name) ==
  LET ids == Matched(WhereClause) IN
  /\ Writes
  /\ IF ~Parses(WhereClause) \/ (ids # {} /\ (id = Null \/ Duplicates(ids, id)))
       THEN Fails("update")
       ELSE /\ table' = IF ids = {} THEN table ELSE Renamed(ids, id, name)
            /\ Succeeds("update", ids, FALSE)

\* updateByExampleSelective sets those of the record that are not null.
UpdateByExampleSelective(id, name) ==
  LET ids == Matched(WhereClause)
      kept == CHOOSE i \in ids : TRUE IN
  /\ Writes
  /\ IF \/ ~Parses(WhereClause) \/ (id = Null /\ name = Null)
        \/ ids # {} /\ id # Null /\ Duplicates(ids, id)
       THEN Fails("update")
       ELSE /\ table' = IF ids = {} THEN table
                        ELSE IF id = Null
                          THEN [i \in DOMAIN table |-> IF i \in ids THEN name ELSE table[i]]
                          ELSE Renamed(ids, id, IF name = Null THEN table[kept] ELSE name)
            /\ Succeeds("update", ids, FALSE)

\* An update by an example that is null: OGNL finds no oredCriteria in it.
UpdateByNull == Writes /\ Fails("update")
-----------------------------------------------------------------------------
(* Statements by primary key, and inserts.  Of a null id nothing is equal.  *)
KeyOf(id) == DOMAIN table \cap {id}

DeleteByPrimaryKey(id) ==
  Writes /\ table' = Without(KeyOf(id)) /\ last' = Nothing

SelectByPrimaryKey(id) == Reads /\ last' = Nothing

\* updateByPrimaryKey, and updateByPrimaryKeySelective, which has nothing to
\* set if the name is null.
UpdateByPrimaryKey(id, name, selective) ==
  /\ Writes
  /\ IF selective /\ name = Null THEN Fails("update")
     ELSE /\ table' = [i \in DOMAIN table |-> IF i = id THEN name ELSE table[i]]
          /\ last' = Nothing

\* insert and insertSelective: a missing id is an error, or the next one if the
\* column generates them; insertSelective of nothing is not SQL.
Insert(id, name, selective) ==
  /\ Writes
  /\ \/ Fails("insert") /\ (id = Null \/ id \in DOMAIN table)
     \/ /\ ~(selective /\ id = Null /\ name = Null)
        /\ \E i \in (IF id = Null THEN Id ELSE {id}) \ DOMAIN table :
             table' = [j \in DOMAIN table \cup {i} |-> IF j = i THEN name ELSE table[j]]
        /\ last' = Nothing
-----------------------------------------------------------------------------
Statement ==
  \/ \E null \in BOOLEAN :
       SelectByExample(null) \/ CountByExample(null) \/ DeleteByExample(null)
  \/ UpdateByNull
  \/ \E id \in Id \cup {Null}, name \in Name \cup {Null} :
       \/ UpdateByExample(id, name) \/ UpdateByExampleSelective(id, name)
       \/ \E selective \in BOOLEAN :
            UpdateByPrimaryKey(id, name, selective) \/ Insert(id, name, selective)
  \/ \E id \in Id \cup {Null} : SelectByPrimaryKey(id) \/ DeleteByPrimaryKey(id)

Next == \/ Build /\ last' = Nothing /\ UNCHANGED <<table, writes>>
        \/ Statement

Spec == Init /\ [][Next]_vars
-----------------------------------------------------------------------------
(* The example and the table have their types, and no null is compared with. *)
TypeOK ==
  /\ ExampleTypeOK
  /\ IsTable(table) /\ writes \in 0 .. MaxWrites

\* The conditions the caller has asked for.
Asked == {criteria[k] : k \in listed} \ {{}}

(* A row is touched by a statement only if it meets all the conditions of  *)
(* some criteria the caller has put in the list since it last cleared it,  *)
(* added before or after that; or if no conditions have been asked for,    *)
(* when every row is.  Criteria made and not listed count for nothing.     *)
TouchesWhatWasAsked ==
  [][last'.op \in {"select", "count", "delete", "update"} /\ last'.ok /\ ~last'.null =>
       \/ Asked = {}
       \/ \A id \in last'.ids : \E conditions \in Asked :
            \A c \in conditions : Holds(c, id)]_vars

(* A count counts all the rows asked for, and a select finds them all; with *)
(* a limit, that many of them after the first offset ones, in the order     *)
(* asked for, if one was.                                                   *)
ReadsAll ==
  [][last'.op \in {"select", "count"} /\ last'.ok /\ ~last'.null =>
       LET all == {id \in DOMAIN table : Asked = {} \/ \E conditions \in Asked :
                                           \A c \in conditions : Holds(c, id)} IN
       IF limit = Null \/ last'.op = "count" THEN last'.ids = all
       ELSE LET from == IF offset = Null THEN 0 ELSE offset IN
            /\ last'.ids \subseteq all
            /\ Cardinality(last'.ids) = Min({limit, Max({0, Cardinality(all) - from})})
            /\ orderByClause # Null =>
                 \A id \in last'.ids :
                   LET before == IF orderByClause = "id" THEN {i \in all : i < id}
                                 ELSE {i \in all : i > id}
                   IN Cardinality(before) \in from .. from + limit - 1]_vars
=============================================================================
