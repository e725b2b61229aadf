----------------------------- MODULE UserExample -----------------------------
(***************************************************************************)
(* bean/UserExample: the object a caller builds to say which rows of       *)
(* t_user a statement is about.  It is a list of criteria, any of which    *)
(* may hold, each a list of conditions, all of which must, with an order   *)
(* and a page.  The caller has the criteria in its hands and adds          *)
(* conditions to them before and after they are in the list, or without    *)
(* their ever being in it.                                                 *)
(*                                                                         *)
(* An id or a name is a number, or null; only their order matters.  A      *)
(* condition has a column, an operation and the values it compares with.   *)
(* distinct is left out: the id is among the columns selected.             *)
(***************************************************************************)
EXTENDS Integers, Sequences, FiniteSets

CONSTANTS Null,
          Conditions,     \* the calls of and... that are made
          Limits,         \* what is passed to setLimit and to setOffset
          MaxCriteria,    \* bound: criteria made
          MaxConditions,  \* bound: conditions in one of them
          MaxOred         \* bound: length of oredCriteria

Operation == {"is null", "is not null",                      \* noValue
              "=", "<>", ">", ">=", "<", "<=",               \* singleValue
              "between", "not between",                      \* betweenValue
              "in", "not in",                                \* listValue
              "like", "not like"}
ListOperation == {"in", "not in"}

\* values: those of the list, the two bounds, the one operand, or the values a
\* pattern stands for.
Column == {"id", "name"}
IsCondition(c) ==
  /\ c.column \in Column /\ c.op \in Operation
  /\ \A k \in DOMAIN c.values : c.values[k] \in Int \cup {Null}

ASSUME ConditionAssumption == \A c \in Conditions : IsCondition(c)
ASSUME LimitAssumption == Limits \subseteq Nat \cup {Null}
ASSUME BoundAssumption == MaxCriteria \in Nat /\ MaxConditions \in Nat /\ MaxOred \in Nat \ {0}

VARIABLES
  oredCriteria,     \* the list, of numbers of criteria
  criteria,         \* the conditions of each criteria made so far
  orderByClause,    \* "id", "id desc" or Null
  limit, offset,
  listed            \* history: the criteria put in the list since clear

example == <<oredCriteria, criteria, orderByClause, limit, offset, listed>>

ExampleInit ==
  /\ oredCriteria = <<>> /\ criteria = <<>>
  /\ orderByClause = Null /\ limit = Null /\ offset = Null
  /\ listed = {}

Fresh == Len(criteria) + 1
PageUnchanged == UNCHANGED <<orderByClause, limit, offset>>

\* or()
Or ==
  /\ Len(criteria) < MaxCriteria /\ Len(oredCriteria) < MaxOred
  /\ criteria' = Append(criteria, {})
  /\ oredCriteria' = Append(oredCriteria, Fresh)
  /\ listed' = listed \cup {Fresh}
  /\ PageUnchanged

\* or(criteria), of any criteria the caller has, listed or not.
OrCriteria(k) ==
  /\ Len(oredCriteria) < MaxOred
  /\ oredCriteria' = Append(oredCriteria, k)
  /\ listed' = listed \cup {k}
  /\ UNCHANGED criteria /\ PageUnchanged

\* createCriteria: only the first one is put in the list.
CreateCriteria ==
  /\ Len(criteria) < MaxCriteria
  /\ criteria' = Append(criteria, {})
  /\ oredCriteria' = IF oredCriteria = <<>> THEN <<Fresh>> ELSE oredCriteria
  /\ listed' = IF oredCriteria = <<>> THEN listed \cup {Fresh} ELSE listed
  /\ PageUnchanged

\* Mutant: a missing value is compared with.
RejectsNothing(c) == FALSE

\* addCriterion throws if the value, or one of the bounds, is null; a list with
\* a null in it is taken.
Rejects(c) == c.op \notin ListOperation /\ \E k \in DOMAIN c.values : c.values[k] = Null

\* The and... methods, when they do not throw.
AddCriterion(k, c) ==
  /\ ~Rejects(c)
  /\ Cardinality(criteria[k]) < MaxConditions
  /\ criteria' = [criteria EXCEPT ![k] = @ \cup {c}]
  /\ UNCHANGED <<oredCriteria, listed>> /\ PageUnchanged

\* Mutant: the list stays.
ClearedNothing == oredCriteria

Cleared == <<>>

\* clear: limit and offset stay as they are.
Clear ==
  /\ oredCriteria' = Cleared
  /\ orderByClause' = Null
  /\ listed' = {}
  /\ UNCHANGED <<criteria, limit, offset>>

SetPage ==
  /\ \/ orderByClause' \in {"id", "id desc"} /\ UNCHANGED <<limit, offset>>
     \/ limit' \in Limits /\ UNCHANGED <<orderByClause, offset>>
     \/ offset' \in Limits /\ UNCHANGED <<orderByClause, limit>>
  /\ UNCHANGED <<oredCriteria, criteria, listed>>

Build ==
  \/ Or \/ CreateCriteria \/ Clear \/ SetPage
  \/ \E k \in DOMAIN criteria :
       OrCriteria(k) \/ \E c \in Conditions : AddCriterion(k, c)

\* No condition but one with a list has a null among its values.
NoNulls ==
  \A k \in DOMAIN criteria : \A c \in criteria[k] :
    c.op \notin ListOperation => \A i \in DOMAIN c.values : c.values[i] # Null

ExampleTypeOK ==
  /\ criteria \in Seq(SUBSET Conditions)
  /\ oredCriteria \in Seq(1 .. Len(criteria))
  /\ Len(criteria) <= MaxCriteria /\ Len(oredCriteria) <= MaxOred
  /\ orderByClause \in {Null, "id", "id desc"}
  /\ limit \in Limits \cup {Null} /\ offset \in Limits \cup {Null}
  /\ NoNulls
=============================================================================
