------------------------------- MODULE UserApi -------------------------------
(***************************************************************************)
(* controller/ApiController on the table t_user, through the statements of *)
(* mapper/UserMapper that it uses.  save inserts a row in a transaction    *)
(* that commits when saveU has returned, list reads the first rows in the  *)
(* order of their ids, selectIdwq reads one row and throws when there is   *)
(* nothing to read.  Request threads run them side by side on MySQL, with  *)
(* the id as the primary key.                                              *)
(***************************************************************************)
EXTENDS Integers, FiniteSets

CONSTANTS Thread, Id, Name, Null,
          Preloaded,   \* the rows of t_user before the program starts
          Limit,       \* what list passes to setLimit: 100000
          MaxCalls,    \* bound: requests served
          MaxFaults    \* bound: statements and commits that fail

ASSUME IdAssumption == Id \subseteq Int
ASSUME LimitAssumption == Limit \in Nat
ASSUME CallsAssumption == MaxCalls \in Nat /\ MaxFaults \in Nat

\* A table is a function from ids to names; a name may be null.
IsTable(f) == DOMAIN f \subseteq Id /\ \A id \in DOMAIN f : f[id] \in Name \cup {Null}
ASSUME PreloadedAssumption == IsTable(Preloaded) /\ IsFiniteSet(DOMAIN Preloaded)

VARIABLES
  table,    \* the committed rows of t_user
  inserted, \* the ids each thread has inserted and not committed
  pc,       \* where each thread is in its request
  arg,      \* the row, or row to be read, of its request
  reply,    \* what its request answers
  todo, faults,
  saved,    \* history: the requests to save answered "true"
  known     \* history: saved as it was when the request of each thread began

vars == <<table, inserted, pc, arg, reply, todo, faults, saved, known>>

Location == {"out", "save", "commit", "list", "select", "answer"}

\* Rows carry the number of their request.
Rows == [call : 1 .. MaxCalls, id : Id, name : Name]
NoRow == [call |-> 0, id |-> 0, name |-> Null]

NoReply == [kind |-> "none"]
Error == [kind |-> "error"]   \* the exception reaches Spring
True == [kind |-> "true"]
Users(rows) == [kind |-> "users", rows |-> rows]
User(name) == [kind |-> "user", name |-> name]

Init ==
  /\ table = Preloaded
  /\ inserted = [t \in Thread |-> {}]
  /\ pc = [t \in Thread |-> "out"]
  /\ arg = [t \in Thread |-> NoRow]
  /\ reply = [t \in Thread |-> NoReply]
  /\ todo = MaxCalls /\ faults = MaxFaults
  /\ saved = {}
  /\ known = [t \in Thread |-> {}]

Begin(t, location, id, name) ==
  /\ pc[t] = "out" /\ todo > 0
  /\ todo' = todo - 1
  /\ pc' = [pc EXCEPT ![t] = location]
  /\ arg' = [arg EXCEPT ![t] = [call |-> todo, id |-> id, name |-> name]]
  /\ known' = [known EXCEPT ![t] = saved]
  /\ UNCHANGED <<table, inserted, reply, faults, saved>>

Answers(t, r) ==
  /\ pc' = [pc EXCEPT ![t] = "answer"]
  /\ reply' = [reply EXCEPT ![t] = r]

Fault == faults > 0 /\ faults' = faults - 1
-----------------------------------------------------------------------------
(* saveU: userMapper.insert(u), then "true", then the commit.              *)
Locked(t, id) == \E u \in Thread \ {t} : id \in inserted[u]

\* Mutant: replace into t_user.
InsertReplaces(t) ==
  /\ pc[t] = "save" /\ ~Locked(t, arg[t].id)
  /\ inserted' = [inserted EXCEPT ![t] = {arg[t].id}]
  /\ pc' = [pc EXCEPT ![t] = "commit"] /\ UNCHANGED reply
  /\ UNCHANGED <<table, arg, todo, faults, saved, known>>

\* An id that is taken is an error; one that another transaction has inserted
\* makes this one wait.
Insert(t) ==
  /\ pc[t] = "save" /\ ~Locked(t, arg[t].id)
  /\ IF arg[t].id \in DOMAIN table
       THEN Answers(t, Error) /\ UNCHANGED inserted
       ELSE /\ inserted' = [inserted EXCEPT ![t] = {arg[t].id}]
            /\ pc' = [pc EXCEPT ![t] = "commit"] /\ UNCHANGED reply
  /\ UNCHANGED <<table, arg, todo, faults, saved, known>>

\* The statement fails or waits too long: rollback, and the exception goes on.
InsertFails(t) ==
  /\ pc[t] = "save" /\ Fault
  /\ Answers(t, Error)
  /\ UNCHANGED <<table, inserted, arg, todo, saved, known>>

With(row) == [i \in DOMAIN table \cup {row.id} |-> IF i = row.id THEN row.name ELSE table[i]]

\* Mutant: saveU is not transactional on a connection without autocommit.
CommittedNothing(t) == table

Committed(t) == With(arg[t])

Commit(t) ==
  /\ pc[t] = "commit"
  /\ table' = Committed(t)
  /\ inserted' = [inserted EXCEPT ![t] = {}]
  /\ Answers(t, True)
  /\ UNCHANGED <<arg, todo, faults, saved, known>>

\* The answer to the commit is lost: the row may be there or not.
CommitFails(t) ==
  /\ pc[t] = "commit" /\ Fault
  /\ table' \in {table, Committed(t)}
  /\ inserted' = [inserted EXCEPT ![t] = {}]
  /\ Answers(t, Error)
  /\ UNCHANGED <<arg, todo, saved, known>>
-----------------------------------------------------------------------------
(* The reading requests.                                                   *)
Before(id) == {i \in DOMAIN table : i < id}

\* Mutant: the first row has offset 1.
PageFromOne == {id \in DOMAIN table : Cardinality(Before(id)) \in 1 .. Limit}

\* order by id limit 0, Limit
Page == {id \in DOMAIN table : Cardinality(Before(id)) \in 0 .. Limit - 1}

List(t) ==
  /\ pc[t] = "list"
  /\ Answers(t, Users([id \in Page |-> table[id]]))
  /\ UNCHANGED <<table, inserted, arg, todo, faults, saved, known>>

\* No row: u.getName() throws.  A null name: setInfo throws.
SelectIdwq(t) ==
  /\ pc[t] = "select"
  /\ LET id == arg[t].id
     IN Answers(t, IF id \in DOMAIN table /\ table[id] # Null THEN User(table[id]) ELSE Error)
  /\ UNCHANGED <<table, inserted, arg, todo, faults, saved, known>>

ReadFails(t) ==
  /\ pc[t] \in {"list", "select"} /\ Fault
  /\ Answers(t, Error)
  /\ UNCHANGED <<table, inserted, arg, todo, saved, known>>

\* The response goes out.
Respond(t) ==
  /\ pc[t] = "answer"
  /\ saved' = IF reply[t].kind = "true" THEN saved \cup {arg[t]} ELSE saved
  /\ pc' = [pc EXCEPT ![t] = "out"]
  /\ arg' = [arg EXCEPT ![t] = NoRow]
  /\ reply' = [reply EXCEPT ![t] = NoReply]
  /\ known' = [known EXCEPT ![t] = {}]
  /\ UNCHANGED <<table, inserted, todo, faults>>
-----------------------------------------------------------------------------
\* name has a default, so it is never null.
Request(t) ==
  \/ Begin(t, "list", 0, Null)
  \/ \E id \in Id :
       \/ \E name \in Name : Begin(t, "save", id, name)
       \/ Begin(t, "select", id, Null)

ThreadStep(t) ==
  \/ Insert(t) \/ InsertFails(t) \/ Commit(t) \/ CommitFails(t)
  \/ List(t) \/ SelectIdwq(t) \/ ReadFails(t) \/ Respond(t)

Next == \E t \in Thread : Request(t) \/ ThreadStep(t)

Spec == Init /\ [][Next]_vars
-----------------------------------------------------------------------------
TypeOK ==
  /\ IsTable(table)
  /\ pc \in [Thread -> Location]
  /\ todo \in 0 .. MaxCalls /\ faults \in 0 .. MaxFaults
  /\ saved \subseteq Rows
  /\ arg \in [Thread -> [call : 0 .. MaxCalls, id : Id \cup {0}, name : Name \cup {Null}]]
  /\ inserted \in [Thread -> SUBSET Id]
  /\ known \in [Thread -> SUBSET Rows]
  /\ reply = [t \in Thread |-> reply[t]]
  /\ \A t \in Thread :
       /\ inserted[t] = IF pc[t] = "commit" THEN {arg[t].id} ELSE {}
       /\ inserted[t] \cap DOMAIN table = {}
       /\ \A u \in Thread \ {t} : inserted[t] \cap inserted[u] = {}
       /\ known[t] \subseteq saved
       /\ pc[t] = "answer" <=> reply[t].kind # "none"

(* A save answered "true" is in the table for good, and it is the only one *)
(* for its id: of two requests for one id at most one is told "true", and  *)
(* none if the id was there before.                                        *)
SavedForGood ==
  /\ \A row \in saved : row.id \in DOMAIN table /\ table[row.id] = row.name
  /\ \A row, other \in saved : row.id = other.id => row = other
  /\ \A id \in DOMAIN Preloaded : id \in DOMAIN table /\ table[id] = Preloaded[id]

(* A request that begins after a save was answered "true" sees the row: in *)
(* the list, unless the list is full of smaller ids, and by selectIdwq.    *)
SavedIsSeen ==
  \A t \in Thread : \A row \in known[t] :
    /\ reply[t].kind = "users" =>
         \/ row.id \in DOMAIN reply[t].rows /\ reply[t].rows[row.id] = row.name
         \/ Cardinality({i \in DOMAIN reply[t].rows : i < row.id}) = Limit
    /\ reply[t].kind = "user" /\ arg[t].id = row.id => reply[t].name = row.name
=============================================================================
