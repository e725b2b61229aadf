------------------------------ MODULE RankBoard ------------------------------
(***************************************************************************)
(* The sorted-set half of util/redis/RedisService: the update methods pack *)
(* their arguments into a task for a single-thread executor and return;    *)
(* the executor's worker runs the tasks, each one call of RedisUtil.  The  *)
(* reading methods (rank, queryScore, rangeWithScores) go straight to      *)
(* Redis from the request thread: they see the boards of this module with  *)
(* whatever is still queued missing.                                       *)
(***************************************************************************)
EXTENDS RedisUtil, Sequences

CONSTANTS Member,     \* player ids, as member.toString() writes them
          Value,      \* scores and increments
          Broken,     \* a task that throws: its member is null, or its own code fails
          MaxTasks    \* bound: tasks submitted

ASSUME MaxTasksAssumption == MaxTasks \in Nat
ASSUME ValueAssumption == Value \subseteq Int

VARIABLES
  queue,    \* the executor's queue
  running,  \* the task each worker runs, or Null
  stuck,    \* workers whose Redis call never returns
  log       \* history: the tasks submitted, in order

executorVars == <<queue, running, stuck, log>>
vars == <<redisVars, executorVars>>

\* Mutant: newFixedThreadPool(2).
TwoWorkers == {"worker", "worker2"}

\* Executors.newSingleThreadExecutor()
Workers == {"worker"}

Init ==
  /\ RedisInit
  /\ queue = <<>>
  /\ running = [w \in Workers |-> Null]
  /\ stuck = {}
  /\ log = <<>>
-----------------------------------------------------------------------------
(* The request threads.                                                    *)

\* ExecutorService.execute: the queue is unbounded, it never refuses or waits.
Submit(task) ==
  /\ queue' = Append(queue, task)
  /\ UNCHANGED <<redisVars, running, stuck>>

Asks(task) == Len(log) < MaxTasks /\ log' = Append(log, task)

\* Despite its name it adds value to the score, as incrSortSetItem does.
SetSortSetItem(key, value, member) ==
  LET task == incrSortSetItem(key, value, member) IN Asks(task) /\ Submit(task)

\* Mutant: the score goes to a hash.
UpdateSortSetItemInHash(key, value, member) ==
  LET task == hSet(key, member, value) IN Asks(task) /\ Submit(task)

UpdateSortSetItem(key, value, member) ==
  LET task == updateSortSetItem(key, value, member) IN Asks(task) /\ Submit(task)

\* Mutant: a negative increment counts as nothing to do.
NothingNegative(increment) == increment <= 0

NothingToDo(increment) == increment = 0

\* An increment of zero is not submitted: it does not even create the member.
IncrSortSetItem(key, increment, member) ==
  LET task == incrSortSetItem(key, increment, member)
  IN /\ increment # 0 /\ Asks(task)
     /\ IF NothingToDo(increment) THEN UNCHANGED <<redisVars, queue, running, stuck>>
                                  ELSE Submit(task)

\* A task that will throw: execute(task) takes any Runnable, and the others
\* call member.toString() only when they run.
ExecuteBroken == Asks(Broken) /\ Submit(Broken)
-----------------------------------------------------------------------------
(* The executor.                                                           *)
Take(w) ==
  /\ running[w] = Null /\ w \notin stuck /\ queue # <<>>
  /\ running' = [running EXCEPT ![w] = Head(queue)]
  /\ queue' = Tail(queue)
  /\ UNCHANGED <<redisVars, stuck, log>>

Done(w) == running' = [running EXCEPT ![w] = Null] /\ UNCHANGED <<queue, log>>

\* One call of RedisUtil; RedisUtil drops its exception, the task its answer.
\* Its closeConnection may wait for ever, for a pool that is wedged.
Run(w) ==
  /\ running[w] \notin {Null, Broken} /\ w \notin stuck
  /\ \E o \in Outcomes(running[w]) : Ends(o) /\ Done(w)
  /\ stuck' \in {stuck, stuck \cup {w}}

\* Its getConnection may, with nothing sent.
Hang(w) ==
  /\ running[w] \notin {Null, Broken}
  /\ stuck' = stuck \cup {w}
  /\ UNCHANGED <<redisVars, queue, running, log>>

\* The exception ends the worker's thread; the executor starts another.
Die(w) ==
  /\ running[w] = Broken
  /\ Done(w)
  /\ UNCHANGED <<redisVars, stuck>>

Sending == {w \in Workers \ stuck : running[w] \notin {Null, Broken}}

\* The process dies and starts again; a command under way may get through.
Crash ==
  /\ faults > 0 /\ faults' = faults - 1
  /\ queue' = <<>>
  /\ running' = [w \in Workers |-> Null]
  /\ stuck' = {}
  /\ doubt' = doubt (+) SetToBag({running[w] : w \in Sending})
  /\ UNCHANGED <<db, log>>

Request ==
  \/ \E k \in Key, v \in Value, m \in Member :
       SetSortSetItem(k, v, m) \/ UpdateSortSetItem(k, v, m) \/ IncrSortSetItem(k, v, m)
  \/ ExecuteBroken

Worker(w) == Take(w) \/ Run(w) \/ Die(w)

Next ==
  \/ Request
  \/ \E w \in Workers : Worker(w) \/ Hang(w)
  \/ \E c \in InDoubt : ExecuteLate(c) /\ UNCHANGED executorVars
  \/ Crash

\* The worker keeps working, unless a call hangs.  Nothing obliges a command in
\* doubt to reach the server.
Spec == Init /\ [][Next]_vars /\ \A w \in Workers : WF_vars(Worker(w))
-----------------------------------------------------------------------------
Updates ==
  {incrSortSetItem(k, v, m) : k \in Key, v \in Value, m \in Member}
    \cup {updateSortSetItem(k, v, m) : k \in Key, v \in Value, m \in Member}

ASSUME TaskAssumption == Broken # Null /\ Updates \cap {Broken, Null} = {}

TypeOK ==
  /\ \A k \in Key : Present(db, k) =>
       /\ db[k].kind = "zset" /\ db[k].life = "endless"
       /\ DOMAIN db[k].val \subseteq Member
       /\ \A m \in DOMAIN db[k].val : db[k].val[m] \in Int
  /\ IsABag(doubt) /\ InDoubt \subseteq Updates
  /\ faults \in 0 .. MaxFaults
  /\ queue \in Seq(Updates \cup {Broken})
  /\ running \in [Workers -> Updates \cup {Broken, Null}]
  /\ stuck \subseteq Workers

\* What an update does to a family of boards: ZADD puts, ZINCRBY adds.
BoardsAfter(boards, u) ==
  IF u = Broken THEN boards
  ELSE IF u.op = "ZADD"
    THEN [boards EXCEPT ![u.key] = Override(@, u.map)]
    ELSE [boards EXCEPT ![u.key] =
            Override(@, [m \in {u.member} |-> ValueAt(@, m) + u.by])]

Boards == [k \in Key |-> Content(db, k)]
Running == IF running["worker"] = Null THEN <<>> ELSE <<running["worker"]>>
Pending == Running \o queue

Leader == INSTANCE Leaderboard WITH
  Update <- Updates \cup {Broken}, Empty <- [k \in Key |-> NoFields], Apply <- BoardsAfter,
  boards <- Boards, pending <- Pending, doubtful <- doubt,
  stalled <- stuck # {}

(* The executor delivers what RedisService promises: updates settle one at *)
(* a time in the order of submission, a task that throws costs no other    *)
(* update, and every update settles unless the process dies first or a     *)
(* Redis call hangs.  An update in doubt changes the board once at most.   *)
UpdatesInOrder == Leader!Spec

\* The boards after the first n requests of the log.
Replay[n \in Nat] ==
  IF n = 0 THEN [k \in Key |-> NoFields] ELSE BoardsAfter(Replay[n - 1], log[n])

(* While Redis answers everything, the boards are the replay of the        *)
(* requests that are not pending: nothing is lost, doubled or overtaken.   *)
ReplaysTheLog ==
  faults = MaxFaults => Boards = Replay[Len(log) - Len(Pending)]
=============================================================================
