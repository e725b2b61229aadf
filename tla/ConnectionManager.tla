-------------------------- MODULE ConnectionManager --------------------------
(***************************************************************************)
(* util/redis/ConnectionManager and the try/catch/finally frame that every *)
(* method of util/redis/RedisUtil puts around one Redis command:           *)
(*                                                                         *)
(*   try     { jedis = ConnectionManager.getConnection(); command }        *)
(*   catch   { print the exception; the method returns its default }       *)
(*   finally { ConnectionManager.closeConnection(jedis) }                  *)
(*                                                                         *)
(* getConnection and closeConnection are static synchronized methods: they *)
(* share the monitor of the class.  The pool is a JedisPool built with a   *)
(* default JedisPoolConfig: it lends an idle connection if it has one,     *)
(* else opens one while it has fewer than maxTotal, else makes the caller  *)
(* wait, with no limit, for a connection to come back.                     *)
(***************************************************************************)
EXTENDS Naturals, FiniteSets

CONSTANTS Thread,     \* the threads that call RedisUtil
          Conn,       \* the maxTotal connections the pool may have open
          NoThread,   \* "nobody", for the monitor
          NoConn,     \* "null", for the local variable jedis
          MaxCalls    \* bound: RedisUtil calls each thread makes

ASSUME ThreadAssumption == IsFiniteSet(Thread) /\ NoThread \notin Thread
ASSUME ConnAssumption == IsFiniteSet(Conn) /\ NoConn \notin Conn
ASSUME CallsAssumption == MaxCalls \in Nat

VARIABLES
  monitor,  \* the thread inside getConnection, or NoThread
  slot,     \* what the pool has in each of its maxTotal places
  broken,   \* connections whose last command failed at the socket
  pc,       \* where each thread is in the frame
  conn,     \* each thread's local variable jedis
  todo      \* RedisUtil calls each thread has still to make

vars == <<monitor, slot, broken, pc, conn, todo>>

SlotState == {"absent", "idle", "lent"}
Location == {"out", "enter", "borrow", "command", "close"}

Init ==
  /\ monitor = NoThread
  /\ slot = [c \in Conn |-> "absent"]
  /\ broken = {}
  /\ pc = [t \in Thread |-> "out"]
  /\ conn = [t \in Thread |-> NoConn]
  /\ todo = [t \in Thread |-> MaxCalls]

Goto(t, from, to) == pc[t] = from /\ pc' = [pc EXCEPT ![t] = to]

NoneIdle == \A c \in Conn : slot[c] # "idle"
NoneLeft == \A c \in Conn : slot[c] = "lent"
-----------------------------------------------------------------------------
(* Entering the frame: jedis = null, then the call of getConnection.       *)
Call(t) ==
  /\ Goto(t, "out", "enter")
  /\ todo[t] > 0
  /\ todo' = [todo EXCEPT ![t] = @ - 1]
  /\ UNCHANGED <<monitor, slot, broken, conn>>

(* getConnection: take the monitor, then ask the pool with the monitor     *)
(* held.  The monitor is released when the method returns or throws.       *)
GetConnection(t) ==
  /\ Goto(t, "enter", "borrow")
  /\ monitor = NoThread
  /\ monitor' = t
  /\ UNCHANGED <<slot, broken, conn, todo>>

Lendable(c) == slot[c] = "idle" \/ (slot[c] = "absent" /\ NoneIdle)

\* pool.getResource() lends c: an idle connection, or a new one.
GetResource(t, c) ==
  /\ Goto(t, "borrow", "command")
  /\ Lendable(c)
  /\ slot' = [slot EXCEPT ![c] = "lent"]
  /\ conn' = [conn EXCEPT ![t] = c]
  /\ broken' = IF slot[c] = "absent" THEN broken \ {c} ELSE broken
  /\ monitor' = NoThread
  /\ UNCHANGED todo

\* Mutant: getConnection swallows the exception instead of rethrowing it.
AfterFailedConnectMissed == "command"

\* A failed connect leads to the catch block, then to finally, with jedis null.
AfterFailedConnect == "close"

\* Mutant: a lock that is not given back when an exception leaves the method.
MonitorAfterThrowKept(t) == t

\* A synchronized method gives the monitor back however it ends.
MonitorAfterThrow(t) == NoThread

\* pool.getResource() throws: it had to open a connection and could not.
GetResourceThrows(t) ==
  /\ Goto(t, "borrow", AfterFailedConnect)
  /\ NoneIdle /\ ~NoneLeft
  /\ monitor' = MonitorAfterThrow(t)
  /\ UNCHANGED <<slot, broken, conn, todo>>

\* The command is answered, by a value or by a Redis error reply.
CommandAnswered(t) ==
  /\ Goto(t, "command", "close")
  /\ UNCHANGED <<monitor, slot, broken, conn, todo>>

\* Mutant: a method that closes the connection only when all went well.
AfterFailedCommandNoFinally == "out"

\* A failed command leads to the catch block, then to finally.
AfterFailedCommand == "close"

\* The socket fails or redis_timeout runs out: Jedis marks itself broken.
CommandBreaks(t) ==
  /\ Goto(t, "command", AfterFailedCommand)
  /\ broken' = broken \cup {conn[t]}
  /\ UNCHANGED <<monitor, slot, conn, todo>>
-----------------------------------------------------------------------------
(* closeConnection.  It never waits once it has the monitor, so it is one  *)
(* step.                                                                   *)
\* Mutant: closeConnection is not synchronized.
MayCloseUnsynchronized(t) == TRUE

MayClose(t) == monitor = NoThread

\* Mutant: a connection that failed is not closed.
IsConnectedUnbroken(c) == slot[c] # "absent" /\ c \notin broken

\* A Jedis stays connected until the pool destroys it: nothing here closes it.
IsConnected(c) == slot[c] # "absent"

\* Mutant: every connection goes back to the pool.
AfterCloseUnchecked(c) == "idle"

\* Jedis.close() gives a broken connection up and any other back to the pool.
AfterClose(c) == IF c \in broken THEN "absent" ELSE "idle"

CloseConnection(t) ==
  /\ Goto(t, "close", "out")
  /\ MayClose(t)
  /\ IF conn[t] # NoConn /\ IsConnected(conn[t])
       THEN slot' = [slot EXCEPT ![conn[t]] = AfterClose(conn[t])]
       ELSE UNCHANGED slot
  /\ conn' = [conn EXCEPT ![t] = NoConn]
  /\ UNCHANGED <<monitor, broken, todo>>

\* The pool's evictor thread destroys a connection that is idle too long, or
\* that fails its idle test.  It does not take the monitor.
Evict(c) ==
  /\ slot[c] = "idle"
  /\ slot' = [slot EXCEPT ![c] = "absent"]
  /\ UNCHANGED <<monitor, broken, pc, conn, todo>>
-----------------------------------------------------------------------------
ThreadStep(t) ==
  \/ GetConnection(t)
  \/ \E c \in Conn : GetResource(t, c)
  \/ GetResourceThrows(t)
  \/ CommandAnswered(t)
  \/ CommandBreaks(t)
  \/ CloseConnection(t)

Next ==
  \/ \E t \in Thread : Call(t) \/ ThreadStep(t)
  \/ \E c \in Conn : Evict(c)

Spec == Init /\ [][Next]_vars

\* Every thread keeps running: connects, commands and their waits are bounded
\* by redis_timeout.  Nothing obliges a thread to make another call, nor the
\* evictor to run, and no order is assumed among the threads that wait for
\* the monitor.
FairSpec == Spec /\ \A t \in Thread : WF_vars(ThreadStep(t))
-----------------------------------------------------------------------------
(* A thread has a connection only in its try block and its finally block,  *)
(* and always has one while it runs its command.                           *)
TypeOK ==
  /\ monitor \in Thread \cup {NoThread}
  /\ slot \in [Conn -> SlotState]
  /\ broken \subseteq Conn
  /\ pc \in [Thread -> Location]
  /\ conn \in [Thread -> Conn \cup {NoConn}]
  /\ todo \in [Thread -> Nat]
  /\ \A t \in Thread : pc[t] \in {"out", "enter", "borrow"} => conn[t] = NoConn
  /\ \A t \in Thread : pc[t] = "command" => conn[t] \in Conn

(* No leak and no sharing: a connection the pool counts as lent is in the  *)
(* hands of exactly one thread, which is inside a RedisUtil method.  It is *)
(* the finally block of every RedisUtil method that must keep this true    *)
(* whatever the command does.                                              *)
LentIsHeld ==
  /\ \A c \in Conn : slot[c] = "lent" <=> \E t \in Thread : conn[t] = c
  /\ \A t, u \in Thread : conn[t] = conn[u] /\ conn[t] # NoConn => t = u

(* A connection whose command failed never serves another call: it is      *)
(* destroyed on the way back, so that a late reply of the failed command   *)
(* cannot be read as the reply of the next one.                            *)
BrokenNeverPooled == \A c \in broken : slot[c] # "idle"

\* A thread waits, inside getConnection, for a pool with nothing to lend.
Wedged == NoneLeft /\ \E t \in Thread : pc[t] = "borrow"

(* Once a thread waits on an exhausted pool it waits for ever: it keeps    *)
(* the monitor that every closeConnection needs.                           *)
WedgedForGood == [][Wedged => Wedged']_vars

(* The pool is exhausted only by calls that are under way: a wedge takes   *)
(* more of them than maxTotal, whatever has failed before.                 *)
WedgeIsCrowded ==
  Wedged => Cardinality({t \in Thread : pc[t] # "out"}) > Cardinality(Conn)

(* Every RedisUtil call returns, or somebody is wedged.                    *)
CallsReturnUnlessWedged ==
  \A t \in Thread : pc[t] # "out" ~> pc[t] = "out" \/ Wedged

(* Every RedisUtil call returns.                                           *)
CallsReturn == \A t \in Thread : pc[t] # "out" ~> pc[t] = "out"

(* The manager implements the lease its callers rely on.                   *)
Lease == INSTANCE ConnectionLease WITH lease <- conn
LeaseSpec == Lease!Spec
=============================================================================
