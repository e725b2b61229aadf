--------------------------- MODULE ConnectionLease ---------------------------
(***************************************************************************)
(* What util/redis/ConnectionManager promises its callers, and nothing     *)
(* about how: a thread asks for a Redis connection, has it to itself for   *)
(* the length of one RedisUtil call, and gives it back.                    *)
(***************************************************************************)
CONSTANTS Thread,   \* the threads that call RedisUtil
          Conn,     \* the connections the pool may lend
          NoConn    \* "null"

VARIABLE lease      \* lease[t] is the connection thread t has, or NoConn

Init == lease = [t \in Thread |-> NoConn]

\* getConnection returns to t a connection nobody else has.
Grant(t, c) ==
  /\ lease[t] = NoConn
  /\ \A u \in Thread : lease[u] # c
  /\ lease' = [lease EXCEPT ![t] = c]

\* closeConnection takes t's connection back.
GiveBack(t) ==
  /\ lease[t] # NoConn
  /\ lease' = [lease EXCEPT ![t] = NoConn]

Next == \E t \in Thread : GiveBack(t) \/ \E c \in Conn : Grant(t, c)

Spec == Init /\ [][Next]_lease
=============================================================================
