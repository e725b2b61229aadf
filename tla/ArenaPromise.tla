---------------------------- MODULE ArenaPromise ----------------------------
(***************************************************************************)
(* What an arena promises those who allocate from it (arena.h), without a  *)
(* word about blocks, caches or lists.                                     *)
(*                                                                         *)
(* A unit of memory is a pair: a block and the place of the unit in it.    *)
(* What an arena has handed out is its callers' until the arena is torn    *)
(* down, which runs all destructors first and then takes back everything.  *)
(* ArenaImpl implements this specification under its Promise mapping.      *)
(***************************************************************************)
EXTENDS Integers

CONSTANTS Thread, Arena,
          NoCall     \* what a thread asks that asks for nothing

VARIABLES
  phase,    \* of each arena: "gone", "open", or "closing", its destructors run
  asks,     \* what each thread asks for and has not been given
  handed,   \* the units each arena has handed out
  owed,     \* how many destructors each thread has registered in each arena
  ran       \* the destructors each closing arena ran, the first one first

vars == <<phase, asks, handed, owed, ran>>

Request == [arena : Arena, bytes : Nat, cleanup : BOOLEAN]

Init ==
  /\ phase = [a \in Arena |-> "gone"]
  /\ asks = [t \in Thread |-> NoCall]
  /\ handed = [a \in Arena |-> {}]
  /\ owed = [a \in Arena |-> [t \in Thread |-> 0]]
  /\ ran = [a \in Arena |-> <<>>]

Open(a) ==
  /\ phase[a] = "gone"
  /\ phase' = [phase EXCEPT ![a] = "open"]
  /\ UNCHANGED <<asks, handed, owed, ran>>

Ask(t) ==
  /\ asks[t] = NoCall
  /\ asks' = [asks EXCEPT ![t] = asks'[t]]
  /\ asks'[t] \in Request /\ phase[asks'[t].arena] = "open"
  /\ UNCHANGED <<phase, handed, owed, ran>>

\* The units a step hands out: no arena has handed them out yet.
Fresh(a) == handed'[a] \ handed[a]

HandsOut(a) ==
  /\ handed' = [handed EXCEPT ![a] = @ \cup Fresh(a)]
  /\ \A c \in Arena : handed[c] \cap Fresh(a) = {}

\* They are n consecutive ones, the first of which is u.
Run(u, n) == {u[1]} \X (u[2] .. u[2] + n - 1)

Done(t) == asks' = [asks EXCEPT ![t] = NoCall]

Registers(t, a) == owed' = [owed EXCEPT ![a][t] = @ + 1]

\* A thread is given as much as it asked for.  If there is a destructor to
\* register the arena does so, or needs memory to note it in first.
Answer(t) ==
  LET a == asks[t].arena IN
  /\ asks[t] \in Request /\ phase[a] = "open"
  /\ IF asks[t].cleanup
       THEN \/ Done(t) /\ Registers(t, a)
            \/ asks' = [asks EXCEPT ![t].bytes = 0] /\ UNCHANGED owed
       ELSE Done(t) /\ UNCHANGED owed
  /\ HandsOut(a)
  /\ IF asks[t].bytes = 0 THEN Fresh(a) = {}
     ELSE \E u \in Fresh(a) : Fresh(a) = Run(u, asks[t].bytes)
  /\ UNCHANGED <<phase, ran>>

Note(t) ==
  LET a == asks[t].arena IN
  /\ asks[t] \in Request /\ phase[a] = "open"
  /\ asks[t].cleanup /\ asks[t].bytes = 0
  /\ Done(t) /\ Registers(t, a)
  /\ HandsOut(a)
  /\ \E u, v \in Fresh(a) : Fresh(a) = Run(u, v[2] - u[2] + 1)
  /\ UNCHANGED <<phase, ran>>

\* All registered destructors, once each, and a thread's last one first.
RunsAll(a, r) ==
  /\ {r[k] : k \in DOMAIN r} = UNION {[by : {t}, nth : 1 .. owed[a][t]] : t \in Thread}
  /\ \A j, k \in DOMAIN r : j < k /\ r[j].by = r[k].by => r[j].nth > r[k].nth

Close(a) ==
  /\ phase[a] = "open"
  /\ \A t \in Thread : asks[t] = NoCall \/ asks[t].arena # a
  /\ phase' = [phase EXCEPT ![a] = "closing"]
  /\ ran' = [ran EXCEPT ![a] = ran'[a]] /\ RunsAll(a, ran'[a])
  /\ UNCHANGED <<asks, handed, owed>>

Release(a) ==
  /\ phase[a] = "closing"
  /\ phase' = [phase EXCEPT ![a] = "gone"]
  /\ handed' = [handed EXCEPT ![a] = {}]
  /\ owed' = [owed EXCEPT ![a] = [t \in Thread |-> 0]]
  /\ ran' = [ran EXCEPT ![a] = <<>>]
  /\ UNCHANGED asks

Next ==
  \/ \E a \in Arena : Open(a) \/ Close(a) \/ Release(a)
  \/ \E t \in Thread : Ask(t) \/ Answer(t) \/ Note(t)

Spec == Init /\ [][Next]_vars
=============================================================================
