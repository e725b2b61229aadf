----------------------- MODULE ConnectionManagerProofs -----------------------
(***************************************************************************)
(* Theorems about ConnectionManager, for any number of threads, any size   *)
(* of pool and any number of calls.                                        *)
(***************************************************************************)
EXTENDS ConnectionManager, FiniteSetTheorems, TLAPS

\* The monitor's owner is the one thread that talks to the pool in getConnection.
MonitorHeld == \A t \in Thread : monitor = t <=> pc[t] = "borrow"

\* The inductive invariant.  TypeOK says where a thread may have a connection,
\* MonitorHeld who may change a place of the pool, and LentIsHeld is what makes
\* "the connection of a broken command" never an idle one.
IInv == TypeOK /\ MonitorHeld /\ LentIsHeld /\ BrokenNeverPooled

LEMMA InitIInv == Init => IInv
  BY ThreadAssumption, ConnAssumption, CallsAssumption
     DEF Init, IInv, TypeOK, MonitorHeld, LentIsHeld, BrokenNeverPooled,
         SlotState, Location

LEMMA CallIInv ==
  ASSUME IInv, NEW t \in Thread, Call(t)
  PROVE  IInv'
<1> USE DEF IInv, Call, Goto
<1>1. TypeOK'
  BY DEF TypeOK, Location
<1>2. MonitorHeld'
  BY DEF MonitorHeld, TypeOK
<1>3. LentIsHeld' /\ BrokenNeverPooled'
  BY DEF LentIsHeld, BrokenNeverPooled
<1> QED BY <1>1, <1>2, <1>3

LEMMA GetConnectionIInv ==
  ASSUME IInv, NEW t \in Thread, GetConnection(t)
  PROVE  IInv'
<1> USE DEF IInv, GetConnection, Goto
<1>1. TypeOK'
  BY DEF TypeOK, Location
<1>2. MonitorHeld'
  BY ThreadAssumption DEF MonitorHeld, TypeOK
<1>3. LentIsHeld' /\ BrokenNeverPooled'
  BY DEF LentIsHeld, BrokenNeverPooled
<1> QED BY <1>1, <1>2, <1>3

LEMMA GetResourceIInv ==
  ASSUME IInv, NEW t \in Thread, NEW c \in Conn, GetResource(t, c)
  PROVE  IInv'
<1> USE DEF IInv, GetResource, Goto
<1>1. /\ conn[t] = NoConn
      /\ slot[c] # "lent"
      /\ \A u \in Thread : conn[u] # c
  BY DEF Lendable, TypeOK, LentIsHeld
<1>2. TypeOK'
  BY ConnAssumption DEF TypeOK, Location, SlotState
<1>3. MonitorHeld'
  BY ThreadAssumption DEF MonitorHeld, TypeOK
<1>4. LentIsHeld'
  BY <1>1, ConnAssumption DEF LentIsHeld, TypeOK
<1>5. BrokenNeverPooled'
  BY DEF BrokenNeverPooled, TypeOK
<1> QED BY <1>2, <1>3, <1>4, <1>5

LEMMA GetResourceThrowsIInv ==
  ASSUME IInv, NEW t \in Thread, GetResourceThrows(t)
  PROVE  IInv'
<1> USE DEF IInv, GetResourceThrows, MonitorAfterThrow, Goto, AfterFailedConnect
<1>1. TypeOK'
  BY DEF TypeOK, Location
<1>2. MonitorHeld'
  BY ThreadAssumption DEF MonitorHeld, TypeOK
<1>3. LentIsHeld' /\ BrokenNeverPooled'
  BY DEF LentIsHeld, BrokenNeverPooled
<1> QED BY <1>1, <1>2, <1>3

\* Both outcomes of the command.
LEMMA CommandIInv ==
  ASSUME IInv, NEW t \in Thread, CommandAnswered(t) \/ CommandBreaks(t)
  PROVE  IInv'
<1> USE DEF IInv, CommandAnswered, CommandBreaks, AfterFailedCommand, Goto
<1>1. conn[t] \in Conn /\ slot[conn[t]] = "lent"
  BY DEF TypeOK, LentIsHeld
<1>2. TypeOK'
  BY <1>1 DEF TypeOK, Location
<1>3. MonitorHeld'
  BY DEF MonitorHeld, TypeOK
<1>4. LentIsHeld'
  BY DEF LentIsHeld
<1>5. BrokenNeverPooled'
  BY <1>1 DEF BrokenNeverPooled
<1> QED BY <1>2, <1>3, <1>4, <1>5

LEMMA CloseConnectionIInv ==
  ASSUME IInv, NEW t \in Thread, CloseConnection(t)
  PROVE  IInv'
<1> USE DEF IInv, CloseConnection, Goto
<1>1. TypeOK'
  BY DEF TypeOK, Location, SlotState, AfterClose
<1>2. MonitorHeld'
  BY DEF MonitorHeld, TypeOK
<1>3. CASE conn[t] = NoConn
  <2>1. UNCHANGED <<slot, conn>>
    BY <1>3 DEF TypeOK
  <2> QED BY <2>1, <1>1, <1>2 DEF LentIsHeld, BrokenNeverPooled
<1>4. CASE conn[t] # NoConn
  <2>1. conn[t] \in Conn /\ slot[conn[t]] = "lent"
    BY <1>4 DEF TypeOK, LentIsHeld
  <2>2. slot' = [slot EXCEPT ![conn[t]] = AfterClose(conn[t])]
    BY <1>4, <2>1 DEF IsConnected
  <2>3. AfterClose(conn[t]) # "lent"
    BY DEF AfterClose
  <2>4. LentIsHeld'
    BY <2>1, <2>2, <2>3, ConnAssumption DEF LentIsHeld, TypeOK
  <2>5. BrokenNeverPooled'
    BY <2>1, <2>2 DEF BrokenNeverPooled, AfterClose, TypeOK
  <2> QED BY <1>1, <1>2, <2>4, <2>5
<1> QED BY <1>3, <1>4

LEMMA EvictIInv ==
  ASSUME IInv, NEW c \in Conn, Evict(c)
  PROVE  IInv'
<1> USE DEF IInv, Evict
<1>1. TypeOK'
  BY DEF TypeOK, SlotState
<1>2. MonitorHeld' /\ LentIsHeld' /\ BrokenNeverPooled'
  BY DEF MonitorHeld, LentIsHeld, BrokenNeverPooled, TypeOK
<1> QED BY <1>1, <1>2

LEMMA NextIInv == IInv /\ [Next]_vars => IInv'
<1> SUFFICES ASSUME IInv, [Next]_vars PROVE IInv'
  OBVIOUS
<1>1. CASE UNCHANGED vars
  BY <1>1 DEF vars, IInv, TypeOK, MonitorHeld, LentIsHeld, BrokenNeverPooled
<1>2. CASE Next
  BY <1>2, CallIInv, GetConnectionIInv, GetResourceIInv, GetResourceThrowsIInv,
     CommandIInv, CloseConnectionIInv, EvictIInv DEF Next, ThreadStep
<1> QED BY <1>1, <1>2
-----------------------------------------------------------------------------
\* The inductive invariant holds of every behaviour of the connection manager.
THEOREM Invariance == Spec => []IInv
  BY InitIInv, NextIInv, PTL DEF Spec

\* Threads, pool and local variables keep their types, and a thread runs its
\* command with a connection in hand.
THEOREM TypeCorrect == Spec => []TypeOK
  BY Invariance, PTL DEF IInv

\* closeConnection in every finally block: no connection leaks, none is shared.
THEOREM NoLeak == Spec => []LentIsHeld
  BY Invariance, PTL DEF IInv

\* A connection whose command failed is not lent again.
THEOREM BrokenDiscarded == Spec => []BrokenNeverPooled
  BY Invariance, PTL DEF IInv
-----------------------------------------------------------------------------
\* Pigeonhole: if the pool is exhausted and a thread waits for it, every
\* connection is in the hands of another thread, which is inside a call.
LEMMA Crowd == IInv => WedgeIsCrowded
<1> DEFINE inside == {t \in Thread : pc[t] # "out"}
<1> SUFFICES ASSUME IInv, NoneLeft, NEW t \in Thread, pc[t] = "borrow",
                    ~(Cardinality(inside) > Cardinality(Conn))
             PROVE  FALSE
  BY DEF WedgeIsCrowded, Wedged
<1> DEFINE others == inside \ {t}
           holder == [c \in Conn |-> CHOOSE u \in Thread : conn[u] = c]
<1>1. conn[t] = NoConn
  BY DEF IInv, TypeOK
<1>2. ASSUME NEW c \in Conn
      PROVE  holder[c] \in others /\ conn[holder[c]] = c
  <2>1. holder[c] \in Thread /\ conn[holder[c]] = c
    BY ConnAssumption DEF NoneLeft, IInv, LentIsHeld
  <2> HIDE DEF holder
  <2>2. holder[c] # t /\ pc[holder[c]] # "out"
    BY <1>1, <2>1, ConnAssumption DEF IInv, TypeOK
  <2> QED BY <2>1, <2>2
<1>3. holder \in [Conn -> others]
  BY <1>2
<1>4. IsFiniteSet(inside)
  BY FS_Subset, ThreadAssumption
<1>5. IsFiniteSet(others) /\ Cardinality(others) = Cardinality(inside) - 1
  BY <1>4, FS_RemoveElement
<1>6. Cardinality(others) < Cardinality(Conn)
  <2> HIDE DEF inside, others
  <2> QED BY <1>4, <1>5, FS_CardinalityType, ConnAssumption
<1> HIDE DEF holder, others
<1>7. \E x, y \in Conn : x # y /\ holder[x] = holder[y]
  BY <1>3, <1>5, <1>6, ConnAssumption, FS_PigeonHole
<1> QED BY <1>2, <1>7

\* The pool is never exhausted by leaks: a wedge takes more callers than it
\* has connections.
THEOREM WedgesAreCrowded == Spec => []WedgeIsCrowded
  BY Crowd, Invariance, PTL

\* A thread that waits on an exhausted pool has the monitor, so no thread can
\* enter closeConnection and the pool stays exhausted.
LEMMA WedgedStep == IInv /\ [Next]_vars => (Wedged => Wedged')
<1> SUFFICES ASSUME IInv, [Next]_vars, NoneLeft,
                    NEW t \in Thread, pc[t] = "borrow"
             PROVE  Wedged'
  BY DEF Wedged
<1> USE DEF NoneLeft, Wedged
<1>1. monitor = t /\ t # NoThread
  BY ThreadAssumption DEF IInv, MonitorHeld
<1>2. CASE UNCHANGED vars
  BY <1>2 DEF vars
<1>3. ASSUME NEW u \in Thread, Call(u)
      PROVE  Wedged'
  BY <1>3 DEF Call, Goto, IInv, TypeOK
<1>4. ASSUME NEW u \in Thread, GetConnection(u)
      PROVE  Wedged'
  BY <1>4, <1>1 DEF GetConnection
<1>5. ASSUME NEW u \in Thread, NEW c \in Conn, GetResource(u, c)
      PROVE  Wedged'
  BY <1>5 DEF GetResource, Lendable
<1>6. ASSUME NEW u \in Thread, GetResourceThrows(u)
      PROVE  Wedged'
  BY <1>6 DEF GetResourceThrows, MonitorAfterThrow
<1>7. ASSUME NEW u \in Thread, CommandAnswered(u) \/ CommandBreaks(u)
      PROVE  Wedged'
  BY <1>7 DEF CommandAnswered, CommandBreaks, Goto, IInv, TypeOK
<1>8. ASSUME NEW u \in Thread, CloseConnection(u)
      PROVE  Wedged'
  BY <1>8, <1>1 DEF CloseConnection, MayClose
<1>9. ASSUME NEW c \in Conn, Evict(c)
      PROVE  Wedged'
  BY <1>9 DEF Evict
<1> QED BY <1>2, <1>3, <1>4, <1>5, <1>6, <1>7, <1>8, <1>9 DEF Next, ThreadStep

\* The wedge is permanent, whatever the sizes: the class monitor that
\* getConnection keeps while it waits is the one closeConnection needs.
THEOREM WedgeIsPermanent == Spec => WedgedForGood
<1>1. IInv /\ [Next]_vars => [Wedged => Wedged']_vars
  BY WedgedStep
<1> QED BY <1>1, Invariance, PTL DEF Spec, WedgedForGood
-----------------------------------------------------------------------------
LEMMA LeaseStep == IInv /\ [Next]_vars => [Lease!Next]_conn
<1> SUFFICES ASSUME IInv, [Next]_vars PROVE [Lease!Next]_conn
  OBVIOUS
<1>1. CASE UNCHANGED vars
  BY <1>1 DEF vars
<1>2. ASSUME NEW t \in Thread, NEW c \in Conn, GetResource(t, c)
      PROVE  Lease!Grant(t, c)
  BY <1>2 DEF GetResource, Goto, Lendable, IInv, TypeOK, LentIsHeld, Lease!Grant
<1>3. ASSUME NEW t \in Thread, CloseConnection(t)
      PROVE  Lease!GiveBack(t) \/ UNCHANGED conn
  BY <1>3 DEF CloseConnection, IInv, TypeOK, Lease!GiveBack
<1>4. ASSUME NEW t \in Thread,
             \/ Call(t) \/ GetConnection(t) \/ GetResourceThrows(t)
             \/ CommandAnswered(t) \/ CommandBreaks(t)
      PROVE  UNCHANGED conn
  BY <1>4 DEF Call, GetConnection, GetResourceThrows, CommandAnswered, CommandBreaks
<1>5. ASSUME NEW c \in Conn, Evict(c)
      PROVE  UNCHANGED conn
  BY <1>5 DEF Evict
<1> QED BY <1>1, <1>2, <1>3, <1>4, <1>5 DEF Next, ThreadStep, Lease!Next

\* The manager implements the exclusive lease: every step grants a free
\* connection, takes one back, or leaves the leases alone.
THEOREM ImplementsLease == Spec => LeaseSpec
<1>1. Init => Lease!Init
  BY DEF Init, Lease!Init
<1> QED BY <1>1, LeaseStep, Invariance, PTL DEF Spec, LeaseSpec, Lease!Spec
=============================================================================
