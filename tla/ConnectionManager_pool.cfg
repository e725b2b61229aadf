\* More threads than places in the pool: the wedge is reachable.
CONSTANTS
  Thread = {t1, t2, t3, t4}
  Conn = {c1, c2}
  NoThread = NoThread
  NoConn = NoConn
  MaxCalls = 2
SPECIFICATION FairSpec
INVARIANTS TypeOK LentIsHeld BrokenNeverPooled WedgeIsCrowded
PROPERTIES WedgedForGood CallsReturnUnlessWedged LeaseSpec
\* The threads stop when they have made their MaxCalls calls, or are wedged.
CHECK_DEADLOCK FALSE
