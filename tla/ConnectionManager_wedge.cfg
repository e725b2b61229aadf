\* Three request threads, two places in the pool.
CONSTANTS
  Thread = {t1, t2, t3}
  Conn = {c1, c2}
  NoThread = NoThread
  NoConn = NoConn
  MaxCalls = 1
SPECIFICATION FairSpec
PROPERTY CallsReturn
CHECK_DEADLOCK FALSE
