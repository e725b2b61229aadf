\* Two threads, three requests, one connection in each pool: the first leak
\* empties a pool.
CONSTANTS
  Thread = {t1, t2}
  MaxTotal = 1
  MaxCalls = 3
SPECIFICATION FairSpec
INVARIANTS TypeOK AloneIsClean LeaksExplained FewClients
PROPERTY CallsReturn
\* The threads stop after MaxCalls calls.
CHECK_DEADLOCK FALSE
