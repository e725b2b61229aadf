\* Two threads, one request each.
CONSTANTS
  Thread = {t1, t2}
  MaxTotal = 2
  MaxCalls = 2
SPECIFICATION Spec
INVARIANT OwnAnswer
CHECK_DEADLOCK FALSE
