\* One hash with one field, two threads; numbers of every sign, times to live
\* that expire at once too.
CONSTANTS
  Key = {"player"}
  Field = {"level"}
  Number <- MCNumber
  Seconds <- MCSeconds
  Thread = {t1, t2}
  Null = Null
  MaxCalls = 5
  MaxFaults = 2
SPECIFICATION Spec
SYMMETRY Symmetry
INVARIANTS TypeOK TicketsIncrease CacheExpires
CHECK_DEADLOCK FALSE
