\* Three request threads, three ids, a list of at most two rows.
CONSTANTS
  Thread = {t1, t2, t3}
  Id = {1, 2, 3}
  Name = {a, b}
  Null = Null
  Preloaded <- MCPreloaded
  Limit = 2
  MaxCalls = 4
  MaxFaults = 1
SPECIFICATION Spec
SYMMETRY Symmetry
INVARIANTS TypeOK SavedForGood SavedIsSeen
CHECK_DEADLOCK FALSE
