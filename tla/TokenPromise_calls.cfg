\* Three request threads, two tokens; two of the players share a key.
CONSTANTS
  Thread = {t1, t2, t3}
  Token = {x, y}
  Key = {"ks1", "ks11"}
  Account <- MCAccount
  KeyName <- MCKeyName
  Seconds = {0, 60}
  Null = Null
  MaxCalls = 4
  MaxFaults = 2
SPECIFICATION SpecH
SYMMETRY Symmetry
INVARIANTS TypeOK PromiseKept LoginDecided
CHECK_DEADLOCK FALSE
