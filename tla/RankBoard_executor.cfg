\* One board, two players; scores and increments of every sign.
CONSTANTS
  Key = {"rank"}
  Member = {1, 2}
  Value <- MCValue
  Broken = Broken
  Null = Null
  MaxTasks = 3
  MaxFaults = 2
SPECIFICATION Spec
INVARIANTS TypeOK ReplaysTheLog
PROPERTY UpdatesInOrder
CHECK_DEADLOCK FALSE
