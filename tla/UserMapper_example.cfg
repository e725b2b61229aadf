\* Three rows, one without a name; two criteria, a page of one row.
CONSTANTS
  Null = Null
  Conditions <- SomeConditions
  Limits = {Null, 1}
  MaxCriteria = 2
  MaxConditions = 2
  MaxOred = 2
  Id = {1, 2, 3}
  Name = {1, 2}
  Preloaded <- Rows
  MaxWrites = 1
SPECIFICATION Spec
INVARIANT TypeOK
PROPERTIES TouchesWhatWasAsked ReadsAll
