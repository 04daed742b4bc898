CONSTANTS
  Absent = Absent
  Path = {1, 2, 3}
  TextPath = {1, 2, 3}
  MaxHits = 2
  MayHold <- McMayHold
  MaxFiles = 2
  MaxRetries = 2
  MaxChanges = 1
  MaxTouched = 2
  Request <- AllRequests
SPECIFICATION FairSpec
INVARIANTS
  TypeOK
  ServedWasThere
  StableMatchIsServed
  NotFoundWasAbsent
  FirstNameWins
  WithinBudget
PROPERTIES
  EveryReadEnds
\* A read that has ended is the end.
CHECK_DEADLOCK FALSE
