SPECIFICATION FairSpec
CONSTANTS
  Delay = 2
  Expiry = 3
  MaxAttempts = 2
  Habits = {"stale"}
  MaxTime = 9
  MaxCodes = 4
\* The clock stops at its bound.
CHECK_DEADLOCK FALSE
INVARIANTS
  TypeOK
  TryLimit
  PendingIsScheduled
  LastTextIsAccepted
PROPERTIES
  CodeComes
