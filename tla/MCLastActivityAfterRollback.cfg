SPECIFICATION Spec
CONSTANTS
  Devices = {d1}
  Apps = {a1}
  NoApp = NoApp
  DayLength = 8
  DaysPerWeek = 2
  MinDuration = 2
  ConflictInterval = 3
  UpdateSkipWindow = 2
  NoActivity = NoActivity
  Threads = {t1}
  NoThread = NoThread
  NoTx = NoTx
  NotCached = NotCached
  NotAggregated = NotAggregated
  NoJob = NoJob
  Requests <- DayRequests
  InactivityRequests = {}
  PastIntervals = {}
  IsNoGoGoal = TRUE
  MaxFailures = 1
  MaxRestarts = 0
  MaxRequests = 3
INVARIANTS
  SameLastActivity
CHECK_DEADLOCK FALSE
