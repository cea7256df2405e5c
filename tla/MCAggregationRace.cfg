SPECIFICATION Spec
CONSTANTS
  Devices = {d1}
  Apps = {a1}
  NoApp = NoApp
  DayLength = 8
  DaysPerWeek = 2
  MinDuration = 2
  ConflictInterval = 3
  UpdateSkipWindow = 2
  NoActivity = NoActivity
  Threads = {t1}
  NoThread = NoThread
  NoTx = NoTx
  NotCached = NotCached
  NotAggregated = NotAggregated
  NoJob = NoJob
  Requests <- FewRequests
  InactivityRequests = {}
  PastIntervals <- AllIntervals
  IsNoGoGoal = TRUE
  MaxFailures = 0
  MaxRestarts = 0
  MaxRequests = 3
INVARIANTS
  AggregatesAlwaysFresh
CHECK_DEADLOCK FALSE
