SPECIFICATION FairSpec
CONSTANTS
  Devices = {d1, d2}
  Apps = {a1}
  NoApp = NoApp
  DayLength = 8
  DaysPerWeek = 2
  MinDuration = 2
  ConflictInterval = 3
  UpdateSkipWindow = 2
  NoActivity = NoActivity
  Threads = {t1, t2}
  NoThread = NoThread
  NoTx = NoTx
  NotCached = NotCached
  NotAggregated = NotAggregated
  NoJob = NoJob
  Requests <- FewRequests
  InactivityRequests <- InactivityOverviews
  PastIntervals = {}
  IsNoGoGoal = TRUE
  MaxFailures = 1
  MaxRestarts = 1
  MaxRequests = 3
INVARIANTS
  TypeOK
  TransactionIsLocked
PROPERTIES
  RequestIsAnswered
CHECK_DEADLOCK FALSE
