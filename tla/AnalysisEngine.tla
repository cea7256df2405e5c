--------------------------- MODULE AnalysisEngine ---------------------------
(***************************************************************************)
(* The analysis service for one anonymized user and one goal of that user. *)
(*                                                                         *)
(* Request threads read the user from the shared cache, take the user's    *)
(* lock, and in one transaction register the activities of the request;    *)
(* the lastActivity cache is changed along the way and is not part of the  *)
(* transaction.  Inactivity requests use the same lock.  The aggregation   *)
(* job of the batch service, another process, works on the same tables     *)
(* without it.                                                             *)
(***************************************************************************)
EXTENDS ActivityStore

CONSTANTS
  Threads,          \* request threads of the analysis service
  NoThread,         \* nobody holds the user's lock
  NoTx,             \* no transaction is open under the lock
  NotCached,        \* the lastActivity cache has no entry for the device
  NotAggregated,    \* aggregatesComputed is false
  NoJob,            \* the aggregation job has no interval in hand
  Requests,         \* the activity requests: sequences of payloads
  InactivityRequests, \* the inactivity requests: sets of days and weeks
  PastIntervals,    \* the intervals before the cut-off date of the job
  IsNoGoGoal,       \* whether the goal is a no-go goal
  MaxFailures,      \* bound on transactions rolled back by the database
  MaxRestarts,      \* bound on restarts of the analysis service
  MaxRequests       \* bound on the requests received

\* A request is of one device, app activities are sorted by start
\* (getActivitiesSorted), and a network activity comes alone.
IsRequest(payloads) ==
  /\ payloads \in Seq(Payload)
  /\ payloads # <<>>
  /\ \A i \in 1..Len(payloads) :
       /\ IsValidPayload(payloads[i])
       /\ payloads[i].dev = payloads[1].dev
       /\ payloads[i].app = NoApp => Len(payloads) = 1
       /\ i > 1 => payloads[i - 1].start <= payloads[i].start

\* ActivityDto, what the lastActivity cache holds of an activity.
LastDto == [app : Apps \cup {NoApp}, start : Nat, end : Nat]

ASSUME AnalysisEngineAssumption ==
  /\ NoThread \notin Threads
  /\ NoActivity \notin LastDto /\ NotCached \notin LastDto
  /\ NoTx \notin [db : Database, resets : SUBSET Interval]
  /\ \A payloads \in Requests : IsRequest(payloads)
  /\ \A intervals \in InactivityRequests :
       intervals # {} /\ intervals \subseteq Interval
  /\ PastIntervals \subseteq Interval
  /\ \A i \in PastIntervals :
       i.kind = "week" => \A day \in DaysOf(i) : DayInterval(day) \in PastIntervals
  /\ IsNoGoGoal \in BOOLEAN
  /\ MaxFailures \in Nat /\ MaxRestarts \in Nat /\ MaxRequests \in Nat

VARIABLES
  db,           \* the committed activity tables
  aggregates,   \* aggregates[i]: the activity the aggregates of interval i are
                \* computed from
  tx,           \* the open transaction: its view of db, the intervals whose
                \* aggregates it resets
  lock,         \* the thread that holds the user's lock
  cache,        \* the local lastActivity cache, by device
  userDto,      \* lastMonitoredActivityDate in the shared user cache
  request,      \* what each thread is doing
  job,          \* the interval the aggregation job has in hand
  raced,        \* history: the intervals the job had in hand, when it last did,
                \* beside a transaction
  received,     \* the number of requests received
  faults        \* the failures and restarts there were

vars == <<db, aggregates, tx, lock, cache, userDto, request, job, raced,
          received, faults>>

-----------------------------------------------------------------------------
(* Types.                                                                  *)

Idle == [pc |-> "idle", dtoDate |-> Never, payloads |-> <<>>, work |-> <<>>,
         inactive |-> {}, fetched |-> FALSE]

Request ==
  [pc : {"idle", "received", "inTx", "saved"},
   dtoDate : Nat \cup {Never},     \* from the user read before the lock
   payloads : Seq(Payload),        \* all of the request
   work : Seq(Payload),            \* those still to register
   inactive : SUBSET Interval,     \* of an inactivity request
   fetched : BOOLEAN]              \* UserAnonymizedEntityHolder.isEntityFetched

TypeOK ==
  /\ db \in Database
  /\ tx = NoTx \/ tx \in [db : Database, resets : SUBSET Interval]
  /\ lock \in Threads \cup {NoThread}
  /\ cache \in [Devices -> LastDto \cup {NoActivity, NotCached}]
  /\ userDto \in Nat \cup {Never}
  /\ request \in [Threads -> Request]
  /\ received \in 0..MaxRequests
  /\ faults \in [failures : 0..MaxFailures, restarts : 0..MaxRestarts]
  /\ DOMAIN aggregates = PastIntervals
  /\ \A i \in PastIntervals :
       aggregates[i] = NotAggregated \/ aggregates[i] \subseteq Span
  /\ job = NoJob \/ (job.interval \in PastIntervals /\ job.seen \subseteq Span)
  /\ raced \subseteq PastIntervals

Init ==
  /\ db = EmptyDatabase
  /\ aggregates = [i \in PastIntervals |-> NotAggregated]
  /\ tx = NoTx
  /\ lock = NoThread
  /\ cache = [dev \in Devices |-> NotCached]
  /\ userDto = Never
  /\ request = [t \in Threads |-> Idle]
  /\ job = NoJob
  /\ raced = {}
  /\ received = 0
  /\ faults = [failures |-> 0, restarts |-> 0]

-----------------------------------------------------------------------------
(* A request arrives, before the lock.                                     *)

MayReceive(t) ==
  /\ request[t] = Idle
  /\ received < MaxRequests
  /\ received' = received + 1
  /\ UNCHANGED <<db, aggregates, tx, lock, cache, userDto, job, raced, faults>>

\* analyze(userAnonymizedId, ...): the user is read from the shared cache and
\* the payloads are made from it.
Receive(t, payloads) ==
  /\ MayReceive(t)
  /\ request' = [request EXCEPT ![t] =
       [Idle EXCEPT !.pc = "received", !.dtoDate = userDto,
                    !.payloads = payloads, !.work = payloads]]

\* createInactivityEntities, called by the app service for the intervals of an
\* overview that have no activity.
ReceiveInactivity(t, intervals) ==
  /\ MayReceive(t)
  /\ request' = [request EXCEPT ![t] =
       [Idle EXCEPT !.pc = "received", !.inactive = intervals]]

-----------------------------------------------------------------------------
(* The transaction starts under the lock.                                  *)

LastEnd(payloads) ==
  CHOOSE end \in {payloads[i].end : i \in 1..Len(payloads)} :
    \A i \in 1..Len(payloads) : payloads[i].end <= end

\* updateLastMonitoredActivityDateIfRelevant compares with the user as it was
\* read before the lock.
HasNewMonitoredDate(r) == r.dtoDate < DayOf(LastEnd(r.payloads))

\* Once the lock is free, thread t takes it and starts a transaction with the
\* tables as changed.
StartsTransaction(t, changed, resets, hasFetched) ==
  /\ request[t].pc = "received"
  /\ lock = NoThread
  /\ lock' = t
  /\ tx' = [db |-> changed, resets |-> resets]
  /\ request' = [request EXCEPT ![t].pc = "inTx", ![t].fetched = hasFetched]
  /\ raced' = IF job = NoJob THEN raced ELSE raced \cup {job.interval}
  /\ UNCHANGED <<db, aggregates, cache, userDto, job, received, faults>>

\* analyzeInsideLock begins: the last monitored activity date.
Begin(t) ==
  LET r == request[t]
  IN /\ r.payloads # <<>>
     /\ StartsTransaction(t,
          IF HasNewMonitoredDate(r)
          THEN WithMonitoredDate(db, r.payloads[1].dev, DayOf(LastEnd(r.payloads)))
          ELSE db,
          {}, HasNewMonitoredDate(r))

\* resetAggregatesComputed changes the rows of aggregated intervals only.
AggregatedAmong(intervals) ==
  {i \in intervals \cap PastIntervals : aggregates[i] # NotAggregated}

\* createInactivityEntities: the week, and the day of it, unless they exist;
\* addDayActivity resets the aggregates of the week.
BeginInactivity(t) ==
  LET inactive == request[t].inactive
      days == {i.date : i \in {j \in inactive : j.kind = "day"}}
      weeks == {i.date : i \in {j \in inactive : j.kind = "week"}}
                 \cup {WeekOf(day) : day \in days}
  IN /\ inactive # {}
     /\ StartsTransaction(t,
          [db EXCEPT !.days = @ \cup days, !.weeks = @ \cup weeks],
          AggregatedAmong({WeekInterval(WeekOf(day)) : day \in days \ db.days}),
          FALSE)

-----------------------------------------------------------------------------
(* The payloads are registered, one after the other, in the transaction.   *)

IsRegistering(t) == request[t].pc = "inTx" /\ request[t].work # <<>>

Front(t) == Head(request[t].work)

\* addOrUpdateActivity: a payload that crosses midnight becomes two.
SplitCrossDay(t) ==
  /\ IsRegistering(t)
  /\ IsCrossDay(Front(t))
  /\ request' = [request EXCEPT ![t].work =
                   <<TillEndOfDay(Front(t)), FromStartOfDay(Front(t))>> \o Tail(@)]
  /\ UNCHANGED <<db, aggregates, tx, lock, cache, userDto, job, raced, received, faults>>

\* fetchLastActivityForUser on a cache miss; the query sees the transaction.
FetchLast(t) ==
  /\ IsRegistering(t)
  /\ ~IsCrossDay(Front(t))
  /\ cache[Front(t).dev] = NotCached
  /\ cache' = [cache EXCEPT ![Front(t).dev] = LastRegistered(tx.db, Front(t).dev)]
  /\ UNCHANGED <<db, aggregates, tx, lock, userDto, request, job, raced, received, faults>>

\* addOrUpdateDayTruncatedActivity is to deal with the front payload, and the
\* cache has an answer.
IsDeciding(t) ==
  /\ IsRegistering(t)
  /\ ~IsCrossDay(Front(t))
  /\ cache[Front(t).dev] # NotCached

LastOf(t) == cache[Front(t).dev]

ExtendsExisting(t) ==
  Precedes(Front(t), LastOf(t)) /\ OverlappingSameApp(tx.db, Front(t)) # {}

\* Mutant: addActivity forgets to reset the aggregates of the week.
ResetsDayOnly(day) == tx.resets \cup AggregatedAmong({DayInterval(day)})

\* resetAggregatesComputed of a changed day and its week.
ResetsWith(day) == tx.resets \cup AggregatedAmong(IntervalsOf(day))

\* The front payload leaves the tables as changed, its day's aggregates too if
\* hasReset, and is done with.
Registers(t, changed, hasReset) ==
  /\ tx' = [db |-> changed,
            resets |-> IF hasReset THEN ResetsWith(DayOf(Front(t).start))
                                   ELSE tx.resets]
  /\ request' = [request EXCEPT ![t].work = Tail(@), ![t].fetched = TRUE]
  /\ UNCHANGED <<db, aggregates, lock, job, raced, received, faults>>

\* updateTimeExistingActivity of the first of the rows, in no defined order.
ExtendExisting(t) ==
  /\ IsDeciding(t)
  /\ ExtendsExisting(t)
  /\ \E i \in OverlappingSameApp(tx.db, Front(t)) :
       LET row == tx.db.activities[i]
       IN Registers(t, WithStretched(tx.db, i, Front(t), row),
                    Exceeds(Front(t), row))
  /\ UNCHANGED <<cache, userDto>>

\* Combined with the last registered activity, which needs no change.
Skip(t) ==
  /\ IsDeciding(t)
  /\ CanCombine(Front(t), LastOf(t))
  /\ ~IsWorthUpdating(Front(t), LastOf(t))
  /\ request' = [request EXCEPT ![t].work = Tail(@)]
  /\ UNCHANGED <<db, aggregates, tx, lock, cache, userDto, job, raced, received, faults>>

ExtendsLast(t) ==
  CanCombine(Front(t), LastOf(t)) /\ IsWorthUpdating(Front(t), LastOf(t))

\* updateTimeLastActivity: the row is read from the database, the bounds it is
\* held against from the cache.
ExtendLast(t) ==
  /\ IsDeciding(t)
  /\ ExtendsLast(t)
  /\ \E i \in LastActivity(tx.db, Front(t).dev, DayOf(Front(t).start)) :
       LET changed == WithStretched(tx.db, i, Front(t), LastOf(t))
       IN /\ Registers(t, changed, Exceeds(Front(t), LastOf(t)))
          /\ cache' = [cache EXCEPT ![Front(t).dev] = Dto(changed.activities[i])]
  /\ UNCHANGED userDto

\* addActivity: the user with the new activity is saved, and put in the shared
\* cache, before a goal conflict message is.
Add(t) ==
  LET p == Front(t)
      last == LastOf(t)
      added == WithActivity(tx.db, p)
  IN /\ IsDeciding(t)
     /\ ~ExtendsExisting(t)
     /\ ~CanCombine(p, last)
     /\ Registers(t, IF IsNoGoGoal /\ IsNewConflict(p, last)
                     THEN WithConflict(added, p) ELSE added, TRUE)
     /\ cache' = IF UpdatesCache(NewActivity(p), last)
                 THEN [cache EXCEPT ![p.dev] = Dto(NewActivity(p))]
                 ELSE cache
     /\ userDto' = tx.db.userDate

-----------------------------------------------------------------------------
(* The transaction ends, and the lock is released.                         *)

\* analyze: the user is saved, and put in the shared cache, if it was fetched.
Save(t) ==
  /\ request[t].pc = "inTx"
  /\ request[t].work = <<>>
  /\ userDto' = IF request[t].fetched THEN tx.db.userDate ELSE userDto
  /\ request' = [request EXCEPT ![t].pc = "saved"]
  /\ UNCHANGED <<db, aggregates, tx, lock, cache, job, raced, received, faults>>

\* Mutant: the lock is closed on success only.
LockAfterSuccessOnly(isCommitted) == IF isCommitted THEN NoThread ELSE lock

\* try (Lock lock = ...) releases whatever happens.
LockAfter(isCommitted) == NoThread

EndsTransaction(t, isCommitted) ==
  /\ tx' = NoTx
  /\ lock' = LockAfter(isCommitted)
  /\ request' = [request EXCEPT ![t] = Idle]

Commit(t) ==
  /\ request[t].pc = "saved"
  /\ db' = tx.db
  /\ aggregates' = [i \in PastIntervals |->
                      IF i \in tx.resets THEN NotAggregated ELSE aggregates[i]]
  /\ EndsTransaction(t, TRUE)
  /\ UNCHANGED <<cache, userDto, job, raced, received, faults>>

\* What the transaction put in the caches stays there.
Rollback(t) ==
  /\ EndsTransaction(t, FALSE)
  /\ UNCHANGED <<db, aggregates, cache, userDto, job, raced, received>>

\* dayActivityNotFound, lastActivityNotFoundOnDayActivity: there is no row the
\* payload could be combined with.
RejectCombination(t) ==
  /\ IsDeciding(t)
  /\ ExtendsLast(t)
  /\ LastActivity(tx.db, Front(t).dev, DayOf(Front(t).start)) = {}
  /\ Rollback(t)
  /\ UNCHANGED faults

\* The database fails the transaction, at the latest when it is to commit.
TransactionFails(t) ==
  /\ request[t].pc \in {"inTx", "saved"}
  /\ faults.failures < MaxFailures
  /\ Rollback(t)
  /\ faults' = [faults EXCEPT !.failures = @ + 1]

\* The analysis service restarts: its requests and its local cache are lost,
\* its transaction is rolled back; the shared cache lives on in other services.
Restart ==
  /\ faults.restarts < MaxRestarts
  /\ faults' = [faults EXCEPT !.restarts = @ + 1]
  /\ tx' = NoTx
  /\ lock' = NoThread
  /\ cache' = [dev \in Devices |-> NotCached]
  /\ request' = [t \in Threads |-> Idle]
  /\ UNCHANGED <<db, aggregates, userDto, job, raced, received>>

-----------------------------------------------------------------------------
(* The aggregation job, in the batch service.                              *)

Exists(interval) ==
  interval.date \in (IF interval.kind = "day" THEN db.days ELSE db.weeks)

\* A week adds up the spreads of its days: the stored one of an aggregated day.
SeenBy(interval) ==
  IF interval.kind = "day" THEN SpansIn(db, interval)
  ELSE UNION {IF aggregates[DayInterval(day)] = NotAggregated
              THEN SpansOn(db, day) ELSE aggregates[DayInterval(day)] :
                day \in DaysOf(interval)}

AddsUpRacedDays(interval) ==
  \E day \in DaysOf(interval) :
    DayInterval(day) \in raced /\ aggregates[DayInterval(day)] # NotAggregated

\* process: an interval that is not aggregated is read and aggregated in memory.
BatchRead(interval) ==
  /\ job = NoJob
  /\ aggregates[interval] = NotAggregated
  /\ Exists(interval)
  /\ job' = [interval |-> interval, seen |-> SeenBy(interval)]
  /\ raced' = IF tx # NoTx \/ AddsUpRacedDays(interval)
              THEN raced \cup {interval} ELSE raced \ {interval}
  /\ UNCHANGED <<db, aggregates, tx, lock, cache, userDto, request, received, faults>>

\* The chunk commits; a row the open transaction changed is locked until then.
BatchWrite ==
  /\ job # NoJob
  /\ tx # NoTx => job.interval \notin tx.resets
  /\ aggregates' = [aggregates EXCEPT ![job.interval] = job.seen]
  /\ job' = NoJob
  /\ UNCHANGED <<db, tx, lock, cache, userDto, request, raced, received, faults>>

-----------------------------------------------------------------------------
(* The specification.                                                      *)

Works(t) ==
  \/ Begin(t)
  \/ BeginInactivity(t)
  \/ SplitCrossDay(t)
  \/ FetchLast(t)
  \/ ExtendExisting(t)
  \/ Skip(t)
  \/ ExtendLast(t)
  \/ RejectCombination(t)
  \/ Add(t)
  \/ Save(t)
  \/ Commit(t)

Next ==
  \/ \E t \in Threads :
       \/ \E payloads \in Requests : Receive(t, payloads)
       \/ \E intervals \in InactivityRequests : ReceiveInactivity(t, intervals)
       \/ Works(t)
       \/ TransactionFails(t)
  \/ Restart
  \/ \E interval \in PastIntervals : BatchRead(interval)
  \/ BatchWrite

Spec == Init /\ [][Next]_vars

\* Java runs a thread that can run, and the job writes what it has read.
\* Threads are not served in turn: LockPool is not fair.
FairSpec ==
  Spec /\ WF_vars(BatchWrite) /\ \A t \in Threads : WF_vars(Works(t))

-----------------------------------------------------------------------------
(* Properties.                                                             *)

\* A transaction on the user's tables is open exactly while the lock is held, by
\* the thread whose request it is, after failures and restarts too: no request
\* leaves the lock behind, none works in another one's transaction.
TransactionIsLocked ==
  /\ lock = NoThread <=> tx = NoTx
  /\ \A t \in Threads : lock = t <=> request[t].pc \in {"inTx", "saved"}

DayAssignmentIn(tables) ==
  \A i \in 1..Len(tables.activities) :
    LET a == tables.activities[i]
    IN /\ a.day = DayOf(a.start)
       /\ a.day \in tables.days /\ WeekOf(a.day) \in tables.weeks
       /\ a.end < EndOfDay(a.start) + MinDuration

\* An activity belongs to the day it starts on, that day and its week exist, and
\* only the minimum duration can carry its end past the end of the day: however
\* payloads are split, combined and moved back in time.
DayAssignment == DayAssignmentIn(db)

\* "activities never start before or end after the day", the assumption of
\* DayActivity.addToSpread.
ActivitiesEndWithinDay ==
  \A i \in 1..Len(db.activities) :
    db.activities[i].end <= EndOfDay(db.activities[i].start)

\* "because of the lock further up in this class, we are sure that
\* getLastActivity() gives the same activity": the row updateTimeLastActivity
\* is about to change is the one the decision to combine was made for.
SameLastActivity ==
  \A t \in Threads :
    IsDeciding(t) /\ ExtendsLast(t) =>
      \E i \in LastActivity(tx.db, Front(t).dev, DayOf(Front(t).start)) :
        Dto(tx.db.activities[i]) = LastOf(t)

\* Between transactions the lastActivity cache shows a row of the database that
\* no other row of the device ends after, as long as nothing failed or was
\* restarted.
CacheShowsDatabase ==
  lock = NoThread =>
    \A dev \in Devices :
      LET rows == {i \in 1..Len(db.activities) : db.activities[i].dev = dev}
      IN cache[dev] \notin {NotCached, NoActivity} =>
           /\ \E i \in rows : Dto(db.activities[i]) = cache[dev]
           /\ \A i \in rows : db.activities[i].end <= cache[dev].end

\* A payload before the last registered activity that overlaps an activity of
\* the same app, none for network activity, extends that one: no row is added
\* (AnalysisEngineServiceTest.analyze_networkActivityCompletelyPreceding...).
OverlapIsExtended ==
  [][\A t \in Threads : Add(t) /\ Precedes(Front(t), LastOf(t)) =>
       ~\E i \in OnDay(tx.db, Front(t).dev, DayOf(Front(t).start)) :
          LET a == tx.db.activities[i]
          IN a.app = Front(t).app /\ Overlaps(Front(t), a)]_vars

\* What a committed request reported is on record: every tick of it is in an
\* activity of the same device and app, or in the update skip window after one.
IsOnRecord(p, rows) ==
  \A tick \in p.start..p.end : \E a \in rows :
    /\ a.dev = p.dev /\ a.app = p.app
    /\ a.start <= tick
    /\ tick <= a.end \/ tick < a.end + UpdateSkipWindow

NothingIsLost ==
  [][\A t \in Threads : Commit(t) =>
       \A i \in 1..Len(request[t].payloads) :
         IsOnRecord(request[t].payloads[i],
                    {db'.activities[j] : j \in 1..Len(db'.activities)})]_vars

\* A registered activity is never shortened, moved or removed, as long as nothing
\* failed or was restarted.
ActivitiesOnlyGrow ==
  [][\A i \in 1..Len(db.activities) :
       /\ i <= Len(db'.activities)
       /\ db'.activities[i].start <= db.activities[i].start
       /\ db'.activities[i].end >= db.activities[i].end
       /\ db'.activities[i].day = db.activities[i].day]_vars

\* 'Two conflicts within the conflict interval are reported as one message'
\* (BasicBuddyTest): the conflicts reported of a device are further apart.
OneConflictPerDevice ==
  \A c, d \in db.conflicts :
    c # d /\ c.dev = d.dev /\ c.at <= d.at => d.at > c.at + ConflictInterval

\* An activity on a no-go goal is reported if it starts more than the conflict
\* interval after all activities of its device registered before it.  Nothing is
\* promised of the others: one that comes late is not reported, however far it is
\* from the activities around it.
ConflictIsReported ==
  IsNoGoGoal =>
    \A i \in 1..Len(db.activities) :
      LET a == db.activities[i]
          earlier == {db.activities[j] : j \in 1..(i - 1)}
      IN (\A b \in earlier : b.dev = a.dev => a.start > b.end + ConflictInterval)
           => \E c \in db.conflicts : c.activity = i

\* 'Last monitored activity date is updated properly after multiple activities'
\* (UserTest): it becomes the latest of the old one and that of the request.
MonitoredDateIsUpdated ==
  [][\A t \in Threads : Commit(t) /\ request[t].payloads # <<>> =>
       LET date == DayOf(LastEnd(request[t].payloads))
       IN db'.userDate = IF date > db.userDate THEN date ELSE db.userDate]_vars

\* 'Aggregation is reset and repeated when posting new continuing app activity'
\* (ActivityAggregationBatchJobTest): aggregates that count as computed are
\* those of the activities there are.  The job takes no lock and can overwrite a
\* reset, but that spoils only what it had in hand beside a transaction.
AggregatesFresh ==
  \A i \in PastIntervals :
    aggregates[i] = NotAggregated \/ aggregates[i] = SpansIn(db, i) \/ i \in raced

\* The test as it stands, without the exception.
AggregatesAlwaysFresh ==
  \A i \in PastIntervals :
    aggregates[i] = NotAggregated \/ aggregates[i] = SpansIn(db, i)

\* Every request is answered, in whatever way, and its lock is released.
RequestIsAnswered ==
  \A t \in Threads : request[t] # Idle ~> request[t] = Idle
=============================================================================
