# A verification model of the Yona server

Yona is a self-control and buddy-support service. A mobile app and a filtering
proxy report what a user does on which device; the server keeps, per user and
per goal, how long the matching activity lasted, tells the user and their
buddies about activity on a no-go goal, and shows overviews of days and weeks.

This directory holds TLA+ modules of its core logic, the TLC configurations that
check them on small instances, and proofs that TLAPS checks. Paths below are
relative to the repository; `core/...` stands for
`core/src/main/java/nu/yona/server/...`, and the other services likewise.

## The system

Four Spring Boot processes (app, analysis, batch and admin service) share one
MariaDB database (read committed, no optimistic locking) and one Hazelcast
cache. Each also has caches of its own.

| Component | State | Operations | Interacts with | Hard about it |
|---|---|---|---|---|
| Lock pool (`core/util/LockPool`) | a map from an ID to the thread that holds it | lock, close | all threads of the analysis service | mutual exclusion, reentrance, wakeups, interrupts |
| Analysis engine (`analysis/service/AnalysisEngineService`, `ActivityUpdateService`) | activities, days, weeks, conflict messages, monitored dates | analyze app or network activity | lock pool, caches, database, messages | late and overlapping reports, midnight, stale reads, rollback |
| Last activity cache (`ActivityCacheService`) | last activity per device and goal, in one process | fetch, put | analysis engine | not part of the transaction, lost at a restart |
| Inactivity management | days and weeks without activity | create | lock pool, app service | races with the engine, a last day without activity |
| Activity entities (`core/analysis/entities`) | rows, aggregates and whether they are computed | add, move, reset, compute | engine, aggregation job, overviews | aggregates outdated by a change |
| Aggregation job (`batch/jobs`) | the intervals of its chunk | read, compute, write | activity tables of the same database | no lock shared with the engine |
| User cache (`UserAnonymizedService`) | the anonymized user with goals, devices, buddies | get, put, evict | all services | stale copies, puts inside transactions |
| Goals (`core/goals`) | goals with their history | add, update, delete | engine, buddies | history chain, deletion while activity arrives |
| Buddy relations (`BuddyService`, message DTO managers) | a pair of buddy entities, each with two statuses | invite, accept, reject, remove | message boxes, user accounts | crossing, repeated and late messages |
| Message boxes (`MessageService`) | direct and anonymous messages | send, transfer, process, delete | buddies, goals, engine | delivery order, action after removal |
| User accounts (`User*Service`) | user, confirmation state, mobile number | add, confirm, update, overwrite, delete | devices, buddies, SMS, LDAP | partial failure, limits, repeated confirmation |
| Confirmation codes, pin reset | code, attempts, creation time | request, send, verify, resend, clear | batch service, SMS | delayed code against expiry and retry |
| New device requests | one encrypted request per user | set, verify, clear, clean up | clean up job | clean up against renewal |
| Devices (`DeviceService`) | devices, index, VPN status events | add, remove, open app, VPN status | users, LDAP, buddies | index race, repeated events |
| DOS protection | attempts per address | count, delay | controllers | lost updates |

What makes each correct: an ID has at most one holder and a freed one is taken
(lock pool); committed activity is recorded once, on the right day, and never
lost, a conflict is told once (engine); the cache names the last row (last
activity cache); computed aggregates are those of the rows (entities, job); both
sides of a buddy pair end in statuses that fit, nobody is a buddy without consent, and no
message locks a user out (buddies, boxes, accounts); a code comes when announced
and is tried a limited number of times (codes); expired requests go and usable
ones stay (new device requests); indexes are unique (devices).

`PROJECT.json` lists every component with what is and is not modelled, and the
hazards at their lines.

## Modules

### UserMutex, LockPool, LockPoolProofs

`UserMutex` is the promise: one owner per ID, taken only when free and given
back by its owner. `LockPool` is the code: `pool` is the map, `handles[t]` the
`Lock` objects thread `t` has open, `wants[t]` the ID of the `lock(id)` call it is
in, `waitSet` the wait set of the monitor. A `synchronized` block is one step;
`wait()` splits `lock` into `Park` and a later `Enter`, and may end by
`notifyAll` (inside `Close`), by a spurious wakeup or by an interrupt.

A thread holds handles of one ID only (`MayLock`): that is how the two callers
and the tests use the class. With two IDs a deadlock would be possible.

### ActivityStore

No state: the tables of one user and one goal as a value, and the operators the
engine computes with. Time is in ticks; `DayLength`, `MinDuration`,
`ConflictInterval` and `UpdateSkipWindow` are constants. A name, a URL and the
text of a message are left out, the app is a model value, and `NoApp` is the null
of network activity: `OverlappingSameApp` follows SQL, where a comparison with
null holds of no row. Aggregates are represented by the set of time spans they
were computed from, so that stale ones can be told from fresh ones.

### AnalysisEngine

One user, one goal that every payload matches, any number of devices, apps and
request threads.

| Variable | Code |
|---|---|
| `db` | committed `ACTIVITIES`, `INTERVAL_ACTIVITIES`, goal conflict messages, last monitored dates |
| `aggregates` | `aggregatesComputed` and the stored aggregates of past intervals |
| `tx` | the open transaction: its view of the tables and the intervals it resets |
| `lock` | the user's entry in the lock pool |
| `cache` | the local `lastActivity` cache |
| `userDto` | the monitored date in the shared user cache |
| `request` | each thread's request: the user as read before the lock, the payloads to do |
| `job` | the interval the aggregation job has read and not yet written |
| `raced` | history: the intervals the job had in hand beside a transaction, when it last had them |

`Receive` and `ReceiveInactivity` read the user before the lock. `Begin` takes the
lock, starts the transaction and records the monitored date; `BeginInactivity`
creates days and weeks. Then one step per payload: `SplitCrossDay`, `FetchLast` on
a cache miss, and one of the outcomes of `addOrUpdateDayTruncatedActivity`
(`ExtendExisting`, `Skip`, `ExtendLast`, `RejectCombination`, `Add`). `Save` and
`Commit` end the request; `RejectCombination` and `TransactionFails` roll back and
leave what was put in the caches there. `Restart` loses all of the process.
`BatchRead` and `BatchWrite` are the job in the other process, which shares no
lock with the engine: it reads at any moment of a transaction, and writes at any but
those in which the transaction has changed the same row.
`raced` records when it did, for `AggregatesFresh` to say which intervals can be
affected.

The lock is one variable, taken and freed in one step. That is what `UserMutex`
offers and what `LockPool` is proved to implement.

Simplifications: updating the monitored date once per request instead of once per
payload, with the same arguments; the job picks intervals in any order (the code
does days before weeks, and a request between the two leaves a day that is not
aggregated for the week to read); a payload lies in at most two days, as a comment
of the code assumes; days have the same length.

Definitions marked "Mutant" are not part of the model. Each is what a plausible
mistake would make of the definition that follows it, and shows that a property
notices.

### AnalysisEngineProofs, LastActivityProofs

The theorems of `AnalysisEngine`; see Proofs below. `LastActivityProofs` extends
`AnalysisEngineProofs` and holds those that rest on the `lastActivity` cache, with
the hypotheses under which it can be relied on.

### MCAnalysisEngine

The requests for the runs: days of eight ticks, weeks of two days, `MinDuration` 2,
`ConflictInterval` 3, `UpdateSkipWindow` 2. So an activity can be within the
skip window, just in or out of the conflict interval, shorter than the minimum,
and on either side of midnight.

### BuddyPair, BuddyRelation, BuddyRelationProofs, BuddyAgreementProofs, BuddyRefinementProofs

`BuddyPair` is the promise: users invite, and accept or call off, and part; two
users are buddies of each other or neither is. `BuddyRelation` is the code. A
user cannot read or write what is encrypted for another one, so each side of a
relation has a row of its own and messages carry the rest.

| Variable | Code |
|---|---|
| `account` | whether the user entity exists, or was deleted, or overwritten by somebody who only has the phone |
| `buddies` | `Buddy` with its `BuddyAnonymized`: the buddy's user ID, the status, and whether the buddy's anonymized user is known (`linked`) |
| `named`, `anonymous` | the two boxes of a user: unprocessed responses, buddy requests, disconnects |
| `request` | what the app's request in each thread has come to |
| `created` | the number of rows created, which gives them their IDs |
| `consent` | history: who invited or accepted whom |

Every request of an app starts with `Prepare` (`doPreparationsAndCheck...`): it
forgets buddies whose accounts have gone, moves the named box to the anonymous
one and processes what is there. Then the operation: `AssertValidBuddy` and
`HandleBuddyRequest` (an invitation, which is checked in one transaction and made
in another), `Accept`, `Reject`, `DeleteMessage`, `RemoveBuddy`, `DeleteUser`, or
nothing (`EndRequest`). `OverwriteUser` needs no such request.

Some of what users can do is named in `Habits`. The server has no guard against
any of it, so that a habit is absent is an assumption on the users:

| Habit | The user | In the code |
|---|---|---|
| `withdraw` | removes a buddy who has not answered yet | ordinary use: every buddy has the edit link (`BuddyController.java:281-286`), `removeBuddy` (`BuddyService.java:305-323`) does not look at the status, and `BasicBuddyTest:665-682` removes a pending buddy |
| `cross` | invites somebody who is inviting, or has invited, this user | `assertValidBuddy` (`BuddyService.java:144-201`) looks at the rows of the inviting user only, and the second transaction (`:683-701`) checks nothing again |
| `repeat` | gives the same answer to a request again | `handleAction_Accept` and `handleAction_Reject` (`BuddyConnectRequestMessageDto.java:139-172`) check no status; only the links are no longer offered (`:55-65`) |
| `revise` | gives the other answer to a request that was answered: accepts what was rejected, or rejects what was accepted | the same, by a link that was there before or on a second device |
| `parallel` | makes two requests at a time | a user may have several devices |

Without the habits a user invites, answers each request once, and removes buddies
who have answered, from one device at a time. `MayStart`, `MayInvite`, `MayAnswer` and
`MayDrop` say so and translate no check of the server; what `MayAnswer` allows without
habits is what the app gets links for.

`BuddyRelationProofs` has what holds for all habits, `BuddyAgreementProofs` what
holds without any, and `BuddyRefinementProofs`, on top of it, that `BuddyPair` is
implemented.

Simplifications: each transaction is one step, that is, the transactions of
different users are taken to be serialized; both statuses of a row are one, as
only two-way buddies are allowed (`assertValidBuddy`) and all code sets both;
processed responses and disconnects, which only are shown, are dropped; the users
exist before they are invited. Where the code takes whichever row or message of
a user comes first, the model takes any. Messages with the same content count as
one, so two equal responses do not make `removeBuddy` or `deleteUser` fail ("Multiple
unprocessed buddy connect response messages"), as `repeat` could in the code. A row
that is both accepted and rejected by the responses in the box (`revise`) goes; the
code processes them in order, and fails when the acceptance comes last.

### PinReset, PinResetProofs

The reset of the PIN of one user. The application service stores a confirmation
code without a value and asks the batch service for a job after a delay; the job
gives the code its value and texts it.

| Variable | Code |
|---|---|
| `now` | the clock |
| `code` | the `ConfirmationCode` of the user: creation time, value, attempts |
| `trigger` | the Quartz trigger of the job for this user: when it is due, and whether its job has run |
| `codes` | the values generated and texted, which are their numbers |
| `tries` | history: the wrong attempts for each value |

`RequestPinReset`, `VerifyPinReset`, `ResendPinReset` and `ClearPinReset` are the
methods of `PinResetRequestService`, each one transaction under the lock on the
user; `SendPinResetConfirmationCode` is the job, and `DeleteTrigger` what Quartz
does after it. A request finds the trigger of an earlier one and is then not
scheduled (`Scheduled`). An attempt that fails is counted though it ends with an
exception. `Habits`: `stale` devices use links they got before the request
changed; a `slow` batch service runs jobs, or deletes triggers, later than they
are due; steps `fail` after they texted or scheduled something, which stays.

### NewDeviceRequests, NewDeviceRequestsProofs

`request[u]` is the creation time of the request of user `u`, if there is one.
`SetNewDeviceRequestForUser` and `ClearNewDeviceRequestForUser` are the service;
`job` is the clean-up: one transaction that looks for users with an expired
request (`DeleteAllExpiredRequests`), locks them one by one
(`RemoveNewDeviceRequest`) and writes at the end (`CommitCleanUp`).
`clearSessionIfNotLockedYet` refuses to lock a user with changes pending in the
session (`FailForDirtySession`), and everything is rolled back.

A request that is renewed between the job's query and its lock is removed though
it is new. `UsableRequestsStay` does not speak of these: it says that what was
there when the job started stays when it is usable.

## Runs

| Run | Checks | Shows |
|---|---|---|
| `lock_pool` | `IInv`, `MutualExclusion`, `MapMatchesHandles`, `NoLostWakeup`, `ImplementsUserMutex`, `FreeLockIsTaken`, `LockIsReleased` | three threads, so that one holds and two wait; two IDs, so that threads are woken for another one's ID; three nested handles |
| `engine_days` | `SameLastActivity`, `CacheShowsDatabase`, `OneConflictPerDevice`, `ConflictIsReported`, `NothingIsLost`, `ActivitiesOnlyGrow` | every sequence of three of the 28 activities within two days: a first one, one before, after or over it, and a third that meets the result |
| `engine_midnight` | `DayAssignment`, `AggregatesFresh`, `NothingIsLost` | every sequence of three activities around midnight, with inactivity requests, and the aggregation job at any moment |
| `engine_faults` | `TypeOK`, `TransactionIsLocked`, `RequestIsAnswered` | two threads, two devices, a failure and a restart at any moment |
| `buddies` | `TypeOK`, `PreparationNeverFails`, `BuddiesAgree`, `DisconnectIsUnderway`, `InvitationCanBeAnswered`, `RequestsAreOpen`, `BuddyListSettles` | two users, each with a request under way, four rows (a relation needs two, so they can part and meet again) and one account that goes, without any of the `Habits`: what the boxes of one user hold fits the rows of the other in every state |
| `buddy_habits` | `Consent`, `ImplementsBuddyPair` | with invitations that are withdrawn and answers that are given again (`withdraw`, `repeat`), which leave rows and messages that fit nothing: still no buddy without consent, and the rows with the messages behave as a relation of pairs |
| `pin_reset` | `TypeOK`, `TryLimit`, `PendingIsScheduled`, `LastTextIsAccepted`, `CodeComes` | a delay of two, a validity of three, nine ticks and four values, so that a request can be cleared, expire and be made again while the first trigger is there; two attempts; `stale` links |
| `new_device_requests` | `TypeOK`, `UsableRequestsStay`, `LoneRequestIsDeleted` | two users, six ticks at a validity of two, so that requests expire, are renewed and expire again during a job |

App activity in `engine_days` is at even ticks and network activity at odd ones:
activities of different apps then never end at the same time. Where they do,
`getLastActivity` gives the first of them and the cache has the other:
`SameLastActivity` fails (`MCLastActivityTie.cfg`), and with it `ActivitiesOnlyGrow` and
`NothingIsLost`, as the bounds of one app are given to the row of another.

What rests on the `lastActivity` cache is checked without failures and restarts
only. After a rollback the cache can have an activity that is not on record, and
after a restart it can miss one that is, of a day before the last. A payload is then
compared with one activity and combined with another, so that a committed activity can get a later start (`ActivityUpdateService.java:151`) or an
earlier end (`:155-157`), so `ActivitiesOnlyGrow` does not hold, and neither does
`SameLastActivity` or, after a restart, `OneConflictPerDevice`. `engine_faults`
therefore speaks of the lock, the transaction and the answer.

Deadlock is not checked in the runs of the engine: they stop when `MaxRequests`
requests have been served. Nor is it in `buddy_habits`, where a user can be locked out of
every request, and in `pin_reset`, where the clock stops at `MaxTime`. Other
bounds: `MaxFailures`, `MaxRestarts`, `MaxDepth`, `MaxBuddies`, `MaxLeavers`,
`MaxCodes`.

The invariants of `buddies` were checked with three users and three rows too (4.1
million states), and `Consent` and `IInv` of `BuddyRelation` with all five habits together (two
users, three rows: 261,641 states).

### What does not hold

Each of these runs has one property that a comment or test of the repository
states, and TLC shows how the code breaks it.

| Run | What happens |
|---|---|
| `last_activity_at_midnight` | the cached last activity starts at midnight and a payload ends there: the row of the day before is changed, and can be shortened, or the request is rejected |
| `withdrawn_request` | the request of a user who withdraws stays in the anonymous box of the other one, who can accept it; the inviting user is then locked out |
| `overwritten_user_informs` | a former buddy is told of the activities of an overwritten account while an invitation to anybody is pending |
| `expired_requests_cleanup` | two users with an expired request make the clean-up fail, every time |

Further configurations, which are not among the runs, reproduce what else does
not hold. Run `tlc -config <file> MCAnalysisEngine.tla`, and for the last one
`tlc -config MCCrossingInvitations.cfg BuddyRelation.tla`:

| Configuration | Property | What happens |
|---|---|---|
| `MCLastActivityAfterRollback.cfg` | `SameLastActivity` | the cache keeps an activity whose transaction was rolled back (`ActivityUpdateService.java:78`); a retry of the same report is then skipped as already registered |
| `MCLastActivityTie.cfg` | `SameLastActivity` | activities of two apps end at the same time: the row of the one is found where the other one is cached |
| `MCActivityPastMidnight.cfg` | `ActivitiesEndWithinDay` | the minimum duration carries an activity past the end of its day, against the assumption in `DayActivity.java:142` |
| `MCConflictAfterRestart.cfg` | `OneConflictPerDevice` | the conflict of before midnight is forgotten when the new day was created as inactivity before a restart |
| `MCMonitoredDateRace.cfg` | `MonitoredDateIsUpdated` | two concurrent requests, the later commit sets the date back |
| `MCNetworkOverlap.cfg` | `OverlapIsExtended` | overlapping network activity is never found, and a row is added |
| `MCAggregationRace.cfg` | `AggregatesAlwaysFresh` | a request that finds nothing to reset commits after the job has read the interval (`ActivityAggregationBatchJob.java:125`) |
| `MCCrossingInvitations.cfg` | `OneRowPerBuddy` | two users invite each other, both invitations are accepted, and each has the other one twice ("Cannot invite someone who is already a buddy", `messages.properties`): what is checked before the lock (`BuddyService.java:192`) is not checked again in the second transaction |

Changing `Habits` in a configuration shows which habit each property needs to be
absent:

- `BuddyRelation`: with any one of the habits `PreparationNeverFails`, `BuddiesAgree`,
  `DisconnectIsUnderway`, `InvitationCanBeAnswered` and `OneRowPerBuddy` fail; so
  `buddies` shows the state of rows and messages for users without habits, and with
  `withdraw`, which is ordinary use, users can be locked out. `RequestsAreOpen` holds
  with `cross` and fails with each of the others (with `withdraw` that is the run
  above). `ImplementsBuddyPair` holds with `withdraw`, with `cross`, and with either of
  these beside `repeat`; it fails with `withdraw` and `cross` together, with `parallel`,
  and with `revise`: a request that was rejected, and so called off, is accepted by a
  link that was there before. `Consent` holds with all of them.
- `PinReset`: `PendingIsScheduled` fails with `slow` (a request finds the trigger of
  a job that has run, and its code never comes) and with `fail`.
  `LastTextIsAccepted` holds with `stale` and `slow` and fails with `fail`: the text
  with a new code is sent before its transaction is rolled back. `CodeIsOnTime`
  fails with `stale`: a job of an earlier request sends the code at once, without
  the delay.

## Fairness

`LockPool`: a thread that can enter the monitor does (weak), and a caller closes
the handle of each depth it keeps coming back to (strong: try-with-resources ends,
though nested blocks may open and close in between). Nothing is assumed of which
waiting thread gets a freed lock, so the liveness is that of the ID, not of one
thread.

`AnalysisEngine`: a thread that can take its next step does, and the job writes
what it has read (weak). Failures, restarts and the arrival of requests are not
fair. That every request is answered needs no fair lock because finitely many
requests compete for it.

`BuddyRelation`: a request of an app takes a next step and ends (weak: servlet
threads run), and every app makes a request from time to time (strong, as a
user's requests come between each other). `BuddyListSettles` is about apps that
are used; nothing is assumed of deleting, accepting or overwriting.

`PinReset`: time passes, and the scheduler fires a trigger that is due and deletes
it (weak). With `slow` absent it does so before anything else of this user: jobs
and their triggers are done within much less than the delay, which is ten seconds
by default.

`NewDeviceRequests`: the clean-up job takes its steps (weak), as the cron trigger
fires time and again. Users do not have to do anything.

## Proofs

`LockPoolProofs` proves, for any sets of threads and IDs and any depth, the
invariants and the refinement of `UserMutex`. The assumptions are those of
`LockPoolAssumption`: the two null values are no thread and no ID.

`MapMatchesHandles` is not inductive: a nested `close` must not free an ID the
thread still holds. `IInv` adds that the handles of a thread are all on one ID
(`OneIdPerThread`) and that only its outermost handle unlocks. `EnterStep` and
`CloseStep` do the two steps that change the map, `WaitingSteps` the others. The
refinement rests on `MapNamesHolders`: the holder the mapping chooses is the
thread in the map, so a step that changes the map is an `Acquire` or a `Release`
and every other one stutters.

`AnalysisEngineProofs` proves `TypeOK`, `TransactionIsLocked` and `DayAssignment`, for
any devices, apps, threads, lists of payloads, lengths of days and weeks and
bounds. The assumptions are `ActivityStoreAssumption` and
`AnalysisEngineAssumption`: what the constants are, that requests are valid, that
`NoThread` and `NoTx` are no thread and no transaction, that `NoActivity` and
`NotCached` are no copies of an activity, and that the job has the
days of each week it has. `DayAssignment` is not inductive: what is committed are
the tables of the transaction. `IndInv` adds that these are right too, and takes
`TransactionIsLocked` for whose they are. The lemmas on the tables
(`WithActivityTables`, `WithStretchedTables`, ...) say what each operator of
`ActivityStore` keeps; the step lemmas put them together, one per action.
`WithStretchedTables` holds for any activity the payload is held against: the day
is right even where `SameLastActivity` is not. `LastEndType`, that a request has a
last end, rests on strict inclusion of finite sets being well-founded.

The same module proves `AggregatesFresh` (`AggregatesStayFresh`), with the job at any
moment of a transaction, after failures and restarts too: an interval that counts as
aggregated has the aggregates of the activities it has, unless the job had it in
hand beside a transaction (`raced`), or it is a week that adds up such a day. Without
the exception it does not hold (`MCAggregationRace.cfg`). It is not inductive, as a
transaction changes rows first and outdates the aggregates when it commits:
`AggregatesAreKept` adds that an interval whose spans differ in the transaction is
among its `resets`, and that what the job has in hand is still so, or in `raced`. The
lemmas behind it say that an added or a stretched row changes the spans of its own
day and week only.

`LastActivityProofs` proves that the cache can be relied on although it is
no part of the transaction and is never refreshed, and what rests on it:
`SameLastActivity`, `CacheShowsDatabase`, `OneConflictPerDevice`, `ConflictIsReported`,
`ActivitiesOnlyGrow`, `NothingIsLost`, and that no payload is rejected
(`NoPayloadIsRejected`). The theorems have three hypotheses. TLC shows that the
invariant needs each of them, though not every one of the properties does:

| Hypothesis | Says | Without it |
|---|---|---|
| `NoFaults` | no transaction fails, the service is not restarted | `MCLastActivityAfterRollback.cfg`, `MCConflictAfterRestart.cfg` |
| `WithinDays` | a payload starts and ends on one day (it may not end at midnight) | `last_activity_at_midnight` |
| `EndsDiffer` | activities of different apps do not end at the same time | `MCLastActivityTie.cfg` |

They are hypotheses on the constants, which `engine_days` satisfies; within them the
payloads may be late, overlap, repeat and come in lists, from any devices and in
any number of threads. `CacheIsRight` is the
invariant. It says of the committed tables and of those of the transaction that
rows end when a payload of their app does (which turns `EndsDiffer`, on requests,
into a fact on rows), have the minimum duration, and that conflicts belong to rows, are
apart, and are there (`Sound`); that the transaction only adds rows and stretches
them (`Grows`); that for each device the cache names the one row that ends last, in
the tables as the next payload will find them (`CacheIsLast`); and that each payload of a request is still to be done or on
record (`RequestIsOnRecord`). The minimum duration matters: a late payload that is
added before the last row, and extended to the minimum, still ends before it
(`AddedShowsLast`).

`ConflictIsReported` promises a conflict message for an activity that starts more
than the conflict interval after all activities of its device registered before it.
Of an activity that is itself late it says nothing: the code reports none then,
however far the activity is from those around it.

`BuddyRelationProofs` proves `TypeOK` and `Consent`, for any users, threads, bounds
and all `Habits`: what the structural invariants need to be absent, consent does
not. The assumption is `BuddyRelationAssumption`. `Consent` is not inductive: a row
becomes accepted by a response that names it by its ID only. `IInv` adds that rows
are of users the owner wants (`RowsAreWanted`), and that messages come from users
who want what they say and name rows, if they are still there, of the right pair
of users and of nobody else (`MessagesAreWanted`); that IDs are never used again (`created`) keeps a
late message from naming a row of somebody else. One lemma per action shows that
`IInv` is preserved; `SetAccepted` and `Answered` have lemmas of their own.

`BuddyAgreementProofs` proves the structural invariants of `buddies`
(`RequestsAreOpen`, `InvitationCanBeAnswered`, `BuddiesAgree`, `DisconnectIsUnderway`,
`PreparationNeverFails`) for any number of users, threads and rows, and any that leave,
with `Habits` empty: an assumption on the users, which no check of the server
enforces. Each habit breaks some of them, see above. What the theorems show is that
the departure of users, and the order in which requests, answers, disconnects and
preparations of two users come, do not. None is inductive alone.
`Agreement` says of each two users what the rows and the boxes of the one may hold,
given those of the other: a pending row is open, answered or disconnected
(`PendingRows`), an open request is of a pending row without any answer
(`OpenRequests`), its receiver has no row that the next preparation does not remove
(`ReceivedRequests`), an accepted row has its counterpart or the acceptance that will
make it (`AcceptedRows`), and a disconnected row has its disconnect, which finds no
other row (`Disconnects`). It adds that IDs are unique, that a user has one request at a
time, and that what `AssertValidBuddy` checked still holds when the invitation is made
in the next transaction (`RequestsAreUpToDate`); the latter needs that no invitation of
the invited user is under way (`NoCrossing`), which follows from the absence of `cross`. A step changes this for one pair or
for all pairs of one user: the `...Effect` lemmas say how, and
`OnePair` and `SamePairsAgree` carry the rest over.

`BuddyRefinementProofs` proves that `BuddyRelation` implements `BuddyPair`, again with
`Habits` empty. With `Agreement` the mapped variables are simple: the pairs of users
with an open request (`Asked`), and the pairs of which one has an accepted row
(`Joined`); `RelationIsPaired` shows that this is what the mapping says. Each action is
then a step of `BuddyPair` or a stutter: accepting is `Accept`, though
only one of both rows is accepted by then; processing the response, the
transfer between the boxes and the removal of disconnected rows change nothing.

`PinResetProofs` proves, for any delay, validity and number of attempts:
`TypeOK` and `TryLimit` whatever happens; `LastTextIsAccepted` if nothing fails, with
stale links and a slow batch service too (`LastTextCounts`); `PendingIsScheduled` if
moreover the batch service is prompt (`PendingCodesComeInTime`); `CodeIsOnTime` if no link is stale either and codes live
as long as the delay (`CodesComeOnTime`). `TryLimit` needs that the attempts of the
code bound the tries of its present value, and that a value which is still to
come has none (`IInv`). `PromptInv` adds that a trigger whose job has run is due, so
a request, which comes only when the batch service has nothing to do, never finds
one. `OnTimeInv` adds that a trigger that is still to run belongs to the code there
is: a device that follows its links can clear or replace a code only after the
job gave it its value.

`NewDeviceRequestsProofs` proves `TypeOK` and `UsableRequestsStay` for any
users and validity. `IInv` says that a user the job found has the request that was
expired then, or one set since.

Only model-checked:

- all liveness (`FreeLockIsTaken`, `LockIsReleased`, `RequestIsAnswered`,
  `BuddyListSettles`, `CodeComes`, `LoneRequestIsDeleted`): liveness under fairness is
  outside of what the prover can do;
- what the runs show beyond the hypotheses of the theorems: `NothingIsLost` for
  payloads that cross midnight (`engine_midnight`), and `ImplementsBuddyPair` with `withdraw` and `repeat` (`buddy_habits`), where rows and messages
  that fit nothing remain, so that `Agreement` does not hold.

## Not modelled

- Goals with their history, and the copies of a user in the shared cache: the
  engine is modelled for one goal that stays as it is. A model of the cache would
  have to follow every caller of `UserAnonymizedService`.
- The algorithms on activities of a day (non-overlapping intervals, spread,
  accomplishment of a goal): in the engine they are abstracted to the spans they
  are computed from.
- Signing up, confirming and changing a mobile number, accounts created on an
  invitation; the codes for these, which come at once and do not expire.
- Devices and VPN status, system messages, the DOS counter: small, and each
  with one hazard at most, which `PROJECT.json` lists.
- Transactions of different users in `BuddyRelation` that are interleaved: read
  committed isolation and the locks each takes would have to be modelled per
  table. What is interleaved is the transactions of requests.
- Encryption, LDAP, SMS, e-mail and push, REST resources, start-up and migration:
  input and output, or sequential. The text message that outlives its
  transaction is in `PinReset`.
