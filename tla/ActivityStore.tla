--------------------------- MODULE ActivityStore ---------------------------
(***************************************************************************)
(* The activity tables of one anonymized user and one goal, and what the   *)
(* analysis engine computes from them.  No state: a database is a value    *)
(* that the operators below read or return changed.                        *)
(*                                                                         *)
(* Times are ticks of the user's clock; day n has the ticks                *)
(* n * DayLength .. (n + 1) * DayLength - 1.                               *)
(***************************************************************************)
EXTENDS Integers, Sequences, FiniteSets

CONSTANTS
  Devices,            \* anonymized devices of the user
  Apps,               \* applications, matching the goal's activity category
  NoApp,              \* the absent application of network activity
  DayLength,          \* ticks in a day
  DaysPerWeek,
  MinDuration,        \* one minute, the least duration of an activity
  ConflictInterval,   \* yona.analysisService.conflictInterval
  UpdateSkipWindow,   \* yona.analysisService.updateSkipWindow
  NoActivity          \* an empty Optional<ActivityDto>

ASSUME ActivityStoreAssumption ==
  /\ NoApp \notin Apps
  /\ DayLength \in Nat \ {0} /\ DaysPerWeek \in Nat \ {0}
  /\ MinDuration \in 1..DayLength
  /\ ConflictInterval \in Nat
  /\ UpdateSkipWindow \in Nat

Never == -1           \* no last monitored activity date yet

-----------------------------------------------------------------------------
(* Days and payloads.                                                      *)

DayOf(time) == time \div DayLength
StartOfDay(time) == DayOf(time) * DayLength
EndOfDay(time) == StartOfDay(time) + DayLength
WeekOf(day) == day \div DaysPerWeek

Payload == [dev : Devices, app : Apps \cup {NoApp}, start : Nat, end : Nat]

\* assertValidTimes, and that network activity is an instant.  All times are
\* in the past.  "assumption: activity never crosses 2 days".
IsValidPayload(p) ==
  /\ p \in Payload
  /\ p.start <= p.end
  /\ p.app = NoApp => p.start = p.end
  /\ DayOf(p.end) <= DayOf(p.start) + 1

\* Mutant: a payload that crosses midnight is not split.
NeverCrossesDay(p) == FALSE

\* isCrossDayActivity: a payload may end at midnight.
IsCrossDay(p) == EndOfDay(p.start) < p.end

TillEndOfDay(p) == [p EXCEPT !.end = EndOfDay(p.start)]
FromStartOfDay(p) == [p EXCEPT !.start = StartOfDay(p.end)]

-----------------------------------------------------------------------------
(* The tables.                                                             *)

\* A row of ACTIVITIES; day is the DayActivity it belongs to.
Activity == [dev : Devices, app : Apps \cup {NoApp},
             day : Nat, start : Nat, end : Nat]

\* A goal conflict message about the activity with index activity, which
\* started at the tick at.
Conflict == [dev : Devices, activity : Nat \ {0}, at : Nat]

Database ==
  [activities : Seq(Activity), days : SUBSET Nat, weeks : SUBSET Nat,
   conflicts : SUBSET Conflict, userDate : Nat \cup {Never},
   deviceDate : [Devices -> Nat \cup {Never}]]

EmptyDatabase ==
  [activities |-> <<>>, days |-> {}, weeks |-> {}, conflicts |-> {},
   userDate |-> Never, deviceDate |-> [dev \in Devices |-> Never]]

\* Interval activities, and those whose aggregates a change of a day outdates.
Interval == [kind : {"day", "week"}, date : Nat]
DayInterval(day) == [kind |-> "day", date |-> day]
WeekInterval(week) == [kind |-> "week", date |-> week]
IntervalsOf(day) == {DayInterval(day), WeekInterval(WeekOf(day))}
DaysOf(interval) ==
  IF interval.kind = "day" THEN {interval.date}
  ELSE interval.date * DaysPerWeek .. interval.date * DaysPerWeek + DaysPerWeek - 1

\* What the aggregates of an interval are computed from: the time spans of its
\* activities.
Span == [start : Nat, end : Nat]
SpansOn(db, day) ==
  {[start |-> db.activities[i].start, end |-> db.activities[i].end] :
     i \in {j \in 1..Len(db.activities) : db.activities[j].day = day}}
SpansIn(db, interval) == UNION {SpansOn(db, day) : day \in DaysOf(interval)}

OnDay(db, dev, day) ==
  {i \in 1..Len(db.activities) :
     db.activities[i].dev = dev /\ db.activities[i].day = day}

\* DayActivity.getLastActivity: the device's activity of that day with the
\* latest end, the first one of those; no element if there is none.
LastActivity(db, dev, day) ==
  LET rows == OnDay(db, dev, day)
  IN {i \in rows : \A j \in rows :
        \/ db.activities[i].end > db.activities[j].end
        \/ db.activities[i].end = db.activities[j].end /\ i <= j}

Dto(activity) ==
  [app |-> activity.app, start |-> activity.start, end |-> activity.end]

\* Mutant: the entity is cached instead of what it shows.
LastRegisteredEntity(db, dev) ==
  LET lastDay == {day \in db.days : \A other \in db.days : other <= day}
      last == UNION {LastActivity(db, dev, day) : day \in lastDay}
  IN IF last = {} THEN NoActivity
     ELSE db.activities[CHOOSE i \in last : TRUE]

\* ActivityCacheService.fetchLastActivityForUser on a cache miss: the device's
\* last activity on the last day the goal has, whatever device that day is of.
LastRegistered(db, dev) ==
  LET lastDay == {day \in db.days : \A other \in db.days : other <= day}
      last == UNION {LastActivity(db, dev, day) : day \in lastDay}
  IN IF last = {} THEN NoActivity
     ELSE Dto(db.activities[CHOOSE i \in last : TRUE])

Overlaps(p, a) ==
  \/ p.start >= a.start /\ p.start <= a.end
  \/ p.end >= a.start /\ p.end <= a.end
  \/ a.start >= p.start /\ a.end <= p.end

\* ActivityRepository.findOverlappingOfSameApp on the day of the payload.
\* "a.app = :app" holds of no row when :app is null.
OverlappingSameApp(db, p) ==
  {i \in OnDay(db, p.dev, DayOf(p.start)) :
     /\ p.app # NoApp
     /\ db.activities[i].app = p.app
     /\ Overlaps(p, db.activities[i])}

-----------------------------------------------------------------------------
(* The decisions of addOrUpdateDayTruncatedActivity; last is the last      *)
(* registered activity.                                                    *)

Precedes(p, last) == last # NoActivity /\ p.end < last.start

IsBeyondCombineInterval(p, last) == p.start > last.end + ConflictInterval

IsOnNewDay(p, last) == StartOfDay(p.start) > last.start

IsInterruptedApp(p, last) == p.app # NoApp /\ p.start > last.end

\* Mutant: an activity of another day is combined too.
CanCombineAcrossDays(p, last) ==
  /\ last # NoActivity
  /\ ~Precedes(p, last)
  /\ ~IsBeyondCombineInterval(p, last)
  /\ p.app = last.app
  /\ ~IsInterruptedApp(p, last)

CanCombine(p, last) ==
  /\ last # NoActivity
  /\ ~Precedes(p, last)
  /\ ~IsBeyondCombineInterval(p, last)
  /\ ~IsOnNewDay(p, last)
  /\ p.app = last.app
  /\ ~IsInterruptedApp(p, last)

\* Mutant: an earlier start alone is not worth an update.
IsBeyondSkipWindow(p, last) == p.end - last.end >= UpdateSkipWindow

IsWorthUpdating(p, last) ==
  p.start < last.start \/ p.end - last.end >= UpdateSkipWindow

\* Mutant: the first conflict ever is not reported.
ConflictAfterIntervalOnly(p, last) ==
  last # NoActivity /\ IsBeyondCombineInterval(p, last)

\* Mutant: every new activity is reported.
ConflictAlways(p, last) == TRUE

IsNewConflict(p, last) ==
  last = NoActivity \/ IsBeyondCombineInterval(p, last)

\* Mutant: the cache follows the payload registered last.
AlwaysUpdatesCache(activity, last) == TRUE

\* shouldUpdateCache
UpdatesCache(activity, last) ==
  last = NoActivity \/ activity.end >= last.end

-----------------------------------------------------------------------------
(* The changes.                                                            *)

\* ensureMinimumDurationOneMinute
NewActivity(p) ==
  [dev |-> p.dev, app |-> p.app, day |-> DayOf(p.start), start |-> p.start,
   end |-> IF p.end - p.start < MinDuration THEN p.start + MinDuration
                                            ELSE p.end]

\* A DayActivity and its WeekActivity are created when they do not exist.
WithDay(db, day) ==
  [db EXCEPT !.days = @ \cup {day}, !.weeks = @ \cup {WeekOf(day)}]

WithActivity(db, p) ==
  [WithDay(db, DayOf(p.start)) EXCEPT
     !.activities = Append(@, NewActivity(p))]

WithConflict(db, p) ==
  [db EXCEPT !.conflicts = @ \cup
     {[dev |-> p.dev, activity |-> Len(db.activities), at |-> p.start]}]

\* The payload moves a bound of the activity it is held against.
Exceeds(p, against) == p.start < against.start \/ p.end > against.end

\* Mutant: the bounds of the payload replace those of the activity.
MovedTo(activity, p, against) == [activity EXCEPT !.start = p.start, !.end = p.end]

\* updateTimeExistingActivity and updateTimeLastActivity: the payload moves
\* the bounds of row i where it exceeds those of the activity it is held
\* against.
Stretched(activity, p, against) ==
  [activity EXCEPT
     !.start = IF p.start < against.start THEN p.start ELSE @,
     !.end = IF p.end > against.end THEN p.end ELSE @]

WithStretched(db, i, p, against) ==
  [db EXCEPT !.activities[i] = Stretched(@, p, against)]

\* updateLastMonitoredActivityDate: of the user and of the device.
WithMonitoredDate(db, dev, date) ==
  [db EXCEPT !.userDate = date, !.deviceDate[dev] = date]
=============================================================================
