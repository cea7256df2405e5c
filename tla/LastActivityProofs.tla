------------------------- MODULE LastActivityProofs -------------------------
(***************************************************************************)
(* Proofs about AnalysisEngine: that the lastActivity cache, which is no   *)
(* part of the transaction and is never refreshed, can be relied on, and   *)
(* what follows from that: payloads are combined with the activity they    *)
(* were compared with, nothing reported is lost or shortened, conflicts    *)
(* are reported, and not twice.                                            *)
(*                                                                         *)
(* It can be relied on as long as                                          *)
(*   - no transaction failed and the service was not restarted,            *)
(*   - payloads start and end on one day, and none ends at midnight,       *)
(*   - activities of different apps do not end at the same time.           *)
(* Each is needed: the README names the runs that show what goes wrong     *)
(* without it.                                                             *)
(***************************************************************************)
EXTENDS AnalysisEngineProofs

\* The payloads of all requests.
AllPayloads ==
  UNION {{payloads[i] : i \in 1..Len(payloads)} : payloads \in Requests}

\* The ends that activities of an app can have.
EndsOf(app) ==
  UNION {{p.end, NewActivity(p).end} : p \in {q \in AllPayloads : q.app = app}}

\* No transaction fails, and the service is not restarted.
NoFaults == MaxFailures = 0 /\ MaxRestarts = 0

\* A payload starts and ends on one day, so none ends at midnight.
WithinDays == \A p \in AllPayloads : DayOf(p.end) = DayOf(p.start)

\* Activities of different apps never end at the same time.
EndsDiffer ==
  \A a, b \in Apps \cup {NoApp} : a # b => EndsOf(a) \cap EndsOf(b) = {}

-----------------------------------------------------------------------------
(* The invariant.                                                          *)

Rows(d) == 1..Len(d.activities)

RowOf(d, dev, i) == i \in Rows(d) /\ d.activities[i].dev = dev

\* The rows of d are still there in e, of the same day, device and app, and not
\* shortened; e may have more.
Grows(d, e) ==
  \A i \in Rows(d) :
    /\ i \in Rows(e)
    /\ e.activities[i].start <= d.activities[i].start
    /\ e.activities[i].end >= d.activities[i].end
    /\ e.activities[i].day = d.activities[i].day
    /\ e.activities[i].dev = d.activities[i].dev
    /\ e.activities[i].app = d.activities[i].app

\* A row ends when a payload of its app does, and has the minimum duration.
RowsAreReported(d) ==
  \A i \in Rows(d) :
    /\ d.activities[i].end \in EndsOf(d.activities[i].app)
    /\ d.activities[i].start + MinDuration <= d.activities[i].end

\* A conflict is of a row of its device, which did not end before it.
ConflictsHaveRows(d) ==
  \A c \in d.conflicts :
    /\ RowOf(d, c.dev, c.activity)
    /\ c.at <= d.activities[c.activity].end

ConflictsAreApart(d) ==
  \A c, e \in d.conflicts :
    c # e /\ c.dev = e.dev /\ c.at <= e.at => e.at > c.at + ConflictInterval

RowIsReported(d, i) ==
  \/ \E c \in d.conflicts : c.activity = i
  \/ \E j \in 1..(i - 1) :
       /\ d.activities[j].dev = d.activities[i].dev
       /\ d.activities[i].start <= d.activities[j].end + ConflictInterval

ConflictsAreReported(d) == IsNoGoGoal => \A i \in Rows(d) : RowIsReported(d, i)

Sound(d) ==
  /\ RowsAreReported(d)
  /\ ConflictsHaveRows(d)
  /\ ConflictsAreApart(d)
  /\ ConflictsAreReported(d)

\* Row i is the one row of the device that ends last.
IsLast(d, dev, i) ==
  /\ RowOf(d, dev, i)
  /\ \A j \in Rows(d) :
       RowOf(d, dev, j) /\ j # i => d.activities[j].end < d.activities[i].end

\* What is cached is that row, or nothing when there is none.
ShowsLast(d, dev, cached) ==
  IF cached \in {NotCached, NoActivity}
  THEN \A i \in Rows(d) : ~RowOf(d, dev, i)
  ELSE \E i \in Rows(d) : IsLast(d, dev, i) /\ Dto(d.activities[i]) = cached

CacheIsLast(d) == \A dev \in Devices : ShowsLast(d, dev, cache[dev])

\* The tables as the next payload will find them.
View == IF tx = NoTx THEN db ELSE tx.db

RowSet(d) == {d.activities[i] : i \in Rows(d)}

\* The payloads of a request are still to be registered, or on record.
RequestIsOnRecord(t) ==
  /\ \A i \in 1..Len(request[t].work) : request[t].work[i] \in AllPayloads
  /\ request[t].pc = "saved" => request[t].work = <<>>
  /\ \A i \in 1..Len(request[t].payloads) :
       \/ \E j \in 1..Len(request[t].work) : request[t].work[j] = request[t].payloads[i]
       \/ lock = t /\ IsOnRecord(request[t].payloads[i], RowSet(tx.db))

CacheIsRight ==
  /\ Sound(db)
  /\ tx # NoTx => Sound(tx.db) /\ Grows(db, tx.db)
  /\ CacheIsLast(View)
  /\ \A t \in Threads : RequestIsOnRecord(t)

-----------------------------------------------------------------------------
(* Payloads and days.                                                      *)

(* A payload is within one day, and ends before the end of it. *)
LEMMA PayloadFacts ==
  ASSUME WithinDays, NEW p \in AllPayloads
  PROVE  /\ p \in Payload
         /\ p.start \in Nat /\ p.end \in Nat /\ p.dev \in Devices
         /\ p.app \in Apps \cup {NoApp}
         /\ p.start <= p.end
         /\ p.app = NoApp => p.start = p.end
         /\ p.end < EndOfDay(p.start)
         /\ StartOfDay(p.start) <= p.start
         /\ ~IsCrossDay(p)
         /\ p.end \in EndsOf(p.app) /\ NewActivity(p).end \in EndsOf(p.app)
<1>1. PICK payloads \in Requests : \E i \in 1..Len(payloads) : p = payloads[i]
  BY DEF AllPayloads
<1>2. IsValidPayload(p)
  BY <1>1, AnalysisEngineAssumption DEF IsRequest
<1>3. /\ p \in Payload /\ p.start \in Nat /\ p.end \in Nat /\ p.dev \in Devices
      /\ p.app \in Apps \cup {NoApp} /\ p.start <= p.end
      /\ p.app = NoApp => p.start = p.end
  BY <1>2 DEF IsValidPayload, Payload
<1>4. EndOfDay(p.start) = EndOfDay(p.end)
  BY SameDaySameEnd DEF WithinDays
<1>5. p.end < EndOfDay(p.start) /\ StartOfDay(p.start) <= p.start /\ EndOfDay(p.start) \in Nat
  BY <1>3, <1>4, DayFacts
<1>6. ~IsCrossDay(p)
  BY <1>3, <1>5 DEF IsCrossDay
<1>7. p.end \in EndsOf(p.app) /\ NewActivity(p).end \in EndsOf(p.app)
  BY DEF EndsOf
<1> QED
  BY <1>3, <1>5, <1>6, <1>7

(* A tick before the start of a day is in a day that has ended by then. *)
LEMMA EarlierDayHasEnded ==
  ASSUME NEW s \in Nat, NEW t \in Nat, s < StartOfDay(t)
  PROVE  EndOfDay(s) <= StartOfDay(t)
<1> DEFINE q == DayOf(s)
           r == DayOf(t)
<1>1. q \in Nat /\ r \in Nat /\ DayLength \in Nat \ {0}
  BY DayFacts, ActivityStoreAssumption
<1>2. q * DayLength <= s
  BY DayFacts DEF StartOfDay
<1>3. q * DayLength < r * DayLength
  BY <1>1, <1>2 DEF StartOfDay
<1> HIDE DEF q, r
<1>4. q < r
  <2>1. q >= r => q * DayLength >= r * DayLength
    BY <1>1
  <2> QED
    BY <1>1, <1>3, <2>1
<1>5. (q + 1) * DayLength <= r * DayLength
  BY <1>1, <1>4
<1>6. (q + 1) * DayLength = q * DayLength + DayLength
  BY <1>1
<1> QED
  BY <1>5, <1>6 DEF EndOfDay, StartOfDay, q, r

(* A tick between the start and the end of a day is in it. *)
LEMMA TickIsInDay ==
  ASSUME NEW s \in Nat, NEW t \in Nat, StartOfDay(t) <= s, s < EndOfDay(t)
  PROVE  DayOf(s) = DayOf(t)
<1>1. DayOf(t) \in Nat /\ StartOfDay(t) \in Nat /\ DayLength \in Nat \ {0}
  BY DayFacts, ActivityStoreAssumption
<1>2. DayOf(t) * DayLength <= s /\ s <= DayOf(t) * DayLength + DayLength - 1
  BY <1>1 DEF EndOfDay, StartOfDay
<1>3. s \div DayLength = DayOf(t)
  <2> DEFINE w == DayOf(t)
  <2> HIDE DEF w
  <2>1. w \in Nat /\ w * DayLength <= s /\ s <= w * DayLength + DayLength - 1
    BY <1>1, <1>2 DEF w
  <2>2. s \div DayLength = w
    BY <1>1, <2>1, QuotientIsUnique
  <2> QED
    BY <2>2 DEF w
<1> QED
  BY <1>3 DEF DayOf

-----------------------------------------------------------------------------
(* Tables that grow.                                                       *)

(* The fields of a row, and that its copy in the cache is one. *)
LEMMA RowTypes ==
  ASSUME NEW d, Tables(d), NEW i \in Rows(d)
  PROVE  /\ d.activities[i] \in Activity
         /\ d.activities[i].start \in Nat /\ d.activities[i].end \in Nat
         /\ d.activities[i].dev \in Devices
         /\ d.activities[i].app \in Apps \cup {NoApp}
         /\ d.activities[i].day = DayOf(d.activities[i].start)
         /\ d.activities[i].end < EndOfDay(d.activities[i].start) + MinDuration
         /\ Dto(d.activities[i]) \notin {NotCached, NoActivity}
         /\ Dto(d.activities[i]).start = d.activities[i].start
         /\ Dto(d.activities[i]).end = d.activities[i].end
         /\ Dto(d.activities[i]).app = d.activities[i].app
<1>1. d.activities[i] \in Activity
  BY RowFacts DEF Rows
<1>2. Dto(d.activities[i]) \in LastDto
  BY <1>1 DEF Dto, LastDto, Activity
<1> QED
  BY <1>1, <1>2, RowFacts, AnalysisEngineAssumption DEF Rows, Dto, Activity

(* Tables with the same rows have grown. *)
LEMMA SameRowsGrow ==
  ASSUME NEW d, Tables(d), NEW e, e.activities = d.activities
  PROVE  Grows(d, e)
  BY RowTypes DEF Grows, Rows

(* Tables that grow twice have grown. *)
LEMMA GrowsTransitive ==
  ASSUME NEW c, Tables(c), NEW d, Tables(d), NEW e, Tables(e), Grows(c, d), Grows(d, e)
  PROVE  Grows(c, e)
<1> SUFFICES ASSUME NEW i \in Rows(c)
             PROVE  /\ i \in Rows(e)
                    /\ e.activities[i].start <= c.activities[i].start
                    /\ e.activities[i].end >= c.activities[i].end
                    /\ e.activities[i].day = c.activities[i].day
                    /\ e.activities[i].dev = c.activities[i].dev
                    /\ e.activities[i].app = c.activities[i].app
  BY DEF Grows
<1>1. /\ i \in Rows(d)
      /\ d.activities[i].start <= c.activities[i].start
      /\ d.activities[i].end >= c.activities[i].end
      /\ d.activities[i].day = c.activities[i].day
      /\ d.activities[i].dev = c.activities[i].dev
      /\ d.activities[i].app = c.activities[i].app
  BY DEF Grows
<1>2. /\ i \in Rows(e)
      /\ e.activities[i].start <= d.activities[i].start
      /\ e.activities[i].end >= d.activities[i].end
      /\ e.activities[i].day = d.activities[i].day
      /\ e.activities[i].dev = d.activities[i].dev
      /\ e.activities[i].app = d.activities[i].app
  BY <1>1 DEF Grows
<1>3. /\ c.activities[i].start \in Nat /\ c.activities[i].end \in Nat
      /\ d.activities[i].start \in Nat /\ d.activities[i].end \in Nat
      /\ e.activities[i].start \in Nat /\ e.activities[i].end \in Nat
  BY <1>1, <1>2, RowTypes
<1> QED
  BY <1>1, <1>2, <1>3

(* What is on record stays on record. *)
LEMMA RecordGrows ==
  ASSUME NEW p \in Payload, NEW d, Tables(d), NEW e, Tables(e), Grows(d, e),
         IsOnRecord(p, RowSet(d))
  PROVE  IsOnRecord(p, RowSet(e))
<1> SUFFICES ASSUME NEW tick \in p.start..p.end
             PROVE  \E a \in RowSet(e) :
                      /\ a.dev = p.dev /\ a.app = p.app
                      /\ a.start <= tick
                      /\ tick <= a.end \/ tick < a.end + UpdateSkipWindow
  BY DEF IsOnRecord
<1>1. PICK i \in Rows(d) :
        /\ d.activities[i].dev = p.dev /\ d.activities[i].app = p.app
        /\ d.activities[i].start <= tick
        /\ tick <= d.activities[i].end \/ tick < d.activities[i].end + UpdateSkipWindow
  BY DEF IsOnRecord, RowSet
<1>2. /\ i \in Rows(e)
      /\ e.activities[i].start <= d.activities[i].start
      /\ e.activities[i].end >= d.activities[i].end
      /\ e.activities[i].dev = p.dev /\ e.activities[i].app = p.app
  BY <1>1 DEF Grows
<1>3. /\ d.activities[i].start \in Nat /\ d.activities[i].end \in Nat
      /\ e.activities[i].start \in Nat /\ e.activities[i].end \in Nat
  BY <1>2, RowTypes
<1>4. tick \in Int /\ UpdateSkipWindow \in Nat
  BY ActivityStoreAssumption DEF Payload
<1>5. /\ e.activities[i].start <= tick
      /\ tick <= e.activities[i].end \/ tick < e.activities[i].end + UpdateSkipWindow
  BY <1>1, <1>2, <1>3, <1>4
<1>6. e.activities[i] \in RowSet(e)
  BY <1>2 DEF RowSet
<1> QED
  BY <1>2, <1>5, <1>6

(* An activity that contains the payload puts it on record. *)
LEMMA ContainedIsOnRecord ==
  ASSUME NEW p \in Payload, NEW d, Tables(d), NEW i \in Rows(d),
         d.activities[i].dev = p.dev, d.activities[i].app = p.app,
         d.activities[i].start <= p.start, p.end <= d.activities[i].end
  PROVE  IsOnRecord(p, RowSet(d))
<1>1. d.activities[i].start \in Nat /\ d.activities[i].end \in Nat
  BY RowTypes
<1>2. \A tick \in p.start..p.end : d.activities[i].start <= tick /\ tick <= d.activities[i].end
  BY <1>1 DEF Payload
<1>3. d.activities[i] \in RowSet(d)
  BY DEF RowSet
<1> QED
  BY <1>2, <1>3 DEF IsOnRecord

-----------------------------------------------------------------------------
(* A row is stretched.                                                     *)

(* Held against itself, or against what the cache shows of it, a row only *)
(* grows.                                                                 *)
LEMMA StretchedRow ==
  ASSUME WithinDays, NEW d, Tables(d), Sound(d), NEW p \in AllPayloads, NEW i \in Rows(d),
         NEW against, against.start = d.activities[i].start,
         against.end = d.activities[i].end, p.app = d.activities[i].app
  PROVE  LET row == d.activities[i]
             a == Stretched(row, p, against)
         IN /\ a.start \in Nat /\ a.end \in Nat
            /\ a.start <= row.start /\ a.start <= p.start
            /\ a.end = IF p.end > row.end THEN p.end ELSE row.end
            /\ a.day = row.day /\ a.dev = row.dev /\ a.app = row.app
            /\ a.end \in EndsOf(a.app)
            /\ a.start + MinDuration <= a.end
<1> DEFINE row == d.activities[i]
           a == Stretched(row, p, against)
<1>1. /\ row \in Activity /\ row.start \in Nat /\ row.end \in Nat
      /\ row.end \in EndsOf(row.app) /\ row.start + MinDuration <= row.end
  BY RowTypes DEF Sound, RowsAreReported
<1>2. p.start \in Nat /\ p.end \in Nat /\ p.end \in EndsOf(p.app) /\ MinDuration \in Nat
  BY PayloadFacts, ActivityStoreAssumption
<1>3. /\ a.start = IF p.start < row.start THEN p.start ELSE row.start
      /\ a.end = IF p.end > row.end THEN p.end ELSE row.end
      /\ a.day = row.day /\ a.dev = row.dev /\ a.app = row.app
  BY <1>1 DEF Stretched, Activity
<1> HIDE DEF a, row
<1>4. p.app = row.app
  BY DEF row
<1>5. a.end \in EndsOf(a.app)
  BY <1>1, <1>2, <1>3, <1>4
<1>6. /\ a.start \in Nat /\ a.end \in Nat
      /\ a.start <= row.start /\ a.start <= p.start
      /\ a.start + MinDuration <= a.end
  BY <1>1, <1>2, <1>3
<1> QED
  BY <1>3, <1>5, <1>6 DEF a, row

(* A row of the same app stretched to a payload: rows, conflicts and reports stay right. *)
LEMMA StretchedIsSound ==
  ASSUME WithinDays, NEW d, Tables(d), Sound(d), NEW p \in AllPayloads, NEW i \in Rows(d),
         NEW against, against.start = d.activities[i].start,
         against.end = d.activities[i].end, p.app = d.activities[i].app
  PROVE  /\ Sound(WithStretched(d, i, p, against))
         /\ Grows(d, WithStretched(d, i, p, against))
<1> DEFINE e == WithStretched(d, i, p, against)
           a == Stretched(d.activities[i], p, against)
<1>1. p \in Payload
  BY PayloadFacts
<1>2. /\ Rows(e) = Rows(d)
      /\ \A j \in Rows(d) : e.activities[j] = IF j = i THEN a ELSE d.activities[j]
      /\ e.conflicts = d.conflicts
  BY <1>1, WithStretchedRows DEF Rows
<1>3. /\ a.start \in Nat /\ a.end \in Nat
      /\ a.start <= d.activities[i].start
      /\ a.end \in {p.end, d.activities[i].end} /\ a.end >= d.activities[i].end
      /\ a.day = d.activities[i].day /\ a.dev = d.activities[i].dev
      /\ a.app = d.activities[i].app
      /\ a.end \in EndsOf(a.app)
      /\ a.start + MinDuration <= a.end
  BY StretchedRow, PayloadFacts, RowTypes
<1> HIDE DEF e, a
<1>4. Grows(d, e)
  BY <1>2, <1>3, RowTypes DEF Grows
<1>5. \A j \in Rows(d) :
        /\ e.activities[j].start \in Nat /\ e.activities[j].end \in Nat
        /\ d.activities[j].start \in Nat /\ d.activities[j].end \in Nat
  BY <1>2, <1>3, RowTypes
<1>6. RowsAreReported(e)
  BY <1>2, <1>3 DEF Sound, RowsAreReported
<1>7. ConflictsHaveRows(e)
  <2> SUFFICES ASSUME NEW c \in d.conflicts
               PROVE  /\ RowOf(e, c.dev, c.activity)
                      /\ c.at <= e.activities[c.activity].end
    BY <1>2 DEF ConflictsHaveRows
  <2>1. RowOf(d, c.dev, c.activity) /\ c.at <= d.activities[c.activity].end
    BY DEF Sound, ConflictsHaveRows
  <2>2. c.at \in Nat
    BY DEF Tables, Database, Conflict
  <2> QED
    BY <1>2, <1>4, <1>5, <2>1, <2>2 DEF RowOf, Grows
<1>8. ConflictsAreApart(e)
  BY <1>2 DEF Sound, ConflictsAreApart
<1>9. ConflictsAreReported(e)
  <2> SUFFICES ASSUME IsNoGoGoal, NEW j \in Rows(d)
               PROVE  RowIsReported(e, j)
    BY <1>2 DEF ConflictsAreReported
  <2>1. RowIsReported(d, j)
    BY DEF Sound, ConflictsAreReported
  <2>2. CASE \E c \in d.conflicts : c.activity = j
    BY <1>2, <2>2 DEF RowIsReported
  <2>3. CASE \E k \in 1..(j - 1) :
               /\ d.activities[k].dev = d.activities[j].dev
               /\ d.activities[j].start <= d.activities[k].end + ConflictInterval
    <3>1. PICK k \in 1..(j - 1) :
               /\ d.activities[k].dev = d.activities[j].dev
               /\ d.activities[j].start <= d.activities[k].end + ConflictInterval
      BY <2>3
    <3>2. k \in Rows(d)
      BY RowFacts DEF Rows
    <3>3. ConflictInterval \in Nat
      BY ActivityStoreAssumption
    <3>4. /\ e.activities[k].dev = e.activities[j].dev
          /\ e.activities[j].start <= e.activities[k].end + ConflictInterval
      BY <1>4, <1>5, <3>1, <3>2, <3>3 DEF Grows
    <3> QED
      BY <3>4 DEF RowIsReported
  <2> QED
    BY <2>1, <2>2, <2>3 DEF RowIsReported
<1> QED
  BY <1>4, <1>6, <1>7, <1>8, <1>9 DEF Sound, e

(* Another device has the rows it had. *)
LEMMA StretchedForOthers ==
  ASSUME NEW d, Tables(d), NEW p \in Payload, NEW dev, NEW i \in Rows(d),
         NEW against, RowOf(d, dev, i), NEW other, other # dev, NEW cached,
         ShowsLast(d, other, cached)
  PROVE  ShowsLast(WithStretched(d, i, p, against), other, cached)
<1> DEFINE e == WithStretched(d, i, p, against)
           a == Stretched(d.activities[i], p, against)
<1>1. /\ Rows(e) = Rows(d)
      /\ \A j \in Rows(d) : e.activities[j] = IF j = i THEN a ELSE d.activities[j]
  BY WithStretchedRows DEF Rows
<1>2. a.dev = dev
  BY RowTypes DEF Stretched, Activity, RowOf
<1> HIDE DEF e, a
<1>3. \A j \in Rows(d) :
        /\ RowOf(e, other, j) <=> RowOf(d, other, j)
        /\ RowOf(d, other, j) => e.activities[j] = d.activities[j]
  BY <1>1, <1>2 DEF RowOf
<1>4. \A j \in Rows(d) : IsLast(d, other, j) => IsLast(e, other, j)
  BY <1>1, <1>3 DEF IsLast
<1>5. CASE cached \in {NotCached, NoActivity}
  BY <1>1, <1>3, <1>5 DEF ShowsLast, e
<1>6. CASE cached \notin {NotCached, NoActivity}
  <2>1. PICK j \in Rows(d) : IsLast(d, other, j) /\ Dto(d.activities[j]) = cached
    BY <1>6 DEF ShowsLast
  <2>2. IsLast(e, other, j) /\ Dto(e.activities[j]) = cached
    BY <1>3, <1>4, <2>1 DEF IsLast
  <2> QED
    BY <1>1, <1>6, <2>2 DEF ShowsLast, e
<1> QED
  BY <1>5, <1>6

(* An earlier row is stretched by a payload before the last one: the last one *)
(* stays it.                                                                  *)
LEMMA LastStaysLast ==
  ASSUME WithinDays, NEW d, Tables(d), Sound(d), NEW p \in AllPayloads,
         NEW i \in Rows(d), d.activities[i].app = p.app, Overlaps(p, d.activities[i]),
         RowOf(d, p.dev, i), NEW cached, ShowsLast(d, p.dev, cached), Precedes(p, cached),
         cached \notin {NotCached, NoActivity}
  PROVE  ShowsLast(WithStretched(d, i, p, d.activities[i]), p.dev, cached)
<1> DEFINE e == WithStretched(d, i, p, d.activities[i])
           a == Stretched(d.activities[i], p, d.activities[i])
<1>1. PICK last \in Rows(d) : IsLast(d, p.dev, last) /\ Dto(d.activities[last]) = cached
  BY DEF ShowsLast
<1>2. /\ p \in Payload /\ p.start \in Nat /\ p.end \in Nat /\ p.start <= p.end
      /\ d.activities[i].start \in Nat /\ d.activities[i].end \in Nat
      /\ d.activities[last].start \in Nat /\ d.activities[last].end \in Nat
      /\ p.end < d.activities[last].start
  BY <1>1, PayloadFacts, RowTypes DEF Precedes
<1>3. /\ d.activities[last].start + MinDuration <= d.activities[last].end
      /\ MinDuration \in Nat
      /\ d.activities[i].start + MinDuration <= d.activities[i].end
  BY ActivityStoreAssumption DEF Sound, RowsAreReported
<1>4. i # last
  BY <1>2, <1>3 DEF Overlaps
<1>5. /\ Rows(e) = Rows(d)
      /\ \A j \in Rows(d) : e.activities[j] = IF j = i THEN a ELSE d.activities[j]
  BY <1>2, WithStretchedRows DEF Rows
<1>6. /\ a.dev = d.activities[i].dev
      /\ a.end = IF p.end > d.activities[i].end THEN p.end ELSE d.activities[i].end
  BY StretchedRow
<1> HIDE DEF e, a
<1>7. \A j \in Rows(d) : RowOf(e, p.dev, j) <=> RowOf(d, p.dev, j)
  BY <1>5, <1>6 DEF RowOf
<1>8. d.activities[i].end < d.activities[last].end
  BY <1>1, <1>4 DEF IsLast
<1>9. a.end < d.activities[last].end
  BY <1>2, <1>3, <1>6, <1>8
<1>10. IsLast(e, p.dev, last)
  BY <1>1, <1>4, <1>5, <1>7, <1>9 DEF IsLast
<1>11. Dto(e.activities[last]) = cached
  BY <1>1, <1>4, <1>5
<1> QED
  BY <1>5, <1>10, <1>11 DEF ShowsLast, e

(* The last row is stretched, and shown as it then is. *)
LEMMA LastIsStretched ==
  ASSUME WithinDays, NEW d, Tables(d), Sound(d), NEW p \in AllPayloads,
         NEW i \in Rows(d), IsLast(d, p.dev, i), d.activities[i].app = p.app,
         NEW against, against.start = d.activities[i].start,
         against.end = d.activities[i].end, Tables(WithStretched(d, i, p, against))
  PROVE  ShowsLast(WithStretched(d, i, p, against), p.dev,
                   Dto(WithStretched(d, i, p, against).activities[i]))
<1> DEFINE e == WithStretched(d, i, p, against)
           a == Stretched(d.activities[i], p, against)
<1>1. p \in Payload /\ p.end \in Nat
  BY PayloadFacts
<1>2. /\ Rows(e) = Rows(d)
      /\ \A j \in Rows(d) : e.activities[j] = IF j = i THEN a ELSE d.activities[j]
  BY <1>1, WithStretchedRows DEF Rows
<1>3. a.dev = d.activities[i].dev /\ a.end >= d.activities[i].end /\ a.end \in Nat
  BY <1>1, StretchedRow, RowTypes
<1>4. Dto(e.activities[i]) \notin {NotCached, NoActivity}
  BY <1>2, RowTypes
<1> HIDE DEF e, a
<1>5. \A j \in Rows(d) : RowOf(e, p.dev, j) <=> RowOf(d, p.dev, j)
  BY <1>2, <1>3 DEF RowOf
<1>6. ASSUME NEW j \in Rows(d), RowOf(d, p.dev, j), j # i
      PROVE  e.activities[j].end < e.activities[i].end
  <2>1. d.activities[j].end < d.activities[i].end
    BY <1>6 DEF IsLast
  <2> QED
    BY <1>2, <1>3, <1>6, <2>1, RowTypes
<1>7. IsLast(e, p.dev, i)
  BY <1>2, <1>5, <1>6 DEF IsLast
<1> QED
  BY <1>2, <1>4, <1>7 DEF ShowsLast, e

-----------------------------------------------------------------------------
(* A row is added.                                                         *)

(* The new row contains the payload and has the minimum duration. *)
LEMMA NewRow ==
  ASSUME WithinDays, NEW p \in AllPayloads
  PROVE  LET a == NewActivity(p)
         IN /\ a \in Activity
            /\ a.start = p.start /\ a.end \in Nat /\ a.end >= p.end
            /\ a.start + MinDuration <= a.end
            /\ a.end <= p.end + MinDuration
            /\ a.dev = p.dev /\ a.app = p.app /\ a.end \in EndsOf(a.app)
            /\ Dto(a) \notin {NotCached, NoActivity}
            /\ Dto(a).end = a.end
<1> DEFINE a == NewActivity(p)
<1>1. /\ p \in Payload /\ ~IsCrossDay(p)
      /\ p.start \in Nat /\ p.end \in Nat /\ p.start <= p.end
      /\ a.end \in EndsOf(p.app)
  BY PayloadFacts
<1>2. a \in Activity /\ Dto(a) \in LastDto
  BY <1>1, NewActivityFacts
<1>3. MinDuration \in Nat
  BY ActivityStoreAssumption
<1>4. /\ a.start = p.start /\ a.dev = p.dev /\ a.app = p.app
      /\ a.end = IF p.end - p.start < MinDuration THEN p.start + MinDuration ELSE p.end
  BY DEF NewActivity
<1>5. Dto(a).end = a.end
  BY DEF Dto
<1>6. Dto(a) \notin {NotCached, NoActivity}
  BY <1>2, AnalysisEngineAssumption
<1> HIDE DEF a
<1>7. a.end \in Nat /\ a.end >= p.end /\ a.start + MinDuration <= a.end /\ a.end <= p.end + MinDuration
  BY <1>1, <1>3, <1>4
<1> QED
  BY <1>1, <1>2, <1>4, <1>5, <1>6, <1>7 DEF a

(* A payload that cannot be combined with the last row makes a row that does not *)
(* end at the same time: whatever it is that keeps them apart.                   *)
LEMMA NewRowEndsApart ==
  ASSUME WithinDays, EndsDiffer, NEW d, Tables(d), Sound(d), NEW p \in AllPayloads,
         NEW last \in Rows(d), ~CanCombine(p, Dto(d.activities[last]))
  PROVE  NewActivity(p).end # d.activities[last].end
<1> DEFINE row == d.activities[last]
           a == NewActivity(p)
           dto == Dto(row)
<1>1. /\ row.start \in Nat /\ row.end \in Nat /\ row.app \in Apps \cup {NoApp}
      /\ row.end < EndOfDay(row.start) + MinDuration
      /\ dto # NoActivity /\ dto.start = row.start /\ dto.end = row.end /\ dto.app = row.app
      /\ row.end \in EndsOf(row.app) /\ row.start + MinDuration <= row.end
  BY RowTypes DEF Sound, RowsAreReported
<1>2. /\ p.start \in Nat /\ p.end \in Nat /\ p.start <= p.end /\ p.app \in Apps \cup {NoApp}
      /\ StartOfDay(p.start) <= p.start
  BY PayloadFacts
<1>3. /\ a.start = p.start /\ a.end \in Nat /\ a.end >= p.end
      /\ a.start + MinDuration <= a.end /\ a.end <= p.end + MinDuration
      /\ a.end \in EndsOf(p.app)
  BY NewRow
<1>4. MinDuration \in Nat /\ ConflictInterval \in Nat
  BY ActivityStoreAssumption
<1> HIDE DEF row, a, dto
<1>5. \/ Precedes(p, dto) \/ IsBeyondCombineInterval(p, dto) \/ IsOnNewDay(p, dto)
      \/ p.app # dto.app \/ IsInterruptedApp(p, dto)
  BY <1>1 DEF CanCombine, dto, row
<1>6. CASE p.app # dto.app
  BY <1>1, <1>2, <1>3, <1>6 DEF EndsDiffer, a, row
<1>7. CASE Precedes(p, dto)
  BY <1>1, <1>2, <1>3, <1>4, <1>7 DEF Precedes, a, row
<1>8. CASE IsBeyondCombineInterval(p, dto) \/ IsInterruptedApp(p, dto)
  BY <1>1, <1>2, <1>3, <1>4, <1>8 DEF IsBeyondCombineInterval, IsInterruptedApp, a, row
<1>9. CASE IsOnNewDay(p, dto)
  <2>1. EndOfDay(row.start) <= StartOfDay(p.start)
    BY <1>1, <1>2, <1>9, EarlierDayHasEnded DEF IsOnNewDay
  <2>2. EndOfDay(row.start) \in Nat /\ StartOfDay(p.start) \in Nat
    BY <1>1, <1>2, DayFacts
  <2>3. row.end < a.end
    BY <1>1, <1>2, <1>3, <1>4, <2>1, <2>2
  <2> QED
    BY <1>1, <1>3, <2>3 DEF a, row
<1> QED
  BY <1>5, <1>6, <1>7, <1>8, <1>9

(* The new row grows the tables, and is one like the others.  It is reported as *)
(* a conflict, or follows a row of the device within the interval.              *)
LEMMA AddedGrows ==
  ASSUME WithinDays, NEW d, Tables(d), NEW p \in AllPayloads, NEW e,
         e.activities = WithActivity(d, p).activities
  PROVE  /\ Grows(d, e)
         /\ Rows(d) \subseteq Rows(e)
         /\ Rows(e) = Rows(d) \cup {Len(d.activities) + 1}
         /\ Len(d.activities) + 1 \notin Rows(d)
         /\ \A j \in Rows(d) : e.activities[j] = d.activities[j]
         /\ e.activities[Len(d.activities) + 1] = NewActivity(p)
<1>1. p \in Payload /\ ~IsCrossDay(p)
  BY PayloadFacts
<1>2. /\ Len(e.activities) = Len(d.activities) + 1
      /\ \A j \in Rows(d) : e.activities[j] = d.activities[j]
      /\ e.activities[Len(d.activities) + 1] = NewActivity(p)
      /\ Len(d.activities) \in Nat
  BY <1>1, WithActivityRows, RowFacts DEF Rows
<1>3. /\ Rows(e) = Rows(d) \cup {Len(d.activities) + 1}
      /\ Len(d.activities) + 1 \notin Rows(d)
  BY <1>2 DEF Rows
<1>4. Grows(d, e)
  BY <1>2, <1>3, RowTypes DEF Grows
<1> QED
  BY <1>2, <1>3, <1>4

(* So they do when a row is added, with a conflict if it is a new one. *)
LEMMA AddedIsSound ==
  ASSUME WithinDays, NEW d, Tables(d), Sound(d), NEW p \in AllPayloads, NEW cached,
         ShowsLast(d, p.dev, cached), cached # NotCached,
         NEW e, e.activities = WithActivity(d, p).activities,
         e.conflicts = IF IsNoGoGoal /\ IsNewConflict(p, cached)
                       THEN d.conflicts \cup {[dev |-> p.dev, activity |-> Len(d.activities) + 1,
                                               at |-> p.start]}
                       ELSE d.conflicts
  PROVE  Sound(e)
<1> DEFINE new == Len(d.activities) + 1
           a == NewActivity(p)
           c == [dev |-> p.dev, activity |-> new, at |-> p.start]
<1>1. /\ Grows(d, e) /\ Rows(e) = Rows(d) \cup {new} /\ new \notin Rows(d)
      /\ \A j \in Rows(d) : e.activities[j] = d.activities[j]
      /\ e.activities[new] = a
  BY AddedGrows
<1>2. /\ a.start = p.start /\ a.end \in Nat /\ a.end >= p.end
      /\ a.start + MinDuration <= a.end
      /\ a.dev = p.dev /\ a.app = p.app /\ a.end \in EndsOf(a.app)
  BY NewRow
<1>3. p.start \in Nat /\ p.end \in Nat /\ p.start <= p.end
  BY PayloadFacts
<1>4. new \in Nat /\ Len(d.activities) \in Nat
  BY RowFacts
<1> HIDE DEF a
<1>5. RowsAreReported(e)
  BY <1>1, <1>2 DEF Sound, RowsAreReported
<1>6. ConflictsHaveRows(e)
  <2>1. ASSUME NEW f \in d.conflicts
        PROVE  RowOf(e, f.dev, f.activity) /\ f.at <= e.activities[f.activity].end
    BY <1>1 DEF Sound, ConflictsHaveRows, RowOf
  <2>2. RowOf(e, c.dev, c.activity) /\ c.at <= e.activities[c.activity].end
    BY <1>1, <1>2, <1>3 DEF RowOf
  <2> QED
    BY <2>1, <2>2 DEF ConflictsHaveRows
<1>7. \A f \in d.conflicts :
        /\ f.at \in Nat
        /\ f.activity \in Rows(d)
        /\ d.activities[f.activity].dev = f.dev
        /\ f.at <= d.activities[f.activity].end
        /\ d.activities[f.activity].end \in Nat
  BY RowTypes DEF Sound, ConflictsHaveRows, RowOf, Tables, Database, Conflict
<1>8. ASSUME IsNewConflict(p, cached), NEW f \in d.conflicts, f.dev = p.dev
      PROVE  p.start > f.at + ConflictInterval
  <2>1. cached \notin {NotCached, NoActivity}
    BY <1>7, <1>8 DEF ShowsLast, RowOf
  <2>2. PICK last \in Rows(d) : IsLast(d, p.dev, last) /\ Dto(d.activities[last]) = cached
    BY <2>1 DEF ShowsLast
  <2>3. p.start > d.activities[last].end + ConflictInterval
    BY <1>8, <2>1, <2>2, RowTypes DEF IsNewConflict, IsBeyondCombineInterval
  <2>4. d.activities[f.activity].end <= d.activities[last].end
    BY <1>7, <1>8, <2>2, RowTypes DEF IsLast, RowOf
  <2>5. d.activities[last].end \in Nat /\ ConflictInterval \in Nat
    BY RowTypes, ActivityStoreAssumption
  <2> QED
    BY <1>3, <1>7, <2>3, <2>4, <2>5
<1>9. ConflictsAreApart(e)
  <2>1. CASE e.conflicts = d.conflicts
    BY <2>1 DEF Sound, ConflictsAreApart
  <2>2. CASE e.conflicts = d.conflicts \cup {c} /\ IsNewConflict(p, cached)
    <3> SUFFICES ASSUME NEW f \in d.conflicts \cup {c}, NEW g \in d.conflicts \cup {c},
                        f # g, f.dev = g.dev, f.at <= g.at
                 PROVE  g.at > f.at + ConflictInterval
      BY <2>2 DEF ConflictsAreApart
    <3>1. CASE f \in d.conflicts /\ g \in d.conflicts
      BY <3>1 DEF Sound, ConflictsAreApart
    <3>2. CASE f \in d.conflicts /\ g = c
      BY <1>8, <2>2, <3>2
    <3>3. CASE f = c /\ g \in d.conflicts
      <4>1. p.start > g.at + ConflictInterval
        BY <1>8, <2>2, <3>3
      <4>2. p.start <= g.at
        BY <3>3
      <4> QED
        BY <1>3, <1>7, <3>3, <4>1, <4>2, ActivityStoreAssumption
    <3> QED
      BY <3>1, <3>2, <3>3
  <2> QED
    BY <2>1, <2>2
<1>10. ConflictsAreReported(e)
  <2> SUFFICES ASSUME IsNoGoGoal, NEW i \in Rows(e)
               PROVE  RowIsReported(e, i)
    BY DEF ConflictsAreReported
  <2>1. CASE i \in Rows(d)
    <3>1. RowIsReported(d, i)
      BY <2>1 DEF Sound, ConflictsAreReported
    <3>2. d.conflicts \subseteq e.conflicts
      OBVIOUS
    <3>3. \A j \in 1..(i - 1) : j \in Rows(d)
      BY <1>4, <2>1 DEF Rows
    <3> QED
      BY <1>1, <2>1, <3>1, <3>2, <3>3 DEF RowIsReported
  <2>2. CASE i = new /\ IsNewConflict(p, cached)
    <3>1. c \in e.conflicts /\ c.activity = i
      BY <2>2
    <3> QED
      BY <3>1 DEF RowIsReported
  <2>3. CASE i = new /\ ~IsNewConflict(p, cached)
    <3>1. /\ cached \notin {NotCached, NoActivity}
          /\ p.start <= cached.end + ConflictInterval \/ ~(p.start > cached.end + ConflictInterval)
      BY <2>3 DEF IsNewConflict, IsBeyondCombineInterval
    <3>2. PICK last \in Rows(d) : IsLast(d, p.dev, last) /\ Dto(d.activities[last]) = cached
      BY <3>1 DEF ShowsLast
    <3>3. d.activities[last].end \in Nat /\ cached.end = d.activities[last].end
      BY <3>2, RowTypes
    <3>4. p.start <= d.activities[last].end + ConflictInterval
      BY <1>3, <3>1, <3>3, ActivityStoreAssumption
    <3>5. last \in 1..(i - 1)
      BY <1>4, <2>3 DEF Rows
    <3>6. d.activities[last].dev = p.dev
      BY <3>2 DEF IsLast, RowOf
    <3> QED
      BY <1>1, <1>2, <2>3, <3>4, <3>5, <3>6 DEF RowIsReported
  <2> QED
    BY <1>1, <2>1, <2>2, <2>3
<1> QED
  BY <1>5, <1>6, <1>9, <1>10 DEF Sound

(* After a row was added, what the cache then shows is still the last row. *)
LEMMA AddedShowsLast ==
  ASSUME WithinDays, EndsDiffer, NEW d, Tables(d), Sound(d), NEW p \in AllPayloads,
         NEW cached, ShowsLast(d, p.dev, cached), cached # NotCached,
         ~CanCombine(p, cached),
         NEW e, e.activities = WithActivity(d, p).activities
  PROVE  ShowsLast(e, p.dev, IF UpdatesCache(NewActivity(p), cached)
                             THEN Dto(NewActivity(p)) ELSE cached)
<1> DEFINE new == Len(d.activities) + 1
           a == NewActivity(p)
<1>1. /\ Rows(e) = Rows(d) \cup {new} /\ new \notin Rows(d)
      /\ \A j \in Rows(d) : e.activities[j] = d.activities[j]
      /\ e.activities[new] = a
  BY AddedGrows
<1>2. /\ a.end \in Nat /\ a.dev = p.dev
      /\ Dto(a) \notin {NotCached, NoActivity}
  BY NewRow
<1>3. CASE cached = NoActivity
  <2>1. UpdatesCache(a, cached)
    BY <1>3 DEF UpdatesCache
  <2>2. \A j \in Rows(d) : ~RowOf(d, p.dev, j)
    BY <1>3 DEF ShowsLast
  <2> HIDE DEF a, new
  <2>3. IsLast(e, p.dev, new)
    BY <1>1, <1>2, <2>2 DEF IsLast, RowOf
  <2>4. ShowsLast(e, p.dev, Dto(a))
    BY <1>1, <1>2, <2>3 DEF ShowsLast
  <2> QED
    BY <2>1, <2>4 DEF a
<1>4. CASE cached # NoActivity
  <2>1. PICK last \in Rows(d) : IsLast(d, p.dev, last) /\ Dto(d.activities[last]) = cached
    BY <1>4 DEF ShowsLast
  <2>2. a.end # d.activities[last].end
    BY <2>1, NewRowEndsApart
  <2>3. /\ d.activities[last].end \in Nat /\ cached.end = d.activities[last].end
        /\ \A j \in Rows(d) : d.activities[j].end \in Nat
    BY <2>1, RowTypes
  <2>4. UpdatesCache(a, cached) <=> a.end > d.activities[last].end
    BY <1>2, <1>4, <2>2, <2>3 DEF UpdatesCache
  <2> HIDE DEF a, new
  <2>5. CASE a.end > d.activities[last].end
    <3>1. IsLast(e, p.dev, new)
      BY <1>1, <1>2, <2>1, <2>3, <2>5 DEF IsLast, RowOf
    <3>2. ShowsLast(e, p.dev, Dto(a))
      BY <1>1, <1>2, <3>1 DEF ShowsLast
    <3> QED
      BY <2>4, <2>5, <3>2 DEF a
  <2>6. CASE ~(a.end > d.activities[last].end)
    <3>1. a.end < d.activities[last].end
      BY <1>2, <2>2, <2>3, <2>6
    <3>2. IsLast(e, p.dev, last)
      BY <1>1, <1>2, <2>1, <3>1 DEF IsLast, RowOf
    <3>3. ShowsLast(e, p.dev, cached)
      BY <1>1, <1>4, <2>1, <3>2 DEF ShowsLast
    <3> QED
      BY <2>4, <2>6, <3>3 DEF a
  <2> QED
    BY <2>5, <2>6
<1> QED
  BY <1>3, <1>4

(* Another device has the rows it had. *)
LEMMA AddedForOthers ==
  ASSUME WithinDays, NEW d, Tables(d), NEW p \in AllPayloads,
         NEW e, e.activities = WithActivity(d, p).activities,
         NEW other, other # p.dev, NEW cached, ShowsLast(d, other, cached)
  PROVE  ShowsLast(e, other, cached)
<1> DEFINE new == Len(d.activities) + 1
<1>1. /\ Rows(e) = Rows(d) \cup {new} /\ new \notin Rows(d)
      /\ \A j \in Rows(d) : e.activities[j] = d.activities[j]
      /\ e.activities[new].dev = p.dev
  BY AddedGrows, NewRow
<1> HIDE DEF new
<1>2. /\ ~RowOf(e, other, new)
      /\ \A j \in Rows(d) : RowOf(e, other, j) <=> RowOf(d, other, j)
  BY <1>1 DEF RowOf
<1>3. \A j \in Rows(d) : IsLast(d, other, j) => IsLast(e, other, j)
  BY <1>1, <1>2 DEF IsLast
<1> QED
  BY <1>1, <1>2, <1>3 DEF ShowsLast

-----------------------------------------------------------------------------
(* The front payload of the thread that holds the lock.                    *)

(* It is one of the payloads of the requests, and the others follow it. *)
LEMMA FrontIsPayload ==
  ASSUME IndInv, NEW t \in Threads, IsRegistering(t), RequestIsOnRecord(t)
  PROVE  /\ Front(t) \in AllPayloads
         /\ Len(request[t].work) \in Nat \ {0}
         /\ Len(Tail(request[t].work)) = Len(request[t].work) - 1
         /\ \A j \in 1..Len(Tail(request[t].work)) :
              Tail(request[t].work)[j] = request[t].work[j + 1]
<1> DEFINE work == request[t].work
<1>1. work \in Seq(Payload) /\ work # <<>>
  BY DEF IndInv, TypeOK, Request, IsRegistering
<1> HIDE DEF work
<1>2. Len(work) \in Nat \ {0}
  BY <1>1, EmptySeq
<1>3. /\ Head(work) = work[1]
      /\ Len(Tail(work)) = Len(work) - 1
      /\ \A j \in 1..Len(Tail(work)) : Tail(work)[j] = work[j + 1]
  BY <1>1, <1>2, HeadTailProperties
<1>4. Head(work) \in AllPayloads
  BY <1>2, <1>3 DEF RequestIsOnRecord, work
<1> QED
  BY <1>2, <1>3, <1>4 DEF Front, work

(* The row the cache shows, for a thread that is to decide. *)
LEMMA LastRow ==
  ASSUME WithinDays, IndInv, CacheIsRight, NEW t \in Threads, IsDeciding(t)
  PROVE  /\ IsRegistering(t)
         /\ tx # NoTx /\ lock = t
         /\ Tables(tx.db) /\ Sound(tx.db) /\ Grows(db, tx.db)
         /\ Front(t) \in AllPayloads
         /\ LastOf(t) # NotCached
         /\ \A dev \in Devices : ShowsLast(tx.db, dev, cache[dev])
         /\ ShowsLast(tx.db, Front(t).dev, LastOf(t))
<1>1. IsRegistering(t) /\ request[t].pc = "inTx" /\ LastOf(t) # NotCached
  BY DEF IsDeciding, IsRegistering, LastOf
<1>2. tx # NoTx /\ lock = t /\ Tables(tx.db)
  BY <1>1, HolderFacts
<1>3. Front(t) \in AllPayloads
  BY <1>1, FrontIsPayload DEF CacheIsRight
<1>4. \A dev \in Devices : ShowsLast(tx.db, dev, cache[dev])
  BY <1>2 DEF CacheIsRight, CacheIsLast, View
<1>5. Front(t).dev \in Devices
  BY <1>3, PayloadFacts
<1> QED
  BY <1>1, <1>2, <1>3, <1>4, <1>5 DEF CacheIsRight, LastOf

(* The row a payload may be combined with is the last of its day: the payload *)
(* does not end before it starts, and ends before midnight.                   *)
LEMMA CombinesWithLast ==
  ASSUME WithinDays, IndInv, CacheIsRight, NEW t \in Threads, IsDeciding(t),
         CanCombine(Front(t), LastOf(t))
  PROVE  \E i \in Rows(tx.db) :
           /\ IsLast(tx.db, Front(t).dev, i)
           /\ Dto(tx.db.activities[i]) = LastOf(t)
           /\ LastActivity(tx.db, Front(t).dev, DayOf(Front(t).start)) = {i}
           /\ tx.db.activities[i].app = Front(t).app
           /\ LastOf(t).start = tx.db.activities[i].start
           /\ LastOf(t).end = tx.db.activities[i].end
<1> DEFINE p == Front(t)
           last == LastOf(t)
           d == tx.db
<1>1. /\ Tables(d) /\ p \in AllPayloads
      /\ ShowsLast(d, p.dev, last) /\ last \notin {NotCached, NoActivity}
  BY LastRow DEF CanCombine
<1> HIDE DEF p, last, d
<1>2. PICK i \in Rows(d) : IsLast(d, p.dev, i) /\ Dto(d.activities[i]) = last
  BY <1>1 DEF ShowsLast
<1> DEFINE row == d.activities[i]
<1>3. /\ row.start \in Nat /\ row.end \in Nat /\ row.day = DayOf(row.start)
      /\ last.start = row.start /\ last.end = row.end /\ last.app = row.app
  BY <1>1, <1>2, RowTypes
<1>4. /\ p.start \in Nat /\ p.end \in Nat /\ p.end < EndOfDay(p.start)
  BY <1>1, PayloadFacts
<1>5. /\ StartOfDay(p.start) <= row.start /\ row.start <= p.end /\ p.app = row.app
  <2>1. /\ ~(p.end < row.start) /\ ~(StartOfDay(p.start) > row.start) /\ p.app = row.app
    BY <1>1, <1>3 DEF CanCombine, Precedes, IsOnNewDay, p, last
  <2>2. StartOfDay(p.start) \in Nat
    BY <1>4, DayFacts
  <2> QED
    BY <1>3, <1>4, <2>1, <2>2
<1>6. row.day = DayOf(p.start)
  <2>1. EndOfDay(p.start) \in Nat
    BY <1>4, DayFacts
  <2>2. row.start < EndOfDay(p.start)
    BY <1>3, <1>4, <1>5, <2>1
  <2> QED
    BY <1>3, <1>4, <1>5, <2>2, TickIsInDay
<1>7. /\ i \in OnDay(d, p.dev, DayOf(p.start))
      /\ \A j \in OnDay(d, p.dev, DayOf(p.start)) : j \in Rows(d) /\ RowOf(d, p.dev, j)
  BY <1>2, <1>6 DEF IsLast, RowOf, OnDay, Rows
<1>8. \A j \in OnDay(d, p.dev, DayOf(p.start)) :
        j # i => d.activities[j].end < row.end /\ d.activities[j].end \in Nat
  BY <1>1, <1>2, <1>7, RowTypes DEF IsLast
<1>9. i \in Nat
  BY <1>1, <1>2, RowFacts DEF Rows
<1>10. LastActivity(d, p.dev, DayOf(p.start)) = {i}
  <2> DEFINE onDay == OnDay(d, p.dev, DayOf(p.start))
  <2> HIDE DEF onDay
  <2>1. LastActivity(d, p.dev, DayOf(p.start))
          = {k \in onDay : \A j \in onDay :
               \/ d.activities[k].end > d.activities[j].end
               \/ d.activities[k].end = d.activities[j].end /\ k <= j}
    BY DEF LastActivity, onDay
  <2>2. /\ i \in onDay
        /\ \A j \in onDay : j # i => d.activities[j].end < row.end /\ d.activities[j].end \in Nat
    BY <1>7, <1>8 DEF onDay
  <2>3. i \in LastActivity(d, p.dev, DayOf(p.start))
    BY <1>3, <1>9, <2>1, <2>2
  <2>4. \A k \in onDay : k # i => k \notin LastActivity(d, p.dev, DayOf(p.start))
    BY <1>3, <2>1, <2>2
  <2> QED
    BY <2>1, <2>3, <2>4
<1> QED
  BY <1>2, <1>3, <1>5, <1>10 DEF p, last, d

-----------------------------------------------------------------------------
(* Requests on record.                                                     *)

(* A thread without the lock has all of its request to do still, and a step of *)
(* another one does not change that.                                           *)
LEMMA WaitingOnRecord ==
  ASSUME NEW u \in Threads, RequestIsOnRecord(u), lock # u,
         request'[u].work = request[u].work,
         request'[u].payloads = request[u].payloads,
         request'[u].pc = "saved" => request'[u].work = <<>>
  PROVE  RequestIsOnRecord(u)'
  BY DEF RequestIsOnRecord

(* An idle thread has nothing to register. *)
LEMMA IdleOnRecord ==
  ASSUME NEW u, request'[u] = Idle
  PROVE  RequestIsOnRecord(u)'
<1>1. Len(Idle.work) = 0 /\ Len(Idle.payloads) = 0 /\ Idle.pc = "idle"
  BY EmptySeq DEF Idle
<1> QED
  BY <1>1 DEF RequestIsOnRecord

(* The tables, the transaction and the cache stay. *)
LEMMA OtherStep ==
  ASSUME CacheIsRight, UNCHANGED <<db, tx, cache>>,
         \A u \in Threads : RequestIsOnRecord(u)'
  PROVE  CacheIsRight'
<1>1. View' = View
  BY DEF View
<1>2. CacheIsLast(View)'
  BY <1>1 DEF CacheIsRight, CacheIsLast
<1> QED
  BY <1>2 DEF CacheIsRight

(* So do the requests. *)
LEMMA SameRequests ==
  ASSUME CacheIsRight, UNCHANGED <<db, tx, cache, request, lock>>
  PROVE  CacheIsRight'
<1>1. \A u \in Threads : RequestIsOnRecord(u)'
  BY DEF CacheIsRight, RequestIsOnRecord
<1> QED
  BY <1>1, OtherStep

(* The holder of the lock is done with the front payload, which is on record in *)
(* the tables it leaves.                                                        *)
LEMMA FrontIsDone ==
  ASSUME WithinDays, IndInv, CacheIsRight, NEW t \in Threads, IsRegistering(t),
         NEW r, r.pc = "inTx", r.work = Tail(request[t].work),
         r.payloads = request[t].payloads,
         request' = [request EXCEPT ![t] = r], lock' = lock,
         NEW e, Tables(e), Grows(tx.db, e), tx'.db = e,
         IsOnRecord(Front(t), RowSet(e))
  PROVE  \A u \in Threads : RequestIsOnRecord(u)'
<1>1. /\ lock = t /\ Tables(tx.db)
      /\ request \in [Threads -> Request]
  BY HolderFacts DEF IsRegistering, IndInv, TypeOK
<1>2. ASSUME NEW u \in Threads, u # t
      PROVE  RequestIsOnRecord(u)'
  <2>1. RequestIsOnRecord(u) /\ request'[u] = request[u] /\ lock # u
    BY <1>1, <1>2 DEF CacheIsRight
  <2> QED
    BY <2>1, WaitingOnRecord DEF RequestIsOnRecord
<1>3. RequestIsOnRecord(t)'
  <2> DEFINE work == request[t].work
             tail == Tail(work)
             payloads == request[t].payloads
  <2>1. RequestIsOnRecord(t)
    BY DEF CacheIsRight
  <2>2. /\ Len(work) \in Nat \ {0} /\ Len(tail) = Len(work) - 1
        /\ \A j \in 1..Len(tail) : tail[j] = work[j + 1]
        /\ Front(t) = work[1]
    <3>1. Front(t) = work[1]
      BY DEF Front
    <3> QED
      BY <2>1, <3>1, FrontIsPayload
  <2>3. /\ request'[t].pc = "inTx" /\ request'[t].work = tail /\ request'[t].payloads = payloads
    BY <1>1
  <2>4. \A i \in 1..Len(payloads) : payloads[i] \in Payload
    <3>1. payloads \in Seq(Payload)
      BY <1>1 DEF Request
    <3> QED
      BY <3>1, ElementOfSeq
  <2> HIDE DEF tail
  <2>5. \A j \in 1..Len(tail) : j + 1 \in 1..Len(work)
    BY <2>2
  <2>6. \A j \in 1..Len(tail) : tail[j] \in AllPayloads
    BY <2>1, <2>2, <2>5 DEF RequestIsOnRecord
  <2>7. ASSUME NEW i \in 1..Len(payloads)
        PROVE  \/ \E j \in 1..Len(tail) : tail[j] = payloads[i]
               \/ IsOnRecord(payloads[i], RowSet(e))
    <3>1. CASE IsOnRecord(payloads[i], RowSet(tx.db))
      BY <1>1, <2>4, <3>1, RecordGrows
    <3>2. ASSUME NEW j \in 1..Len(work), work[j] = payloads[i], j = 1
          PROVE  IsOnRecord(payloads[i], RowSet(e))
      BY <2>2, <3>2
    <3>3. ASSUME NEW j \in 1..Len(work), work[j] = payloads[i], j # 1
          PROVE  \E k \in 1..Len(tail) : tail[k] = payloads[i]
      <4>1. j - 1 \in 1..Len(tail) /\ j = (j - 1) + 1
        BY <2>2, <3>3
      <4>2. tail[j - 1] = work[j]
        BY <2>2, <4>1
      <4> QED
        BY <3>3, <4>1, <4>2
    <3> QED
      BY <2>1, <3>1, <3>2, <3>3 DEF RequestIsOnRecord
  <2> HIDE DEF payloads
  <2> QED
    BY <1>1, <2>3, <2>6, <2>7 DEF RequestIsOnRecord
<1> QED
  BY <1>2, <1>3

-----------------------------------------------------------------------------
(* Steps of a transaction.                                                 *)

(* The front payload is registered. *)
LEMMA RegistersIsRight ==
  ASSUME WithinDays, IndInv, IndInv', CacheIsRight, NEW t \in Threads, IsRegistering(t),
         NEW changed, NEW hasReset, Registers(t, changed, hasReset),
         Tables(changed), Sound(changed), Grows(tx.db, changed),
         IsOnRecord(Front(t), RowSet(changed)),
         \A dev \in Devices : ShowsLast(changed, dev, cache'[dev])
  PROVE  CacheIsRight'
<1> DEFINE r == [request[t] EXCEPT !.work = Tail(request[t].work), !.fetched = TRUE]
<1>1. /\ lock = t /\ tx # NoTx /\ Tables(tx.db) /\ request[t].pc = "inTx"
      /\ request \in [Threads -> Request]
  BY HolderFacts DEF IsRegistering, IndInv, TypeOK
<1>2. /\ r.pc = "inTx" /\ r.work = Tail(request[t].work)
      /\ r.payloads = request[t].payloads
  BY <1>1 DEF Request
<1>3. request' = [request EXCEPT ![t] = r] /\ lock' = lock /\ db' = db /\ tx'.db = changed
  BY <1>1 DEF Registers, Request
<1> HIDE DEF r
<1>4. \A u \in Threads : RequestIsOnRecord(u)'
  BY <1>2, <1>3, FrontIsDone
<1>5. tx' # NoTx
  BY <1>1, <1>3, AnalysisEngineAssumption DEF IndInv, TransactionIsLocked
<1>6. Tables(db)
  BY DEF IndInv, TypeOK, DayAssignment, Tables
<1>7. Grows(db, changed)
  BY <1>1, <1>6, GrowsTransitive DEF CacheIsRight
<1>8. View' = changed
  BY <1>3, <1>5 DEF View
<1>9. CacheIsLast(View)'
  BY <1>8 DEF CacheIsLast
<1> QED
  BY <1>3, <1>4, <1>7, <1>9 DEF CacheIsRight

(* A late payload stretches a row it overlaps; the one that is cached stays the last. *)
LEMMA ExtendExistingIsRight ==
  ASSUME WithinDays, IndInv, IndInv', CacheIsRight, NEW t \in Threads, ExtendExisting(t)
  PROVE  CacheIsRight'
<1> DEFINE p == Front(t)
           d == tx.db
<1>1. IsDeciding(t) /\ Precedes(p, LastOf(t)) /\ cache' = cache
  BY DEF ExtendExisting, ExtendsExisting
<1>2. /\ IsRegistering(t) /\ Tables(d) /\ Sound(d) /\ p \in AllPayloads
      /\ \A dev \in Devices : ShowsLast(d, dev, cache[dev])
      /\ ShowsLast(d, p.dev, LastOf(t))
      /\ LastOf(t) \notin {NotCached, NoActivity}
  BY <1>1, LastRow DEF Precedes
<1>3. PICK i \in OverlappingSameApp(d, p) :
        Registers(t, WithStretched(d, i, p, d.activities[i]), Exceeds(p, d.activities[i]))
  BY DEF ExtendExisting
<1> DEFINE e == WithStretched(d, i, p, d.activities[i])
<1> HIDE DEF p, d
<1>4. /\ i \in Rows(d) /\ RowOf(d, p.dev, i) /\ d.activities[i].app = p.app
      /\ Overlaps(p, d.activities[i])
      /\ i \in OnDay(d, p.dev, DayOf(p.start))
  BY DEF OverlappingSameApp, OnDay, RowOf, Rows
<1>5. /\ p \in Payload /\ ~IsCrossDay(p) /\ p.dev \in Devices
      /\ p.start \in Nat /\ p.end \in Nat
  BY <1>2, PayloadFacts
<1>6. Tables(e)
  BY <1>2, <1>4, <1>5, WithStretchedTables
<1>7. Sound(e) /\ Grows(d, e)
  BY <1>2, <1>4, StretchedIsSound
<1>8. ASSUME NEW dev \in Devices
      PROVE  ShowsLast(e, dev, cache'[dev])
  <2>1. CASE dev # p.dev
    BY <1>1, <1>2, <1>4, <1>5, <2>1, StretchedForOthers
  <2>2. CASE dev = p.dev
    <3>1. ShowsLast(e, p.dev, LastOf(t))
      BY <1>1, <1>2, <1>4, LastStaysLast
    <3> QED
      BY <1>1, <2>2, <3>1 DEF LastOf, p
  <2> QED
    BY <2>1, <2>2
<1>9. IsOnRecord(p, RowSet(e))
  <2> DEFINE a == Stretched(d.activities[i], p, d.activities[i])
  <2>1. /\ a.start <= p.start /\ a.end >= p.end /\ a.dev = p.dev /\ a.app = p.app
    BY <1>2, <1>4, <1>5, StretchedRow, RowTypes DEF RowOf
  <2>2. e.activities[i] = a /\ i \in Rows(e)
    BY <1>2, <1>4, <1>5, WithStretchedRows DEF Rows
  <2> HIDE DEF a, e
  <2>3. e.activities[i].end \in Nat
    BY <1>6, <2>2, RowTypes
  <2> QED
    BY <1>5, <1>6, <2>1, <2>2, <2>3, ContainedIsOnRecord
<1> HIDE DEF e
<1>10. Registers(t, e, Exceeds(p, d.activities[i]))
  BY <1>3 DEF e
<1> QED
  BY <1>2, <1>6, <1>7, <1>8, <1>9, <1>10, RegistersIsRight DEF p, d

(* The row that is stretched is the one that is cached, and it stays the last one. *)
LEMMA ExtendLastIsRight ==
  ASSUME WithinDays, IndInv, IndInv', CacheIsRight, NEW t \in Threads, ExtendLast(t)
  PROVE  CacheIsRight'
<1> DEFINE p == Front(t)
           d == tx.db
           last == LastOf(t)
<1>1. IsDeciding(t) /\ CanCombine(p, last)
  BY DEF ExtendLast, ExtendsLast
<1>2. /\ IsRegistering(t) /\ Tables(d) /\ Sound(d) /\ p \in AllPayloads
      /\ \A dev \in Devices : ShowsLast(d, dev, cache[dev])
  BY <1>1, LastRow
<1>3. PICK i \in LastActivity(d, p.dev, DayOf(p.start)) :
        LET changed == WithStretched(d, i, p, last)
        IN /\ Registers(t, changed, Exceeds(p, last))
           /\ cache' = [cache EXCEPT ![p.dev] = Dto(changed.activities[i])]
  BY DEF ExtendLast
<1>4. /\ i \in Rows(d) /\ IsLast(d, p.dev, i) /\ d.activities[i].app = p.app
      /\ last.start = d.activities[i].start /\ last.end = d.activities[i].end
  BY <1>1, <1>3, CombinesWithLast
<1> DEFINE e == WithStretched(d, i, p, last)
<1>5. /\ Registers(t, e, Exceeds(p, last))
      /\ cache' = [cache EXCEPT ![p.dev] = Dto(e.activities[i])]
  BY <1>3
<1>6. /\ p \in Payload /\ ~IsCrossDay(p) /\ p.dev \in Devices
      /\ p.start \in Nat /\ p.end \in Nat
  BY <1>2, PayloadFacts
<1>7. i \in OnDay(d, p.dev, DayOf(p.start))
  BY LookupsAreOnDay
<1> HIDE DEF p, d, last
<1>8. Tables(e)
  BY <1>2, <1>6, <1>7, WithStretchedTables
<1>9. Sound(e) /\ Grows(d, e)
  BY <1>2, <1>4, StretchedIsSound
<1>10. RowOf(d, p.dev, i)
  BY <1>4 DEF IsLast
<1>11. ShowsLast(e, p.dev, Dto(e.activities[i]))
  BY <1>2, <1>4, <1>8, LastIsStretched
<1>12. \A dev \in Devices : dev # p.dev => ShowsLast(e, dev, cache[dev])
  BY <1>2, <1>4, <1>6, <1>10, StretchedForOthers
<1>13. IsOnRecord(p, RowSet(e))
  <2> DEFINE a == Stretched(d.activities[i], p, last)
  <2>1. /\ a.start <= p.start /\ a.end >= p.end /\ a.dev = p.dev /\ a.app = p.app
    BY <1>2, <1>4, <1>6, <1>10, StretchedRow, RowTypes DEF RowOf
  <2>2. e.activities[i] = a /\ i \in Rows(e)
    BY <1>2, <1>4, <1>6, WithStretchedRows DEF Rows
  <2> HIDE DEF a, e
  <2>3. e.activities[i].end \in Nat
    BY <1>8, <2>2, RowTypes
  <2> QED
    BY <1>6, <1>8, <2>1, <2>2, <2>3, ContainedIsOnRecord
<1> HIDE DEF e
<1>14. ASSUME NEW dev \in Devices
       PROVE  ShowsLast(e, dev, cache'[dev])
  <2>1. cache'[dev] = IF dev = p.dev THEN Dto(e.activities[i]) ELSE cache[dev]
    BY <1>5 DEF IndInv, TypeOK
  <2> QED
    BY <1>11, <1>12, <2>1
<1> QED
  BY <1>2, <1>5, <1>8, <1>9, <1>13, <1>14, RegistersIsRight DEF p, d, last

(* A new row is cached exactly if it becomes the last one of its device. *)
LEMMA AddIsRight ==
  ASSUME WithinDays, EndsDiffer, IndInv, IndInv', CacheIsRight, NEW t \in Threads, Add(t)
  PROVE  CacheIsRight'
<1> DEFINE p == Front(t)
           d == tx.db
           last == LastOf(t)
           added == WithActivity(d, p)
           e == IF IsNoGoGoal /\ IsNewConflict(p, last) THEN WithConflict(added, p) ELSE added
<1>1. /\ IsDeciding(t) /\ ~CanCombine(p, last)
      /\ Registers(t, e, TRUE)
      /\ cache' = IF UpdatesCache(NewActivity(p), last)
                  THEN [cache EXCEPT ![p.dev] = Dto(NewActivity(p))] ELSE cache
  BY DEF Add
<1>2. /\ IsRegistering(t) /\ Tables(d) /\ Sound(d) /\ p \in AllPayloads /\ last # NotCached
      /\ \A dev \in Devices : ShowsLast(d, dev, cache[dev])
      /\ ShowsLast(d, p.dev, last)
  BY <1>1, LastRow
<1>3. last = cache[p.dev]
  BY DEF LastOf
<1> HIDE DEF p, d, last
<1>4. p \in Payload /\ ~IsCrossDay(p) /\ p.dev \in Devices
  BY <1>2, PayloadFacts
<1>5. Tables(added) /\ Len(added.activities) # 0
  BY <1>2, <1>4, WithActivityTables
<1>6. /\ Len(added.activities) = Len(d.activities) + 1
      /\ added.conflicts = d.conflicts
  BY <1>2, <1>4, WithActivityRows
<1> HIDE DEF added
<1>7. Tables(e)
  BY <1>4, <1>5, WithConflictTables
<1>8. /\ e.activities = added.activities
      /\ e.conflicts = IF IsNoGoGoal /\ IsNewConflict(p, last)
                       THEN d.conflicts \cup {[dev |-> p.dev, activity |-> Len(d.activities) + 1,
                                               at |-> p.start]}
                       ELSE d.conflicts
  <2>1. added \in Database
    BY <1>5 DEF Tables
  <2> QED
    BY <1>6, <2>1 DEF WithConflict, Database
<1> HIDE DEF e
<1>9. e.activities = WithActivity(d, p).activities
  BY <1>8 DEF added
<1>10. Sound(e)
  BY <1>2, <1>8, <1>9, AddedIsSound
<1>11. /\ Grows(d, e)
       /\ Len(d.activities) + 1 \in Rows(e)
       /\ e.activities[Len(d.activities) + 1] = NewActivity(p)
  BY <1>2, <1>9, AddedGrows
<1>12. IsOnRecord(p, RowSet(e))
  <2>1. /\ NewActivity(p).dev = p.dev /\ NewActivity(p).app = p.app
        /\ NewActivity(p).start <= p.start /\ p.end <= NewActivity(p).end
    BY <1>2, NewRow, PayloadFacts
  <2> QED
    BY <1>4, <1>7, <1>11, <2>1, ContainedIsOnRecord
<1>13. ASSUME NEW dev \in Devices
       PROVE  ShowsLast(e, dev, cache'[dev])
  <2>1. CASE dev # p.dev
    <3>1. cache'[dev] = cache[dev]
      BY <1>1, <2>1 DEF IndInv, TypeOK
    <3> QED
      BY <1>2, <1>9, <2>1, <3>1, AddedForOthers
  <2>2. CASE dev = p.dev
    <3>1. cache'[p.dev] = IF UpdatesCache(NewActivity(p), last)
                          THEN Dto(NewActivity(p)) ELSE last
      BY <1>1, <1>3, <1>4 DEF IndInv, TypeOK
    <3>2. ShowsLast(e, p.dev, IF UpdatesCache(NewActivity(p), last)
                              THEN Dto(NewActivity(p)) ELSE last)
      BY <1>1, <1>2, <1>9, AddedShowsLast
    <3> QED
      BY <2>2, <3>1, <3>2
  <2> QED
    BY <2>1, <2>2
<1> QED
  BY <1>1, <1>2, <1>7, <1>10, <1>11, <1>12, <1>13, RegistersIsRight DEF p, d

(* A payload is skipped that starts in the last activity and does not go on the *)
(* skip window after it.                                                        *)
LEMMA SkipIsRight ==
  ASSUME WithinDays, IndInv, CacheIsRight, NEW t \in Threads, Skip(t)
  PROVE  CacheIsRight'
<1> DEFINE p == Front(t)
           d == tx.db
           last == LastOf(t)
           r == [request[t] EXCEPT !.work = Tail(request[t].work)]
<1>1. /\ IsDeciding(t) /\ CanCombine(p, last) /\ ~IsWorthUpdating(p, last)
      /\ request' = [request EXCEPT ![t].work = Tail(@)]
      /\ UNCHANGED <<db, tx, lock, cache>>
  BY DEF Skip
<1>2. IsRegistering(t) /\ Tables(d) /\ p \in AllPayloads
  BY <1>1, LastRow
<1>3. PICK i \in Rows(d) :
        /\ IsLast(d, p.dev, i) /\ d.activities[i].app = p.app
        /\ last.start = d.activities[i].start /\ last.end = d.activities[i].end
  BY <1>1, CombinesWithLast
<1>4. IsOnRecord(p, RowSet(d))
  <2> HIDE DEF p, d, last
  <2> SUFFICES ASSUME NEW tick \in p.start..p.end
               PROVE  \E a \in RowSet(d) :
                        /\ a.dev = p.dev /\ a.app = p.app
                        /\ a.start <= tick
                        /\ tick <= a.end \/ tick < a.end + UpdateSkipWindow
    BY DEF IsOnRecord
  <2>1. /\ d.activities[i].start \in Nat /\ d.activities[i].end \in Nat
        /\ p.start \in Nat /\ p.end \in Nat /\ UpdateSkipWindow \in Nat
    BY <1>2, RowTypes, PayloadFacts, ActivityStoreAssumption
  <2>2. /\ ~(p.start < d.activities[i].start)
        /\ ~(p.end - d.activities[i].end >= UpdateSkipWindow)
    BY <1>1, <1>3 DEF IsWorthUpdating, p, last
  <2>3. d.activities[i].start <= tick /\ tick < d.activities[i].end + UpdateSkipWindow
    BY <2>1, <2>2
  <2>4. d.activities[i] \in RowSet(d) /\ d.activities[i].dev = p.dev
    BY <1>3 DEF RowSet, IsLast, RowOf
  <2> QED
    BY <1>3, <2>3, <2>4
<1>5. request[t] \in Request /\ request[t].pc = "inTx" /\ request \in [Threads -> Request]
  BY <1>2 DEF IsRegistering, IndInv, TypeOK
<1>6. /\ r.pc = "inTx" /\ r.work = Tail(request[t].work)
      /\ r.payloads = request[t].payloads
  BY <1>5 DEF Request
<1>7. request' = [request EXCEPT ![t] = r]
  BY <1>1, <1>5 DEF Request
<1> HIDE DEF r
<1>8. Grows(d, d)
  BY <1>2, SameRowsGrow
<1>9. \A u \in Threads : RequestIsOnRecord(u)'
  BY <1>1, <1>2, <1>4, <1>6, <1>7, <1>8, FrontIsDone
<1> QED
  BY <1>1, <1>9, OtherStep

(* On a cache miss there is nothing to find. *)
LEMMA FetchLastIsRight ==
  ASSUME WithinDays, IndInv, CacheIsRight, NEW t \in Threads, FetchLast(t)
  PROVE  CacheIsRight'
<1> DEFINE dev == Front(t).dev
           d == tx.db
<1>1. /\ IsRegistering(t) /\ cache[dev] = NotCached
      /\ cache' = [cache EXCEPT ![dev] = LastRegistered(d, dev)]
      /\ UNCHANGED <<db, tx, request, lock>>
  BY DEF FetchLast
<1>2. tx # NoTx
  BY <1>1, HolderFacts DEF IsRegistering
<1>3. dev \in Devices
  BY <1>1, FrontIsPayload, PayloadFacts DEF CacheIsRight
<1>4. CacheIsLast(d)
  BY <1>2 DEF CacheIsRight, View
<1> HIDE DEF dev
<1>5. \A i \in Rows(d) : ~RowOf(d, dev, i)
  BY <1>1, <1>3, <1>4 DEF CacheIsLast, ShowsLast
<1>6. \A day : LastActivity(d, dev, day) = {}
  BY <1>5 DEF LastActivity, OnDay, RowOf, Rows
<1>7. LastRegistered(d, dev) = NoActivity
  <2> DEFINE lastDay == {day \in d.days : \A other \in d.days : other <= day}
  <2>1. UNION {LastActivity(d, dev, day) : day \in lastDay} = {}
    BY <1>6
  <2> QED
    BY <2>1 DEF LastRegistered
<1>8. \A other \in Devices :
        cache'[other] = IF other = dev THEN NoActivity ELSE cache[other]
  BY <1>1, <1>7 DEF IndInv, TypeOK
<1>9. \A other \in Devices : ShowsLast(d, other, cache'[other])
  BY <1>4, <1>5, <1>8 DEF CacheIsLast, ShowsLast
<1>10. View' = d
  BY <1>1, <1>2 DEF View
<1>11. CacheIsLast(View)'
  BY <1>9, <1>10 DEF CacheIsLast
<1>12. \A u \in Threads : RequestIsOnRecord(u)'
  BY <1>1 DEF CacheIsRight, RequestIsOnRecord
<1> QED
  BY <1>1, <1>11, <1>12 DEF CacheIsRight

-----------------------------------------------------------------------------
(* Transactions start and end.                                             *)

(* A transaction starts with the rows and conflicts there are. *)
LEMMA StartIsRight ==
  ASSUME IndInv, IndInv', CacheIsRight, NEW t \in Threads, NEW d, Tables(d),
         d.activities = db.activities, d.conflicts = db.conflicts,
         NEW resets, NEW hasFetched, StartsTransaction(t, d, resets, hasFetched)
  PROVE  CacheIsRight'
<1>1. /\ lock = NoThread /\ lock' = t /\ tx'.db = d /\ UNCHANGED <<db, cache>>
      /\ request' = [request EXCEPT ![t].pc = "inTx", ![t].fetched = hasFetched]
  BY DEF StartsTransaction
<1>2. /\ tx = NoTx /\ tx' # NoTx
  BY <1>1, AnalysisEngineAssumption DEF IndInv, TransactionIsLocked
<1>3. Sound(d)
  BY DEF CacheIsRight, Sound, RowsAreReported, ConflictsHaveRows, ConflictsAreApart,
         ConflictsAreReported, RowIsReported, RowOf, Rows
<1>4. Grows(db, d)
  <2>1. Tables(db)
    BY DEF IndInv, TypeOK, DayAssignment, Tables
  <2> QED
    BY <2>1, SameRowsGrow
<1>5. \A dev \in Devices : ShowsLast(d, dev, cache[dev])
  BY <1>2 DEF CacheIsRight, CacheIsLast, View, ShowsLast, IsLast, RowOf, Rows
<1>6. View' = d
  BY <1>1, <1>2 DEF View
<1>7. CacheIsLast(View)'
  BY <1>1, <1>5, <1>6 DEF CacheIsLast
<1>8. ASSUME NEW u \in Threads
      PROVE  RequestIsOnRecord(u)'
  <2>1. request \in [Threads -> Request]
    BY DEF IndInv, TypeOK
  <2>2. /\ request'[u].work = request[u].work
        /\ request'[u].payloads = request[u].payloads
        /\ request'[u].pc = IF u = t THEN "inTx" ELSE request[u].pc
    BY <1>1, <2>1 DEF Request
  <2>3. RequestIsOnRecord(u) /\ lock # u
    BY <1>1, AnalysisEngineAssumption DEF CacheIsRight
  <2> QED
    BY <2>2, <2>3, WaitingOnRecord DEF RequestIsOnRecord
<1> QED
  BY <1>1, <1>3, <1>4, <1>7, <1>8 DEF CacheIsRight

(* The transaction starts with the committed rows. *)
LEMMA BeginIsRight ==
  ASSUME IndInv, IndInv', CacheIsRight, NEW t \in Threads, Begin(t)
  PROVE  CacheIsRight'
<1> DEFINE r == request[t]
           date == DayOf(LastEnd(r.payloads))
           d == IF HasNewMonitoredDate(r)
                THEN WithMonitoredDate(db, r.payloads[1].dev, date) ELSE db
<1>1. r.payloads \in Seq(Payload) /\ r.payloads # <<>>
  BY DEF IndInv, TypeOK, Request, Begin
<1>2. date \in Nat
  BY <1>1, LastEndType, DayFacts
<1>3. Tables(db)
  BY DEF IndInv, TypeOK, DayAssignment, Tables
<1>4. Tables(d)
  BY <1>2, <1>3, WithMonitoredDateTables
<1>5. d.activities = db.activities /\ d.conflicts = db.conflicts
  BY <1>3 DEF Tables, Database, WithMonitoredDate
<1>6. StartsTransaction(t, d, {}, HasNewMonitoredDate(r))
  BY DEF Begin
<1> HIDE DEF d, r
<1> QED
  BY <1>4, <1>5, <1>6, StartIsRight

(* Days and weeks without activity leave the rows as they are. *)
LEMMA BeginInactivityIsRight ==
  ASSUME IndInv, IndInv', CacheIsRight, NEW t \in Threads, BeginInactivity(t)
  PROVE  CacheIsRight'
<1> DEFINE inactive == request[t].inactive
           days == {i.date : i \in {j \in inactive : j.kind = "day"}}
           weeks == {i.date : i \in {j \in inactive : j.kind = "week"}}
                      \cup {WeekOf(day) : day \in days}
           d == [db EXCEPT !.days = @ \cup days, !.weeks = @ \cup weeks]
           resets == AggregatedAmong({WeekInterval(WeekOf(day)) : day \in days \ db.days})
<1>1. StartsTransaction(t, d, resets, FALSE)
  BY DEF BeginInactivity
<1> HIDE DEF days, weeks, resets
<1>2. d.activities = db.activities /\ d.conflicts = db.conflicts
  BY DEF IndInv, TypeOK, Database
<1> HIDE DEF d
<1>3. Tables(d)
  <2>1. lock' = t /\ tx' = [db |-> d, resets |-> resets]
    BY <1>1 DEF StartsTransaction
  <2>2. tx' # NoTx
    BY <2>1, AnalysisEngineAssumption DEF IndInv, TransactionIsLocked
  <2>3. tx'.db \in Database /\ DayAssignmentIn(tx'.db)
    BY <2>2 DEF IndInv, TypeOK
  <2> QED
    BY <2>1, <2>3 DEF Tables
<1> QED
  BY <1>1, <1>2, <1>3, StartIsRight

(* Saving leaves the rows and the lastActivity cache as they are. *)
LEMMA SaveIsRight ==
  ASSUME IndInv, CacheIsRight, NEW t \in Threads, Save(t)
  PROVE  CacheIsRight'
<1>1. /\ request[t].work = <<>> /\ request' = [request EXCEPT ![t].pc = "saved"]
      /\ UNCHANGED <<db, tx, cache, lock>>
  BY DEF Save
<1>2. ASSUME NEW u \in Threads
      PROVE  RequestIsOnRecord(u)'
  <2>1. request \in [Threads -> Request]
    BY DEF IndInv, TypeOK
  <2>2. /\ request'[u].work = request[u].work
        /\ request'[u].payloads = request[u].payloads
        /\ request'[u].pc = IF u = t THEN "saved" ELSE request[u].pc
    BY <1>1, <2>1 DEF Request
  <2>3. RequestIsOnRecord(u)
    BY DEF CacheIsRight
  <2> QED
    BY <1>1, <2>2, <2>3 DEF RequestIsOnRecord
<1> QED
  BY <1>1, <1>2, OtherStep

(* What is committed is what the next payload will find. *)
LEMMA CommitIsRight ==
  ASSUME IndInv, IndInv', CacheIsRight, NEW t \in Threads, Commit(t)
  PROVE  CacheIsRight'
<1>1. lock = t /\ tx # NoTx
  BY HolderFacts DEF Commit
<1>2. /\ db' = tx.db /\ tx' = NoTx /\ cache' = cache
      /\ request' = [request EXCEPT ![t] = Idle]
  BY DEF Commit, EndsTransaction
<1>3. View = tx.db /\ View' = tx.db
  BY <1>1, <1>2 DEF View
<1>4. CacheIsLast(View)'
  BY <1>2, <1>3 DEF CacheIsRight, CacheIsLast
<1>5. ASSUME NEW u \in Threads
      PROVE  RequestIsOnRecord(u)'
  <2>1. request \in [Threads -> Request]
    BY DEF IndInv, TypeOK
  <2>2. CASE u = t
    BY <1>2, <2>1, <2>2, IdleOnRecord
  <2>3. CASE u # t
    <3>1. RequestIsOnRecord(u) /\ request'[u] = request[u] /\ lock # u
      BY <1>1, <1>2, <2>3 DEF CacheIsRight
    <3> QED
      BY <3>1, WaitingOnRecord DEF RequestIsOnRecord
  <2> QED
    BY <2>2, <2>3
<1> QED
  BY <1>1, <1>2, <1>4, <1>5 DEF CacheIsRight

-----------------------------------------------------------------------------
(* Every step.                                                             *)

(* A request that arrives leaves the tables, the cache and the other requests. *)
LEMMA ArrivalIsRight ==
  ASSUME IndInv, CacheIsRight, NEW t \in Threads,
         \/ \E payloads \in Requests : Receive(t, payloads)
         \/ \E intervals \in InactivityRequests : ReceiveInactivity(t, intervals)
  PROVE  CacheIsRight'
<1>1. MayReceive(t)
  BY Zenon DEF Receive, ReceiveInactivity
<1>2. UNCHANGED <<db, tx, cache, lock>> /\ request \in [Threads -> Request]
  BY <1>1 DEF MayReceive, IndInv, TypeOK
<1>3. ASSUME NEW u \in Threads, u # t, request'[u] = request[u]
      PROVE  RequestIsOnRecord(u)'
  BY <1>2, <1>3 DEF CacheIsRight, RequestIsOnRecord
<1>4. ASSUME NEW payloads \in Requests, Receive(t, payloads)
      PROVE  CacheIsRight'
  <2> DEFINE r == [Idle EXCEPT !.pc = "received", !.dtoDate = userDto,
                               !.payloads = payloads, !.work = payloads]
  <2>1. request' = [request EXCEPT ![t] = r]
    BY <1>4 DEF Receive
  <2>2. r.pc = "received" /\ r.payloads = payloads /\ r.work = payloads
    BY DEF Idle
  <2> HIDE DEF r
  <2>3. \A i \in 1..Len(payloads) : payloads[i] \in AllPayloads
    BY DEF AllPayloads
  <2>4. RequestIsOnRecord(t)'
    <3>1. request'[t] = r
      BY <1>2, <2>1
    <3> QED
      BY <2>2, <2>3, <3>1 DEF RequestIsOnRecord
  <2>5. \A u \in Threads : u # t => request'[u] = request[u]
    BY <1>2, <2>1
  <2> QED
    BY <1>2, <1>3, <2>4, <2>5, OtherStep
<1>5. ASSUME NEW intervals \in InactivityRequests, ReceiveInactivity(t, intervals)
      PROVE  CacheIsRight'
  <2> DEFINE r == [Idle EXCEPT !.pc = "received", !.inactive = intervals]
  <2>1. request' = [request EXCEPT ![t] = r]
    BY <1>5 DEF ReceiveInactivity
  <2>2. r.pc = "received" /\ r.payloads = <<>> /\ r.work = <<>>
    BY DEF Idle
  <2> HIDE DEF r
  <2>3. RequestIsOnRecord(t)'
    <3>1. request'[t] = r /\ Len(<<>>) = 0
      BY <1>2, <2>1, EmptySeq
    <3> QED
      BY <2>2, <3>1 DEF RequestIsOnRecord
  <2>4. \A u \in Threads : u # t => request'[u] = request[u]
    BY <1>2, <2>1
  <2> QED
    BY <1>2, <1>3, <2>3, <2>4, OtherStep
<1> QED
  BY <1>4, <1>5

(* No payload is split, none is rejected, and nothing fails. *)
LEMMA Excluded ==
  ASSUME NoFaults, WithinDays, IndInv, CacheIsRight, NEW t \in Threads
  PROVE  ~SplitCrossDay(t) /\ ~RejectCombination(t) /\ ~TransactionFails(t) /\ ~Restart
<1>1. ~SplitCrossDay(t)
  <2> SUFFICES ASSUME SplitCrossDay(t) PROVE FALSE
    OBVIOUS
  <2>1. IsRegistering(t) /\ IsCrossDay(Front(t))
    BY DEF SplitCrossDay
  <2>2. Front(t) \in AllPayloads
    BY <2>1, FrontIsPayload DEF CacheIsRight
  <2> QED
    BY <2>1, <2>2, PayloadFacts
<1>2. ~RejectCombination(t)
  <2> SUFFICES ASSUME RejectCombination(t) PROVE FALSE
    OBVIOUS
  <2>1. /\ IsDeciding(t) /\ CanCombine(Front(t), LastOf(t))
        /\ LastActivity(tx.db, Front(t).dev, DayOf(Front(t).start)) = {}
    BY DEF RejectCombination, ExtendsLast
  <2> QED
    BY <2>1, CombinesWithLast
<1>3. ~TransactionFails(t) /\ ~Restart
  BY DEF TransactionFails, Restart, NoFaults, IndInv, TypeOK
<1> QED
  BY <1>1, <1>2, <1>3

(* Every step keeps the cache right. *)
LEMMA NextIsRight ==
  ASSUME NoFaults, WithinDays, EndsDiffer, IndInv, IndInv', CacheIsRight, [Next]_vars
  PROVE  CacheIsRight'
<1>1. ASSUME NEW t \in Threads,
             \/ \E payloads \in Requests : Receive(t, payloads)
             \/ \E intervals \in InactivityRequests : ReceiveInactivity(t, intervals)
      PROVE  CacheIsRight'
  BY <1>1, ArrivalIsRight
<1>2. ASSUME NEW t \in Threads, Begin(t) \/ BeginInactivity(t) \/ Save(t) \/ Commit(t)
      PROVE  CacheIsRight'
  BY <1>2, BeginIsRight, BeginInactivityIsRight, SaveIsRight, CommitIsRight
<1>3. ASSUME NEW t \in Threads, FetchLast(t) \/ Skip(t)
      PROVE  CacheIsRight'
  BY <1>3, FetchLastIsRight, SkipIsRight
<1>4. ASSUME NEW t \in Threads, ExtendExisting(t) \/ ExtendLast(t) \/ Add(t)
      PROVE  CacheIsRight'
  BY <1>4, ExtendExistingIsRight, ExtendLastIsRight, AddIsRight
<1>5. ASSUME NEW t \in Threads, SplitCrossDay(t) \/ RejectCombination(t) \/ TransactionFails(t)
      PROVE  CacheIsRight'
  BY <1>5, Excluded
<1>6. ~Restart
  BY DEF Restart, NoFaults, IndInv, TypeOK
<1>7. CASE BatchWrite \/ \E interval \in PastIntervals : BatchRead(interval)
  BY <1>7, SameRequests DEF BatchWrite, BatchRead
<1>8. CASE UNCHANGED vars
  BY <1>8, SameRequests DEF vars
<1> QED
  BY <1>1, <1>2, <1>3, <1>4, <1>5, <1>6, <1>7, <1>8 DEF Next, Works

(* Initially there are no rows, and nothing is cached. *)
LEMMA InitIsRight == Init => CacheIsRight
<1> SUFFICES ASSUME Init PROVE CacheIsRight
  OBVIOUS
<1>1. /\ tx = NoTx /\ db.conflicts = {} /\ db.activities = <<>>
      /\ \A dev \in Devices : cache[dev] = NotCached
  BY DEF Init, EmptyDatabase
<1>2. Rows(db) = {}
  <2>1. Len(<<>>) = 0
    BY EmptySeq
  <2> QED
    BY <1>1, <2>1 DEF Rows
<1>3. Sound(db)
  BY <1>1, <1>2 DEF Sound, RowsAreReported, ConflictsHaveRows, ConflictsAreApart,
                    ConflictsAreReported
<1>4. CacheIsLast(View)
  BY <1>1, <1>2 DEF View, CacheIsLast, ShowsLast
<1>5. \A t \in Threads : RequestIsOnRecord(t)
  <2>1. Len(<<>>) = 0
    BY EmptySeq
  <2> QED
    BY <2>1 DEF Init, Idle, RequestIsOnRecord
<1> QED
  BY <1>1, <1>3, <1>4, <1>5 DEF CacheIsRight

-----------------------------------------------------------------------------
(* The theorems.                                                           *)

(* The cache always shows the row of the device that ends last, of the open    *)
(* transaction or else of the database, or nothing when the device has no row. *)
THEOREM CacheIsAlwaysRight ==
  ASSUME NoFaults, WithinDays, EndsDiffer
  PROVE  Spec => []CacheIsRight
<1>1. IndInv /\ IndInv' /\ CacheIsRight /\ [Next]_vars => CacheIsRight'
  BY NextIsRight
<1> QED
  BY <1>1, InitIsRight, Invariance, PTL DEF Spec

(* "because of the lock further up in this class, we are sure that            *)
(* getLastActivity() gives the same activity": so we are, for requests of any *)
(* number of threads, devices and apps.                                       *)
THEOREM LastActivityIsTheSame ==
  ASSUME NoFaults, WithinDays, EndsDiffer
  PROVE  Spec => []SameLastActivity
<1>1. IndInv /\ CacheIsRight => SameLastActivity
  <2> SUFFICES ASSUME IndInv, CacheIsRight, NEW t \in Threads, IsDeciding(t), ExtendsLast(t)
               PROVE  \E i \in LastActivity(tx.db, Front(t).dev, DayOf(Front(t).start)) :
                        Dto(tx.db.activities[i]) = LastOf(t)
    BY DEF SameLastActivity
  <2>1. CanCombine(Front(t), LastOf(t))
    BY DEF ExtendsLast
  <2> QED
    BY <2>1, CombinesWithLast
<1> QED
  BY <1>1, CacheIsAlwaysRight, Invariance, PTL

(* lastActivityNotFoundOnDayActivity is not reported: the row to update exists. *)
THEOREM NoPayloadIsRejected ==
  ASSUME NoFaults, WithinDays, EndsDiffer
  PROVE  Spec => [][\A t \in Threads : ~RejectCombination(t)]_vars
<1>1. IndInv /\ CacheIsRight => \A t \in Threads : ~RejectCombination(t)
  BY Excluded
<1> QED
  BY <1>1, CacheIsAlwaysRight, Invariance, PTL DEF Spec

(* Between transactions the cache shows a committed row, which no other row of *)
(* the device ends after.                                                      *)
THEOREM CacheFollowsDatabase ==
  ASSUME NoFaults, WithinDays, EndsDiffer
  PROVE  Spec => []CacheShowsDatabase
<1>1. IndInv /\ CacheIsRight => CacheShowsDatabase
  <2> SUFFICES ASSUME IndInv, CacheIsRight, lock = NoThread, NEW dev \in Devices,
                      cache[dev] \notin {NotCached, NoActivity}
               PROVE  LET rows == {i \in 1..Len(db.activities) : db.activities[i].dev = dev}
                      IN /\ \E i \in rows : Dto(db.activities[i]) = cache[dev]
                         /\ \A i \in rows : db.activities[i].end <= cache[dev].end
    BY DEF CacheShowsDatabase
  <2>1. View = db
    BY DEF IndInv, TransactionIsLocked, View
  <2>2. PICK last \in Rows(db) : IsLast(db, dev, last) /\ Dto(db.activities[last]) = cache[dev]
    BY <2>1 DEF CacheIsRight, CacheIsLast, ShowsLast
  <2>3. Tables(db)
    BY DEF IndInv, TypeOK, DayAssignment, Tables
  <2>4. /\ \A j \in Rows(db) : db.activities[j].end \in Nat
        /\ cache[dev].end = db.activities[last].end
    BY <2>2, <2>3, RowTypes
  <2> QED
    BY <2>2, <2>4 DEF IsLast, RowOf, Rows
<1> QED
  BY <1>1, CacheIsAlwaysRight, Invariance, PTL

(* The conflicts reported of a device are further apart than the conflict *)
(* interval.                                                              *)
THEOREM ConflictsStayApart ==
  ASSUME NoFaults, WithinDays, EndsDiffer
  PROVE  Spec => []OneConflictPerDevice
<1>1. CacheIsRight => OneConflictPerDevice
  BY DEF CacheIsRight, Sound, ConflictsAreApart, OneConflictPerDevice
<1> QED
  BY <1>1, CacheIsAlwaysRight, PTL

(* An activity on a no-go goal has a conflict message if it starts more than   *)
(* the conflict interval after the ends of all rows of its device that were    *)
(* added before it.  Nothing is said of the others, those reported late among  *)
(* them.                                                                       *)
THEOREM NoConflictIsMissed ==
  ASSUME NoFaults, WithinDays, EndsDiffer
  PROVE  Spec => []ConflictIsReported
<1>1. IndInv /\ CacheIsRight => ConflictIsReported
  <2> SUFFICES ASSUME IndInv, CacheIsRight, IsNoGoGoal, NEW i \in Rows(db),
                      \A j \in 1..(i - 1) :
                        db.activities[j].dev = db.activities[i].dev =>
                          db.activities[i].start > db.activities[j].end + ConflictInterval
               PROVE  \E c \in db.conflicts : c.activity = i
    BY DEF ConflictIsReported, Rows
  <2>1. Tables(db)
    BY DEF IndInv, TypeOK, DayAssignment, Tables
  <2>2. \A j \in Rows(db) : db.activities[j].start \in Nat /\ db.activities[j].end \in Nat
    BY <2>1, RowTypes
  <2>3. \A j \in 1..(i - 1) : j \in Rows(db)
    BY <2>1, RowFacts DEF Rows
  <2>4. ~\E j \in 1..(i - 1) :
          /\ db.activities[j].dev = db.activities[i].dev
          /\ db.activities[i].start <= db.activities[j].end + ConflictInterval
    BY <2>2, <2>3, ActivityStoreAssumption
  <2>5. RowIsReported(db, i)
    BY DEF CacheIsRight, Sound, ConflictsAreReported
  <2> QED
    BY <2>4, <2>5 DEF RowIsReported
<1> QED
  BY <1>1, CacheIsAlwaysRight, Invariance, PTL

(* A committed activity is never shortened, moved to another day or removed. *)
THEOREM ActivitiesNeverShrink ==
  ASSUME NoFaults, WithinDays, EndsDiffer
  PROVE  Spec => ActivitiesOnlyGrow
<1> DEFINE Grown ==
      \A i \in 1..Len(db.activities) :
        /\ i <= Len(db'.activities)
        /\ db'.activities[i].start <= db.activities[i].start
        /\ db'.activities[i].end >= db.activities[i].end
        /\ db'.activities[i].day = db.activities[i].day
<1>1. IndInv /\ CacheIsRight /\ [Next]_vars => Grown
  <2> SUFFICES ASSUME IndInv, CacheIsRight, [Next]_vars PROVE Grown
    OBVIOUS
  <2>1. Tables(db) /\ (tx # NoTx => Tables(tx.db))
    BY DEF IndInv, TypeOK, DayAssignment, Tables
  <2>2. ASSUME NEW t \in Threads, Commit(t)
        PROVE  db' = tx.db /\ tx # NoTx
    BY <2>2, HolderFacts DEF Commit
  <2>3. db' = db \/ (db' = tx.db /\ tx # NoTx)
    BY <2>2, ZenonT(60)
       DEF Next, Works, Receive, ReceiveInactivity, MayReceive, Begin, BeginInactivity,
           StartsTransaction, SplitCrossDay, FetchLast, ExtendExisting, Registers, Skip,
           ExtendLast, RejectCombination, Rollback, Add, Save, TransactionFails, Restart,
           BatchRead, BatchWrite, vars
  <2>4. Grows(db, db')
    BY <2>1, <2>3, SameRowsGrow DEF CacheIsRight
  <2>5. Len(db'.activities) \in Nat
    BY <2>1, <2>3, RowFacts
  <2> QED
    BY <2>4, <2>5 DEF Grows, Rows
<1>2. [](IndInv /\ CacheIsRight) /\ [][Next]_vars => [][Grown]_vars
  BY <1>1, PTL
<1>3. ActivitiesOnlyGrow <=> [][Grown]_vars
  BY DEF ActivitiesOnlyGrow
<1> QED
  BY <1>2, <1>3, CacheIsAlwaysRight, Invariance, PTL DEF Spec

(* What a committed request reported is on record: every tick of every payload  *)
(* is in an activity of its device and app, or in the skip window after one.    *)
THEOREM NothingReportedIsLost ==
  ASSUME NoFaults, WithinDays, EndsDiffer
  PROVE  Spec => NothingIsLost
<1> DEFINE Recorded ==
      \A t \in Threads : Commit(t) =>
        \A i \in 1..Len(request[t].payloads) :
          IsOnRecord(request[t].payloads[i],
                     {db'.activities[j] : j \in 1..Len(db'.activities)})
<1>1. IndInv /\ CacheIsRight => Recorded
  <2> SUFFICES ASSUME CacheIsRight, NEW t \in Threads, Commit(t),
                      NEW i \in 1..Len(request[t].payloads)
               PROVE  IsOnRecord(request[t].payloads[i], RowSet(tx.db))
    BY DEF Commit, RowSet, Rows
  <2>1. request[t].work = <<>> /\ Len(<<>>) = 0
    BY EmptySeq DEF CacheIsRight, RequestIsOnRecord, Commit
  <2> QED
    BY <2>1 DEF CacheIsRight, RequestIsOnRecord
<1>2. [](IndInv /\ CacheIsRight) /\ [][Next]_vars => [][Recorded]_vars
  BY <1>1, PTL
<1>3. NothingIsLost <=> [][Recorded]_vars
  BY DEF NothingIsLost
<1> QED
  BY <1>2, <1>3, CacheIsAlwaysRight, Invariance, PTL DEF Spec

=============================================================================
