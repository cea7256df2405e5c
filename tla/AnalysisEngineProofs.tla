------------------------ MODULE AnalysisEngineProofs ------------------------
(***************************************************************************)
(* Proofs about AnalysisEngine, for any devices, apps, threads, requests   *)
(* and lengths of days and weeks: the types, that a transaction is open    *)
(* exactly while the user's lock is held, that activities are on the right *)
(* day, and that computed aggregates are those of the activities there     *)
(* are, but for what the aggregation job had in hand beside a transaction. *)
(***************************************************************************)
EXTENDS AnalysisEngine, FiniteSetTheorems, SequenceTheorems, TLAPS

-----------------------------------------------------------------------------
(* Days.                                                                   *)

(* Division of natural numbers, which the clock and the calendar are made of. *)
LEMMA Division ==
  ASSUME NEW n \in Nat, NEW d \in Nat \ {0}
  PROVE  /\ n \div d \in Nat
         /\ (n \div d) * d \in Nat
         /\ (n \div d) * d <= n
         /\ n < (n \div d) * d + d
  BY SMT

(* A tick lies in its day, and weeks and days are numbered from 0. *)
LEMMA DayFacts ==
  ASSUME NEW time \in Nat
  PROVE  /\ DayOf(time) \in Nat
         /\ StartOfDay(time) \in Nat
         /\ EndOfDay(time) \in Nat
         /\ StartOfDay(time) <= time
         /\ time < EndOfDay(time)
  BY Division, ActivityStoreAssumption DEF DayOf, StartOfDay, EndOfDay

(* Weeks are numbered from 0 too. *)
LEMMA WeekType ==
  ASSUME NEW day \in Nat
  PROVE  WeekOf(day) \in Nat
  BY Division, ActivityStoreAssumption DEF WeekOf

(* The end of the day is the same for all ticks of the day. *)
LEMMA SameDaySameEnd ==
  ASSUME NEW s, NEW t, DayOf(s) = DayOf(t)
  PROVE  EndOfDay(s) = EndOfDay(t)
  BY DEF EndOfDay, StartOfDay

-----------------------------------------------------------------------------
(* Payloads.                                                               *)

(* A request has a last end: an index with the fewest later ends has none. *)
LEMMA LastEndType ==
  ASSUME NEW payloads \in Seq(Payload), payloads # <<>>
  PROVE  LastEnd(payloads) \in Nat
<1> DEFINE I == 1..Len(payloads)
           E(i) == payloads[i].end
           Later(i) == {j \in I : E(j) > E(i)}
           T == {Later(i) : i \in I}
<1>1. Len(payloads) \in Nat \ {0}
  BY EmptySeq
<1>2. \A i \in I : E(i) \in Nat
  <2>1. \A i \in I : payloads[i] \in Payload
    BY ElementOfSeq
  <2> QED
    BY <2>1 DEF Payload
<1>3. IsFiniteSet(I)
  BY <1>1, FS_Interval
<1>4. T \subseteq FiniteSubsetsOf(I)
  BY <1>3, FS_Subset DEF FiniteSubsetsOf
<1>5. T # {}
  <2>1. 1 \in I
    BY <1>1
  <2>2. Later(1) \in T
    BY <2>1
  <2> QED
    BY <2>2
<1>6. PICK x \in T : \A y \in T : <<y, x>> \notin StrictSubsetOrdering(I)
  <2> HIDE DEF T
  <2> QED
    BY <1>4, <1>5, FS_StrictSubsetOrderingWellFounded, WFMin
<1>7. PICK i \in I : x = Later(i)
  BY <1>6
<1>8. \A k \in I : E(k) <= E(i)
  <2> SUFFICES ASSUME NEW k \in I, E(k) > E(i)
               PROVE  FALSE
    BY <1>2, <1>7
  <2>1. Later(k) \subseteq Later(i)
    BY <1>2, <1>7
  <2>2. k \in Later(i) /\ k \notin Later(k)
    BY <1>2, <1>7
  <2>3. <<Later(k), Later(i)>> \in StrictSubsetOrdering(I)
    <3>1. Later(k) \in SUBSET I /\ Later(i) \in SUBSET I
      OBVIOUS
    <3> QED
      BY <2>1, <2>2, <3>1 DEF StrictSubsetOrdering
  <2>4. Later(k) \in T
    OBVIOUS
  <2> QED
    BY <1>6, <1>7, <2>3, <2>4
<1>9. E(i) \in {E(j) : j \in I} /\ \A j \in I : E(j) <= E(i)
  BY <1>7, <1>8
<1>10. LastEnd(payloads) \in {E(j) : j \in I}
  BY <1>9 DEF LastEnd
<1> QED
  BY <1>2, <1>10

(* Both halves of a payload that crosses midnight are payloads. *)
LEMMA SplitType ==
  ASSUME NEW p \in Payload
  PROVE  TillEndOfDay(p) \in Payload /\ FromStartOfDay(p) \in Payload
<1>1. p.start \in Nat /\ p.end \in Nat
  BY DEF Payload
<1>2. EndOfDay(p.start) \in Nat /\ StartOfDay(p.end) \in Nat
  BY <1>1, DayFacts
<1> QED
  BY <1>2 DEF TillEndOfDay, FromStartOfDay, Payload

-----------------------------------------------------------------------------
(* The tables.                                                             *)

Tables(d) == d \in Database /\ DayAssignmentIn(d)

(* A row of the tables is an activity, on its day. *)
LEMMA RowFacts ==
  ASSUME NEW d, Tables(d)
  PROVE  /\ Len(d.activities) \in Nat
         /\ d.activities \in Seq(Activity)
         /\ \A i \in 1..Len(d.activities) :
              /\ d.activities[i] \in Activity
              /\ d.activities[i].day = DayOf(d.activities[i].start)
              /\ d.activities[i].day \in d.days
              /\ WeekOf(d.activities[i].day) \in d.weeks
              /\ d.activities[i].end < EndOfDay(d.activities[i].start) + MinDuration
<1>1. d.activities \in Seq(Activity)
  BY DEF Tables, Database
<1>2. \A i \in 1..Len(d.activities) : d.activities[i] \in Activity
  BY <1>1, ElementOfSeq
<1>3. Len(d.activities) \in Nat
  BY <1>1, LenProperties
<1> QED
  BY <1>1, <1>2, <1>3 DEF Tables, DayAssignmentIn

(* The tables of the initial state are right. *)
LEMMA EmptyTables == Tables(EmptyDatabase)
<1>1. EmptyDatabase.activities = <<>>
  BY DEF EmptyDatabase
<1>2. <<>> \in Seq(Activity) /\ Len(<<>>) = 0
  BY EmptySeq
<1>3. EmptyDatabase \in Database
  BY <1>2 DEF EmptyDatabase, Database
<1>4. DayAssignmentIn(EmptyDatabase)
  BY <1>1, <1>2 DEF DayAssignmentIn
<1> QED
  BY <1>3, <1>4 DEF Tables

(* The new activity of a payload of one day is on that day, and ends less than *)
(* the minimum duration after it.                                              *)
LEMMA NewActivityFacts ==
  ASSUME NEW p \in Payload, ~IsCrossDay(p)
  PROVE  /\ NewActivity(p) \in Activity
         /\ NewActivity(p).day = DayOf(NewActivity(p).start)
         /\ NewActivity(p).day = DayOf(p.start)
         /\ NewActivity(p).end < EndOfDay(NewActivity(p).start) + MinDuration
         /\ Dto(NewActivity(p)) \in LastDto
<1>1. p.start \in Nat /\ p.end \in Nat /\ p.dev \in Devices /\ p.app \in Apps \cup {NoApp}
  BY DEF Payload
<1>2. MinDuration \in Nat /\ MinDuration > 0
  BY ActivityStoreAssumption
<1>3. DayOf(p.start) \in Nat /\ EndOfDay(p.start) \in Nat /\ p.start < EndOfDay(p.start)
  BY <1>1, DayFacts
<1>4. p.end <= EndOfDay(p.start)
  BY <1>1, <1>3 DEF IsCrossDay
<1>5. NewActivity(p).start = p.start /\ NewActivity(p).day = DayOf(p.start)
  BY DEF NewActivity
<1>6. NewActivity(p).end \in Nat /\ NewActivity(p).end < EndOfDay(p.start) + MinDuration
  BY <1>1, <1>2, <1>3, <1>4 DEF NewActivity
<1>7. NewActivity(p) \in Activity
  BY <1>1, <1>3, <1>6 DEF NewActivity, Activity
<1>8. Dto(NewActivity(p)) \in LastDto
  BY <1>7 DEF Dto, LastDto, Activity
<1> QED
  BY <1>5, <1>6, <1>7, <1>8

(* addActivity keeps the tables right. *)
LEMMA WithActivityTables ==
  ASSUME NEW d, Tables(d), NEW p \in Payload, ~IsCrossDay(p)
  PROVE  /\ Tables(WithActivity(d, p))
         /\ Len(WithActivity(d, p).activities) \in Nat \ {0}
<1> DEFINE a == NewActivity(p)
           rows == d.activities
           added == WithActivity(d, p)
<1>1. /\ a \in Activity
      /\ a.day = DayOf(a.start) /\ a.day = DayOf(p.start)
      /\ a.end < EndOfDay(a.start) + MinDuration
  BY NewActivityFacts
<1>2. DayOf(p.start) \in Nat /\ WeekOf(DayOf(p.start)) \in Nat
  BY DayFacts, WeekType DEF Payload
<1> HIDE DEF a
<1>3. d \in Database
  BY DEF Tables
<1>4. /\ added.activities = Append(rows, a)
      /\ added.days = d.days \cup {DayOf(p.start)}
      /\ added.weeks = d.weeks \cup {WeekOf(DayOf(p.start))}
  BY <1>3 DEF WithActivity, WithDay, Database, a
<1>5. /\ rows \in Seq(Activity) /\ Len(rows) \in Nat
  BY RowFacts
<1>6. /\ Append(rows, a) \in Seq(Activity)
      /\ Len(Append(rows, a)) = Len(rows) + 1
      /\ \A i \in 1..Len(rows) : Append(rows, a)[i] = rows[i]
      /\ Append(rows, a)[Len(rows) + 1] = a
  BY <1>1, <1>5, AppendProperties
<1>7. added \in Database
  BY <1>2, <1>3, <1>6 DEF WithActivity, WithDay, Database, a
<1>8. DayAssignmentIn(added)
  <2> SUFFICES ASSUME NEW i \in 1..Len(added.activities)
               PROVE  /\ added.activities[i].day = DayOf(added.activities[i].start)
                      /\ added.activities[i].day \in added.days
                      /\ WeekOf(added.activities[i].day) \in added.weeks
                      /\ added.activities[i].end
                           < EndOfDay(added.activities[i].start) + MinDuration
    BY DEF DayAssignmentIn
  <2>1. CASE i = Len(rows) + 1
    BY <1>1, <1>4, <1>6, <2>1
  <2>2. CASE i \in 1..Len(rows)
    BY <1>4, <1>6, <2>2, RowFacts
  <2> QED
    BY <1>4, <1>5, <1>6, <2>1, <2>2
<1> QED
  BY <1>4, <1>5, <1>6, <1>7, <1>8 DEF Tables

(* A goal conflict message leaves the activities alone. *)
LEMMA WithConflictTables ==
  ASSUME NEW d, Tables(d), Len(d.activities) # 0, NEW p \in Payload
  PROVE  Tables(WithConflict(d, p))
<1>1. d \in Database /\ Len(d.activities) \in Nat \ {0}
  BY RowFacts DEF Tables
<1>2. WithConflict(d, p) \in Database
  <2> DEFINE c == [dev |-> p.dev, activity |-> Len(d.activities), at |-> p.start]
  <2>1. c \in Conflict
    BY <1>1 DEF Conflict, Payload
  <2> HIDE DEF c
  <2>2. WithConflict(d, p) = [d EXCEPT !.conflicts = @ \cup {c}]
    BY DEF WithConflict, c
  <2>3. d.conflicts \cup {c} \in SUBSET Conflict
    BY <1>1, <2>1 DEF Database
  <2> QED
    BY <1>1, <2>2, <2>3 DEF Database
<1>3. /\ WithConflict(d, p).activities = d.activities
      /\ WithConflict(d, p).days = d.days
      /\ WithConflict(d, p).weeks = d.weeks
  BY <1>1 DEF WithConflict, Database
<1> QED
  BY <1>2, <1>3 DEF Tables, DayAssignmentIn

(* So does the last monitored activity date. *)
LEMMA WithMonitoredDateTables ==
  ASSUME NEW d, Tables(d), NEW dev, NEW date \in Nat
  PROVE  Tables(WithMonitoredDate(d, dev, date))
<1>1. d \in Database
  BY DEF Tables
<1>2. WithMonitoredDate(d, dev, date) \in Database
  BY <1>1 DEF WithMonitoredDate, Database
<1>3. /\ WithMonitoredDate(d, dev, date).activities = d.activities
      /\ WithMonitoredDate(d, dev, date).days = d.days
      /\ WithMonitoredDate(d, dev, date).weeks = d.weeks
  BY <1>1 DEF WithMonitoredDate, Database
<1> QED
  BY <1>2, <1>3 DEF Tables, DayAssignmentIn

(* Moving the bounds of a row of the payload's day keeps the row on its day:   *)
(* whatever activity the payload is held against, and this is why it does not  *)
(* matter here that the engine may hold it against the wrong one.              *)
LEMMA WithStretchedTables ==
  ASSUME NEW d, Tables(d), NEW p \in Payload, ~IsCrossDay(p), NEW against,
         NEW dev, NEW i \in OnDay(d, dev, DayOf(p.start))
  PROVE  /\ Tables(WithStretched(d, i, p, against))
         /\ Dto(WithStretched(d, i, p, against).activities[i]) \in LastDto
<1> DEFINE rows == d.activities
           row == rows[i]
           a == Stretched(row, p, against)
           changed == WithStretched(d, i, p, against)
<1>1. i \in 1..Len(rows) /\ row.day = DayOf(p.start)
  BY DEF OnDay
<1>2. /\ row \in Activity /\ row.day = DayOf(row.start) /\ row.day \in d.days
      /\ WeekOf(row.day) \in d.weeks /\ row.end < EndOfDay(row.start) + MinDuration
      /\ rows \in Seq(Activity) /\ Len(rows) \in Nat
  BY <1>1, RowFacts
<1>3. /\ p.start \in Nat /\ p.end \in Nat /\ MinDuration \in Nat /\ MinDuration > 0
      /\ row.start \in Nat /\ row.end \in Nat
  BY <1>2, ActivityStoreAssumption, SMTT(30) DEF Payload, Activity
<1>4. EndOfDay(p.start) \in Nat /\ EndOfDay(row.start) = EndOfDay(p.start)
  BY <1>1, <1>2, <1>3, DayFacts, SameDaySameEnd
<1>5. p.end <= EndOfDay(p.start)
  BY <1>3, <1>4 DEF IsCrossDay
<1>6. /\ a \in Activity
      /\ a.day = row.day
      /\ a.start = row.start \/ a.start = p.start
      /\ a.end = row.end \/ a.end = p.end
  BY <1>2, <1>3 DEF Stretched, Activity
<1>7. /\ a.day = DayOf(a.start) /\ EndOfDay(a.start) = EndOfDay(p.start)
      /\ a.end < EndOfDay(a.start) + MinDuration
  <2>1. a.day = DayOf(a.start) /\ EndOfDay(a.start) = EndOfDay(p.start)
    BY <1>1, <1>2, <1>4, <1>6
  <2>2. a.end < EndOfDay(p.start) + MinDuration
    BY <1>2, <1>3, <1>4, <1>5, <1>6
  <2> QED
    BY <2>1, <2>2
<1>8. d \in Database
  BY DEF Tables
<1>9. /\ changed.activities = [rows EXCEPT ![i] = a]
      /\ changed.days = d.days
      /\ changed.weeks = d.weeks
  BY <1>8 DEF WithStretched, Database
<1> HIDE DEF a
<1>10. /\ [rows EXCEPT ![i] = a] \in Seq(Activity)
       /\ Len([rows EXCEPT ![i] = a]) = Len(rows)
       /\ \A j \in 1..Len(rows) : [rows EXCEPT ![i] = a][j] = IF j = i THEN a ELSE rows[j]
  BY <1>1, <1>2, <1>6, ExceptSeq
<1>11. changed \in Database
  BY <1>8, <1>9, <1>10 DEF WithStretched, Database
<1>12. DayAssignmentIn(changed)
  <2> SUFFICES ASSUME NEW j \in 1..Len(changed.activities)
               PROVE  /\ changed.activities[j].day = DayOf(changed.activities[j].start)
                      /\ changed.activities[j].day \in changed.days
                      /\ WeekOf(changed.activities[j].day) \in changed.weeks
                      /\ changed.activities[j].end
                           < EndOfDay(changed.activities[j].start) + MinDuration
    BY DEF DayAssignmentIn
  <2>1. CASE j = i
    BY <1>1, <1>2, <1>6, <1>7, <1>9, <1>10, <2>1
  <2>2. CASE j # i
    BY <1>9, <1>10, <2>2, RowFacts
  <2> QED
    BY <2>1, <2>2
<1>13. Dto(changed.activities[i]) \in LastDto
  BY <1>1, <1>6, <1>9, <1>10 DEF Dto, LastDto, Activity
<1> QED
  BY <1>11, <1>12, <1>13 DEF Tables

(* Both lookups give rows of the payload's day. *)
LEMMA LookupsAreOnDay ==
  ASSUME NEW d, NEW p
  PROVE  /\ \A dev, day : LastActivity(d, dev, day) \subseteq OnDay(d, dev, day)
         /\ OverlappingSameApp(d, p) \subseteq OnDay(d, p.dev, DayOf(p.start))
  BY DEF LastActivity, OverlappingSameApp

(* The lastActivity cache is filled with what it may hold. *)
LEMMA LastRegisteredType ==
  ASSUME NEW d, Tables(d), NEW dev
  PROVE  LastRegistered(d, dev) \in LastDto \cup {NoActivity}
<1> DEFINE lastDay == {day \in d.days : \A other \in d.days : other <= day}
           last == UNION {LastActivity(d, dev, day) : day \in lastDay}
<1>1. \A i \in last : i \in 1..Len(d.activities)
  <2>1. \A day : LastActivity(d, dev, day) \subseteq 1..Len(d.activities)
    BY DEF LastActivity, OnDay
  <2> QED
    BY <2>1, Zenon
<1>2. \A i \in last : Dto(d.activities[i]) \in LastDto
  BY <1>1, RowFacts DEF Dto, LastDto, Activity
<1> HIDE DEF last
<1>3. last # {} => (CHOOSE i \in last : TRUE) \in last
  OBVIOUS
<1>4. LastRegistered(d, dev) = IF last = {} THEN NoActivity
                               ELSE Dto(d.activities[CHOOSE i \in last : TRUE])
  BY DEF LastRegistered, last
<1> QED
  BY <1>2, <1>3, <1>4

(* Aggregates are computed from spans. *)
LEMMA SpansType ==
  ASSUME NEW d, Tables(d)
  PROVE  /\ \A day : SpansOn(d, day) \subseteq Span
         /\ \A interval : SpansIn(d, interval) \subseteq Span
<1>1. \A day : SpansOn(d, day) \subseteq Span
  BY RowFacts DEF SpansOn, Span, Activity
<1> QED
  BY <1>1 DEF SpansIn

-----------------------------------------------------------------------------
(* The invariant.  That the committed tables are right is not inductive: what  *)
(* is committed are the tables of the transaction, which are to be right too,  *)
(* and belong to the thread that holds the lock.                               *)

Transaction == [db : Database, resets : SUBSET Interval]

IndInv ==
  /\ TypeOK
  /\ TransactionIsLocked
  /\ DayAssignment
  /\ tx # NoTx => DayAssignmentIn(tx.db)

(* An idle thread's request is a request. *)
LEMMA IdleType == Idle \in Request /\ Idle.pc = "idle"
<1>1. <<>> \in Seq(Payload)
  BY EmptySeq
<1> QED
  BY <1>1 DEF Idle, Request

(* Initially no transaction is open and the tables are empty. *)
LEMMA InitIndInv == Init => IndInv
<1> SUFFICES ASSUME Init PROVE IndInv
  OBVIOUS
<1>1. db \in Database /\ DayAssignment
  BY EmptyTables DEF Init, Tables, DayAssignment
<1>2. Idle \in Request /\ Idle.pc = "idle"
  BY IdleType
<1>3. TypeOK
  BY <1>1, <1>2, AnalysisEngineAssumption DEF Init, TypeOK
<1>4. TransactionIsLocked
  BY <1>2, AnalysisEngineAssumption DEF Init, TransactionIsLocked
<1> QED
  BY <1>1, <1>3, <1>4 DEF Init, IndInv

(* What can be a transaction is not the absence of one. *)
LEMMA TransactionFacts ==
  ASSUME NEW d, Tables(d), NEW resets \in SUBSET Interval
  PROVE  /\ [db |-> d, resets |-> resets] \in Transaction
         /\ [db |-> d, resets |-> resets] # NoTx
  BY AnalysisEngineAssumption DEF Tables, Transaction

(* A thread in a transaction holds the lock, and its tables are right. *)
LEMMA HolderFacts ==
  ASSUME IndInv, NEW t \in Threads, request[t].pc \in {"inTx", "saved"}
  PROVE  /\ lock = t
         /\ tx # NoTx
         /\ tx \in Transaction
         /\ Tables(tx.db)
         /\ \A u \in Threads : request[u].pc \in {"inTx", "saved"} => u = t
  BY AnalysisEngineAssumption
     DEF IndInv, TypeOK, TransactionIsLocked, Transaction, Tables

(* The payload a thread is to deal with. *)
LEMMA FrontFacts ==
  ASSUME IndInv, NEW t \in Threads, IsRegistering(t)
  PROVE  /\ Front(t) \in Payload
         /\ Tail(request[t].work) \in Seq(Payload)
<1>1. request[t].work \in Seq(Payload) /\ request[t].work # <<>>
  BY DEF IndInv, TypeOK, Request, IsRegistering
<1> QED
  BY <1>1, HeadTailProperties DEF Front

(* A thread that holds the lock goes on with its request: with other tables of *)
(* the transaction, and other contents of the caches.                          *)
LEMMA HolderStep ==
  ASSUME IndInv, NEW t \in Threads, request[t].pc \in {"inTx", "saved"},
         NEW r \in Request, r.pc \in {"inTx", "saved"},
         request' = [request EXCEPT ![t] = r],
         NEW d, Tables(d), NEW resets \in SUBSET Interval,
         tx' = [db |-> d, resets |-> resets],
         cache' \in [Devices -> LastDto \cup {NoActivity, NotCached}],
         userDto' \in Nat \cup {Never},
         UNCHANGED <<db, aggregates, lock, job, raced, received, faults>>
  PROVE  IndInv'
<1>1. tx' \in Transaction /\ tx' # NoTx
  BY TransactionFacts
<1>2. lock = t /\ tx # NoTx
  BY HolderFacts
<1>3. request \in [Threads -> Request] /\ request' \in [Threads -> Request]
  BY DEF IndInv, TypeOK
<1>4. TypeOK'
  BY <1>1, <1>3 DEF IndInv, TypeOK, Transaction
<1>5. TransactionIsLocked'
  <2>1. \A u \in Threads : request'[u].pc = IF u = t THEN r.pc ELSE request[u].pc
    BY <1>3
  <2> QED
    BY <1>1, <1>2, <2>1, AnalysisEngineAssumption DEF IndInv, TransactionIsLocked
<1>6. DayAssignmentIn(tx.db)'
  <2>1. tx'.db = d
    OBVIOUS
  <2> QED
    BY <2>1 DEF Tables, DayAssignmentIn
<1>7. DayAssignment'
  BY DEF IndInv, DayAssignment, DayAssignmentIn
<1> QED
  BY <1>4, <1>5, <1>6, <1>7 DEF IndInv

(* The intervals whose aggregates a transaction resets. *)
LEMMA AggregatedAmongType ==
  ASSUME NEW intervals
  PROVE  AggregatedAmong(intervals) \subseteq Interval
  BY AnalysisEngineAssumption DEF AggregatedAmong

-----------------------------------------------------------------------------
(* Requests arrive and transactions start.                                 *)

(* A thread takes a request and does not enter a transaction yet. *)
LEMMA ArrivalStep ==
  ASSUME IndInv, NEW t \in Threads, MayReceive(t),
         NEW r \in Request, r.pc = "received",
         request' = [request EXCEPT ![t] = r]
  PROVE  IndInv'
<1>1. /\ request \in [Threads -> Request] /\ request' \in [Threads -> Request]
      /\ request[t].pc = "idle"
  BY IdleType DEF IndInv, TypeOK, MayReceive
<1>2. TypeOK'
  BY <1>1, AnalysisEngineAssumption DEF IndInv, TypeOK, MayReceive
<1>3. TransactionIsLocked'
  BY <1>1 DEF IndInv, TransactionIsLocked, MayReceive
<1>4. DayAssignment' /\ (tx # NoTx => DayAssignmentIn(tx.db))'
  BY DEF IndInv, DayAssignment, DayAssignmentIn, MayReceive
<1> QED
  BY <1>2, <1>3, <1>4 DEF IndInv

(* A request with payloads reads the user and waits for the lock. *)
LEMMA ReceiveStep ==
  ASSUME IndInv, NEW t \in Threads, NEW payloads \in Requests, Receive(t, payloads)
  PROVE  IndInv'
<1> DEFINE r == [Idle EXCEPT !.pc = "received", !.dtoDate = userDto,
                             !.payloads = payloads, !.work = payloads]
<1>1. payloads \in Seq(Payload)
  BY AnalysisEngineAssumption DEF IsRequest
<1>2. r \in Request /\ r.pc = "received"
  BY <1>1, IdleType DEF Idle, Request, IndInv, TypeOK
<1>3. request' = [request EXCEPT ![t] = r] /\ MayReceive(t)
  BY DEF Receive
<1> HIDE DEF r
<1> QED
  BY <1>2, <1>3, ArrivalStep

(* So does one with inactivity. *)
LEMMA ReceiveInactivityStep ==
  ASSUME IndInv, NEW t \in Threads, NEW intervals \in InactivityRequests,
         ReceiveInactivity(t, intervals)
  PROVE  IndInv'
<1> DEFINE r == [Idle EXCEPT !.pc = "received", !.inactive = intervals]
<1>1. intervals \in SUBSET Interval
  BY AnalysisEngineAssumption
<1>2. r \in Request /\ r.pc = "received"
  BY <1>1, IdleType DEF Idle, Request
<1>3. request' = [request EXCEPT ![t] = r] /\ MayReceive(t)
  BY DEF ReceiveInactivity
<1> HIDE DEF r
<1> QED
  BY <1>2, <1>3, ArrivalStep

(* A transaction starts: the lock was free, so no other thread was in one. *)
LEMMA StartStep ==
  ASSUME IndInv, NEW t \in Threads, NEW d, Tables(d),
         NEW resets \in SUBSET Interval, NEW hasFetched \in BOOLEAN,
         StartsTransaction(t, d, resets, hasFetched)
  PROVE  IndInv'
<1> DEFINE r == [request[t] EXCEPT !.pc = "inTx", !.fetched = hasFetched]
<1>1. request \in [Threads -> Request]
  BY DEF IndInv, TypeOK
<1>2. r \in Request /\ r.pc = "inTx"
  BY <1>1 DEF Request
<1>3. request' = [request EXCEPT ![t] = r]
  BY <1>1 DEF StartsTransaction, Request
<1> HIDE DEF r
<1>4. tx' \in Transaction /\ tx' # NoTx /\ tx'.db = d
  BY TransactionFacts DEF StartsTransaction
<1>5. request' \in [Threads -> Request]
  BY <1>1, <1>2, <1>3
<1>6. TypeOK'
  <2>1. raced' \subseteq PastIntervals
    BY DEF IndInv, TypeOK, StartsTransaction
  <2> QED
    BY <1>4, <1>5, <2>1 DEF IndInv, TypeOK, Transaction, StartsTransaction
<1>7. TransactionIsLocked'
  <2>1. \A u \in Threads : request'[u].pc = IF u = t THEN "inTx" ELSE request[u].pc
    BY <1>1, <1>2, <1>3
  <2>2. lock = NoThread /\ lock' = t
    BY DEF StartsTransaction
  <2> QED
    BY <1>4, <2>1, <2>2, AnalysisEngineAssumption DEF IndInv, TransactionIsLocked
<1>8. DayAssignmentIn(tx.db)'
  BY <1>4 DEF Tables, DayAssignmentIn
<1>9. DayAssignment'
  BY DEF IndInv, DayAssignment, DayAssignmentIn, StartsTransaction
<1> QED
  BY <1>6, <1>7, <1>8, <1>9 DEF IndInv

(* The lock is taken and the monitored date recorded; the tables stay right. *)
LEMMA BeginStep ==
  ASSUME IndInv, NEW t \in Threads, Begin(t)
  PROVE  IndInv'
<1> DEFINE r == request[t]
           date == DayOf(LastEnd(r.payloads))
           d == IF HasNewMonitoredDate(r)
                THEN WithMonitoredDate(db, r.payloads[1].dev, date) ELSE db
<1>1. r.payloads \in Seq(Payload) /\ r.payloads # <<>>
  BY DEF IndInv, TypeOK, Request, Begin
<1>2. date \in Nat
  BY <1>1, LastEndType, DayFacts
<1>3. Tables(db)
  BY DEF IndInv, TypeOK, DayAssignment, Tables
<1>4. Tables(d)
  BY <1>2, <1>3, WithMonitoredDateTables
<1>5. HasNewMonitoredDate(r) \in BOOLEAN
  BY DEF HasNewMonitoredDate
<1>6. StartsTransaction(t, d, {}, HasNewMonitoredDate(r))
  BY DEF Begin
<1> HIDE DEF d, r
<1> QED
  BY <1>4, <1>5, <1>6, StartStep

(* Days and weeks without activity are created. *)
LEMMA BeginInactivityStep ==
  ASSUME IndInv, NEW t \in Threads, BeginInactivity(t)
  PROVE  IndInv'
<1> DEFINE inactive == request[t].inactive
           days == {i.date : i \in {j \in inactive : j.kind = "day"}}
           weeks == {i.date : i \in {j \in inactive : j.kind = "week"}}
                      \cup {WeekOf(day) : day \in days}
           d == [db EXCEPT !.days = @ \cup days, !.weeks = @ \cup weeks]
           resets == AggregatedAmong({WeekInterval(WeekOf(day)) : day \in days \ db.days})
<1>1. inactive \in SUBSET Interval
  BY DEF IndInv, TypeOK, Request
<1>2. days \in SUBSET Nat
  BY <1>1 DEF Interval
<1>3. weeks \in SUBSET Nat
  BY <1>1, <1>2, WeekType DEF Interval
<1>4. resets \in SUBSET Interval
  BY AggregatedAmongType
<1>5. StartsTransaction(t, d, resets, FALSE)
  BY DEF BeginInactivity
<1> HIDE DEF days, weeks, resets
<1>6. db \in Database /\ DayAssignmentIn(db)
  BY DEF IndInv, TypeOK, DayAssignment
<1>7. /\ d \in Database
      /\ d.activities = db.activities
      /\ db.days \subseteq d.days
      /\ db.weeks \subseteq d.weeks
  BY <1>2, <1>3, <1>6 DEF Database
<1> HIDE DEF d
<1>8. Tables(d)
  BY <1>6, <1>7 DEF Tables, DayAssignmentIn
<1> QED
  BY <1>4, <1>5, <1>8, StartStep

-----------------------------------------------------------------------------
(* The holder of the lock registers payloads.                              *)

(* The transaction of the holder, taken apart. *)
LEMMA HolderParts ==
  ASSUME IndInv, NEW t \in Threads, request[t].pc \in {"inTx", "saved"}
  PROVE  /\ tx = [db |-> tx.db, resets |-> tx.resets]
         /\ tx.resets \in SUBSET Interval
         /\ Tables(tx.db)
         /\ request[t] \in Request
         /\ request \in [Threads -> Request]
         /\ cache \in [Devices -> LastDto \cup {NoActivity, NotCached}]
         /\ userDto \in Nat \cup {Never}
  BY HolderFacts DEF IndInv, TypeOK, Transaction

(* The front payload gives way to others and the tables stay: it was split or skipped. *)
LEMMA WorkStep ==
  ASSUME IndInv, NEW t \in Threads, request[t].pc = "inTx",
         NEW work \in Seq(Payload),
         request' = [request EXCEPT ![t].work = work],
         UNCHANGED <<db, aggregates, tx, lock, cache, userDto, job, raced, received, faults>>
  PROVE  IndInv'
<1> DEFINE r == [request[t] EXCEPT !.work = work]
<1>1. /\ tx = [db |-> tx.db, resets |-> tx.resets] /\ tx.resets \in SUBSET Interval
      /\ Tables(tx.db) /\ request[t] \in Request /\ request \in [Threads -> Request]
      /\ cache \in [Devices -> LastDto \cup {NoActivity, NotCached}]
      /\ userDto \in Nat \cup {Never}
  BY HolderParts
<1>2. r \in Request /\ r.pc = "inTx"
  BY <1>1 DEF Request
<1>3. request' = [request EXCEPT ![t] = r]
  BY <1>1 DEF Request
<1>4. tx' = [db |-> tx.db, resets |-> tx.resets]
  BY <1>1
<1> HIDE DEF r
<1> QED
  BY <1>1, <1>2, <1>3, <1>4, HolderStep

(* A payload that crosses midnight becomes two, which are on one day each. *)
LEMMA SplitCrossDayStep ==
  ASSUME IndInv, NEW t \in Threads, SplitCrossDay(t)
  PROVE  IndInv'
<1> DEFINE halves == <<TillEndOfDay(Front(t)), FromStartOfDay(Front(t))>>
           work == halves \o Tail(request[t].work)
<1>1. IsRegistering(t)
  BY DEF SplitCrossDay
<1>2. Front(t) \in Payload /\ Tail(request[t].work) \in Seq(Payload)
  BY <1>1, FrontFacts
<1>3. TillEndOfDay(Front(t)) \in Payload /\ FromStartOfDay(Front(t)) \in Payload
  BY <1>2, SplitType
<1>4. halves \in Seq(Payload)
  BY <1>3
<1> HIDE DEF halves
<1>5. work \in Seq(Payload)
  BY <1>2, <1>4, ConcatProperties
<1>6. request' = [request EXCEPT ![t].work = work]
  BY DEF SplitCrossDay, halves
<1>7. /\ request[t].pc = "inTx"
      /\ UNCHANGED <<db, aggregates, tx, lock, cache, userDto, job, raced, received, faults>>
  BY <1>1 DEF SplitCrossDay, IsRegistering
<1> HIDE DEF work
<1> QED
  BY <1>5, <1>6, <1>7, WorkStep

(* A payload within the skip window is dropped. *)
LEMMA SkipStep ==
  ASSUME IndInv, NEW t \in Threads, Skip(t)
  PROVE  IndInv'
<1>1. IsRegistering(t)
  BY DEF Skip, IsDeciding
<1>2. Tail(request[t].work) \in Seq(Payload)
  BY <1>1, FrontFacts
<1>3. /\ request' = [request EXCEPT ![t].work = Tail(request[t].work)]
      /\ request[t].pc = "inTx"
      /\ UNCHANGED <<db, aggregates, tx, lock, cache, userDto, job, raced, received, faults>>
  BY <1>1 DEF Skip, IsRegistering
<1> QED
  BY <1>2, <1>3, WorkStep

(* What is fetched into the cache is an activity of the tables, or none. *)
LEMMA FetchLastStep ==
  ASSUME IndInv, NEW t \in Threads, FetchLast(t)
  PROVE  IndInv'
<1>1. IsRegistering(t) /\ request[t].pc = "inTx"
  BY DEF FetchLast, IsRegistering
<1>2. /\ tx = [db |-> tx.db, resets |-> tx.resets] /\ tx.resets \in SUBSET Interval
      /\ Tables(tx.db) /\ request[t] \in Request /\ request \in [Threads -> Request]
      /\ cache \in [Devices -> LastDto \cup {NoActivity, NotCached}]
      /\ userDto \in Nat \cup {Never}
  BY <1>1, HolderParts
<1>3. cache' \in [Devices -> LastDto \cup {NoActivity, NotCached}]
  <2>1. LastRegistered(tx.db, Front(t).dev) \in LastDto \cup {NoActivity, NotCached}
    BY <1>2, LastRegisteredType
  <2> QED
    BY <1>2, <2>1 DEF FetchLast
<1>4. /\ request' = [request EXCEPT ![t] = request[t]]
      /\ tx' = [db |-> tx.db, resets |-> tx.resets]
      /\ userDto' \in Nat \cup {Never}
      /\ UNCHANGED <<db, aggregates, lock, job, raced, received, faults>>
  BY <1>2 DEF FetchLast
<1> QED
  BY <1>1, <1>2, <1>3, <1>4, HolderStep

(* The front payload is registered in tables that are right. *)
LEMMA RegistersStep ==
  ASSUME IndInv, NEW t \in Threads, IsRegistering(t),
         NEW changed, Tables(changed), NEW hasReset, Registers(t, changed, hasReset),
         cache' \in [Devices -> LastDto \cup {NoActivity, NotCached}],
         userDto' \in Nat \cup {Never}
  PROVE  IndInv'
<1> DEFINE r == [request[t] EXCEPT !.work = Tail(request[t].work), !.fetched = TRUE]
           resets == IF hasReset THEN ResetsWith(DayOf(Front(t).start)) ELSE tx.resets
<1>1. request[t].pc = "inTx"
  BY DEF IsRegistering
<1>2. tx.resets \in SUBSET Interval /\ request \in [Threads -> Request]
  BY <1>1, HolderParts
<1>3. Tail(request[t].work) \in Seq(Payload)
  BY FrontFacts
<1>4. r \in Request /\ r.pc = "inTx"
  BY <1>1, <1>2, <1>3 DEF Request
<1>5. request' = [request EXCEPT ![t] = r]
  BY <1>2 DEF Registers, Request
<1>6. resets \in SUBSET Interval
  BY <1>2, AggregatedAmongType DEF ResetsWith
<1>7. /\ tx' = [db |-> changed, resets |-> resets]
      /\ UNCHANGED <<db, aggregates, lock, job, raced, received, faults>>
  BY DEF Registers
<1> HIDE DEF r, resets
<1> QED
  BY <1>1, <1>4, <1>5, <1>6, <1>7, HolderStep

(* What a thread that is to decide knows. *)
LEMMA DecidingFacts ==
  ASSUME IndInv, NEW t \in Threads, IsDeciding(t)
  PROVE  /\ IsRegistering(t)
         /\ Front(t) \in Payload
         /\ Front(t).dev \in Devices
         /\ ~IsCrossDay(Front(t))
         /\ Tables(tx.db)
         /\ cache \in [Devices -> LastDto \cup {NoActivity, NotCached}]
         /\ userDto \in Nat \cup {Never}
<1>1. IsRegistering(t) /\ ~IsCrossDay(Front(t)) /\ request[t].pc = "inTx"
  BY DEF IsDeciding, IsRegistering
<1>2. Front(t) \in Payload
  BY <1>1, FrontFacts
<1> QED
  BY <1>1, <1>2, HolderParts DEF Payload

(* The row that overlaps is stretched to the payload. *)
LEMMA ExtendExistingStep ==
  ASSUME IndInv, NEW t \in Threads, ExtendExisting(t)
  PROVE  IndInv'
<1>1. /\ IsRegistering(t) /\ Front(t) \in Payload /\ ~IsCrossDay(Front(t)) /\ Tables(tx.db)
      /\ cache \in [Devices -> LastDto \cup {NoActivity, NotCached}]
      /\ userDto \in Nat \cup {Never}
  BY DecidingFacts DEF ExtendExisting
<1>2. PICK i \in OverlappingSameApp(tx.db, Front(t)) :
        LET row == tx.db.activities[i]
        IN Registers(t, WithStretched(tx.db, i, Front(t), row), Exceeds(Front(t), row))
  BY DEF ExtendExisting
<1>3. i \in OnDay(tx.db, Front(t).dev, DayOf(Front(t).start))
  BY LookupsAreOnDay
<1>4. Tables(WithStretched(tx.db, i, Front(t), tx.db.activities[i]))
  BY <1>1, <1>3, WithStretchedTables
<1>5. /\ cache' \in [Devices -> LastDto \cup {NoActivity, NotCached}]
      /\ userDto' \in Nat \cup {Never}
  BY <1>1 DEF ExtendExisting
<1> QED
  BY <1>1, <1>2, <1>4, <1>5, RegistersStep

(* The last row is stretched to the payload, as the cached activity says. *)
LEMMA ExtendLastStep ==
  ASSUME IndInv, NEW t \in Threads, ExtendLast(t)
  PROVE  IndInv'
<1>1. /\ IsRegistering(t) /\ Front(t) \in Payload /\ Front(t).dev \in Devices
      /\ ~IsCrossDay(Front(t)) /\ Tables(tx.db)
      /\ cache \in [Devices -> LastDto \cup {NoActivity, NotCached}]
      /\ userDto \in Nat \cup {Never}
  BY DecidingFacts DEF ExtendLast
<1>2. PICK i \in LastActivity(tx.db, Front(t).dev, DayOf(Front(t).start)) :
        LET changed == WithStretched(tx.db, i, Front(t), LastOf(t))
        IN /\ Registers(t, changed, Exceeds(Front(t), LastOf(t)))
           /\ cache' = [cache EXCEPT ![Front(t).dev] = Dto(changed.activities[i])]
  BY DEF ExtendLast
<1>3. i \in OnDay(tx.db, Front(t).dev, DayOf(Front(t).start))
  BY LookupsAreOnDay
<1> DEFINE changed == WithStretched(tx.db, i, Front(t), LastOf(t))
<1>4. Tables(changed) /\ Dto(changed.activities[i]) \in LastDto
  BY <1>1, <1>3, WithStretchedTables
<1>5. /\ Registers(t, changed, Exceeds(Front(t), LastOf(t)))
      /\ cache' = [cache EXCEPT ![Front(t).dev] = Dto(changed.activities[i])]
  BY <1>2
<1> HIDE DEF changed
<1>6. /\ cache' \in [Devices -> LastDto \cup {NoActivity, NotCached}]
      /\ userDto' \in Nat \cup {Never}
  BY <1>1, <1>4, <1>5 DEF ExtendLast
<1> QED
  BY <1>1, <1>4, <1>5, <1>6, RegistersStep

(* A row is added, with its day, its week and perhaps a conflict. *)
LEMMA AddStep ==
  ASSUME IndInv, NEW t \in Threads, Add(t)
  PROVE  IndInv'
<1> DEFINE p == Front(t)
           added == WithActivity(tx.db, p)
           changed == IF IsNoGoGoal /\ IsNewConflict(p, LastOf(t))
                      THEN WithConflict(added, p) ELSE added
<1>1. /\ IsRegistering(t) /\ p \in Payload /\ p.dev \in Devices
      /\ ~IsCrossDay(p) /\ Tables(tx.db)
      /\ cache \in [Devices -> LastDto \cup {NoActivity, NotCached}]
  BY DecidingFacts DEF Add
<1>2. Tables(added) /\ Len(added.activities) # 0
  BY <1>1, WithActivityTables
<1>3. Tables(changed)
  BY <1>1, <1>2, WithConflictTables
<1>4. Registers(t, changed, TRUE)
  BY DEF Add
<1>5. Dto(NewActivity(p)) \in LastDto
  BY <1>1, NewActivityFacts
<1>6. cache' \in [Devices -> LastDto \cup {NoActivity, NotCached}]
  <2>1. \/ cache' = [cache EXCEPT ![p.dev] = Dto(NewActivity(p))]
        \/ cache' = cache
    BY DEF Add
  <2> HIDE DEF p
  <2> QED
    BY <1>1, <1>5, <2>1
<1>7. userDto' \in Nat \cup {Never}
  BY <1>1 DEF Add, Tables, Database
<1> HIDE DEF changed
<1> QED
  BY <1>1, <1>3, <1>4, <1>6, <1>7, RegistersStep

(* Saving puts the user in the shared cache, if it was fetched in the transaction. *)
LEMMA SaveStep ==
  ASSUME IndInv, NEW t \in Threads, Save(t)
  PROVE  IndInv'
<1> DEFINE r == [request[t] EXCEPT !.pc = "saved"]
<1>1. request[t].pc = "inTx"
  BY DEF Save
<1>2. /\ tx = [db |-> tx.db, resets |-> tx.resets] /\ tx.resets \in SUBSET Interval
      /\ Tables(tx.db) /\ request[t] \in Request /\ request \in [Threads -> Request]
      /\ cache \in [Devices -> LastDto \cup {NoActivity, NotCached}]
      /\ userDto \in Nat \cup {Never}
  BY <1>1, HolderParts
<1>3. r \in Request /\ r.pc = "saved"
  BY <1>2 DEF Request
<1>4. request' = [request EXCEPT ![t] = r]
  BY <1>2 DEF Save, Request
<1>5. userDto' \in Nat \cup {Never}
  BY <1>2 DEF Save, Tables, Database
<1>6. /\ tx' = [db |-> tx.db, resets |-> tx.resets]
      /\ cache' \in [Devices -> LastDto \cup {NoActivity, NotCached}]
      /\ UNCHANGED <<db, aggregates, lock, job, raced, received, faults>>
  BY <1>2 DEF Save
<1> HIDE DEF r
<1> QED
  BY <1>1, <1>2, <1>3, <1>4, <1>5, <1>6, HolderStep

-----------------------------------------------------------------------------
(* The transaction ends.                                                   *)

(* The holder's transaction ends, leaving tables that are right, and the lock  *)
(* is free.                                                                    *)
LEMMA EndStep ==
  ASSUME IndInv, NEW t \in Threads, NEW isCommitted \in BOOLEAN,
         request[t].pc \in {"inTx", "saved"},
         EndsTransaction(t, isCommitted),
         Tables(db)',
         DOMAIN aggregates' = PastIntervals,
         \A i \in PastIntervals :
           aggregates'[i] = NotAggregated \/ aggregates'[i] \subseteq Span,
         faults' \in [failures : 0..MaxFailures, restarts : 0..MaxRestarts],
         UNCHANGED <<cache, userDto, job, raced, received>>
  PROVE  IndInv'
<1>1. /\ tx' = NoTx /\ lock' = NoThread
      /\ request' = [request EXCEPT ![t] = Idle]
  BY DEF EndsTransaction, LockAfter
<1>2. request \in [Threads -> Request]
  BY DEF IndInv, TypeOK
<1>3. \A u \in Threads : request[u].pc \in {"inTx", "saved"} => u = t
  BY HolderFacts
<1>4. TypeOK'
  <2>1. request' \in [Threads -> Request]
    BY <1>1, <1>2, IdleType
  <2>2. db' \in Database
    BY DEF Tables
  <2> QED
    BY <1>1, <2>1, <2>2 DEF IndInv, TypeOK
<1>5. TransactionIsLocked'
  <2>1. \A u \in Threads : request'[u].pc = IF u = t THEN "idle" ELSE request[u].pc
    BY <1>1, <1>2, IdleType
  <2>2. \A u \in Threads : request'[u].pc \notin {"inTx", "saved"}
    BY <1>3, <2>1
  <2> QED
    BY <1>1, <2>2, AnalysisEngineAssumption DEF TransactionIsLocked
<1>6. DayAssignment'
  BY DEF Tables, DayAssignment
<1> QED
  BY <1>1, <1>4, <1>5, <1>6 DEF IndInv

(* What is committed are the tables of the transaction. *)
LEMMA CommitStep ==
  ASSUME IndInv, NEW t \in Threads, Commit(t)
  PROVE  IndInv'
<1>1. request[t].pc \in {"inTx", "saved"} /\ EndsTransaction(t, TRUE)
  BY DEF Commit
<1>2. Tables(tx.db)
  BY <1>1, HolderParts
<1>3. Tables(db)'
  BY <1>2 DEF Commit, Tables, DayAssignmentIn
<1>4. /\ DOMAIN aggregates' = PastIntervals
      /\ \A i \in PastIntervals :
           aggregates'[i] = NotAggregated \/ aggregates'[i] \subseteq Span
  BY DEF IndInv, TypeOK, Commit
<1>5. /\ faults' \in [failures : 0..MaxFailures, restarts : 0..MaxRestarts]
      /\ UNCHANGED <<cache, userDto, job, raced, received>>
  BY DEF IndInv, TypeOK, Commit
<1> QED
  BY <1>1, <1>3, <1>4, <1>5, EndStep

(* A rollback keeps the tables as they were, and frees the lock. *)
LEMMA RollbackStep ==
  ASSUME IndInv, NEW t \in Threads, request[t].pc \in {"inTx", "saved"}, Rollback(t),
         faults' \in [failures : 0..MaxFailures, restarts : 0..MaxRestarts]
  PROVE  IndInv'
<1>1. /\ EndsTransaction(t, FALSE)
      /\ UNCHANGED <<db, aggregates, cache, userDto, job, raced, received>>
  BY DEF Rollback
<1>2. Tables(db)'
  BY <1>1 DEF IndInv, TypeOK, DayAssignment, DayAssignmentIn, Tables
<1>3. /\ DOMAIN aggregates' = PastIntervals
      /\ \A i \in PastIntervals :
           aggregates'[i] = NotAggregated \/ aggregates'[i] \subseteq Span
  BY <1>1 DEF IndInv, TypeOK
<1> QED
  BY <1>1, <1>2, <1>3, EndStep

(* A combination that finds no row is rolled back. *)
LEMMA RejectCombinationStep ==
  ASSUME IndInv, NEW t \in Threads, RejectCombination(t)
  PROVE  IndInv'
<1>1. /\ request[t].pc \in {"inTx", "saved"} /\ Rollback(t)
      /\ faults' \in [failures : 0..MaxFailures, restarts : 0..MaxRestarts]
  BY DEF RejectCombination, IsDeciding, IsRegistering, IndInv, TypeOK
<1> QED
  BY <1>1, RollbackStep

(* So is a transaction that fails. *)
LEMMA TransactionFailsStep ==
  ASSUME IndInv, NEW t \in Threads, TransactionFails(t)
  PROVE  IndInv'
<1>1. request[t].pc \in {"inTx", "saved"} /\ Rollback(t)
  BY DEF TransactionFails
<1>2. faults' \in [failures : 0..MaxFailures, restarts : 0..MaxRestarts]
  BY AnalysisEngineAssumption DEF TransactionFails, IndInv, TypeOK
<1> QED
  BY <1>1, <1>2, RollbackStep

(* A restart leaves the committed tables and the shared cache. *)
LEMMA RestartStep ==
  ASSUME IndInv, Restart
  PROVE  IndInv'
<1>1. /\ tx' = NoTx /\ lock' = NoThread
      /\ request' = [t \in Threads |-> Idle]
      /\ UNCHANGED <<db, aggregates, userDto, job, raced, received>>
  BY DEF Restart
<1>2. TypeOK'
  <2>1. request' \in [Threads -> Request]
    BY <1>1, IdleType
  <2>2. faults' \in [failures : 0..MaxFailures, restarts : 0..MaxRestarts]
    BY AnalysisEngineAssumption DEF Restart, IndInv, TypeOK
  <2>3. cache' \in [Devices -> LastDto \cup {NoActivity, NotCached}]
    BY DEF Restart
  <2> QED
    BY <1>1, <2>1, <2>2, <2>3 DEF IndInv, TypeOK
<1>3. TransactionIsLocked'
  <2>1. \A t \in Threads : request'[t].pc = "idle"
    BY <1>1, IdleType
  <2> QED
    BY <1>1, <2>1, AnalysisEngineAssumption DEF TransactionIsLocked
<1>4. DayAssignment'
  BY <1>1 DEF IndInv, DayAssignment, DayAssignmentIn
<1> QED
  BY <1>1, <1>2, <1>3, <1>4 DEF IndInv

-----------------------------------------------------------------------------
(* The aggregation job.                                                    *)

(* Of the tables the job changes the aggregates only. *)
LEMMA JobStep ==
  ASSUME IndInv,
         DOMAIN aggregates' = PastIntervals,
         \A i \in PastIntervals :
           aggregates'[i] = NotAggregated \/ aggregates'[i] \subseteq Span,
         job' = NoJob \/ (job'.interval \in PastIntervals /\ job'.seen \subseteq Span),
         raced' \subseteq PastIntervals,
         UNCHANGED <<db, tx, lock, cache, userDto, request, received, faults>>
  PROVE  IndInv'
<1>1. TypeOK'
  BY DEF IndInv, TypeOK
<1>2. TransactionIsLocked'
  BY DEF IndInv, TransactionIsLocked
<1>3. DayAssignment' /\ (tx # NoTx => DayAssignmentIn(tx.db))'
  BY DEF IndInv, DayAssignment, DayAssignmentIn
<1> QED
  BY <1>1, <1>2, <1>3 DEF IndInv

(* What the job reads are spans, stored ones of days included. *)
LEMMA SeenByType ==
  ASSUME IndInv, NEW interval \in PastIntervals
  PROVE  SeenBy(interval) \subseteq Span
<1>1. Tables(db)
  BY DEF IndInv, TypeOK, DayAssignment, Tables
<1>2. CASE interval.kind = "day"
  BY <1>1, <1>2, SpansType DEF SeenBy
<1>3. CASE interval.kind # "day"
  <2>1. interval.kind = "week"
    BY <1>3, AnalysisEngineAssumption DEF Interval
  <2>2. \A day \in DaysOf(interval) : DayInterval(day) \in PastIntervals
    BY <2>1, AnalysisEngineAssumption
  <2>3. \A day \in DaysOf(interval) :
          (IF aggregates[DayInterval(day)] = NotAggregated
           THEN SpansOn(db, day) ELSE aggregates[DayInterval(day)]) \subseteq Span
    BY <1>1, <2>2, SpansType DEF IndInv, TypeOK
  <2> QED
    BY <1>3, <2>3 DEF SeenBy
<1> QED
  BY <1>2, <1>3

(* The job reads an interval. *)
LEMMA BatchReadStep ==
  ASSUME IndInv, NEW interval \in PastIntervals, BatchRead(interval)
  PROVE  IndInv'
<1>1. /\ job'.interval \in PastIntervals /\ job'.seen \subseteq Span
      /\ raced' \subseteq PastIntervals
  BY SeenByType DEF BatchRead, IndInv, TypeOK
<1>2. /\ UNCHANGED <<db, tx, lock, cache, userDto, request, received, faults>>
      /\ DOMAIN aggregates' = PastIntervals
      /\ \A i \in PastIntervals :
           aggregates'[i] = NotAggregated \/ aggregates'[i] \subseteq Span
  BY DEF BatchRead, IndInv, TypeOK
<1> QED
  BY <1>1, <1>2, JobStep

(* The job writes what it has read. *)
LEMMA BatchWriteStep ==
  ASSUME IndInv, BatchWrite
  PROVE  IndInv'
<1>1. job.interval \in PastIntervals /\ job.seen \subseteq Span
  BY DEF BatchWrite, IndInv, TypeOK
<1>2. /\ DOMAIN aggregates' = PastIntervals
      /\ \A i \in PastIntervals :
           aggregates'[i] = NotAggregated \/ aggregates'[i] \subseteq Span
  BY <1>1 DEF BatchWrite, IndInv, TypeOK
<1>3. /\ job' = NoJob
      /\ raced' \subseteq PastIntervals
      /\ UNCHANGED <<db, tx, lock, cache, userDto, request, received, faults>>
  BY DEF BatchWrite, IndInv, TypeOK
<1> QED
  BY <1>2, <1>3, JobStep

-----------------------------------------------------------------------------
(* Every step keeps the invariant. *)
LEMMA NextIndInv == IndInv /\ [Next]_vars => IndInv'
<1> SUFFICES ASSUME IndInv, [Next]_vars PROVE IndInv'
  OBVIOUS
<1>1. ASSUME NEW t \in Threads, NEW payloads \in Requests, Receive(t, payloads)
      PROVE  IndInv'
  BY <1>1, ReceiveStep
<1>2. ASSUME NEW t \in Threads, NEW intervals \in InactivityRequests,
             ReceiveInactivity(t, intervals)
      PROVE  IndInv'
  BY <1>2, ReceiveInactivityStep
<1>3. ASSUME NEW t \in Threads, Works(t)
      PROVE  IndInv'
  <2>1. CASE Begin(t)
    BY <2>1, BeginStep
  <2>2. CASE BeginInactivity(t)
    BY <2>2, BeginInactivityStep
  <2>3. CASE SplitCrossDay(t)
    BY <2>3, SplitCrossDayStep
  <2>4. CASE FetchLast(t)
    BY <2>4, FetchLastStep
  <2>5. CASE ExtendExisting(t)
    BY <2>5, ExtendExistingStep
  <2>6. CASE Skip(t)
    BY <2>6, SkipStep
  <2>7. CASE ExtendLast(t)
    BY <2>7, ExtendLastStep
  <2>8. CASE RejectCombination(t)
    BY <2>8, RejectCombinationStep
  <2>9. CASE Add(t)
    BY <2>9, AddStep
  <2>10. CASE Save(t)
    BY <2>10, SaveStep
  <2>11. CASE Commit(t)
    BY <2>11, CommitStep
  <2> QED
    BY <1>3, <2>1, <2>2, <2>3, <2>4, <2>5, <2>6, <2>7, <2>8, <2>9, <2>10, <2>11 DEF Works
<1>4. ASSUME NEW t \in Threads, TransactionFails(t)
      PROVE  IndInv'
  BY <1>4, TransactionFailsStep
<1>5. CASE Restart
  BY <1>5, RestartStep
<1>6. ASSUME NEW interval \in PastIntervals, BatchRead(interval)
      PROVE  IndInv'
  BY <1>6, BatchReadStep
<1>7. CASE BatchWrite
  BY <1>7, BatchWriteStep
<1>8. CASE UNCHANGED vars
  <2>1. TypeOK'
    BY <1>8 DEF IndInv, TypeOK, vars
  <2>2. TransactionIsLocked'
    BY <1>8 DEF IndInv, TransactionIsLocked, vars
  <2>3. DayAssignment' /\ (tx # NoTx => DayAssignmentIn(tx.db))'
    BY <1>8 DEF IndInv, DayAssignment, DayAssignmentIn, vars
  <2> QED
    BY <2>1, <2>2, <2>3 DEF IndInv
<1> QED
  BY <1>1, <1>2, <1>3, <1>4, <1>5, <1>6, <1>7, <1>8 DEF Next

(* The strengthened invariant holds in every reachable state. *)
THEOREM Invariance == Spec => []IndInv
<1> QED
  BY InitIndInv, NextIndInv, PTL DEF Spec

(* Tables, transaction, caches and requests have their types, for requests of *)
(* any length and any number of activities.                                   *)
THEOREM Types == Spec => []TypeOK
<1>1. IndInv => TypeOK
  BY DEF IndInv
<1> QED
  BY <1>1, Invariance, PTL

(* A transaction on the user's tables is open exactly while the lock is held, *)
(* by the thread whose request it is: the try with the lock in analyze gives  *)
(* it back on success, on rejection, on rollback and at a restart.            *)
THEOREM TransactionsAreLocked == Spec => []TransactionIsLocked
<1>1. IndInv => TransactionIsLocked
  BY DEF IndInv
<1> QED
  BY <1>1, Invariance, PTL

(* Every activity is on the day it starts on, of a day and week that exist,   *)
(* and ends less than the minimum duration after that day, whatever is        *)
(* combined with what: also in the cases in which the engine takes the wrong  *)
(* last activity.                                                             *)
THEOREM ActivitiesAreOnTheirDay == Spec => []DayAssignment
<1>1. IndInv => DayAssignment
  BY DEF IndInv
<1> QED
  BY <1>1, Invariance, PTL

-----------------------------------------------------------------------------
(* The rows after a change.                                                *)

(* The rows after addActivity: the old ones and the new one. *)
LEMMA WithActivityRows ==
  ASSUME NEW d, Tables(d), NEW p \in Payload, ~IsCrossDay(p)
  PROVE  LET added == WithActivity(d, p)
         IN /\ Len(added.activities) = Len(d.activities) + 1
            /\ \A i \in 1..Len(d.activities) : added.activities[i] = d.activities[i]
            /\ added.activities[Len(d.activities) + 1] = NewActivity(p)
            /\ added.conflicts = d.conflicts
<1>1. d \in Database
  BY DEF Tables
<1>2. /\ WithActivity(d, p).activities = Append(d.activities, NewActivity(p))
      /\ WithActivity(d, p).conflicts = d.conflicts
  BY <1>1 DEF WithActivity, WithDay, Database
<1>3. NewActivity(p) \in Activity /\ d.activities \in Seq(Activity)
  BY RowFacts, NewActivityFacts
<1> QED
  BY <1>2, <1>3, AppendProperties

(* The row a payload stretches, and the rows it leaves alone. *)
LEMMA WithStretchedRows ==
  ASSUME NEW d, Tables(d), NEW p \in Payload, NEW against, NEW i \in 1..Len(d.activities)
  PROVE  LET changed == WithStretched(d, i, p, against)
         IN /\ Len(changed.activities) = Len(d.activities)
            /\ \A j \in 1..Len(d.activities) :
                 changed.activities[j] = IF j = i THEN Stretched(d.activities[i], p, against)
                                                  ELSE d.activities[j]
            /\ changed.conflicts = d.conflicts
<1> DEFINE a == Stretched(d.activities[i], p, against)
<1>1. d \in Database /\ d.activities \in Seq(Activity)
  BY RowFacts DEF Tables
<1>2. /\ WithStretched(d, i, p, against).activities = [d.activities EXCEPT ![i] = a]
      /\ WithStretched(d, i, p, against).conflicts = d.conflicts
  BY <1>1 DEF WithStretched, Database
<1>3. a \in Activity
  <2>1. d.activities[i] \in Activity
    BY RowFacts
  <2> QED
    BY <2>1 DEF Stretched, Activity, Payload
<1> HIDE DEF a
<1>4. /\ Len([d.activities EXCEPT ![i] = a]) = Len(d.activities)
      /\ \A j \in 1..Len(d.activities) :
           [d.activities EXCEPT ![i] = a][j] = IF j = i THEN a ELSE d.activities[j]
  BY <1>1, <1>3, ExceptSeq
<1> QED
  BY <1>2, <1>4 DEF a

-----------------------------------------------------------------------------
(* Aggregates.                                                             *)

\* Only the spans of one day differ.
KeepsOtherDays(d, e, day) ==
  \A other : other # day => SpansOn(e, other) = SpansOn(d, other)

(* The same rows give the same spans. *)
LEMMA SameRowsSameSpans ==
  ASSUME NEW d, NEW e, e.activities = d.activities
  PROVE  \A interval : SpansIn(e, interval) = SpansIn(d, interval)
  BY DEF SpansIn, SpansOn

(* A new activity changes the spans of its own day only. *)
LEMMA WithActivityKeepsOtherDays ==
  ASSUME NEW d, Tables(d), NEW p \in Payload, ~IsCrossDay(p)
  PROVE  KeepsOtherDays(d, WithActivity(d, p), DayOf(p.start))
<1> DEFINE rows == d.activities
           after == WithActivity(d, p).activities
<1> SUFFICES ASSUME NEW other, other # DayOf(p.start)
             PROVE  SpansOn(WithActivity(d, p), other) = SpansOn(d, other)
  BY DEF KeepsOtherDays
<1>1. /\ Len(after) = Len(rows) + 1
      /\ \A i \in 1..Len(rows) : after[i] = rows[i]
      /\ after[Len(rows) + 1].day = DayOf(p.start)
      /\ Len(rows) \in Nat
  BY WithActivityRows, NewActivityFacts, RowFacts
<1>2. {j \in 1..Len(after) : after[j].day = other} = {j \in 1..Len(rows) : rows[j].day = other}
  BY <1>1
<1> QED
  BY <1>1, <1>2 DEF SpansOn

(* A row of the payload's day is moved within that day, and not at all when the *)
(* payload does not exceed what it is held against: the condition on which the  *)
(* aggregates are reset.                                                        *)
LEMMA WithStretchedKeepsOtherDays ==
  ASSUME NEW d, Tables(d), NEW p \in Payload, NEW dev,
         NEW i \in OnDay(d, dev, DayOf(p.start)), NEW against
  PROVE  /\ KeepsOtherDays(d, WithStretched(d, i, p, against), DayOf(p.start))
         /\ ~Exceeds(p, against) =>
              \A interval :
                SpansIn(WithStretched(d, i, p, against), interval) = SpansIn(d, interval)
<1> DEFINE rows == d.activities
           changed == WithStretched(d, i, p, against)
           after == changed.activities
           a == Stretched(rows[i], p, against)
<1>1. i \in 1..Len(rows) /\ rows[i].day = DayOf(p.start)
  BY DEF OnDay
<1>2. /\ Len(after) = Len(rows)
      /\ \A j \in 1..Len(rows) : after[j] = IF j = i THEN a ELSE rows[j]
  BY <1>1, WithStretchedRows
<1>3. rows[i] \in Activity
  BY <1>1, RowFacts
<1>4. a.day = rows[i].day
  BY <1>3 DEF Stretched, Activity
<1>5. KeepsOtherDays(d, changed, DayOf(p.start))
  <2> SUFFICES ASSUME NEW other, other # DayOf(p.start)
               PROVE  SpansOn(changed, other) = SpansOn(d, other)
    BY DEF KeepsOtherDays
  <2> HIDE DEF changed, a
  <2>1. /\ {j \in 1..Len(after) : after[j].day = other} = {j \in 1..Len(rows) : rows[j].day = other}
        /\ \A j \in {k \in 1..Len(rows) : rows[k].day = other} : after[j] = rows[j]
    BY <1>1, <1>2, <1>4
  <2> QED
    BY <2>1 DEF SpansOn
<1>6. ASSUME ~Exceeds(p, against)
      PROVE  \A interval : SpansIn(changed, interval) = SpansIn(d, interval)
  <2>1. a.start = rows[i].start /\ a.end = rows[i].end
    BY <1>3, <1>6 DEF Exceeds, Stretched, Activity
  <2> HIDE DEF changed, a
  <2>2. \A day : SpansOn(changed, day) = SpansOn(d, day)
    <3> SUFFICES ASSUME NEW day PROVE SpansOn(changed, day) = SpansOn(d, day)
      OBVIOUS
    <3>1. /\ {j \in 1..Len(after) : after[j].day = day} = {j \in 1..Len(rows) : rows[j].day = day}
          /\ \A j \in 1..Len(rows) : after[j].start = rows[j].start /\ after[j].end = rows[j].end
      BY <1>1, <1>2, <1>4, <2>1
    <3> QED
      BY <3>1 DEF SpansOn
  <2> QED
    BY <2>2 DEF SpansIn
<1> QED
  BY <1>5, <1>6

(* Integers between consecutive multiples have the multiple as quotient. *)
LEMMA QuotientIsUnique ==
  ASSUME NEW n \in Nat, NEW w \in Nat, NEW d \in Nat \ {0},
         w * d <= n, n <= w * d + d - 1
  PROVE  n \div d = w
<1> DEFINE q == n \div d
<1>1. q \in Nat /\ q * d <= n /\ n < q * d + d
  BY Division
<1> HIDE DEF q
<1>2. ASSUME q < w PROVE FALSE
  <2>1. (q + 1) * d <= w * d
    BY <1>1, <1>2
  <2>2. (q + 1) * d = q * d + d
    BY <1>1
  <2> QED
    BY <1>1, <2>1, <2>2
<1>3. ASSUME w < q PROVE FALSE
  <2>1. (w + 1) * d <= q * d
    BY <1>1, <1>3
  <2>2. (w + 1) * d = w * d + d
    OBVIOUS
  <2> QED
    BY <1>1, <2>1, <2>2
<1>4. q = w
  BY <1>1, <1>2, <1>3
<1> QED
  BY <1>4 DEF q

(* A day is in no other intervals than itself and its week. *)
LEMMA OnlyIntervalsOfDay ==
  ASSUME NEW interval \in Interval, NEW day \in DaysOf(interval)
  PROVE  /\ day \in Nat
         /\ interval \in IntervalsOf(day)
<1> DEFINE date == interval.date
           first == date * DaysPerWeek
<1>1. date \in Nat /\ DaysPerWeek \in Nat \ {0} /\ interval.kind \in {"day", "week"}
  BY ActivityStoreAssumption DEF Interval
<1>2. CASE interval.kind = "day"
  <2>1. day = date
    BY <1>2 DEF DaysOf
  <2>2. interval = DayInterval(day)
    BY <1>2, <2>1 DEF DayInterval, Interval
  <2> QED
    BY <1>1, <2>1, <2>2 DEF IntervalsOf
<1>3. CASE interval.kind = "week"
  <2>1. day \in first .. first + DaysPerWeek - 1
    BY <1>3 DEF DaysOf
  <2>2. first \in Nat
    BY <1>1
  <2>3. day \in Nat /\ first <= day /\ day <= first + DaysPerWeek - 1
    BY <1>1, <2>1, <2>2
  <2>4. WeekOf(day) = date
    BY <1>1, <2>3, QuotientIsUnique DEF WeekOf
  <2>5. interval = WeekInterval(WeekOf(day))
    BY <1>3, <2>4 DEF WeekInterval, Interval
  <2> QED
    BY <2>3, <2>5 DEF IntervalsOf
<1> QED
  BY <1>1, <1>2, <1>3

(* A change of one day leaves the spans of the other intervals. *)
LEMMA OtherIntervalsKeepSpans ==
  ASSUME NEW d, NEW e, NEW day, KeepsOtherDays(d, e, day),
         NEW interval \in Interval, interval \notin IntervalsOf(day)
  PROVE  SpansIn(e, interval) = SpansIn(d, interval)
<1>1. \A other \in DaysOf(interval) : other # day
  BY OnlyIntervalsOfDay
<1> QED
  BY <1>1 DEF SpansIn, KeepsOtherDays

\* What keeps the aggregates of the past fresh, but for those the job had in hand
\* beside a transaction: a transaction that changes the spans of an aggregated
\* interval resets it, and what the job has in hand is what the tables hold.
AggregatesAreKept ==
  /\ AggregatesFresh
  /\ tx # NoTx =>
       \A i \in PastIntervals :
         \/ aggregates[i] = NotAggregated
         \/ i \in raced
         \/ i \in tx.resets
         \/ SpansIn(tx.db, i) = SpansIn(db, i)
  /\ job # NoJob /\ job.interval \notin raced =>
       tx = NoTx /\ job.seen = SpansIn(db, job.interval)

(* A transaction starts with the rows there are, and beside what the job has in *)
(* hand.                                                                        *)
LEMMA StartKeepsAggregates ==
  ASSUME IndInv, AggregatesAreKept, NEW t, NEW d, d.activities = db.activities,
         NEW resets, NEW hasFetched, StartsTransaction(t, d, resets, hasFetched)
  PROVE  AggregatesAreKept'
<1>1. /\ tx'.db = d /\ raced \subseteq raced'
      /\ job # NoJob => job.interval \in raced'
      /\ UNCHANGED <<db, aggregates, job>>
  BY DEF StartsTransaction
<1>2. \A i : SpansIn(tx.db, i)' = SpansIn(db, i)'
  BY <1>1, SameRowsSameSpans
<1>3. AggregatesFresh'
  BY <1>1 DEF AggregatesAreKept, AggregatesFresh, SpansIn, SpansOn
<1> QED
  BY <1>1, <1>2, <1>3 DEF AggregatesAreKept

(* The front payload changes spans of its own day, and then resets that day and *)
(* its week, or changes none.                                                   *)
LEMMA RegistersKeepsAggregates ==
  ASSUME IndInv, AggregatesAreKept, NEW t \in Threads, IsRegistering(t),
         NEW changed, NEW hasReset, Registers(t, changed, hasReset),
         KeepsOtherDays(tx.db, changed, DayOf(Front(t).start)),
         hasReset \/ \A interval : SpansIn(changed, interval) = SpansIn(tx.db, interval)
  PROVE  AggregatesAreKept'
<1> DEFINE day == DayOf(Front(t).start)
<1>1. /\ tx'.db = changed
      /\ tx'.resets = IF hasReset THEN ResetsWith(day) ELSE tx.resets
      /\ UNCHANGED <<db, aggregates, job, raced>>
  BY DEF Registers
<1>2. tx # NoTx
  BY HolderFacts DEF IsRegistering
<1>3. AggregatesFresh'
  BY <1>1 DEF AggregatesAreKept, AggregatesFresh, SpansIn, SpansOn
<1>4. ASSUME NEW i \in PastIntervals, aggregates[i] # NotAggregated, i \notin raced,
             i \notin tx'.resets
      PROVE  SpansIn(changed, i) = SpansIn(db, i)
  <2>1. i \notin tx.resets
    BY <1>1, <1>4 DEF ResetsWith
  <2>2. SpansIn(tx.db, i) = SpansIn(db, i)
    BY <1>2, <1>4, <2>1 DEF AggregatesAreKept
  <2>3. SpansIn(changed, i) = SpansIn(tx.db, i)
    <3>1. CASE ~hasReset
      BY <3>1
    <3>2. CASE hasReset
      <4>1. i \notin IntervalsOf(day)
        BY <1>1, <1>4, <3>2 DEF ResetsWith, AggregatedAmong
      <4>2. i \in Interval
        BY AnalysisEngineAssumption
      <4> QED
        BY <4>1, <4>2, OtherIntervalsKeepSpans
    <3> QED
      BY <3>1, <3>2
  <2> QED
    BY <2>2, <2>3
<1>5. \A i : SpansIn(tx.db, i)' = SpansIn(changed, i) /\ SpansIn(db, i)' = SpansIn(db, i)
  BY <1>1 DEF SpansIn, SpansOn
<1> QED
  BY <1>1, <1>2, <1>3, <1>4, <1>5 DEF AggregatesAreKept

(* The tables, the aggregates and the job stay, and the transaction does or ends. *)
LEMMA OtherStepKeepsAggregates ==
  ASSUME AggregatesAreKept, UNCHANGED <<db, aggregates, job, raced>>, tx' = tx \/ tx' = NoTx
  PROVE  AggregatesAreKept'
<1>1. AggregatesFresh'
  BY DEF AggregatesAreKept, AggregatesFresh, SpansIn, SpansOn
<1>2. \A i : SpansIn(db, i)' = SpansIn(db, i)
  BY DEF SpansIn, SpansOn
<1>3. job' # NoJob /\ job'.interval \notin raced' =>
        tx' = NoTx /\ job'.seen = SpansIn(db, job.interval)'
  BY <1>2 DEF AggregatesAreKept
<1>4. ASSUME tx' # NoTx
      PROVE  \A i \in PastIntervals :
               \/ aggregates'[i] = NotAggregated
               \/ i \in raced'
               \/ i \in tx'.resets
               \/ SpansIn(tx.db, i)' = SpansIn(db, i)'
  <2>1. tx' = tx
    BY <1>4
  <2>2. \A i : SpansIn(tx.db, i)' = SpansIn(tx.db, i)
    BY <2>1 DEF SpansIn, SpansOn
  <2> QED
    BY <1>2, <1>4, <2>1, <2>2 DEF AggregatesAreKept
<1> QED
  BY <1>1, <1>3, <1>4 DEF AggregatesAreKept

(* A stretched row outdates the aggregates of its day and week. *)
LEMMA ExtendExistingKeepsAggregates ==
  ASSUME IndInv, AggregatesAreKept, NEW t \in Threads, ExtendExisting(t)
  PROVE  AggregatesAreKept'
<1> DEFINE p == Front(t)
<1>1. IsRegistering(t) /\ p \in Payload /\ Tables(tx.db)
  BY DecidingFacts DEF ExtendExisting
<1>2. PICK i \in OverlappingSameApp(tx.db, p) :
        Registers(t, WithStretched(tx.db, i, p, tx.db.activities[i]),
                  Exceeds(p, tx.db.activities[i]))
  BY DEF ExtendExisting
<1>3. i \in OnDay(tx.db, p.dev, DayOf(p.start))
  BY LookupsAreOnDay
<1> DEFINE changed == WithStretched(tx.db, i, p, tx.db.activities[i])
<1>4. /\ KeepsOtherDays(tx.db, changed, DayOf(p.start))
      /\ ~Exceeds(p, tx.db.activities[i]) =>
           \A interval : SpansIn(changed, interval) = SpansIn(tx.db, interval)
  BY <1>1, <1>3, WithStretchedKeepsOtherDays
<1> HIDE DEF p
<1> QED
  BY <1>1, <1>2, <1>4, RegistersKeepsAggregates DEF p

(* So does the last row, when it is stretched. *)
LEMMA ExtendLastKeepsAggregates ==
  ASSUME IndInv, AggregatesAreKept, NEW t \in Threads, ExtendLast(t)
  PROVE  AggregatesAreKept'
<1> DEFINE p == Front(t)
<1>1. IsRegistering(t) /\ p \in Payload /\ Tables(tx.db)
  BY DecidingFacts DEF ExtendLast
<1>2. PICK i \in LastActivity(tx.db, p.dev, DayOf(p.start)) :
        Registers(t, WithStretched(tx.db, i, p, LastOf(t)), Exceeds(p, LastOf(t)))
  BY DEF ExtendLast
<1>3. i \in OnDay(tx.db, p.dev, DayOf(p.start))
  BY LookupsAreOnDay
<1> DEFINE changed == WithStretched(tx.db, i, p, LastOf(t))
<1>4. /\ KeepsOtherDays(tx.db, changed, DayOf(p.start))
      /\ ~Exceeds(p, LastOf(t)) =>
           \A interval : SpansIn(changed, interval) = SpansIn(tx.db, interval)
  BY <1>1, <1>3, WithStretchedKeepsOtherDays
<1> QED
  BY <1>1, <1>2, <1>4, RegistersKeepsAggregates

(* So does a new row. *)
LEMMA AddKeepsAggregates ==
  ASSUME IndInv, AggregatesAreKept, NEW t \in Threads, Add(t)
  PROVE  AggregatesAreKept'
<1> DEFINE p == Front(t)
           added == WithActivity(tx.db, p)
           changed == IF IsNoGoGoal /\ IsNewConflict(p, LastOf(t))
                      THEN WithConflict(added, p) ELSE added
<1>1. IsRegistering(t) /\ p \in Payload /\ ~IsCrossDay(p) /\ Tables(tx.db)
  BY DecidingFacts DEF Add
<1>2. KeepsOtherDays(tx.db, added, DayOf(p.start))
  BY <1>1, WithActivityKeepsOtherDays
<1>3. changed.activities = added.activities
  <2>1. added \in Database
    BY <1>1, WithActivityTables DEF Tables
  <2> QED
    BY <2>1 DEF WithConflict, Database
<1>4. Registers(t, changed, TRUE)
  BY DEF Add
<1> HIDE DEF p, added, changed
<1>5. KeepsOtherDays(tx.db, changed, DayOf(p.start))
  <2>1. \A day : SpansOn(changed, day) = SpansOn(added, day)
    BY <1>3 DEF SpansOn
  <2> QED
    BY <1>2, <2>1 DEF KeepsOtherDays
<1> QED
  BY <1>1, <1>4, <1>5, RegistersKeepsAggregates DEF p

(* What is committed has the spans the aggregates that stay were computed from. *)
LEMMA CommitKeepsAggregates ==
  ASSUME IndInv, AggregatesAreKept, NEW t \in Threads, Commit(t)
  PROVE  AggregatesAreKept'
<1>1. tx # NoTx
  BY HolderFacts DEF Commit
<1>2. /\ db' = tx.db /\ tx' = NoTx /\ UNCHANGED <<job, raced>>
      /\ aggregates' = [i \in PastIntervals |->
                          IF i \in tx.resets THEN NotAggregated ELSE aggregates[i]]
  BY DEF Commit, EndsTransaction
<1>3. \A i : SpansIn(db, i)' = SpansIn(tx.db, i)
  BY <1>2 DEF SpansIn, SpansOn
<1>4. AggregatesFresh'
  BY <1>1, <1>2, <1>3 DEF AggregatesAreKept, AggregatesFresh
<1> QED
  BY <1>1, <1>2, <1>4 DEF AggregatesAreKept

(* The job reads what the tables hold: directly, or from fresh aggregates. *)
LEMMA SeenIsFresh ==
  ASSUME AggregatesFresh, NEW interval \in PastIntervals, ~AddsUpRacedDays(interval)
  PROVE  SeenBy(interval) = SpansIn(db, interval)
<1>1. CASE interval.kind = "day"
  BY <1>1 DEF SeenBy
<1>2. CASE interval.kind # "day"
  <2>1. interval.kind = "week"
    BY <1>2, AnalysisEngineAssumption DEF Interval
  <2>2. \A day \in DaysOf(interval) : DayInterval(day) \in PastIntervals
    BY <2>1, AnalysisEngineAssumption
  <2>3. \A day : SpansIn(db, DayInterval(day)) = SpansOn(db, day)
    BY DEF SpansIn, DayInterval, DaysOf
  <2>4. \A day \in DaysOf(interval) :
          (IF aggregates[DayInterval(day)] = NotAggregated
           THEN SpansOn(db, day) ELSE aggregates[DayInterval(day)]) = SpansOn(db, day)
    BY <2>2, <2>3 DEF AggregatesFresh, AddsUpRacedDays
  <2> QED
    BY <1>2, <2>4 DEF SeenBy, SpansIn
<1> QED
  BY <1>1, <1>2

(* The job reads: no transaction is open, or what it reads counts as raced. *)
LEMMA BatchReadKeepsAggregates ==
  ASSUME IndInv, AggregatesAreKept, NEW interval \in PastIntervals, BatchRead(interval)
  PROVE  AggregatesAreKept'
<1>1. /\ UNCHANGED <<db, aggregates, tx>> /\ aggregates[interval] = NotAggregated
      /\ job'.interval = interval /\ job'.seen = SeenBy(interval)
      /\ raced \subseteq raced' \cup {interval}
  BY DEF BatchRead
<1>2. /\ \A i : SpansIn(db, i)' = SpansIn(db, i)
      /\ \A i : SpansIn(tx.db, i)' = SpansIn(tx.db, i)
  BY <1>1 DEF SpansIn, SpansOn
<1>3. AggregatesFresh'
  BY <1>1, <1>2 DEF AggregatesAreKept, AggregatesFresh
<1>4. tx' # NoTx =>
        \A i \in PastIntervals :
          \/ aggregates'[i] = NotAggregated
          \/ i \in raced'
          \/ i \in tx'.resets
          \/ SpansIn(tx.db, i)' = SpansIn(db, i)'
  BY <1>1, <1>2 DEF AggregatesAreKept
<1>5. ASSUME interval \notin raced'
      PROVE  tx' = NoTx /\ SeenBy(interval) = SpansIn(db, interval)
  <2>1. tx = NoTx /\ ~AddsUpRacedDays(interval)
    BY <1>5 DEF BatchRead
  <2> QED
    BY <1>1, <2>1, SeenIsFresh DEF AggregatesAreKept
<1> QED
  BY <1>1, <1>2, <1>3, <1>4, <1>5 DEF AggregatesAreKept

(* The job stores what it read, and nothing changed since if no transaction was open. *)
LEMMA BatchWriteKeepsAggregates ==
  ASSUME IndInv, AggregatesAreKept, BatchWrite
  PROVE  AggregatesAreKept'
<1>1. /\ UNCHANGED <<db, tx, raced>> /\ job' = NoJob /\ job # NoJob
      /\ job.interval \in PastIntervals
      /\ aggregates' = [aggregates EXCEPT ![job.interval] = job.seen]
  BY DEF BatchWrite, IndInv, TypeOK
<1>2. /\ \A i : SpansIn(db, i)' = SpansIn(db, i)
      /\ \A i : SpansIn(tx.db, i)' = SpansIn(tx.db, i)
  BY <1>1 DEF SpansIn, SpansOn
<1>3. \A i \in PastIntervals :
        aggregates'[i] = IF i = job.interval THEN job.seen ELSE aggregates[i]
  BY <1>1 DEF IndInv, TypeOK
<1>4. job.interval \in raced \/ (tx = NoTx /\ job.seen = SpansIn(db, job.interval))
  BY <1>1 DEF AggregatesAreKept
<1>5. AggregatesFresh'
  BY <1>1, <1>2, <1>3, <1>4 DEF AggregatesAreKept, AggregatesFresh
<1>6. tx' # NoTx =>
        \A i \in PastIntervals :
          \/ aggregates'[i] = NotAggregated
          \/ i \in raced'
          \/ i \in tx'.resets
          \/ SpansIn(tx.db, i)' = SpansIn(db, i)'
  BY <1>1, <1>2, <1>3, <1>4 DEF AggregatesAreKept
<1> QED
  BY <1>1, <1>5, <1>6 DEF AggregatesAreKept

(* Every step keeps the aggregates right. *)
LEMMA NextKeepsAggregates ==
  ASSUME IndInv, AggregatesAreKept, [Next]_vars
  PROVE  AggregatesAreKept'
<1>1. ASSUME NEW t \in Threads,
             \/ \E payloads \in Requests : Receive(t, payloads)
             \/ \E intervals \in InactivityRequests : ReceiveInactivity(t, intervals)
      PROVE  AggregatesAreKept'
  <2>1. MayReceive(t)
    BY <1>1, Zenon DEF Receive, ReceiveInactivity
  <2> QED
    BY <2>1, OtherStepKeepsAggregates DEF MayReceive
<1>2. ASSUME NEW t \in Threads, Begin(t)
      PROVE  AggregatesAreKept'
  <2> DEFINE r == request[t]
             date == DayOf(LastEnd(r.payloads))
             d == IF HasNewMonitoredDate(r)
                  THEN WithMonitoredDate(db, r.payloads[1].dev, date) ELSE db
  <2>1. d.activities = db.activities
    BY DEF IndInv, TypeOK, Database, WithMonitoredDate
  <2>2. StartsTransaction(t, d, {}, HasNewMonitoredDate(r))
    BY <1>2 DEF Begin
  <2> HIDE DEF d, r
  <2> QED
    BY <2>1, <2>2, StartKeepsAggregates
<1>3. ASSUME NEW t \in Threads, BeginInactivity(t)
      PROVE  AggregatesAreKept'
  <2> DEFINE inactive == request[t].inactive
             days == {i.date : i \in {j \in inactive : j.kind = "day"}}
             weeks == {i.date : i \in {j \in inactive : j.kind = "week"}}
                        \cup {WeekOf(day) : day \in days}
             d == [db EXCEPT !.days = @ \cup days, !.weeks = @ \cup weeks]
             resets == AggregatedAmong({WeekInterval(WeekOf(day)) : day \in days \ db.days})
  <2>1. StartsTransaction(t, d, resets, FALSE)
    BY <1>3 DEF BeginInactivity
  <2> HIDE DEF days, weeks, resets
  <2>2. d.activities = db.activities
    BY DEF IndInv, TypeOK, Database
  <2> HIDE DEF d
  <2> QED
    BY <2>1, <2>2, StartKeepsAggregates
<1>4. ASSUME NEW t \in Threads,
             \/ SplitCrossDay(t) \/ FetchLast(t) \/ Skip(t) \/ RejectCombination(t)
             \/ Save(t) \/ TransactionFails(t)
      PROVE  AggregatesAreKept'
  BY <1>4, OtherStepKeepsAggregates
     DEF SplitCrossDay, FetchLast, Skip, RejectCombination, Save, TransactionFails,
         Rollback, EndsTransaction
<1>5. ASSUME NEW t \in Threads, ExtendExisting(t) \/ ExtendLast(t) \/ Add(t) \/ Commit(t)
      PROVE  AggregatesAreKept'
  BY <1>5, ExtendExistingKeepsAggregates, ExtendLastKeepsAggregates, AddKeepsAggregates,
     CommitKeepsAggregates
<1>6. CASE Restart
  BY <1>6, OtherStepKeepsAggregates DEF Restart
<1>7. CASE BatchWrite \/ \E interval \in PastIntervals : BatchRead(interval)
  BY <1>7, BatchReadKeepsAggregates, BatchWriteKeepsAggregates
<1>8. CASE UNCHANGED vars
  BY <1>8, OtherStepKeepsAggregates DEF vars
<1> QED
  BY <1>1, <1>2, <1>3, <1>4, <1>5, <1>6, <1>7, <1>8 DEF Next, Works

(* Whenever the aggregation job works beside requests, aggregates that count as *)
(* computed are those of the activities there are, but for the intervals it had *)
(* in hand beside a transaction, and the weeks that add those up: every change  *)
(* of a past day resets the day and its week, and a change that resets nothing  *)
(* changes nothing.  The exception is needed: the job may overwrite a reset.    *)
THEOREM AggregatesStayFresh == Spec => []AggregatesFresh
<1>1. Init => AggregatesAreKept
  BY DEF Init, AggregatesAreKept, AggregatesFresh
<1>2. IndInv /\ AggregatesAreKept /\ [Next]_vars => AggregatesAreKept'
  BY NextKeepsAggregates
<1>3. AggregatesAreKept => AggregatesFresh
  BY DEF AggregatesAreKept
<1> QED
  BY <1>1, <1>2, <1>3, Invariance, PTL DEF Spec
=============================================================================
