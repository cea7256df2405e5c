-------------------------- MODULE MCAnalysisEngine --------------------------
(***************************************************************************)
(* Requests for model checking AnalysisEngine: days of eight ticks, weeks  *)
(* of two days, two days.  App activity is at even ticks and network       *)
(* activity at odd ones, unless the set says otherwise, so that activities *)
(* of different apps do not end at the same time.                          *)
(***************************************************************************)
EXTENDS AnalysisEngine

P(dev, app, start, end) == [dev |-> dev, app |-> app, start |-> start, end |-> end]

\* The payloads that start and end at the given ticks.
Within(dev, app, ticks) ==
  {p \in {P(dev, app, s, e) : s, e \in ticks} : p.start <= p.end}

Single(payloads) == {<<p>> : p \in payloads}

Dev == CHOOSE dev \in Devices : TRUE

EvenOf(day) == {day * DayLength + 2 * k : k \in 0..(DayLength \div 2 - 1)}
OddOf(day) == {tick + 1 : tick \in EvenOf(day)}

AppActivity == UNION {Within(Dev, app, EvenOf(day)) : app \in Apps, day \in 0..1}
NetworkActivity == {P(Dev, NoApp, tick, tick) : tick \in OddOf(0) \cup OddOf(1)}

\* Any single activity within a day.
DayRequests == Single(AppActivity \cup NetworkActivity)

\* App activity in the three ticks before midnight and the four from midnight.
MidnightRequests == Single(Within(Dev, CHOOSE a \in Apps : TRUE, 5..11))

\* A few requests of each device, one of them a list and one of the second day.
FewRequests ==
  UNION {{<<P(dev, app, 2, 4), P(dev, app, 4, 6)>>, <<P(dev, app, 0, 2)>>,
          <<P(dev, app, 8, 10)>>} : dev \in Devices, app \in Apps}

AllIntervals == {DayInterval(0), DayInterval(1), WeekInterval(0)}

\* An overview of today, and one of the week and both of its days.
InactivityOverviews == {{DayInterval(1)}, AllIntervals}
=============================================================================
