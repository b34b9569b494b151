----------------------------- MODULE ReportSeries -----------------------------
(***************************************************************************)
(* What time the reports of one request tell of: the calendar range of     *)
(* their energy figures, the window of their alerts, when their job is     *)
(* due, and the reference date that one occurrence hands to the next.      *)
(* Rows, jobs and failures are those of ReportPipeline; a late attempt is  *)
(* one that starts after its job is due.                                   *)
(*                                                                         *)
(* Times are moments from a Monday that begins a month, in the zone of the *)
(* process; days, weeks and months have the lengths of the instance.       *)
(***************************************************************************)
EXTENDS Integers, Sequences, FiniteSets, FiniteSetsExt

CONSTANTS
  DayLen,            \* moments in a day
  WeekLen,           \* days in a week
  MonthStarts,       \* the days on which a month begins
  MonthSpan,         \* days of a month for getReportSpanDays (30)
  LastMoment,        \* bound: the clock
  MaxAlerts, MaxReports,   \* bounds: alerts of the user, occurrences
  None

VARIABLES
  now,
  alerts,            \* when the user's alerts were created
  reports            \* the occurrences of the request, in order

vars == <<now, alerts, reports>>

Init == now = 0 /\ alerts = {} /\ reports = <<>>

-----------------------------------------------------------------------------
DayOf(t) == t \div DayLen
Days(from, to) == [from |-> from * DayLen, to |-> to * DayLen]

\* The calendar week or month of a moment, from midnight to midnight.
PeriodRange(period, t) ==
  LET monday == DayOf(t) - (DayOf(t) % WeekLen) IN
  IF period = "weekly" THEN Days(monday, monday + WeekLen)
  ELSE Days(Max({d \in MonthStarts : d <= DayOf(t)}), Min({d \in MonthStarts : d > DayOf(t)}))

\* What the energy figures of a report cover.
RangeOf(r) ==
  IF r.period = "custom" THEN [from |-> r.reference, to |-> r.until]
  ELSE PeriodRange(r.period, r.reference)

SpanDays(period) == IF period = "weekly" THEN WeekLen ELSE MonthSpan

\* What its alert figures cover: as many days as the period has, from the reference.
AlertWindow(r) ==
  [from |-> r.reference,
   to |-> IF r.period = "custom" THEN r.until ELSE r.reference + SpanDays(r.period) * DayLen]

\* Between takes both of its ends.
AlertsIn(window) == {a \in alerts : window.from <= a /\ a <= window.to}

\* The delay of the job: until the range is over, or none.
Delay(r) == Max({RangeOf(r).to - now, 0})

Enqueued(r) == [r EXCEPT !.due = now + Delay(r)]

\* A start date comes with an end date after it, and with no recurrence.
ValidDates(period, reference, until, recurring) ==
  IF period = "custom" THEN until # None /\ reference < until /\ ~recurring
  ELSE until = None

-----------------------------------------------------------------------------
NewReport(period, reference, until, recurring) ==
  [period |-> period, reference |-> reference, until |-> until, recurring |-> recurring,
   due |-> None, counted |-> {}, read |-> None, delivered |-> None]

\* The reference may be past or to come, but not before the inverter.
Request(period, reference, until, recurring) ==
  /\ reports = <<>>
  /\ ValidDates(period, reference, until, recurring)
  /\ reports' = <<Enqueued(NewReport(period, reference, until, recurring))>>
  /\ UNCHANGED <<now, alerts>>

Current == reports[Len(reports)]
Unfinished == Len(reports) > 0 /\ Current.delivered = None

\* An attempt computes the figures; an attempt that fails is made again.
Compute ==
  /\ Unfinished /\ now >= Current.due
  /\ reports' = [reports EXCEPT ![Len(reports)] =
       [@ EXCEPT !.counted = AlertsIn(AlertWindow(Current)), !.read = now]]
  /\ UNCHANGED <<now, alerts>>

\* Mutant: the next period is counted on from the last one's reference.
NextBySpan(r) == r.reference + SpanDays(r.period) * DayLen
NextReference(r) == now

\* The result is dated once its queries have returned, and that date is the
\* reference of the next occurrence.
Deliver ==
  /\ Unfinished /\ Current.read # None /\ now > Current.read
  /\ Len(reports) < MaxReports
  /\ LET done == [Current EXCEPT !.delivered = now]
         before == SubSeq(reports, 1, Len(reports) - 1)
     IN reports' = IF Current.recurring
          THEN before \o <<done, Enqueued(NewReport(done.period, NextReference(done), None, TRUE))>>
          ELSE Append(before, done)
  /\ UNCHANGED <<now, alerts>>

RaiseAlert ==
  /\ Cardinality(alerts) < MaxAlerts
  /\ alerts' = alerts \cup {now}
  /\ UNCHANGED <<now, reports>>

Tick ==
  /\ now < LastMoment
  /\ now' = now + 1
  /\ UNCHANGED <<alerts, reports>>

Next ==
  \/ \E period \in {"weekly", "monthly", "custom"}, recurring \in BOOLEAN :
       \E reference \in 0 .. LastMoment, until \in (0 .. LastMoment) \cup {None} :
         Request(period, reference, until, recurring)
  \/ Compute \/ Deliver \/ RaiseAlert \/ Tick

Spec == Init /\ [][Next]_vars

-----------------------------------------------------------------------------
Delivered == {i \in DOMAIN reports : reports[i].delivered # None}

\* The reports of a series tell everything once.  A report is computed when the
\* time it tells of is over; no moment is in the energy figures of two occurrences,
\* however late an attempt is and whatever the lengths of the months; no alert is
\* counted by two; and one that was raised in the range of a report, from its
\* reference on, is counted by it, unless it is of the 31st of a month, which
\* getReportSpanDays leaves out (alerts.service.ts:213).
SeriesTellsOnce ==
  /\ \A i \in Delivered : reports[i].read >= RangeOf(reports[i]).to
  /\ \A i, j \in Delivered : i < j => RangeOf(reports[i]).to <= RangeOf(reports[j]).from
  /\ \A i, j \in Delivered : i # j => reports[i].counted \cap reports[j].counted = {}
  /\ \A i \in Delivered, a \in alerts :
       LET r == reports[i] IN
       r.reference <= a /\ a < RangeOf(r).to =>
         \/ a \in r.counted
         \/ r.period = "monthly" /\ a > r.reference + MonthSpan * DayLen
=============================================================================
