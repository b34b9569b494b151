---------------------------- MODULE EnergySavings ----------------------------
(***************************************************************************)
(* The savings, charts and report figures computed from the readings of    *)
(* one inverter.  Times are in hours from the first Monday, midnight UTC;  *)
(* days, weeks and months have the lengths of the instance.  The process   *)
(* computes ranges in its own time zone and groups rows in Lagos time.     *)
(*                                                                         *)
(* Every figure is a whole number of its smallest unit: energy is a sum of *)
(* kW times the polling interval, in 1/600 kWh; the generator's power is   *)
(* in tenths of a kW and its consumption in hundredths of a litre an hour. *)
(***************************************************************************)
EXTENDS Integers, Sequences, FiniteSets, FiniteSetsExt

CONSTANTS
  Brands,
  DayLen,         \* hours in a day
  DaysPerWeek, DaysPerMonth,
  ServerOffset, LagosOffset,   \* hours east of UTC
  Readings,       \* what the poller may read: kW of load and of solar
  Ratings,        \* generator powers that users set
  Prices,         \* fuel prices that users set
  MaxRows,        \* bound: readings
  LastHour,       \* bound: the clock
  None, NaN

VARIABLES
  brand,          \* of the inverter, fixed when it was connected
  rows,           \* inverter_metrics, in the order of their timestamps
  settings,       \* user_settings of the owner, or None
  now

vars == <<brand, rows, settings, now>>

Fuels == {"PMS", "DIESEL"}
NoSettings == None
SettingsType == [fuel: Fuels, rated: Ratings \cup {None}, price: Prices \cup {None}]

Init ==
  /\ brand \in Brands
  /\ rows = <<>>
  /\ settings = NoSettings
  /\ now = 0

\* The poller stores a reading.
Record(r) ==
  /\ Len(rows) < MaxRows
  /\ rows' = Append(rows, [at |-> now, load |-> r.load, solar |-> r.solar])
  /\ UNCHANGED <<brand, settings, now>>

\* The row is created by the first change.
ChangeSettings(s) ==
  /\ settings' = s
  /\ UNCHANGED <<brand, rows, now>>

Tick(d) ==
  /\ now + d <= LastHour
  /\ now' = now + d
  /\ UNCHANGED <<brand, rows, settings>>

Next ==
  \/ \E r \in Readings : Record(r)
  \/ \E s \in SettingsType : ChangeSettings(s)
  \/ \E d \in {1, DayLen} : Tick(d)

Spec == Init /\ [][Next]_vars

-----------------------------------------------------------------------------
(* Rounding, fuel and prices.                                              *)

\* toFixed of n/d, in units of the last digit kept.
Round(n, d) == (2 * n + d) \div (2 * d)

\* Tenfold minutes between two readings.
PollingInterval == CASE brand = "victron" -> 20 [] brand = "sandbox" -> 5 [] OTHER -> 50
PointsPerHour == 600

FuelPrice == [PMS |-> 1350, DIESEL |-> 1950]
Co2 == [PMS |-> 231, DIESEL |-> 268]

ConsumptionTable ==
  [PMS    |-> <<<<10, 60>>, <<20, 90>>, <<30, 130>>, <<50, 200>>, <<75, 280>>, <<100, 350>>>>,
   DIESEL |-> <<<<30, 90>>, <<50, 140>>, <<75, 190>>, <<100, 250>>, <<150, 350>>, <<200, 450>>>>]

\* The first bracket that holds the generator, else the rule of thumb.
ConsumptionRate(fuel, rated) ==
  LET table == ConsumptionTable[fuel]
      holds == {i \in DOMAIN table : rated <= table[i][1]}
  IN IF holds # {} THEN table[Min(holds)][2] ELSE rated * (IF fuel = "DIESEL" THEN 3 ELSE 5)

Fuel == IF settings = NoSettings THEN "PMS" ELSE settings.fuel
Rated == IF settings = NoSettings \/ settings.rated = None THEN 25 ELSE settings.rated
Rate == ConsumptionRate(Fuel, Rated)

\* settings?.customFuelPriceNaira !== null: undefined, without a row, is not null.
Price ==
  IF settings = NoSettings THEN NaN
  ELSE IF settings.price # None THEN settings.price ELSE FuelPrice[Fuel]

\* settings?.customFuelPriceNaira != null, as the reports and the insights ask.
ReportPrice ==
  IF settings # NoSettings /\ settings.price # None THEN settings.price ELSE FuelPrice[Fuel]

\* Litres, naira and kg of CO2 for an energy, to 3, 2 and 3 digits.
Litres(e) == Round(e * Rate, 6 * Rated)
Naira(e, price) == IF price = NaN THEN NaN ELSE Round(e * Rate * price, 60 * Rated)
Kilos(e) == Round(e * Rate * Co2[Fuel], 600 * Rated)

-----------------------------------------------------------------------------
(* Sums over rows.                                                         *)

InRange(from, to) == {i \in DOMAIN rows : rows[i].at >= from /\ rows[i].at < to}
Load(I) == MapThenSumSet(LAMBDA i : rows[i].load * PollingInterval, I)
Solar(I) == MapThenSumSet(LAMBDA i : rows[i].solar * PollingInterval, I)

\* SUM(...) * (50 / 600): both are integers, and PostgreSQL divides them first.
DashboardLoad(I) ==
  MapThenSumSet(LAMBDA i : rows[i].load, I) * (PollingInterval \div PointsPerHour)
DashboardSolar(I) ==
  MapThenSumSet(LAMBDA i : rows[i].solar, I) * (PollingInterval \div PointsPerHour)

\* Mutant: COUNT without DISTINCT.
ReadingsNotHours(I) == Cardinality(I)

\* COUNT(DISTINCT DATE_TRUNC('hour', ...)).
ActiveHours(I) == Cardinality({rows[i].at : i \in I})

\* DATE_TRUNC in Lagos time.
LagosDay(t) == (t + LagosOffset) \div DayLen
Trunc(unit, t) ==
  CASE unit = "hour"  -> t + LagosOffset
    [] unit = "day"   -> LagosDay(t)
    [] unit = "week"  -> LagosDay(t) \div DaysPerWeek
    [] unit = "month" -> LagosDay(t) \div DaysPerMonth

\* GROUP BY: the sets of rows with the same bucket.
Buckets(I, unit) ==
  {{i \in I : Trunc(unit, rows[i].at) = b} : b \in {Trunc(unit, rows[i].at) : i \in I}}

-----------------------------------------------------------------------------
(* Ranges.                                                                 *)

\* setHours(0, 0, 0, 0), in the process's own zone.
LocalDay(t) == (t + ServerOffset) \div DayLen
Midnight(day) == day * DayLen - ServerOffset

PeriodRange(period, t) ==
  LET day == LocalDay(t)
      monday == day - (day % DaysPerWeek)
      first == day - (day % DaysPerMonth)
  IN CASE period = "daily"   -> [from |-> Midnight(day), to |-> Midnight(day + 1), unit |-> "hour"]
       [] period = "weekly"  -> [from |-> Midnight(monday), to |-> Midnight(monday + DaysPerWeek),
                                 unit |-> "day"]
       [] period = "monthly" -> [from |-> Midnight(first), to |-> Midnight(first + DaysPerMonth),
                                 unit |-> "day"]
       [] OTHER              -> [from |-> t - DayLen, to |-> t, unit |-> "hour"]

\* getPeriodConfig: how far back a chart reaches and how it is grouped.
ChartRange(period) ==
  CASE period = "hourly"  -> [back |-> DayLen, unit |-> "hour"]
    [] period = "daily"   -> [back |-> DaysPerWeek * DayLen, unit |-> "day"]
    [] period = "weekly"  -> [back |-> 12 * DaysPerWeek * DayLen, unit |-> "week"]
    [] period = "monthly" -> [back |-> 12 * DaysPerMonth * DayLen, unit |-> "month"]

\* Days of a custom range, rounded up, choose the width of its bars.
SpanDays(from, to) == (to - from + DayLen - 1) \div DayLen
Granularity(days) ==
  CASE days <= 2 -> "hour" [] days > 2 /\ days < 21 -> "day"
    [] days >= 21 /\ days <= 90 -> "week" [] OTHER -> "month"
CustomRange(from, to) == [from |-> from, to |-> to, unit |-> Granularity(SpanDays(from, to))]

\* Both dates are whole days: the end is the midnight after it.
DatesToRange(d1, d2) ==
  CustomRange(Midnight(LocalDay(d1 * DayLen)), Midnight(LocalDay(d2 * DayLen) + 1))

-----------------------------------------------------------------------------
(* What the endpoints return.                                              *)

Bar(I, price) == [rows |-> I, hours |-> ActiveHours(I), energy |-> Round(Load(I) * 5, 3),
                  solar |-> Round(Solar(I) * 5, 3), saved |-> Naira(Load(I), price),
                  litres |-> Litres(Load(I))]

\* Solar over load in tenths of a percent, at most 100 %.
Coverage(I) == IF Load(I) > 0 THEN Min({Round(Solar(I) * 1000, Load(I)), 1000}) ELSE None

\* The body that all four savings endpoints share.
Savings(range, price) ==
  LET I == InRange(range.from, range.to)
      bars == {Bar(b, price) : b \in Buckets(I, range.unit)}
      withData == Cardinality({b \in bars : Load(b.rows) > 0})
      energy == Load(I)
  IN [saved    |-> Naira(energy, price),
      litres   |-> Litres(energy),
      co2      |-> Kilos(energy),
      energy   |-> Round(energy * 5, 3),
      solar    |-> Round(Solar(I) * 5, 3),
      coverage |-> Coverage(I),
      hours    |-> MapThenSumSet(ActiveHours, {b.rows : b \in bars}),
      average  |-> IF price = NaN THEN NaN
                   ELSE Round(energy * Rate * price, 60 * Rated * Max({withData, 1})),
      chart    |-> bars]

PeriodSavings(period, t) == Savings(PeriodRange(period, t), Price)
AgentPeriodSavings(period, t) == Savings(PeriodRange(period, t), Price)

\* The request names two dates; the service wants the one before the other.
CustomSavings(d1, d2) ==
  LET range == DatesToRange(d1, d2)
  IN IF range.from >= range.to THEN None ELSE Savings(range, Price)

\* Mutant: the day after the agent's end date is in the range as well.
AgentCustomInclusive(d1, d2) ==
  LET range == CustomRange(Midnight(LocalDay(d1 * DayLen)), Midnight(LocalDay(d2 * DayLen) + 2))
  IN IF range.from >= range.to THEN None ELSE Savings(range, Price)

AgentCustomSavings(d1, d2) ==
  LET range == DatesToRange(d1, d2)
  IN IF range.from >= range.to THEN None ELSE Savings(range, Price)

\* Monthly figures are rounded first and added then.
Cumulative(price) ==
  LET months == {Bar(b, price) : b \in Buckets(DOMAIN rows, "month")}
      total(f(_)) == MapThenSumSet(f, {b.rows : b \in months})
      litres == total(LAMBDA b : Litres(Load(b)))
      saved == IF price = NaN THEN NaN ELSE total(LAMBDA b : Naira(Load(b), price))
      active == Max({Cardinality(months), 1})
  IN [saved   |-> saved,
      energy  |-> total(LAMBDA b : Round(Load(b) * 5, 3)),
      solar   |-> total(LAMBDA b : Round(Solar(b) * 5, 3)),
      litres  |-> litres,
      co2     |-> Round(litres * Co2[Fuel], 100),
      average |-> IF price = NaN THEN NaN ELSE Round(saved, active),
      chart   |-> months]

CumulativeSavings == Cumulative(Price)

\* The agent's answer has today's savings with it.
AgentCumulative == [cumulative |-> Cumulative(Price), today |-> AgentPeriodSavings("daily", now)]

\* Today and this month in the process's zone; the chart in Lagos time.
Dashboard ==
  LET today == InRange(PeriodRange("daily", now).from, now + 1)
      month == InRange(PeriodRange("monthly", now).from, now + 1)
      week == InRange(now - DaysPerWeek * DayLen, now + 1)
  IN [savedToday |-> Naira(DashboardLoad(today), Price),
      savedThisMonth |-> Naira(DashboardLoad(month), Price),
      history |-> {[rows |-> b, solar |-> DashboardSolar(b)] : b \in Buckets(week, "day")},
      latest |-> IF rows = <<>> THEN None ELSE rows[Len(rows)]]

EnergyUsage(period) ==
  LET range == ChartRange(period)
  IN {[rows |-> b, solar |-> DashboardSolar(b)] :
        b \in Buckets(InRange(now - range.back, now + 1), range.unit)}

\* Power over the active hours is a fraction.
SolarReport(range) ==
  LET I == InRange(range.from, range.to)
      hours == MapThenSumSet(ActiveHours, Buckets(I, range.unit))
  IN [solar |-> Solar(I), hours |-> hours, coverage |-> Coverage(I),
      load |-> IF hours > 0 THEN [energy |-> Load(I), hours |-> hours] ELSE None]

PeriodSolarReport(period, t) == SolarReport(PeriodRange(period, t))
CustomSolarReport(from, to) == SolarReport(CustomRange(from, to))

\* The money of a report has three digits; litres, kg and kWh are not rounded.
Quotient(n, d) == [num |-> n, den |-> d]
CostReport(range) ==
  LET I == InRange(range.from, range.to)
      energy == Load(I)
  IN [saved     |-> Round(energy * Rate * ReportPrice, 6 * Rated),
      litres    |-> Quotient(energy * Rate, 6000 * Rated),
      co2       |-> Quotient(energy * Rate * Co2[Fuel], 600000 * Rated),
      hours     |-> MapThenSumSet(ActiveHours, Buckets(I, range.unit)),
      generated |-> Round(Solar(I) * 5, 3),
      consumed  |-> Quotient(energy, PointsPerHour)]

PeriodCostReport(period, t) == CostReport(PeriodRange(period, t))
CustomCostReport(from, to) == CostReport(CustomRange(from, to))

-----------------------------------------------------------------------------
Periods == {"hourly", "daily", "weekly", "monthly"}

\* A chart tells of the same readings as its totals: an hour is counted as active in
\* one bar only, and the bars' rounded energies and litres add up to the rounded totals
\* within half a unit each (getPeriodSavings and its copies).  The code adds up its bars;
\* the totals here are taken of the range, so that a reading outside every bar would show.
Near(x, y, n) == 2 * (x - y) <= n + 1 /\ 2 * (y - x) <= n + 1
AddsUp(s) ==
  LET n == Cardinality(s.chart) IN
  /\ Near(s.energy, MapThenSumSet(LAMBDA b : Round(Load(b) * 5, 3), {b.rows : b \in s.chart}), n)
  /\ Near(s.litres, MapThenSumSet(LAMBDA b : Litres(Load(b)), {b.rows : b \in s.chart}), n)
  /\ s.hours = Cardinality({rows[i].at : i \in UNION {b.rows : b \in s.chart}})
ChartsAddUp == \A period \in Periods : AddsUp(PeriodSavings(period, now))

\* Code written out for each way of asking gives the same figures, of the current period
\* and of the one a day earlier.  The days of a calendar period, asked for by their two
\* dates at the endpoint or by the agent, have the period's totals (the controller's and
\* the agent's end dates against getPeriodRange), active hours included, although the bars
\* are others.  Once the owner has settings, a report of the period tells the same hours,
\* and its money, which it rounds to three digits, is within half of the endpoint's last
\* digit.  A lifetime's litres are those of all readings to within half a unit a month.
Totals(s) == <<s.saved, s.litres, s.co2, s.energy, s.solar, s.hours>>
AnswersAgree ==
  /\ \A period \in Periods \ {"hourly"}, t \in {now - DayLen, now} :
       LET range == PeriodRange(period, t)
           first == LocalDay(range.from)
           last == LocalDay(range.to) - 1
           answer == PeriodSavings(period, t)
           report == PeriodCostReport(period, t)
       IN /\ \A asked \in {CustomSavings(first, last), AgentCustomSavings(first, last)} :
               Totals(asked) = Totals(answer)
          /\ settings # NoSettings => /\ report.hours = answer.hours
                                     /\ report.saved - 10 * answer.saved \in -5..5
  /\ Near(CumulativeSavings.litres, Litres(Load(DOMAIN rows)), Cardinality(CumulativeSavings.chart))

\* The dashboard counts a day on which there was a load ("(pollingInterval /
\* basePoints) = (minutes / 60), which is the correct hourly fraction for kWh
\* conversion", getPollingInterval).
DashboardCountsToday ==
  settings # NoSettings /\ PeriodSavings("daily", now).saved > 0 => Dashboard.savedToday > 0
=============================================================================
