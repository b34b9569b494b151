----------------------------- MODULE MCReadings -----------------------------
(***************************************************************************)
(* Instances of Grading, EnergySavings and ReportSeries for TLC, side by   *)
(* side: `part' says which of them runs, so that one run explores the      *)
(* states of each and never their product.                                 *)
(***************************************************************************)
EXTENDS Integers

CONSTANTS Brands, DayLen, DaysPerWeek, DaysPerMonth, ServerOffset, LagosOffset, Ratings, Prices,
          MaxRows, LastHour, NaN, MonthStarts, MonthSpan, LastMoment, MaxRaised, MaxOccurrences, Thresholds, Hours,
          CriticalSoc, LowSoc,
          Charges, Loads, Suns, Capacities, Panels,   \* what readings and inverters may hold
          Draws, Yields,   \* kW of load and of solar that the poller may read
  Missing   \* a value that is not there

VARIABLES part, brand, rows, settings, time, inverter, threshold, metric, age, offline, hour,
          moment, raised, occurrences

MCRows == [load: Draws, solar: Yields]
MCMetrics == [soc: Charges \cup {Missing}, load: Loads \cup {Missing}, solar: Suns \cup {Missing}]
MCInverters == [capacity: Capacities, panel: Panels]

Savings == INSTANCE EnergySavings WITH Readings <- MCRows, now <- time, None <- Missing
Rules == INSTANCE Grading WITH Metrics <- MCMetrics, Inverters <- MCInverters, None <- Missing
Series == INSTANCE ReportSeries WITH
  WeekLen <- DaysPerWeek, MaxAlerts <- MaxRaised, MaxReports <- MaxOccurrences, None <- Missing,
  now <- moment, alerts <- raised, reports <- occurrences

savingsVars == <<brand, rows, settings, time>>
gradingVars == <<inverter, threshold, metric, age, offline, hour>>
seriesVars == <<moment, raised, occurrences>>
readingsVars == <<savingsVars, gradingVars, seriesVars>>

ReadingsParts == {"savings", "grading", "series"}

\* A part that does not run stays in one initial state.
ReadingsInit ==
  /\ Savings!Init /\ Rules!Init /\ Series!Init
  /\ part # "savings" => brand = CHOOSE b \in Brands : TRUE
  /\ part # "grading" => <<inverter, hour>> = CHOOSE x \in MCInverters \X Hours : TRUE

ReadingsNext ==
  /\ UNCHANGED part
  /\ \/ part = "savings" /\ Savings!Next /\ UNCHANGED <<gradingVars, seriesVars>>
     \/ part = "grading" /\ Rules!Next /\ UNCHANGED <<savingsVars, seriesVars>>
     \/ part = "series" /\ Series!Next /\ UNCHANGED <<savingsVars, gradingVars>>

ReadingsSpec ==
  /\ part \in ReadingsParts /\ ReadingsInit
  /\ [][ReadingsNext]_<<part, readingsVars>>

\* The properties of the modules that the runs check, stated and explained there.
\* A part that does not run has nothing to say.
SeriesTellsOnce == part = "series" => Series!SeriesTellsOnce
ChartsAddUp == part = "savings" => Savings!ChartsAddUp
AnswersAgree == part = "savings" => Savings!AnswersAgree
DashboardCountsToday == Savings!DashboardCountsToday
WorseNeverMilder == Rules!WorseNeverMilder
AlarmInTime == Rules!AlarmInTime
InsightsAgree == Rules!InsightsAgree
=============================================================================
