------------------------------- MODULE Grading -------------------------------
(***************************************************************************)
(* What the system says of one inverter's latest reading: the alerts it    *)
(* raises, the colour of the dashboard and the insights of the chat agent. *)
(* Power is in tenths of a kW, the battery in hundredths of a kWh, minutes *)
(* in hundredths.  Severities are ranked: 0 none, 1 WARNING, 2 CRITICAL;   *)
(* colours are 0 GREEN, 1 AMBER, 2 RED, 3 GREY.                            *)
(***************************************************************************)
EXTENDS Integers, FiniteSetsExt

CONSTANTS
  Metrics,      \* what the poller may read: soc, load, solar, each maybe None
  Inverters,    \* capacity of the battery and of the panels
  Thresholds,   \* depletion thresholds that users set
  Hours,        \* of the day, in WAT
  CriticalSoc, LowSoc,   \* METRIC_CRITICAL_ and METRIC_LOW_BATTERY_THRESHOLD
  None

VARIABLES
  inverter, threshold,
  metric,       \* the latest reading that arrived, or None
  age,          \* of that reading, in minutes
  offline,      \* inverters.is_offline
  hour

vars == <<inverter, threshold, metric, age, offline, hour>>

Stale == 20

Init ==
  /\ inverter \in Inverters
  /\ threshold = None
  /\ metric = None
  /\ age = 0
  /\ offline = FALSE
  /\ hour \in Hours

\* A poll: the reading is stored, published and evaluated.
Poll(m) ==
  /\ metric' = m
  /\ age' = 0
  /\ offline' = FALSE
  /\ UNCHANGED <<inverter, threshold, hour>>

\* Polls fail for so long that the inverter counts as offline.
GoOffline ==
  /\ offline' = TRUE
  /\ UNCHANGED <<inverter, threshold, metric, age, hour>>

ChangeThreshold(t) ==
  /\ threshold' = t
  /\ UNCHANGED <<inverter, metric, age, offline, hour>>

Tick(h) ==
  /\ age' = Min({age + 20, Stale + 20})
  /\ hour' = h
  /\ UNCHANGED <<inverter, threshold, metric, offline>>

Next ==
  \/ \E m \in Metrics : Poll(m)
  \/ GoOffline
  \/ \E t \in Thresholds : ChangeThreshold(t)
  \/ \E h \in Hours : Tick(h)

Spec == Init /\ [][Next]_vars

-----------------------------------------------------------------------------
(* Depletion of the battery.                                               *)

OrZero(x) == IF x = None THEN 0 ELSE x
Positive(x) == Max({0, OrZero(x)})
Round(n, d) == (2 * n + d) \div (2 * d)

Charging == [minutes |-> None, charging |-> TRUE]
LastsFor(minutes) == [minutes |-> minutes, charging |-> FALSE]
Net(m) == Max({0, Positive(m.load) - Positive(m.solar)})

\* Mutant: the battery is taken to last until it is empty.
DepletionToEmpty(m, i, t) ==
  IF Net(m) = 0 THEN Charging
  ELSE LastsFor(Round(Min({Positive(m.soc), 100}) * i.capacity * 6, Net(m)))

\* A battery below 0.02 kWh is a mistake in the record, one of 0 is empty.
CalculateDepletion(m, i, t) ==
  LET usable == Min({Positive(m.soc), 100}) - t IN
  CASE Net(m) = 0 \/ i.capacity = 1       -> Charging
    [] Net(m) > 0 /\ i.capacity <= 0     -> LastsFor(0)
    [] Net(m) > 0 /\ i.capacity >= 2     ->
         LastsFor(IF usable <= 0 THEN 0 ELSE Round(usable * i.capacity * 6, Net(m)))

\* Mutant: no minutes left read as no minutes known.
ShouldFireAlertFalsy(d) ==
  CASE d.charging \/ d.minutes = None \/ d.minutes = 0 -> 0
    [] OTHER -> IF d.minutes < 3000 THEN 2 ELSE IF d.minutes <= 6000 THEN 1 ELSE 0

ShouldFireAlert(d) ==
  CASE d.charging \/ d.minutes = None -> 0
    [] OTHER -> IF d.minutes < 3000 THEN 2 ELSE IF d.minutes <= 6000 THEN 1 ELSE 0

\* Nothing is said of panels at dawn, below 0.1 kW or a twentieth of them.
ShouldFireSolarAlert(solar, panel) ==
  LET says == solar # None /\ panel > 0 /\ solar >= 1 /\ 20 * solar >= panel
  IN CASE ~says -> 0
       [] says /\ 100 * solar < 15 * panel -> 2
       [] says /\ 100 * solar >= 15 * panel -> IF 100 * solar < 30 * panel THEN 1 ELSE 0

ShouldFireHighLoadAlert(load, panel) ==
  IF load = None \/ panel <= 0 \/ OrZero(load) <= 0 THEN 0
  ELSE IF 100 * load > 95 * panel THEN 2 ELSE IF 100 * load > 85 * panel THEN 1 ELSE 0

Threshold(t) == IF t = None THEN 10 ELSE t

\* The alerts that a reading raises, in the order in which they are saved.
Evaluate(m, i, t) ==
  [battery |-> ShouldFireAlert(CalculateDepletion(m, i, Threshold(t))),
   solar   |-> ShouldFireSolarAlert(m.solar, i.panel),
   load    |-> ShouldFireHighLoadAlert(m.load, i.panel)]

-----------------------------------------------------------------------------
(* The dashboard and the agent read the stored row, where null is 0.       *)

Stored(m) == [soc |-> OrZero(m.soc), load |-> OrZero(m.load), solar |-> OrZero(m.solar)]
Daytime(h) == h >= 6 /\ h < 19

\* Soc is null only before the first reading.
ComputeHealthStatus(soc, solar, panel, off, h) ==
  LET weak == Daytime(h) /\ panel > 0 /\ 10 * solar < 3 * panel
      dark == solar = 0 /\ Daytime(h)
  IN CASE off -> 3
       [] ~off /\ (soc = None \/ OrZero(soc) <= CriticalSoc) -> 2
       [] ~off /\ soc # None /\ OrZero(soc) > CriticalSoc ->
            IF soc <= LowSoc /\ dark THEN 2 ELSE IF soc <= LowSoc \/ weak THEN 1 ELSE 0

Health ==
  IF metric = None THEN ComputeHealthStatus(None, 0, inverter.panel, offline, hour)
  ELSE ComputeHealthStatus(Stored(metric).soc, Stored(metric).solar, inverter.panel, offline, hour)

\* Mutant: the whole load is taken from the battery.
InsightsWithoutSolar(m, i) ==
  LET s == Stored(m)
      usable == Max({s.soc - 20, 0})
  IN [net |-> s.load,
      minutes |-> IF s.load > 0 /\ usable > 0 /\ i.capacity > 0
                  THEN Round(usable * i.capacity * 3, 50 * s.load) ELSE None,
      critical |-> s.soc <= 20]

\* Minutes are whole; the shed load is what the battery delivers.
Insights(m, i) ==
  LET s == Stored(m)
      net == s.load - s.solar
      usable == Max({s.soc - 20, 0})
  IN [net |-> net,
      minutes |-> IF net > 0 /\ usable > 0 /\ i.capacity > 0
                  THEN Round(usable * i.capacity * 3, 50 * net) ELSE None,
      critical |-> s.soc <= 20]

InsightsAvailable == metric # None /\ age <= Stale

-----------------------------------------------------------------------------
\* A graver reading is never graded milder: with less in the battery, more
\* load and no more sun, no alert of the battery or of the load is weaker and no
\* colour is better (shouldFireAlert, shouldFireHighLoadAlert and
\* computeHealthStatus, each a cascade of comparisons whose order matters).
Graver(m, n) ==
  /\ OrZero(m.soc) <= OrZero(n.soc)
  /\ OrZero(m.load) >= OrZero(n.load)
  /\ OrZero(m.solar) <= OrZero(n.solar)
WorseNeverMilder ==
  metric # None =>
    \A m \in Metrics : Graver(m, metric) =>
      LET worse == Evaluate(m, inverter, threshold)
          now == Evaluate(metric, inverter, threshold)
      IN /\ worse.battery >= now.battery
         /\ worse.load >= now.load
         /\ ComputeHealthStatus(Stored(m).soc, Stored(m).solar, inverter.panel, offline, hour) >= Health

\* Whoever has less than half an hour at the present load before the battery
\* is at their threshold is alerted as critical, and nobody with more than an
\* hour is alerted, whatever the threshold (evaluateInverter, calculateDepletion).
AlarmInTime ==
  metric # None /\ inverter.capacity >= 2 =>
    LET grade == Evaluate(metric, inverter, threshold).battery
        left == (Min({Positive(metric.soc), 100}) - Threshold(threshold)) * inverter.capacity * 6
    IN /\ Net(metric) > 0 /\ left < 2990 * Net(metric) => grade = 2
       /\ left > 6010 * Net(metric) => grade = 0

\* The agent and the alerts tell one story: an estimate the agent gives is, to
\* the minute, what the alerts compute for a threshold of 20 %, unless they take
\* the battery's capacity for a mistake (getSystemInsights repeats the
\* arithmetic of calculateDepletion).
InsightsAgree ==
  InsightsAvailable /\ inverter.capacity # 1 /\ Insights(metric, inverter).minutes # None =>
    LET minutes == CalculateDepletion(metric, inverter, 20).minutes
    IN /\ minutes # None
       /\ 100 * Insights(metric, inverter).minutes \in (minutes - 51)..(minutes + 51)
=============================================================================
