---------------------------- MODULE MetricsPoller ----------------------------
(***************************************************************************)
(* One metrics poller: the lists of inverters it keeps in memory, the      *)
(* control channel that announces connected and deactivated inverters, its *)
(* overlapping polls, the online flag in the database and the offline      *)
(* alerts.  The API that connects and deactivates inverters runs in other  *)
(* processes, next to the poller and its restarts.                         *)
(***************************************************************************)
EXTENDS Naturals, Sequences, FiniteSets

CONSTANTS
  Inverters,
  Owner,      \* the user of each inverter
  Slots,      \* bound: polls of one inverter under way at once
  FaultKinds, \* the faults a run allows
  MaxFaults   \* bound: how many of them happen in a behaviour, restarts apart

ASSUME FaultsAssumption ==
  /\ FaultKinds \subseteq {"restart", "publish", "database"}
  /\ MaxFaults \in Nat

ASSUME SlotsAssumption == IsFiniteSet(Slots)

VARIABLES
  row,        \* the inverter's row: absent, active or (is_active = false) inactive
  offline,    \* its is_offline column
  reachable,  \* whether its cloud answers fetchMetrics
  pending,    \* committed changes the API has not published yet
  inbox,      \* control messages on their way to the poller
  missed,     \* history: announcements lost since the lists were last loaded
  phase,      \* of the poller process
  tracked,    \* how often the lists hold an inverter
  lookups,    \* handleInverterRegistered calls waiting for their row
  failures,   \* failureCounts, not counted beyond Threshold
  poll,       \* poll[i][k]: a poll of i, and the alert it fires
  alerts,     \* offline alerts of i in the current 60 minutes, up to AlertCap
  faults      \* faults so far

vars == <<row, offline, reachable, pending, inbox, missed, phase, tracked,
          lookups, failures, poll, alerts, faults>>
apiVars == <<row, pending>>
channelVars == <<inbox, missed, tracked, lookups>>
pollVars == <<offline, failures, poll, alerts, faults>>

Threshold == 3
AlertCap == Cardinality(Slots) + 1   \* bound: alerts of one inverter and cooldown told apart

Messages == [event: {"registered", "deregistered"}, inverter: Inverters]
Registered(i) == [event |-> "registered", inverter |-> i]
Deregistered(i) == [event |-> "deregistered", inverter |-> i]

IdlePolls == [k \in Slots |-> "idle"]

Init ==
  /\ row = [i \in Inverters |-> "absent"]
  /\ offline = [i \in Inverters |-> FALSE]
  /\ reachable = [i \in Inverters |-> TRUE]
  /\ pending = {}
  /\ inbox = <<>>
  /\ missed = {}
  /\ phase = "down"
  /\ tracked = [i \in Inverters |-> 0]
  /\ lookups = {}
  /\ failures = [i \in Inverters |-> 0]
  /\ poll = [i \in Inverters |-> IdlePolls]
  /\ alerts = [i \in Inverters |-> 0]
  /\ faults = 0

Fault(kind) ==
  /\ kind \in FaultKinds
  /\ faults < MaxFaults
  /\ faults' = faults + 1

-----------------------------------------------------------------------------
(* The API: the row is committed, then the change is published.            *)

Connect(i) ==
  /\ row[i] = "absent"
  /\ row' = [row EXCEPT ![i] = "active"]
  /\ pending' = pending \cup {Registered(i)}
  /\ UNCHANGED <<reachable, phase, channelVars, pollVars>>

Deactivate(i) ==
  /\ row[i] = "active"
  /\ row' = [row EXCEPT ![i] = "inactive"]
  /\ pending' = pending \cup {Deregistered(i)}
  /\ UNCHANGED <<reachable, phase, channelVars, pollVars>>

Published(m) ==
  /\ m \in pending
  /\ pending' = pending \ {m}

\* Redis keeps nothing for a channel nobody listens to.
Publish(m) ==
  /\ Published(m)
  /\ IF phase = "up"
     THEN inbox' = Append(inbox, m) /\ UNCHANGED missed
     ELSE missed' = missed \cup {m} /\ UNCHANGED inbox
  /\ UNCHANGED <<row, reachable, phase, tracked, lookups, pollVars>>

\* publish() rejects, which is only logged.
PublishFails(m) ==
  /\ Fault("publish")
  /\ Published(m)
  /\ missed' = missed \cup {m}
  /\ UNCHANGED <<row, reachable, phase, inbox, tracked, lookups, offline, failures, poll, alerts>>

-----------------------------------------------------------------------------
(* The poller's lists.                                                     *)

\* Mutant: inverters that are offline are left out.
LoadOnline ==
  /\ phase = "down"
  /\ phase' = "loaded"
  /\ tracked' = [i \in Inverters |-> IF row[i] = "absent" \/ offline[i] THEN 0 ELSE 1]
  /\ missed' = {}
  /\ UNCHANGED <<apiVars, reachable, inbox, lookups, pollVars>>

\* loadInverters: every row of every brand, active or not.
LoadInverters ==
  /\ phase = "down"
  /\ phase' = "loaded"
  /\ tracked' = [i \in Inverters |-> IF row[i] = "absent" THEN 0 ELSE 1]
  /\ missed' = {}
  /\ UNCHANGED <<apiVars, reachable, inbox, lookups, pollVars>>

\* subscribeToControlChannel has subscribed; the intervals start.
Subscribe ==
  /\ phase = "loaded"
  /\ phase' = "up"
  /\ UNCHANGED <<apiVars, reachable, channelVars, pollVars>>

LookUp(i) ==
  /\ lookups' = lookups \cup {i}
  /\ UNCHANGED <<tracked, failures>>

\* splice of the first entry found; nothing else if there is none.
Deregister(i) ==
  /\ IF tracked[i] > 0
     THEN /\ tracked' = [tracked EXCEPT ![i] = @ - 1]
          /\ failures' = [failures EXCEPT ![i] = 0]
     ELSE UNCHANGED <<tracked, failures>>
  /\ UNCHANGED lookups

Deliver ==
  /\ inbox # <<>>
  /\ inbox' = Tail(inbox)
  /\ LET m == Head(inbox) IN
       IF m.event = "registered" THEN LookUp(m.inverter) ELSE Deregister(m.inverter)
  /\ UNCHANGED <<apiVars, reachable, missed, phase, offline, poll, alerts, faults>>

\* Mutant: no alreadyTracked.
RegisterAgain(i) ==
  /\ i \in lookups
  /\ lookups' = lookups \ {i}
  /\ tracked' = [tracked EXCEPT ![i] = @ + 1]
  /\ UNCHANGED <<apiVars, reachable, inbox, missed, phase, pollVars>>

\* handleInverterRegistered goes on with the row it awaited (isActive is not read).
Register(i) ==
  /\ i \in lookups
  /\ lookups' = lookups \ {i}
  /\ tracked' = IF tracked[i] > 0 THEN tracked ELSE [tracked EXCEPT ![i] = 1]
  /\ UNCHANGED <<apiVars, reachable, inbox, missed, phase, pollVars>>

Restart ==
  /\ "restart" \in FaultKinds
  /\ phase' = "down"
  /\ inbox' = <<>>
  /\ tracked' = [i \in Inverters |-> 0]
  /\ lookups' = {}
  /\ failures' = [i \in Inverters |-> 0]
  /\ poll' = [i \in Inverters |-> IdlePolls]
  /\ UNCHANGED <<apiVars, offline, reachable, missed, alerts, faults>>

-----------------------------------------------------------------------------
(* A poll.  The interval does not wait for the previous polls to end.      *)

Goto(i, k, pc) == poll' = [poll EXCEPT ![i] = [@ EXCEPT ![k] = pc]]
At(i, k, pc) == poll[i][k] = pc
ListsUnchanged == UNCHANGED <<apiVars, reachable, phase, channelVars>>
Others == ListsUnchanged /\ UNCHANGED faults

StartPoll(i, k) ==
  /\ phase = "up"
  /\ tracked[i] > 0
  /\ At(i, k, "idle")
  /\ Goto(i, k, "fetching")
  /\ UNCHANGED <<offline, failures, alerts>> /\ Others

\* The cloud answers, or times out; the poller learns it later.
Fetch(i, k) ==
  /\ At(i, k, "fetching")
  /\ Goto(i, k, IF reachable[i] THEN "answered" ELSE "refused")
  /\ UNCHANGED <<offline, failures, alerts>> /\ Others

\* Mutant: the database is only touched when this process saw the outage.
MarkOnlineIfCounted(i, k) ==
  /\ At(i, k, "answered")
  /\ failures' = [failures EXCEPT ![i] = 0]
  /\ Goto(i, k, IF failures[i] >= Threshold THEN "onlining" ELSE "saving")
  /\ UNCHANGED <<offline, alerts>> /\ Others

ReadingArrives(i, k) ==
  /\ At(i, k, "answered")
  /\ failures' = [failures EXCEPT ![i] = 0]
  /\ Goto(i, k, "onlining")
  /\ UNCHANGED <<offline, alerts>> /\ Others

MarkOnline(i, k) ==
  /\ At(i, k, "onlining")
  /\ offline' = [offline EXCEPT ![i] = FALSE]
  /\ Goto(i, k, "saving")
  /\ UNCHANGED <<failures, alerts>> /\ Others

\* Mutant: only the third failure in a row counts.
ThirdFailureOnly(i, k) ==
  /\ failures' = [failures EXCEPT ![i] = IF @ < Threshold THEN @ + 1 ELSE @]
  /\ Goto(i, k, IF failures[i] = Threshold - 1 THEN "offlining" ELSE "idle")

CountFailure(i, k) ==
  /\ failures' = [failures EXCEPT ![i] = IF @ < Threshold THEN @ + 1 ELSE @]
  /\ Goto(i, k, IF failures[i] >= Threshold - 1 THEN "offlining" ELSE "idle")

\* fetchMetrics threw, or markOnline did inside the same try block.
FailureArrives(i, k) ==
  /\ \/ At(i, k, "refused") /\ UNCHANGED faults
     \/ At(i, k, "onlining") /\ Fault("database")
  /\ CountFailure(i, k)
  /\ UNCHANGED <<offline, alerts>> /\ ListsUnchanged

\* persistAndPublish: the reading is published only once it is stored.
SaveReading(i, k) ==
  /\ At(i, k, "saving")
  /\ \/ Goto(i, k, "publishing") /\ UNCHANGED faults
     \/ Goto(i, k, "idle") /\ Fault("database")
  /\ UNCHANGED <<offline, failures, alerts>> /\ ListsUnchanged

PublishReading(i, k) ==
  /\ At(i, k, "publishing")
  /\ Goto(i, k, "idle")
  /\ UNCHANGED <<offline, failures, alerts>> /\ Others

MarkOffline(i, k) ==
  /\ At(i, k, "offlining")
  /\ offline' = [offline EXCEPT ![i] = TRUE]
  /\ Goto(i, k, "checking")
  /\ UNCHANGED <<failures, alerts>> /\ Others

MarkOfflineFails(i, k) ==
  /\ At(i, k, "offlining")
  /\ Fault("database")
  /\ Goto(i, k, "idle")
  /\ UNCHANGED <<offline, failures, alerts>> /\ ListsUnchanged

-----------------------------------------------------------------------------
(* fireInverterOfflineAlert, not awaited by its poll.                      *)

\* Mutant: the cooldown is never looked at.
NeverCoolingDown(i) == FALSE

\* The latest INVERTER_FAULT alert of the user is less than 60 minutes old.
CoolingDown(i) == \E j \in Inverters : Owner[j] = Owner[i] /\ alerts[j] > 0

Suppress(i, k) ==
  /\ At(i, k, "checking")
  /\ CoolingDown(i)
  /\ Goto(i, k, "idle")
  /\ UNCHANGED <<offline, failures, alerts>> /\ Others

CheckAlert(i, k) ==
  /\ At(i, k, "checking")
  /\ ~ CoolingDown(i)
  /\ Goto(i, k, "alerting")
  /\ UNCHANGED <<offline, failures, alerts>> /\ Others

SaveAlert(i, k) ==
  /\ At(i, k, "alerting")
  /\ alerts' = [alerts EXCEPT ![i] = IF @ < AlertCap THEN @ + 1 ELSE @]
  /\ Goto(i, k, "queueing")
  /\ UNCHANGED <<offline, failures>> /\ Others

QueueAlert(i, k) ==
  /\ At(i, k, "queueing")
  /\ Goto(i, k, "idle")
  /\ UNCHANGED <<offline, failures, alerts>> /\ Others

\* A rejected query of the alert is caught and logged.
AlertFails(i, k) ==
  /\ Fault("database")
  /\ poll[i][k] \in {"checking", "alerting"}
  /\ Goto(i, k, "idle")
  /\ UNCHANGED <<offline, failures, alerts>> /\ ListsUnchanged

CooldownEnds(u) ==
  /\ \E i \in Inverters : Owner[i] = u /\ alerts[i] > 0
  /\ alerts' = [i \in Inverters |-> IF Owner[i] = u THEN 0 ELSE alerts[i]]
  /\ UNCHANGED <<apiVars, reachable, phase, channelVars, offline, failures, poll, faults>>

\* The cloud of an inverter goes away or comes back.
Flip(i) ==
  /\ reachable' = [reachable EXCEPT ![i] = ~ @]
  /\ UNCHANGED <<apiVars, phase, channelVars, pollVars>>

-----------------------------------------------------------------------------
Api ==
  \/ \E i \in Inverters : Connect(i) \/ Deactivate(i)
  \/ \E m \in pending : Publish(m) \/ PublishFails(m)

Lists ==
  \/ LoadInverters
  \/ Subscribe
  \/ Deliver
  \/ \E i \in Inverters : Register(i)

PollStep(i, k) ==
  \/ Fetch(i, k)
  \/ ReadingArrives(i, k)
  \/ MarkOnline(i, k)
  \/ FailureArrives(i, k)
  \/ SaveReading(i, k)
  \/ PublishReading(i, k)
  \/ MarkOffline(i, k)
  \/ MarkOfflineFails(i, k)
  \/ Suppress(i, k)
  \/ CheckAlert(i, k)
  \/ SaveAlert(i, k)
  \/ QueueAlert(i, k)
  \/ AlertFails(i, k)

Environment ==
  \/ Restart
  \/ \E i \in Inverters : Flip(i) \/ CooldownEnds(Owner[i])

Next ==
  \/ Api
  \/ Lists
  \/ \E i \in Inverters, k \in Slots : StartPoll(i, k) \/ PollStep(i, k)
  \/ Environment

Spec == Init /\ [][Next]_vars

\* A started process runs on, intervals fire, what is awaited returns and an
\* hour passes.  Users, clouds and restarts are not fair.
Fairness ==
  /\ WF_vars(LoadInverters) /\ WF_vars(Subscribe) /\ WF_vars(Deliver)
  /\ WF_vars(\E m \in pending : Publish(m))
  /\ \A i \in Inverters :
       /\ WF_vars(Register(i))
       /\ WF_vars(CooldownEnds(Owner[i]))
       /\ \A k \in Slots : WF_vars(StartPoll(i, k)) /\ WF_vars(PollStep(i, k))

FairSpec == Spec /\ Fairness

-----------------------------------------------------------------------------
\* An inverter is in the lists once at most, so an interval polls it once,
\* even if it is announced while or after the lists were loaded.
PolledOnce == \A i \in Inverters : tracked[i] <= 1

InInbox(m) == \E n \in 1..Len(inbox) : inbox[n] = m

\* Nothing about i is on its way to the lists.
Quiet(i) ==
  /\ phase = "up"
  /\ \A m \in {Registered(i), Deregistered(i)} : m \notin pending /\ ~ InInbox(m)
  /\ i \notin lookups

\* A connected inverter is polled unless its announcement itself was lost, and
\* a restart makes up for that: no order of load, subscription, commit,
\* publication and lookup loses it otherwise.
ActiveIsTracked ==
  \A i \in Inverters :
    Quiet(i) /\ row[i] = "active" /\ Registered(i) \notin missed => tracked[i] > 0

\* An outage is alerted once per cooldown by polls that do not overlap; overlapping
\* ones, which all look before any of them saves, alert it at most once each.  That is
\* what the code keeps of "Duplicate suppression is handled by checking for an existing
\* unresolved INVERTER_FAULT alert" (lines 461-463): the check and the save are two steps,
\* and with two polls of one inverter under way there can be two alerts.
OneAlertPerCooldown == \A i \in Inverters : alerts[i] <= Cardinality(Slots)

Polled(i) == phase = "up" /\ tracked[i] > 0

\* An inverter that answers again ends up online, whatever late failures and
\* restarts came before: a restart forgets the count, not the flag.
RecoversOnline ==
  \A i \in Inverters : <>[](Polled(i) /\ reachable[i]) => <>[](~ offline[i])

\* An inverter that stops answering ends up offline for good, whatever late
\* answers are still being handled.
OutageIsNoticed ==
  \A i \in Inverters : <>[](Polled(i) /\ ~ reachable[i]) => <>[](offline[i])

\* "Check for a recent unresolved offline alert for this inverter"
\* (metrics-poller.service.ts:474): the alert of an inverter is held back only if this
\* inverter was alerted in the last 60 minutes.
HeldBackByItsOwn ==
  [][\A i \in Inverters, k \in Slots : Suppress(i, k) => alerts[i] > 0]_vars
=============================================================================
