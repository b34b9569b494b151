------------------------- MODULE MetricsPollerProofs -------------------------
(***************************************************************************)
(* Theorems about MetricsPoller, for any numbers of inverters, overlapping *)
(* polls, restarts, lost publications and failures of the database.        *)
(***************************************************************************)
EXTENDS MetricsPoller, FiniteSetTheorems, TLAPS

PollSteps == {"idle", "fetching", "answered", "refused", "onlining", "saving", "publishing",
              "offlining", "checking", "alerting", "queueing"}

\* The state as far as the theorems look at it.
Types ==
  /\ row \in [Inverters -> {"absent", "active", "inactive"}]
  /\ pending \subseteq Messages
  /\ inbox \in Seq(Messages)
  /\ phase \in {"down", "loaded", "up"}
  /\ tracked \in [Inverters -> Nat]
  /\ lookups \subseteq Inverters
  /\ poll \in [Inverters -> [Slots -> PollSteps]]
  /\ alerts \in [Inverters -> Nat]

\* A deactivation is announced after its row was written, and no row becomes active
\* again, so the announcement of an active row is never undone.
FinalDeactivation ==
  \A i \in Inverters :
    Deregistered(i) \in pending \/ InInbox(Deregistered(i)) => row[i] = "inactive"

\* Where an active inverter is on its way to the lists.
UnderWay(i) == \/ tracked[i] > 0
               \/ Registered(i) \in pending
               \/ InInbox(Registered(i))
               \/ i \in lookups

Announced ==
  \A i \in Inverters :
    row[i] = "active" /\ phase # "down" /\ Registered(i) \notin missed => UnderWay(i)

ListsInv == Types /\ FinalDeactivation /\ Announced /\ PolledOnce

-----------------------------------------------------------------------------
(* The lists.                                                              *)

LEMMA MessageFacts ==
  ASSUME NEW i \in Inverters
  PROVE  /\ Registered(i) \in Messages /\ Deregistered(i) \in Messages
         /\ \A j : Registered(i) # Deregistered(j)
         /\ \A j : Registered(i) = Registered(j) => i = j
         /\ \A j : Deregistered(i) = Deregistered(j) => i = j
         /\ Registered(i).event = "registered" /\ Registered(i).inverter = i
         /\ Deregistered(i).event = "deregistered" /\ Deregistered(i).inverter = i
  BY DEF Registered, Deregistered, Messages

LEMMA AppendFacts ==
  ASSUME inbox \in Seq(Messages), NEW m \in Messages, inbox' = Append(inbox, m)
  PROVE  /\ inbox' \in Seq(Messages)
         /\ \A x : InInbox(x)' <=> InInbox(x) \/ x = m
<1>1. /\ inbox' \in Seq(Messages) /\ Len(inbox') = Len(inbox) + 1
      /\ \A n \in 1..Len(inbox) : inbox'[n] = inbox[n]
      /\ inbox'[Len(inbox) + 1] = m
  OBVIOUS
<1> QED
  BY <1>1 DEF InInbox

LEMMA TailFacts ==
  ASSUME inbox \in Seq(Messages), inbox # <<>>, inbox' = Tail(inbox)
  PROVE  /\ inbox' \in Seq(Messages) /\ Head(inbox) \in Messages
         /\ \A x : InInbox(x) <=> InInbox(x)' \/ x = Head(inbox)
<1>1. /\ inbox' \in Seq(Messages) /\ Head(inbox) \in Messages
      /\ Len(inbox) > 0 /\ Len(inbox') = Len(inbox) - 1
      /\ \A n \in 1..Len(inbox) - 1 : inbox'[n] = inbox[n + 1]
      /\ Head(inbox) = inbox[1]
  OBVIOUS
<1>2. ASSUME NEW x, InInbox(x) PROVE InInbox(x)' \/ x = Head(inbox)
  <2>1. PICK n \in 1..Len(inbox) : inbox[n] = x
    BY <1>2 DEF InInbox
  <2>2. CASE n = 1
    BY <1>1, <2>1, <2>2
  <2>3. CASE n # 1
    <3>1. n - 1 \in 1..Len(inbox') /\ inbox'[n - 1] = x
      BY <1>1, <2>1, <2>3
    <3> QED
      BY <3>1 DEF InInbox
  <2> QED
    BY <2>2, <2>3
<1>3. ASSUME NEW x, InInbox(x)' \/ x = Head(inbox) PROVE InInbox(x)
  BY <1>1, <1>3 DEF InInbox
<1> QED
  BY <1>1, <1>2, <1>3

\* A step that touches neither the rows nor the lists nor what is on its way to them.
LEMMA ListsFrame ==
  ASSUME ListsInv, Types', UNCHANGED <<row, pending, phase, channelVars>>
  PROVE  ListsInv'
BY DEF ListsInv, FinalDeactivation, Announced, UnderWay, InInbox, PolledOnce, channelVars

LEMMA ConnectInv ==
  ASSUME ListsInv, NEW i \in Inverters, Connect(i)
  PROVE  ListsInv'
<1> USE DEF Connect, channelVars, pollVars
<1>1. Types'
  BY MessageFacts DEF ListsInv, Types
<1>2. FinalDeactivation'
  BY MessageFacts DEF ListsInv, Types, FinalDeactivation, InInbox
<1>3. Announced'
  BY MessageFacts DEF ListsInv, Types, Announced, UnderWay, InInbox
<1>4. PolledOnce'
  BY DEF ListsInv, PolledOnce
<1> QED
  BY <1>1, <1>2, <1>3, <1>4 DEF ListsInv

LEMMA DeactivateInv ==
  ASSUME ListsInv, NEW i \in Inverters, Deactivate(i)
  PROVE  ListsInv'
<1> USE DEF Deactivate, channelVars, pollVars
<1>1. Types'
  BY MessageFacts DEF ListsInv, Types
<1>2. FinalDeactivation'
  BY MessageFacts DEF ListsInv, Types, FinalDeactivation, InInbox
<1>3. Announced'
  BY MessageFacts DEF ListsInv, Types, Announced, UnderWay, InInbox
<1>4. PolledOnce'
  BY DEF ListsInv, PolledOnce
<1> QED
  BY <1>1, <1>2, <1>3, <1>4 DEF ListsInv

LEMMA PublishInv ==
  ASSUME ListsInv, NEW m \in pending, Publish(m) \/ PublishFails(m)
  PROVE  ListsInv'
<1>1. /\ m \in Messages /\ pending' = pending \ {m}
      /\ UNCHANGED <<row, phase, tracked, lookups, poll, alerts>>
      /\ \/ inbox' = Append(inbox, m) /\ missed' = missed
         \/ inbox' = inbox /\ missed' = missed \cup {m}
  BY DEF ListsInv, Types, Publish, PublishFails, Published, pollVars
<1>2. CASE inbox' = Append(inbox, m) /\ missed' = missed
  <2>1. /\ inbox' \in Seq(Messages)
        /\ \A x : InInbox(x)' <=> InInbox(x) \/ x = m
    BY <1>1, <1>2, AppendFacts DEF ListsInv, Types
  <2>2. Types' /\ PolledOnce'
    BY <1>1, <2>1 DEF ListsInv, Types, PolledOnce
  <2>3. FinalDeactivation'
    BY <1>1, <2>1 DEF ListsInv, FinalDeactivation
  <2>4. Announced'
    BY <1>1, <1>2, <2>1 DEF ListsInv, Announced, UnderWay
  <2> QED
    BY <2>2, <2>3, <2>4 DEF ListsInv
<1>3. CASE inbox' = inbox /\ missed' = missed \cup {m}
  <2>1. Types' /\ PolledOnce'
    BY <1>1, <1>3 DEF ListsInv, Types, PolledOnce
  <2>2. FinalDeactivation'
    BY <1>1, <1>3 DEF ListsInv, FinalDeactivation, InInbox
  <2>3. Announced'
    BY <1>1, <1>3 DEF ListsInv, Announced, UnderWay, InInbox
  <2> QED
    BY <2>1, <2>2, <2>3 DEF ListsInv
<1> QED
  BY <1>1, <1>2, <1>3

LEMMA LoadInvertersInv ==
  ASSUME ListsInv, LoadInverters
  PROVE  ListsInv'
<1> USE DEF LoadInverters, apiVars, pollVars
<1>1. Types' /\ PolledOnce'
  BY DEF ListsInv, Types, PolledOnce
<1>2. FinalDeactivation'
  BY DEF ListsInv, FinalDeactivation, InInbox
<1>3. Announced'
  BY DEF ListsInv, Types, Announced, UnderWay
<1> QED
  BY <1>1, <1>2, <1>3 DEF ListsInv

LEMMA SubscribeInv ==
  ASSUME ListsInv, Subscribe
  PROVE  ListsInv'
<1> USE DEF Subscribe, apiVars, channelVars, pollVars
<1>1. Types' /\ PolledOnce' /\ FinalDeactivation'
  BY DEF ListsInv, Types, PolledOnce, FinalDeactivation, InInbox
<1>2. Announced'
  BY DEF ListsInv, Announced, UnderWay, InInbox
<1> QED
  BY <1>1, <1>2 DEF ListsInv

LEMMA DeliverInv ==
  ASSUME ListsInv, Deliver
  PROVE  ListsInv'
<1>1. /\ inbox # <<>> /\ inbox' = Tail(inbox)
      /\ UNCHANGED <<row, pending, missed, phase, poll, alerts>>
  BY DEF Deliver, apiVars
<1>2. /\ inbox' \in Seq(Messages) /\ Head(inbox) \in Messages
      /\ \A x : InInbox(x) <=> InInbox(x)' \/ x = Head(inbox)
  BY <1>1, TailFacts DEF ListsInv, Types
<1>3. PICK i \in Inverters : Head(inbox) \in {Registered(i), Deregistered(i)}
  BY <1>2 DEF Messages, Registered, Deregistered
<1>4. FinalDeactivation'
  BY <1>1, <1>2 DEF ListsInv, FinalDeactivation
<1>5. CASE Head(inbox) = Registered(i)
  <2>1. lookups' = lookups \cup {i} /\ tracked' = tracked
    BY <1>5, MessageFacts DEF Deliver, LookUp
  <2>2. Types' /\ PolledOnce'
    BY <1>1, <1>2, <2>1 DEF ListsInv, Types, PolledOnce
  <2>3. Announced'
    BY <1>1, <1>2, <1>5, <2>1, MessageFacts DEF ListsInv, Announced, UnderWay
  <2> QED
    BY <1>4, <2>2, <2>3 DEF ListsInv
<1>6. CASE Head(inbox) = Deregistered(i)
  <2>1. row[i] = "inactive"
    BY <1>2, <1>6 DEF ListsInv, FinalDeactivation
  <2>2. /\ lookups' = lookups /\ tracked' \in [Inverters -> Nat]
        /\ \A j \in Inverters \ {i} : tracked'[j] = tracked[j]
        /\ tracked'[i] <= tracked[i]
    <3>1. /\ lookups' = lookups
          /\ \/ tracked[i] > 0 /\ tracked' = [tracked EXCEPT ![i] = @ - 1]
             \/ tracked' = tracked
      BY <1>6, MessageFacts DEF Deliver, Deregister
    <3>2. tracked \in [Inverters -> Nat] /\ tracked[i] \in Nat
      BY DEF ListsInv, Types
    <3>3. tracked[i] > 0 => tracked[i] - 1 \in Nat
      BY <3>2
    <3> QED
      BY <3>1, <3>2, <3>3
  <2>3. Types'
    BY <1>1, <1>2, <2>2 DEF ListsInv, Types
  <2>4. PolledOnce'
    <3>1. ASSUME NEW j \in Inverters PROVE tracked'[j] <= 1
      <4>1. tracked[j] \in Nat /\ tracked'[j] \in Nat /\ tracked[j] <= 1
        BY <2>2 DEF ListsInv, Types, PolledOnce
      <4>2. tracked'[j] <= tracked[j]
        BY <2>2, <4>1
      <4> QED
        BY <4>1, <4>2
    <3> QED
      BY <3>1 DEF PolledOnce
  <2>5. Announced'
    <3>1. ASSUME NEW j \in Inverters \ {i}, UnderWay(j) PROVE UnderWay(j)'
      BY <1>1, <1>2, <1>6, <2>2, <3>1, MessageFacts DEF UnderWay
    <3> QED
      BY <1>1, <2>1, <3>1 DEF ListsInv, Announced
  <2> QED
    BY <1>4, <2>3, <2>4, <2>5 DEF ListsInv
<1> QED
  BY <1>3, <1>5, <1>6

LEMMA RegisterInv ==
  ASSUME ListsInv, NEW i \in Inverters, Register(i)
  PROVE  ListsInv'
<1> USE DEF Register, apiVars, pollVars
<1>1. Types' /\ PolledOnce' /\ FinalDeactivation'
  BY DEF ListsInv, Types, PolledOnce, FinalDeactivation, InInbox
<1>2. Announced'
  BY DEF ListsInv, Types, Announced, UnderWay, InInbox
<1> QED
  BY <1>1, <1>2 DEF ListsInv

LEMMA RestartInv ==
  ASSUME ListsInv, Restart
  PROVE  ListsInv'
<1> USE DEF Restart, apiVars
<1>1. Types' /\ PolledOnce'
  <2>1. IdlePolls \in [Slots -> PollSteps]
    BY DEF IdlePolls, PollSteps
  <2>2. poll' \in [Inverters -> [Slots -> PollSteps]]
    BY <2>1
  <2>3. inbox' \in Seq(Messages)
    OBVIOUS
  <2>4. tracked' \in [Inverters -> Nat] /\ \A i \in Inverters : tracked'[i] = 0
    OBVIOUS
  <2> QED
    BY <2>2, <2>3, <2>4 DEF ListsInv, Types, PolledOnce
<1>2. FinalDeactivation'
  BY DEF ListsInv, FinalDeactivation, InInbox
<1>3. Announced'
  BY DEF Announced
<1> QED
  BY <1>1, <1>2, <1>3 DEF ListsInv

-----------------------------------------------------------------------------
(* The alerts of a cooldown.                                               *)

Alerting(i) == {k \in Slots : poll[i][k] = "alerting"}

\* Polls that looked before the first alert was saved are all that can still save one.
Pending(i) == alerts[i] + Cardinality(Alerting(i)) <= Cardinality(Slots)

AlertsInv == Types /\ \A i \in Inverters : Pending(i)

LEMMA AlertingFinite ==
  ASSUME NEW i \in Inverters
  PROVE  /\ IsFiniteSet(Alerting(i)) /\ Cardinality(Alerting(i)) \in Nat
         /\ Cardinality(Slots) \in Nat /\ Cardinality(Alerting(i)) <= Cardinality(Slots)
<1>1. Alerting(i) \in SUBSET Slots
  BY DEF Alerting
<1> QED
  BY <1>1, SlotsAssumption, FS_Subset, FS_CardinalityType

\* One slot of one inverter changes; saving an alert leaves "alerting".
LEMMA GotoAlerting ==
  ASSUME Types, NEW i \in Inverters, NEW k \in Slots, NEW pc \in PollSteps, Goto(i, k, pc)
  PROVE  /\ poll' \in [Inverters -> [Slots -> PollSteps]]
         /\ \A j \in Inverters \ {i} : Alerting(j)' = Alerting(j)
         /\ pc = "alerting" => Alerting(i)' = Alerting(i) \cup {k}
         /\ pc # "alerting" => Alerting(i)' = Alerting(i) \ {k}
<1>1. poll \in [Inverters -> [Slots -> PollSteps]] /\ poll[i] \in [Slots -> PollSteps]
  BY DEF Types
<1>2. /\ poll' \in [Inverters -> [Slots -> PollSteps]]
      /\ \A j \in Inverters \ {i} : poll'[j] = poll[j]
      /\ \A h \in Slots : poll'[i][h] = IF h = k THEN pc ELSE poll[i][h]
  BY <1>1 DEF Goto
<1> QED
  BY <1>2 DEF Alerting

\* Any step of a poll but the check and the save.
LEMMA OtherPollStep ==
  ASSUME AlertsInv, Types', NEW i \in Inverters, NEW k \in Slots, NEW pc \in PollSteps,
         Goto(i, k, pc), pc # "alerting", UNCHANGED alerts
  PROVE  AlertsInv'
<1>1. \A j \in Inverters : Alerting(j)' = Alerting(j) \/ Alerting(j)' = Alerting(j) \ {k}
  BY GotoAlerting DEF AlertsInv
<1>2. ASSUME NEW j \in Inverters PROVE Pending(j)'
  <2>1. /\ IsFiniteSet(Alerting(j)) /\ Cardinality(Alerting(j)) \in Nat
        /\ Cardinality(Slots) \in Nat /\ alerts[j] \in Nat
    BY AlertingFinite DEF AlertsInv, Types
  <2>2. /\ Cardinality(Alerting(j) \ {k}) \in Nat
        /\ Cardinality(Alerting(j) \ {k}) <= Cardinality(Alerting(j))
    <3>1. Alerting(j) \ {k} \in SUBSET Alerting(j)
      OBVIOUS
    <3> QED
      BY <2>1, <3>1, FS_Subset, FS_CardinalityType
  <2>3. Cardinality(Alerting(j)') \in Nat /\ Cardinality(Alerting(j)') <= Cardinality(Alerting(j))
    BY <1>1, <2>1, <2>2
  <2> QED
    BY <2>1, <2>3 DEF AlertsInv, Pending
<1> QED
  BY <1>2 DEF AlertsInv

LEMMA CheckAlertInv ==
  ASSUME AlertsInv, Types', NEW i \in Inverters, NEW k \in Slots, CheckAlert(i, k)
  PROVE  AlertsInv'
<1>1. /\ Goto(i, k, "alerting") /\ UNCHANGED alerts
      /\ alerts[i] = 0
  BY DEF CheckAlert, CoolingDown, AlertsInv, Types
<1>2. \A j \in Inverters \ {i} : Alerting(j)' = Alerting(j)
  BY <1>1, GotoAlerting DEF AlertsInv, PollSteps
<1>3. Pending(i)'
  <2>1. Alerting(i)' \in SUBSET Slots
    BY DEF Alerting
  <2>2. Cardinality(Alerting(i)') <= Cardinality(Slots) /\ Cardinality(Alerting(i)') \in Nat
    BY <2>1, SlotsAssumption, FS_Subset, FS_CardinalityType
  <2> QED
    BY <1>1, <2>2 DEF Pending
<1>4. \A j \in Inverters \ {i} : Pending(j)'
  BY <1>1, <1>2 DEF AlertsInv, Pending
<1> QED
  BY <1>3, <1>4 DEF AlertsInv

LEMMA SaveAlertInv ==
  ASSUME AlertsInv, Types', NEW i \in Inverters, NEW k \in Slots, SaveAlert(i, k)
  PROVE  AlertsInv'
<1>1. /\ Goto(i, k, "queueing") /\ poll[i][k] = "alerting"
      /\ alerts' = [alerts EXCEPT ![i] = IF @ < AlertCap THEN @ + 1 ELSE @]
  BY DEF SaveAlert, At
<1>2. /\ \A j \in Inverters \ {i} : Alerting(j)' = Alerting(j)
      /\ Alerting(i)' = Alerting(i) \ {k}
  BY <1>1, GotoAlerting DEF AlertsInv, PollSteps
<1>3. /\ k \in Alerting(i)
      /\ IsFiniteSet(Alerting(i)) /\ Cardinality(Alerting(i)) \in Nat
      /\ Cardinality(Slots) \in Nat /\ alerts[i] \in Nat
  BY <1>1, AlertingFinite DEF Alerting, AlertsInv, Types
<1>4. Cardinality(Alerting(i)') = Cardinality(Alerting(i)) - 1
  BY <1>2, <1>3, FS_RemoveElement
<1>5. alerts'[i] \in Nat /\ alerts'[i] <= alerts[i] + 1
  BY <1>1, <1>3 DEF AlertsInv, Types
<1>6. Pending(i)'
  BY <1>3, <1>4, <1>5 DEF AlertsInv, Pending
<1>7. \A j \in Inverters \ {i} : Pending(j)'
  BY <1>1, <1>2 DEF AlertsInv, Types, Pending
<1> QED
  BY <1>6, <1>7 DEF AlertsInv

LEMMA ForgetAlerts ==
  ASSUME AlertsInv, Types', UNCHANGED poll,
         \A j \in Inverters : alerts'[j] = alerts[j] \/ alerts'[j] = 0
  PROVE  AlertsInv'
<1>1. ASSUME NEW j \in Inverters PROVE Pending(j)'
  <2>1. Alerting(j)' = Alerting(j)
    BY DEF Alerting
  <2>2. /\ Cardinality(Alerting(j)) \in Nat /\ Cardinality(Slots) \in Nat
        /\ Cardinality(Alerting(j)) <= Cardinality(Slots)
    BY AlertingFinite
  <2> QED
    BY <2>1, <2>2 DEF AlertsInv, Pending
<1> QED
  BY <1>1 DEF AlertsInv

-----------------------------------------------------------------------------
(* The steps together.                                                     *)

Inv == ListsInv /\ AlertsInv

LEMMA InitInv == Init => Inv
<1> SUFFICES ASSUME Init PROVE Inv
  OBVIOUS
<1>1. Types
  BY DEF Init, Types, IdlePolls, PollSteps
<1>2. FinalDeactivation /\ Announced /\ PolledOnce
  BY DEF Init, FinalDeactivation, InInbox, Announced, PolledOnce
<1>3. ASSUME NEW i \in Inverters PROVE Pending(i)
  <2>1. alerts[i] = 0 /\ Alerting(i) = {}
    BY DEF Init, Alerting, IdlePolls
  <2> QED
    BY <2>1, SlotsAssumption, FS_EmptySet, FS_CardinalityType DEF Pending
<1> QED
  BY <1>1, <1>2, <1>3 DEF Inv, ListsInv, AlertsInv

LEMMA ApiInv == ASSUME Inv, Api PROVE Inv'
<1>1. ListsInv'
  BY ConnectInv, DeactivateInv, PublishInv DEF Inv, Api
<1>2. UNCHANGED <<poll, alerts>>
  BY DEF Api, Connect, Deactivate, Publish, PublishFails, pollVars
<1> QED
  BY <1>1, <1>2, ForgetAlerts DEF Inv, ListsInv

LEMMA ListsStepInv == ASSUME Inv, Lists PROVE Inv'
<1>1. ListsInv'
  BY LoadInvertersInv, SubscribeInv, DeliverInv, RegisterInv DEF Inv, Lists
<1>2. UNCHANGED <<poll, alerts>>
  BY DEF Lists, LoadInverters, Subscribe, Deliver, Register, pollVars
<1> QED
  BY <1>1, <1>2, ForgetAlerts DEF Inv, ListsInv

LEMMA EnvironmentInv == ASSUME Inv, Environment PROVE Inv'
<1>1. CASE Restart
  <2>1. ListsInv'
    BY <1>1, RestartInv DEF Inv
  <2>2. ASSUME NEW i \in Inverters PROVE Pending(i)'
    <3>1. Alerting(i)' = {} /\ alerts'[i] = alerts[i]
      BY <1>1 DEF Restart, Alerting, IdlePolls
    <3>2. /\ Cardinality(Alerting(i)) \in Nat /\ Cardinality(Slots) \in Nat
          /\ alerts[i] \in Nat /\ Pending(i)
      BY AlertingFinite DEF Inv, AlertsInv, Types
    <3>3. alerts[i] <= Cardinality(Slots)
      BY <3>2 DEF Pending
    <3> QED
      BY <3>1, <3>2, <3>3, FS_EmptySet DEF Pending
  <2> QED
    BY <2>1, <2>2 DEF Inv, ListsInv, AlertsInv
<1>2. ASSUME NEW i \in Inverters, CooldownEnds(Owner[i]) PROVE Inv'
  <2>1. /\ UNCHANGED <<row, pending, phase, channelVars, poll>>
        /\ alerts' = [j \in Inverters |-> IF Owner[j] = Owner[i] THEN 0 ELSE alerts[j]]
    BY <1>2 DEF CooldownEnds, apiVars
  <2>2. alerts' \in [Inverters -> Nat]
        /\ \A j \in Inverters : alerts'[j] = alerts[j] \/ alerts'[j] = 0
    BY <2>1 DEF Inv, ListsInv, Types
  <2>3. Types'
    BY <2>1, <2>2 DEF Inv, ListsInv, Types, channelVars
  <2> QED
    BY <2>1, <2>2, <2>3, ListsFrame, ForgetAlerts DEF Inv
<1>3. ASSUME NEW i \in Inverters, Flip(i) PROVE Inv'
  <2>1. UNCHANGED <<row, pending, phase, channelVars, poll, alerts>>
    BY <1>3 DEF Flip, apiVars, pollVars
  <2>2. Types'
    BY <2>1 DEF Inv, ListsInv, Types, channelVars
  <2> QED
    BY <2>1, <2>2, ListsFrame, ForgetAlerts DEF Inv
<1> QED
  BY <1>1, <1>2, <1>3 DEF Environment

LEMMA PollTypes ==
  ASSUME Inv, ListsUnchanged, NEW i \in Inverters, NEW k \in Slots, NEW pc \in PollSteps,
         Goto(i, k, pc), alerts' \in [Inverters -> Nat]
  PROVE  Types' /\ ListsInv'
<1>1. poll' \in [Inverters -> [Slots -> PollSteps]]
  BY GotoAlerting DEF Inv, ListsInv
<1>2. UNCHANGED <<row, pending, phase, channelVars>>
  BY DEF ListsUnchanged, apiVars
<1>3. Types'
  BY <1>1, <1>2 DEF Inv, ListsInv, Types, channelVars
<1> QED
  BY <1>2, <1>3, ListsFrame DEF Inv

LEMMA PollInv ==
  ASSUME Inv, NEW i \in Inverters, NEW k \in Slots, StartPoll(i, k) \/ PollStep(i, k)
  PROVE  Inv'
<1>1. CASE CheckAlert(i, k)
  <2>1. ListsUnchanged /\ Goto(i, k, "alerting") /\ alerts' = alerts /\ "alerting" \in PollSteps
    BY <1>1 DEF CheckAlert, Others, PollSteps
  <2>2. Types' /\ ListsInv'
    BY <2>1, PollTypes DEF Inv, ListsInv, Types
  <2> QED
    BY <1>1, <2>2, CheckAlertInv DEF Inv
<1>2. CASE SaveAlert(i, k)
  <2>1. ListsUnchanged /\ Goto(i, k, "queueing") /\ "queueing" \in PollSteps
    BY <1>2 DEF SaveAlert, Others, PollSteps
  <2>2. alerts' \in [Inverters -> Nat]
    BY <1>2 DEF SaveAlert, Inv, ListsInv, Types
  <2>3. Types' /\ ListsInv'
    BY <2>1, <2>2, PollTypes
  <2> QED
    BY <1>2, <2>3, SaveAlertInv DEF Inv
<1>3. ASSUME NEW pc \in PollSteps \ {"alerting"}, Goto(i, k, pc), ListsUnchanged, alerts' = alerts
      PROVE  Inv'
  <2>1. Types' /\ ListsInv'
    BY <1>3, PollTypes DEF Inv, ListsInv, Types
  <2> QED
    BY <1>3, <2>1, OtherPollStep DEF Inv
<1>4. CASE StartPoll(i, k) \/ Fetch(i, k) \/ ReadingArrives(i, k) \/ MarkOnline(i, k)
  <2>1. /\ ListsUnchanged /\ alerts' = alerts
        /\ \E pc \in {"fetching", "answered", "refused", "onlining", "saving"} : Goto(i, k, pc)
    BY <1>4 DEF StartPoll, Fetch, ReadingArrives, MarkOnline, Others
  <2> QED
    BY <1>3, <2>1 DEF PollSteps
<1>5. CASE FailureArrives(i, k) \/ SaveReading(i, k) \/ PublishReading(i, k)
  <2>1. /\ ListsUnchanged /\ alerts' = alerts
        /\ \E pc \in {"offlining", "idle", "publishing"} : Goto(i, k, pc)
    BY <1>5 DEF FailureArrives, CountFailure, SaveReading, PublishReading, Others
  <2> QED
    BY <1>3, <2>1 DEF PollSteps
<1>6. CASE \/ MarkOffline(i, k) \/ MarkOfflineFails(i, k) \/ Suppress(i, k)
           \/ QueueAlert(i, k) \/ AlertFails(i, k)
  <2>1. /\ ListsUnchanged /\ alerts' = alerts
        /\ \E pc \in {"checking", "idle"} : Goto(i, k, pc)
    BY <1>6 DEF MarkOffline, MarkOfflineFails, Suppress, QueueAlert, AlertFails, Others
  <2> QED
    BY <1>3, <2>1 DEF PollSteps
<1> QED
  BY <1>1, <1>2, <1>4, <1>5, <1>6 DEF PollStep

LEMMA Inductive == Inv /\ [Next]_vars => Inv'
<1> SUFFICES ASSUME Inv, [Next]_vars PROVE Inv'
  OBVIOUS
<1>1. CASE UNCHANGED vars
  <2>1. UNCHANGED <<row, pending, phase, channelVars, poll, alerts>>
    BY <1>1 DEF vars, channelVars
  <2>2. Types'
    BY <2>1 DEF Inv, ListsInv, Types, channelVars
  <2> QED
    BY <2>1, <2>2, ListsFrame, ForgetAlerts DEF Inv
<1> QED
  BY <1>1, ApiInv, ListsStepInv, PollInv, EnvironmentInv DEF Next

LEMMA Invariant == Spec => []Inv
BY InitInv, Inductive, PTL DEF Spec

-----------------------------------------------------------------------------
\* However announcements, lookups and restarts meet, no inverter is in the lists
\* twice (handleInverterRegistered, handleInverterDeregistered).
THEOREM InvertersPolledOnce == Spec => []PolledOnce
<1>1. Inv => PolledOnce
  BY DEF Inv, ListsInv
<1> QED
  BY <1>1, Invariant, PTL

\* Only a publication that was itself lost, and only until the next restart, keeps
\* a connected inverter from being polled.
THEOREM ActiveInvertersTracked == Spec => []ActiveIsTracked
<1>1. Inv => ActiveIsTracked
  BY DEF Inv, ListsInv, Announced, UnderWay, ActiveIsTracked, Quiet
<1> QED
  BY <1>1, Invariant, PTL

\* At most as many alerts in a cooldown as polls of the inverter that overlap
\* (fireInverterOfflineAlert looks and saves in two statements).
THEOREM AlertsBounded == Spec => []OneAlertPerCooldown
<1>1. ASSUME Inv PROVE OneAlertPerCooldown
  <2>1. ASSUME NEW i \in Inverters PROVE alerts[i] <= Cardinality(Slots)
    <3>1. /\ Cardinality(Alerting(i)) \in Nat /\ Cardinality(Slots) \in Nat
          /\ alerts[i] \in Nat /\ Pending(i)
      BY <1>1, AlertingFinite DEF Inv, AlertsInv, Types
    <3> QED
      BY <3>1 DEF Pending
  <2> QED
    BY <2>1 DEF OneAlertPerCooldown
<1> QED
  BY <1>1, Invariant, PTL
=============================================================================
