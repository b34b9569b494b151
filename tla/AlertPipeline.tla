---------------------------- MODULE AlertPipeline ----------------------------
(***************************************************************************)
(* The alerts of one user: readings are evaluated as they are published,   *)
(* several at a time; each may raise an alert of each type, which is saved *)
(* and queued for delivery, at once or after quiet hours; the workers of   *)
(* the alert queue deliver it by WhatsApp or else by email, and retry.     *)
(*                                                                         *)
(* A user's settings and the rules that grade a reading are inputs: an     *)
(* evaluation finds any severities, any window, any channels enabled.      *)
(***************************************************************************)
EXTENDS QuietHours, Sequences, FiniteSets

CONSTANTS
  LastType,     \* alert types are examined in order, up to this one
  Evals,        \* evaluations that may be under way at once
  Workers,      \* execution slots of the alert queue's workers
  None,         \* no window, no worker
  Windows,      \* the quiet hours users may set
  Cooldown,     \* alertCooldownMinutes; 0 switches the cooldown off
  MaxAttempts,  \* attempts of a delivery job: 3 in the code
  MaxStalled,   \* times a stalled job is redelivered: BullMQ's default, 1
  FaultKinds,   \* the faults a run allows
  MaxFaults,    \* bound: how many of them happen in a behaviour
  MaxAlerts,    \* bound on the rows
  Horizon,      \* bound on the clock
  EvaluationsFinish \* TRUE: an evaluation takes less than a tick of the clock

ASSUME TypesAssumption == LastType \in Nat \ {0}
ASSUME WindowsAssumption == Windows \subseteq WindowType /\ None \notin Windows
ASSUME WorkersAssumption == IsFiniteSet(Workers) /\ None \notin Workers
ASSUME BoundsAssumption ==
  /\ Cooldown \in Nat /\ MaxFaults \in Nat /\ MaxAlerts \in Nat /\ Horizon \in Nat
  /\ MaxAttempts \in Nat \ {0} /\ MaxStalled \in Nat
  /\ EvaluationsFinish \in BOOLEAN
  /\ FaultKinds \subseteq {"crash", "lockLost", "database", "response", "evaluation"}

VARIABLES
  now,      \* the clock
  alerts,   \* the alert rows of the user, oldest first
  eval,     \* the evaluations under way
  job,      \* the delivery job of each row
  worker,   \* what each execution slot is doing
  sent,     \* history: messages sent for each row
  faults    \* faults so far

vars == <<now, alerts, eval, job, worker, sent, faults>>
queueVars == <<job, worker, sent>>

Types == 1..LastType
Rows == 1..MaxAlerts
Alerts == 1..Len(alerts)

\* isSeverityUpgrade ranks all five severities; readings are graded with two.
Warning == 3
Critical == 4

\* What a reading raises: at most one alert of each type, in their order.
Findings == [type: Types, severity: {Warning, Critical}]
Readings == {f \in UNION {[1..n -> Findings] : n \in Types} :
               \A i, j \in DOMAIN f : i < j => f[i].type < f[j].type}

NotEvaluating == [pc |-> "idle", found |-> <<>>, window |-> None,
                  triggered |-> 0, deferred |-> FALSE, seen |-> 0, row |-> 0]
NoJob == [state |-> "none", due |-> 0, lock |-> None, made |-> 0, stalls |-> 0]
Idle == [pc |-> "idle", alert |-> 1, channels |-> {}, resolved |-> FALSE,
         delivery |-> "pending"]

Init ==
  /\ now = 0
  /\ alerts = <<>>
  /\ eval = [e \in Evals |-> NotEvaluating]
  /\ job = [i \in Rows |-> NoJob]
  /\ worker = [w \in Workers |-> Idle]
  /\ sent = [i \in Rows |-> 0]
  /\ faults = 0

Fault(kind) ==
  /\ kind \in FaultKinds
  /\ faults < MaxFaults
  /\ faults' = faults + 1

Tick ==
  /\ now < Horizon
  /\ EvaluationsFinish => \A e \in Evals : eval[e].pc = "idle"
  /\ now' = now + 1
  /\ UNCHANGED <<alerts, eval, queueVars, faults>>

-----------------------------------------------------------------------------
(* AlertDetectionJob.                                                      *)

\* Mutant: an alert that was resolved blocks nothing, whatever the cooldown.
BlocksUnresolved(i, severity) ==
  severity <= alerts[i].severity /\ ~ alerts[i].resolved

\* Does row i keep an alert of this severity from being raised?
Blocks(i, severity) ==
  /\ severity <= alerts[i].severity
  /\ now - alerts[i].created < Cooldown \/ ~ alerts[i].resolved

\* isDuplicate: only the user's latest alert of the type counts.
Duplicate(type, severity) ==
  \E i \in Alerts : /\ alerts[i].type = type
                    /\ \A j \in Alerts : alerts[j].type = type => j <= i
                    /\ Blocks(i, severity)

Examined(e) == Head(eval[e].found)

\* On to the next type, or done.
NextType(e) ==
  eval' = [eval EXCEPT ![e] =
    IF Len(eval[e].found) = 1 THEN NotEvaluating
    ELSE [NotEvaluating EXCEPT !.pc = "checking", !.found = Tail(eval[e].found),
                               !.window = eval[e].window]]

\* evaluateInverter reads the settings and grades the reading of an active
\* inverter for battery, solar and load.
Evaluate(e, found, window) ==
  /\ eval[e].pc = "idle"
  /\ Len(alerts) < MaxAlerts
  /\ now + Day < Horizon
  /\ eval' = [eval EXCEPT ![e] =
       [NotEvaluating EXCEPT !.pc = "checking", !.found = found, !.window = window]]
  /\ UNCHANGED <<now, alerts, queueVars, faults>>

Deferred(window, severity) ==
  window # None /\ Quiet(now, window) /\ severity # Critical

Suppress(e) ==
  /\ eval[e].pc = "checking"
  /\ Duplicate(Examined(e).type, Examined(e).severity)
  /\ NextType(e)
  /\ UNCHANGED <<now, alerts, queueVars, faults>>

Decide(e) ==
  /\ eval[e].pc = "checking"
  /\ ~ Duplicate(Examined(e).type, Examined(e).severity)
  /\ eval' = [eval EXCEPT ![e].pc = "saving", ![e].triggered = now,
                          ![e].deferred = Deferred(eval[e].window, Examined(e).severity),
                          ![e].seen = Len(alerts)]
  /\ UNCHANGED <<now, alerts, queueVars, faults>>

\* seen and window are history: what the decision was based on.
Save(e) ==
  /\ eval[e].pc = "saving"
  /\ Len(alerts) < MaxAlerts
  /\ alerts' = Append(alerts,
       [type |-> Examined(e).type, severity |-> Examined(e).severity,
        triggered |-> eval[e].triggered, created |-> now,
        deferred |-> eval[e].deferred, resolved |-> FALSE,
        delivery |-> "pending",
        seen |-> eval[e].seen, window |-> eval[e].window])
  /\ eval' = [eval EXCEPT ![e].pc = "queueing", ![e].row = Len(alerts) + 1]
  /\ UNCHANGED <<now, queueVars, faults>>

\* Mutant: a deferred alert is queued like any other.
NoDelay(e) == 0

Delay(e) ==
  IF eval[e].deferred
  THEN QuietUntil(eval[e].triggered, eval[e].window) - eval[e].triggered
  ELSE 0

Enqueue(e) ==
  /\ eval[e].pc = "queueing"
  /\ job' = [job EXCEPT ![eval[e].row] =
       [NoJob EXCEPT !.state = "waiting", !.due = now + Delay(e)]]
  /\ NextType(e)
  /\ UNCHANGED <<now, alerts, worker, sent, faults>>

\* An await rejects, or the process dies: the types still to be examined, and
\* the job of a row already saved, are forgotten.
EvaluationFails(e) ==
  /\ eval[e].pc # "idle"
  /\ Fault("evaluation")
  /\ eval' = [eval EXCEPT ![e] = NotEvaluating]
  /\ UNCHANGED <<now, alerts, queueVars>>

\* Bound: there is no row left for what this evaluation found.
OutOfRows(e) ==
  /\ eval[e].pc \in {"checking", "saving"}
  /\ Len(alerts) = MaxAlerts
  /\ eval' = [eval EXCEPT ![e] = NotEvaluating]
  /\ UNCHANGED <<now, alerts, queueVars, faults>>

\* PATCH /alerts/:id/resolve.
Resolve(i) ==
  /\ i \in Alerts
  /\ ~ alerts[i].resolved
  /\ alerts' = [alerts EXCEPT ![i].resolved = TRUE]
  /\ UNCHANGED <<now, eval, queueVars, faults>>

-----------------------------------------------------------------------------
(* AlertDispatchProcessor.handleDispatch, one worker slot at a time.       *)

Goto(w, pc) == worker' = [worker EXCEPT ![w].pc = pc]

Due(i) == job[i].state = "waiting" /\ job[i].due <= now

\* The job is handed to w, which reads the row, the user and the settings.
TakeJob(w, i, channels) ==
  /\ worker[w].pc = "idle"
  /\ Due(i)
  /\ job' = [job EXCEPT ![i].state = "active", ![i].lock = w]
  /\ worker' = [worker EXCEPT ![w] =
       [pc |-> "marking", alert |-> i, channels |-> channels,
        resolved |-> alerts[i].resolved, delivery |-> alerts[i].delivery]]
  /\ UNCHANGED <<now, alerts, eval, sent, faults>>

\* save() writes every column of the entity in which it differs from the row:
\* resolutionStatus as it was when the attempt read it, too.
SaveCopy(w, delivery) ==
  alerts' = [alerts EXCEPT ![worker[w].alert] =
    [@ EXCEPT !.resolved = worker[w].resolved, !.delivery = delivery]]

MarkProcessing(w) ==
  /\ worker[w].pc = "marking"
  /\ SaveCopy(w, worker[w].delivery)
  /\ Goto(w, "whatsapp")
  /\ UNCHANGED <<now, eval, job, sent, faults>>

Channels == {"whatsapp", "email"}

\* deliverWithFallback's chain.
AfterChannel(channel) == IF channel = "whatsapp" THEN "email" ELSE "undelivered"

Skip(w, channel) ==
  /\ worker[w].pc = channel
  /\ channel \notin worker[w].channels
  /\ Goto(w, AfterChannel(channel))
  /\ UNCHANGED <<now, alerts, eval, job, sent, faults>>

\* Mutant: the chain goes on after a channel that delivered.
AcceptAndContinue(w, channel) ==
  /\ worker[w].pc = channel
  /\ channel \in worker[w].channels
  /\ sent' = [sent EXCEPT ![worker[w].alert] = @ + 1]
  /\ Goto(w, IF channel = "whatsapp" THEN "email" ELSE "delivered")
  /\ UNCHANGED <<now, alerts, eval, job, faults>>

\* Twilio, or the email queue, takes the message.
Accept(w, channel) ==
  /\ worker[w].pc = channel
  /\ channel \in worker[w].channels
  /\ sent' = [sent EXCEPT ![worker[w].alert] = @ + 1]
  /\ Goto(w, "delivered")
  /\ UNCHANGED <<now, alerts, eval, job, faults>>

Refuse(w, channel) ==
  /\ worker[w].pc = channel
  /\ channel \in worker[w].channels
  /\ Goto(w, AfterChannel(channel))
  /\ UNCHANGED <<now, alerts, eval, job, sent, faults>>

\* The message is taken, but the sender never hears of it.
LoseResponse(w, channel) ==
  /\ worker[w].pc = channel
  /\ channel \in worker[w].channels
  /\ Fault("response")
  /\ sent' = [sent EXCEPT ![worker[w].alert] = @ + 1]
  /\ Goto(w, AfterChannel(channel))
  /\ UNCHANGED <<now, alerts, eval, job>>

\* Mutant: "partial_success", every channel disabled, counts as delivered.
RecordPartialSuccess(w) ==
  /\ worker[w].pc = "undelivered"
  /\ SaveCopy(w, IF worker[w].channels = {} THEN "delivered" ELSE "failed")
  /\ Goto(w, "throwing")
  /\ UNCHANGED <<now, eval, job, sent, faults>>

RecordDelivery(w) ==
  /\ worker[w].pc = "delivered"
  /\ SaveCopy(w, "delivered")
  /\ Goto(w, "returning")
  /\ UNCHANGED <<now, eval, job, sent, faults>>

RecordFailure(w) ==
  /\ worker[w].pc = "undelivered"
  /\ SaveCopy(w, "failed")
  /\ Goto(w, "throwing")
  /\ UNCHANGED <<now, eval, job, sent, faults>>

SaveFails(w) ==
  /\ worker[w].pc \in {"marking", "delivered", "undelivered"}
  /\ Fault("database")
  /\ Goto(w, "throwing")
  /\ UNCHANGED <<now, alerts, eval, job, sent>>

\* BullMQ accepts the outcome of an attempt only from the holder of the lock.
Settle(w, outcome) ==
  /\ job' = IF job[worker[w].alert].lock = w
            THEN [job EXCEPT ![worker[w].alert] = outcome] ELSE job
  /\ worker' = [worker EXCEPT ![w] = Idle]

Return(w) ==
  /\ worker[w].pc = "returning"
  /\ Settle(w, [job[worker[w].alert] EXCEPT !.state = "completed", !.lock = None])
  /\ UNCHANGED <<now, alerts, eval, sent, faults>>

\* A failed attempt goes back to the queue after its backoff until the last.
Throw(w) ==
  LET j == job[worker[w].alert] IN
  /\ worker[w].pc = "throwing"
  /\ Settle(w, [j EXCEPT
       !.state = IF j.made + 1 < MaxAttempts THEN "waiting" ELSE "failed",
       !.lock = None,
       !.made = j.made + 1])
  /\ UNCHANGED <<now, alerts, eval, sent, faults>>

Unlock(w) ==
  job' = [i \in Rows |-> IF job[i].lock = w THEN [job[i] EXCEPT !.lock = None] ELSE job[i]]

Crash(w) ==
  /\ worker[w].pc # "idle"
  /\ Fault("crash")
  /\ Unlock(w)
  /\ worker' = [worker EXCEPT ![w] = Idle]
  /\ UNCHANGED <<now, alerts, eval, sent>>

\* The attempt goes on, but its lock was not renewed in time.
LoseLock(w) ==
  /\ worker[w].pc # "idle"
  /\ job[worker[w].alert].lock = w
  /\ Fault("lockLost")
  /\ Unlock(w)
  /\ UNCHANGED <<now, alerts, eval, worker, sent>>

\* Mutant: a job that stalls is not redelivered.
FailStalled(i) ==
  /\ job[i].state = "active"
  /\ job[i].lock = None
  /\ job' = [job EXCEPT ![i] = [job[i] EXCEPT !.state = "failed"]]
  /\ UNCHANGED <<now, alerts, eval, worker, sent, faults>>

\* BullMQ's stalled check: redelivered without counting an attempt, or failed.
StalledCheck(i) ==
  /\ job[i].state = "active"
  /\ job[i].lock = None
  /\ job' = [job EXCEPT ![i] =
       IF job[i].stalls < MaxStalled
       THEN [job[i] EXCEPT !.state = "waiting", !.stalls = job[i].stalls + 1]
       ELSE [job[i] EXCEPT !.state = "failed"]]
  /\ UNCHANGED <<now, alerts, eval, worker, sent, faults>>

-----------------------------------------------------------------------------
Evaluation(e) ==
  \/ Suppress(e)
  \/ Decide(e)
  \/ Save(e)
  \/ Enqueue(e)
  \/ OutOfRows(e)
  \/ EvaluationFails(e)

Attempt(w) ==
  \/ MarkProcessing(w)
  \/ \E c \in Channels : Skip(w, c) \/ Accept(w, c) \/ Refuse(w, c) \/ LoseResponse(w, c)
  \/ RecordDelivery(w)
  \/ RecordFailure(w)
  \/ SaveFails(w)
  \/ Return(w)
  \/ Throw(w)

Next ==
  \/ Tick
  \/ \E e \in Evals :
       \/ \E found \in Readings, window \in Windows \cup {None} :
            Evaluate(e, found, window)
       \/ Evaluation(e)
  \/ \E i \in Rows : Resolve(i) \/ StalledCheck(i)
  \/ \E w \in Workers :
       \/ \E i \in Rows, channels \in SUBSET Channels : TakeJob(w, i, channels)
       \/ Attempt(w) \/ Crash(w) \/ LoseLock(w)

Spec == Init /\ [][Next]_vars

\* The clock goes on, the event loop runs what it started, BullMQ hands out
\* what is due and checks for stalled jobs.
Fairness ==
  /\ WF_vars(Tick)
  /\ \A e \in Evals : WF_vars(Evaluation(e))
  /\ \A i \in Rows :
       /\ WF_vars(StalledCheck(i))
       /\ SF_vars(\E w \in Workers, channels \in SUBSET Channels : TakeJob(w, i, channels))
  /\ \A w \in Workers : WF_vars(Attempt(w))

FairSpec == Spec /\ Fairness

-----------------------------------------------------------------------------
RowType ==
  [type: Types, severity: {Warning, Critical}, triggered: 0..Horizon,
   created: 0..Horizon, deferred: BOOLEAN, resolved: BOOLEAN,
   delivery: {"pending", "delivered", "failed"},
   seen: 0..MaxAlerts, window: Windows \cup {None}]
EvalType ==
  [pc: {"idle", "checking", "saving", "queueing"},
   found: Seq(Findings), window: Windows \cup {None},
   triggered: 0..Horizon, deferred: BOOLEAN, seen: 0..MaxAlerts, row: 0..MaxAlerts]
JobType ==
  [state: {"none", "waiting", "active", "completed", "failed"}, due: Nat,
   lock: Workers \cup {None}, made: 0..MaxAttempts, stalls: 0..MaxStalled]
WorkerType ==
  [pc: {"idle", "marking", "whatsapp", "email", "delivered", "undelivered",
        "returning", "throwing"},
   alert: Nat, channels: SUBSET Channels, resolved: BOOLEAN,
   delivery: {"pending", "delivered", "failed"}]

TypeOK ==
  /\ now \in 0..Horizon
  /\ alerts \in Seq(RowType) /\ Len(alerts) <= MaxAlerts
  /\ eval \in [Evals -> EvalType]
  /\ job \in [Rows -> JobType]
  /\ worker \in [Workers -> WorkerType]
  /\ sent \in [Rows -> Nat]
  /\ faults \in 0..MaxFaults

\* Within the cooldown of an alert another of its type is no news unless it is
\* graver: one that is not was raised only because, since the first, a row of
\* the type was saved by an evaluation that had not seen the first.
\* (isDuplicate reads, and saveAndDispatchAlert writes, in two awaits.)
RepeatsOnlyByRace ==
  \A i, j \in Alerts :
    /\ i < j /\ alerts[i].type = alerts[j].type
    /\ alerts[j].severity <= alerts[i].severity
    /\ alerts[j].created - alerts[i].created < Cooldown
    => \E k \in i + 1 .. j : alerts[k].type = alerts[i].type /\ alerts[k].seen < i

\* Retries and fallbacks repeat a message only after a fault: each fault costs
\* at most one copy.
OneMessagePerFault == \A i \in Rows : sent[i] <= 1 + faults

\* A row says it was delivered only if a message went out.
DeliveredWasSent == \A i \in Alerts : alerts[i].delivery = "delivered" => sent[i] > 0

\* What is held back for quiet hours is not sent before they were over once:
\* retries, crashes and late jobs included.
QuietKept ==
  [][\A i \in Alerts :
       (sent'[i] # sent[i] /\ alerts[i].deferred /\ ~ AlwaysQuiet(alerts[i].window))
       => \E m \in alerts[i].triggered .. now : ~ Quiet(m, alerts[i].window)]_vars

\* A queued alert is tried: its row ends up delivered or failed.
QueuedSettles ==
  \A i \in Rows : job[i].state # "none" ~> i \in Alerts /\ alerts[i].delivery # "pending"
=============================================================================
