------------------------- MODULE AlertPipelineProofs -------------------------
(***************************************************************************)
(* What holds of AlertPipeline for all types, evaluations, workers, quiet  *)
(* hours, cooldowns and faults, and for all bounds.                        *)
(***************************************************************************)
EXTENDS AlertPipeline, WellFoundedInduction, FiniteSetTheorems, TLAPS

USE DayAssumption

-----------------------------------------------------------------------------
(* Quiet hours, for every length of day, window, timezone and moment: the  *)
(* moment an alert is deferred to lies ahead, and outside of them.         *)


\* Division of a moment into whole days and a minute of the day.
LEMMA Division ==
  ASSUME NEW m \in Int
  PROVE  /\ m % Day \in 0..Day - 1
         /\ m \div Day \in Int
         /\ m = Day * (m \div Day) + (m % Day)
  OBVIOUS

\* Whole days do not change the minute of the day.
LEMMA Remainder ==
  ASSUME NEW q \in Int, NEW r \in 0..Day - 1
  PROVE  (Day * q + r) % Day = r
<1> DEFINE m == Day * q + r
<1>1. m \in Int
  OBVIOUS
<1>2. /\ m % Day \in 0..Day - 1
      /\ m \div Day \in Int
      /\ m = Day * (m \div Day) + (m % Day)
  BY <1>1, Division
<1> DEFINE p == m \div Day
<1>3. Day * (q - p) = (m % Day) - r
  BY <1>2
<1>4. CASE q - p >= 1
  <2>1. Day * (q - p) >= Day
    BY <1>4, <1>2
  <2> QED
    BY <2>1, <1>2, <1>3
<1>5. CASE q - p <= -1
  <2>1. Day * (q - p) <= -Day
    BY <1>5, <1>2
  <2> QED
    BY <2>1, <1>2, <1>3
<1>6. CASE q = p
  BY <1>6, <1>2, <1>3
<1> QED
  BY <1>2, <1>4, <1>5, <1>6

\* The next moment that shows a minute: later, within a day, and it shows it.
LEMMA NextAtFacts ==
  ASSUME NEW moment \in Nat, NEW minute \in 0..Day - 1
  PROVE  /\ NextAt(moment, minute) \in Nat
         /\ NextAt(moment, minute) > moment
         /\ NextAt(moment, minute) <= moment + Day
         /\ NextAt(moment, minute) % Day = minute
<1> DEFINE q == moment \div Day
           r == moment % Day
<1>1. q \in Int /\ r \in 0..Day - 1 /\ moment = Day * q + r
  BY Division
<1>2. (Day * q + minute) % Day = minute
  BY <1>1, Remainder
<1>3. (Day * (q + 1) + minute) % Day = minute
  <2> HIDE DEF q
  <2>1. q + 1 \in Int
    BY <1>1
  <2> QED
    BY <2>1, Remainder
<1>4. Day * q \in Int /\ Day * (q + 1) = Day * q + Day
  BY <1>1
<1> DEFINE midnight == Day * q
<1>5. moment - (moment % Day) = midnight
  BY <1>1, <1>4
<1>6. NextAt(moment, minute) = IF midnight + minute <= moment THEN midnight + minute + Day
                                                           ELSE midnight + minute
  BY <1>5 DEF NextAt
<1>7. (midnight + minute + Day) % Day = minute
  BY <1>3, <1>4, <1>1
<1>8. midnight \in Int /\ moment = midnight + r
  BY <1>1, <1>4
<1>9. (midnight + minute) % Day = minute
  BY <1>2
<1> HIDE DEF midnight, r, q
<1> QED
  BY <1>1, <1>6, <1>7, <1>8, <1>9

\* A converted time is a time of day, also across midnight.
LEMMA ToUTCRange ==
  ASSUME NEW time \in Int, NEW offset \in Int
  PROVE  ToUTC(time, offset) \in 0..Day - 1
BY Division DEF ToUTC

\* deferUntil: what is held back is held back for at most a day, until a moment
\* that is not quiet, unless the user is always quiet.
THEOREM QuietUntilFacts ==
  ASSUME NEW moment \in Nat, NEW w \in WindowType
  PROVE  /\ QuietUntil(moment, w) \in Nat
         /\ QuietUntil(moment, w) > moment
         /\ QuietUntil(moment, w) <= moment + Day
         /\ ~ AlwaysQuiet(w) => ~ Quiet(QuietUntil(moment, w), w)
<1> DEFINE start == ToUTC(w.start, w.offset)
           end == ToUTC(w.end, w.offset)
<1>1. start \in 0..Day - 1 /\ end \in 0..Day - 1
  BY ToUTCRange DEF WindowType
<1>2. /\ NextAt(moment, end) \in Nat
      /\ NextAt(moment, end) > moment
      /\ NextAt(moment, end) <= moment + Day
      /\ NextAt(moment, end) % Day = end
  BY <1>1, NextAtFacts
<1>3. ~ Sentinel(start, end) => ~ Within(end, start, end)
  BY <1>1 DEF Within
<1> QED
  BY <1>2, <1>3 DEF QuietUntil, Quiet, AlwaysQuiet

-----------------------------------------------------------------------------
USE TypesAssumption, WindowsAssumption, WorkersAssumption, BoundsAssumption

-----------------------------------------------------------------------------
(* Types, and what ties evaluations, jobs and workers to the rows: a row   *)
(* exists before its job does, and a job that may still be tried has       *)
(* attempts left.                                                          *)

EvalFits(r, time, rows) ==
  /\ r \in EvalType
  /\ r.pc # "idle" => Len(r.found) > 0
  /\ r.pc = "queueing" => r.row \in 1..rows
  /\ r.seen <= rows
  /\ r.triggered <= time
  /\ r.deferred => r.window \in Windows

JobFits(i, j, rows) ==
  /\ j \in JobType
  /\ j.state # "none" => i <= rows
  /\ j.state \in {"waiting", "active"} => j.made < MaxAttempts
  /\ j.lock # None => j.state = "active"

WorkerFits(r, rows) ==
  /\ r \in WorkerType
  /\ r.pc # "idle" => r.alert \in 1..rows

Linked ==
  /\ \A e \in Evals : EvalFits(eval[e], now, Len(alerts))
  /\ \A i \in Rows : JobFits(i, job[i], Len(alerts))
  /\ \A w \in Workers : WorkerFits(worker[w], Len(alerts))

\* Nothing is under way and there are no rows: everything fits.
LEMMA LinkedInit == Init => TypeOK /\ Linked
<1> SUFFICES ASSUME Init PROVE TypeOK /\ Linked
  OBVIOUS
<1>1. Len(alerts) = 0 /\ alerts \in Seq(RowType)
  BY DEF Init
<1>2. NotEvaluating \in EvalType
  BY DEF NotEvaluating, EvalType
<1>3. NoJob \in JobType
  BY DEF NoJob, JobType
<1>4. Idle \in WorkerType
  BY DEF Idle, WorkerType
<1>5. EvalFits(NotEvaluating, 0, 0)
  BY <1>2 DEF NotEvaluating, EvalFits
<1>6. \A i \in Rows : JobFits(i, NoJob, 0)
  BY <1>3 DEF NoJob, JobFits
<1>7. WorkerFits(Idle, 0)
  BY <1>4 DEF Idle, WorkerFits
<1> HIDE DEF NotEvaluating, NoJob, Idle
<1>8. TypeOK
  BY <1>1, <1>2, <1>3, <1>4 DEF TypeOK, Init
<1>9. Linked
  BY <1>1, <1>5, <1>6, <1>7 DEF Linked, Init
<1> QED
  BY <1>8, <1>9

\* A step preserves both if what it writes fits; rows and time only grow.
LEMMA Frame ==
  ASSUME TypeOK, Linked,
         now' \in 0..Horizon, now <= now',
         alerts' \in Seq(RowType), Len(alerts) <= Len(alerts'), Len(alerts') <= MaxAlerts,
         sent' \in [Rows -> Nat], faults' \in 0..MaxFaults,
         eval' \in [Evals -> EvalType],
         \A e \in Evals : eval'[e] = eval[e] \/ EvalFits(eval'[e], now', Len(alerts')),
         job' \in [Rows -> JobType],
         \A i \in Rows : job'[i] = job[i] \/ JobFits(i, job'[i], Len(alerts')),
         worker' \in [Workers -> WorkerType],
         \A w \in Workers : worker'[w] = worker[w] \/ WorkerFits(worker'[w], Len(alerts'))
  PROVE  TypeOK' /\ Linked'
<1>1. TypeOK'
  BY DEF TypeOK
<1>2. Len(alerts) \in Nat /\ Len(alerts') \in Nat
  BY DEF TypeOK
<1>3. \A e \in Evals : EvalFits(eval'[e], now', Len(alerts'))
  BY <1>2 DEF Linked, TypeOK, EvalFits, EvalType
<1>4. \A i \in Rows : JobFits(i, job'[i], Len(alerts'))
  <2> TAKE i \in Rows
  <2>1. JobFits(i, job[i], Len(alerts)) /\ i \in Nat
    BY DEF Linked, Rows
  <2>2. CASE job'[i] = job[i]
    BY <1>2, <2>1, <2>2 DEF JobFits
  <2> QED
    BY <2>2
<1>5. \A w \in Workers : WorkerFits(worker'[w], Len(alerts'))
  BY <1>2 DEF Linked, TypeOK, WorkerFits, WorkerType
<1> QED
  BY <1>1, <1>3, <1>4, <1>5 DEF Linked

\* A fault is counted within its bound.
LEMMA FaultCounted == ASSUME TypeOK, NEW kind, Fault(kind) PROVE faults' \in 0..MaxFaults
BY DEF TypeOK, Fault

\* The head of what was found, and the rest unless it was all.
LEMMA HeadTail ==
  ASSUME NEW S, NEW s \in Seq(S), Len(s) > 0
  PROVE  /\ Head(s) \in S
         /\ Len(s) # 1 => Tail(s) \in Seq(S) /\ Len(Tail(s)) > 0
<1>1. s # <<>>
  OBVIOUS
<1>2. Head(s) \in S
  BY <1>1
<1>3. Tail(s) \in Seq(S) /\ Len(Tail(s)) = Len(s) - 1
  BY <1>1
<1>4. Len(s) \in Nat
  OBVIOUS
<1> QED
  BY <1>2, <1>3, <1>4

\* The evaluation that follows fits, whatever was found.
LEMMA NextTypeFits ==
  ASSUME TypeOK, Linked, NEW e \in Evals, eval[e].pc # "idle", NextType(e)
  PROVE  /\ eval' \in [Evals -> EvalType]
         /\ \A f \in Evals : eval'[f] = eval[f] \/ EvalFits(eval'[f], now, Len(alerts))
<1> DEFINE r == IF Len(eval[e].found) = 1 THEN NotEvaluating
                ELSE [NotEvaluating EXCEPT !.pc = "checking", !.found = Tail(eval[e].found),
                                           !.window = eval[e].window]
<1>1. /\ eval[e] \in EvalType /\ eval[e].found \in Seq(Findings) /\ Len(eval[e].found) > 0
      /\ eval[e].window \in Windows \cup {None}
  BY DEF Linked, EvalFits, EvalType
<1>2. Len(eval[e].found) # 1 => /\ Tail(eval[e].found) \in Seq(Findings)
                                /\ Len(Tail(eval[e].found)) > 0
  BY <1>1, HeadTail
<1>3. r \in EvalType
  <2>1. NotEvaluating \in EvalType
    BY DEF NotEvaluating, EvalType
  <2>2. CASE Len(eval[e].found) = 1
    BY <2>1, <2>2
  <2>3. CASE Len(eval[e].found) # 1
    <3> DEFINE tail == Tail(eval[e].found)
               window == eval[e].window
    <3>1. r = [pc |-> "checking", found |-> tail, window |-> window,
               triggered |-> 0, deferred |-> FALSE, seen |-> 0, row |-> 0]
      BY <2>3 DEF NotEvaluating
    <3>2. tail \in Seq(Findings) /\ window \in Windows \cup {None}
      BY <1>1, <1>2, <2>3
    <3> HIDE DEF r, tail, window
    <3> QED
      BY <3>1, <3>2 DEF EvalType
  <2> QED
    BY <2>2, <2>3
<1>4. EvalFits(r, now, Len(alerts))
  BY <1>1, <1>2, <1>3 DEF EvalFits, NotEvaluating, TypeOK
<1>5. eval' = [eval EXCEPT ![e] = r]
  BY DEF NextType
<1> HIDE DEF r
<1> QED
  BY <1>3, <1>4, <1>5 DEF TypeOK

\* The clock moves; rows, jobs, evaluations and workers keep fitting.
LEMMA TickFits == ASSUME TypeOK, Linked, Tick PROVE TypeOK' /\ Linked'
<1>1. now' \in 0..Horizon /\ now <= now'
  BY DEF TypeOK, Tick
<1>2. UNCHANGED <<alerts, eval, job, worker, sent, faults>>
  BY DEF Tick, queueVars
<1>3. Len(alerts) <= Len(alerts')
  BY <1>2 DEF TypeOK
<1> QED
  BY <1>1, <1>2, <1>3, Frame DEF TypeOK

\* One evaluation changes, and nothing else but the count of faults.
LEMMA EvalFrame ==
  ASSUME TypeOK, Linked, UNCHANGED <<now, alerts, job, worker, sent>>,
         faults' \in 0..MaxFaults, eval' \in [Evals -> EvalType],
         \A e \in Evals : eval'[e] = eval[e] \/ EvalFits(eval'[e], now, Len(alerts))
  PROVE  TypeOK' /\ Linked'
<1>1. Len(alerts) <= Len(alerts') /\ now <= now'
  BY DEF TypeOK
<1> QED
  BY <1>1, Frame DEF TypeOK

\* A fresh evaluation, field by field.
LEMMA NewEvaluation ==
  ASSUME NEW f, NEW window, NEW r,
         r = [NotEvaluating EXCEPT !.pc = "checking", !.found = f, !.window = window]
  PROVE  r = [pc |-> "checking", found |-> f, window |-> window,
              triggered |-> 0, deferred |-> FALSE, seen |-> 0, row |-> 0]
BY DEF NotEvaluating

\* A fresh job, field by field.
LEMMA NewJob ==
  ASSUME NEW due, NEW j, j = [NoJob EXCEPT !.state = "waiting", !.due = due]
  PROVE  j = [state |-> "waiting", due |-> due, lock |-> None, made |-> 0, stalls |-> 0]
BY DEF NoJob

\* A reading is a non-empty sequence of findings.
LEMMA ReadingFits ==
  ASSUME NEW f \in Readings
  PROVE  f \in Seq(Findings) /\ Len(f) > 0
<1>1. PICK n \in Types : f \in [1..n -> Findings]
  BY DEF Readings
<1>2. n \in Nat /\ n > 0
  BY DEF Types
<1> HIDE DEF Findings
<1> QED
  BY <1>1, <1>2

\* A new evaluation has something to examine.
LEMMA EvaluateFits ==
  ASSUME TypeOK, Linked, NEW e \in Evals, NEW f \in Readings,
         NEW window \in Windows \cup {None}, Evaluate(e, f, window)
  PROVE  TypeOK' /\ Linked'
<1> DEFINE r == [NotEvaluating EXCEPT !.pc = "checking", !.found = f, !.window = window]
<1>1. f \in Seq(Findings) /\ Len(f) > 0
  BY ReadingFits
<1>2. r = [pc |-> "checking", found |-> f, window |-> window,
           triggered |-> 0, deferred |-> FALSE, seen |-> 0, row |-> 0]
  BY NewEvaluation
<1>3. eval' = [eval EXCEPT ![e] = r] /\ UNCHANGED <<now, alerts, job, worker, sent, faults>>
  BY DEF Evaluate, queueVars
<1> HIDE DEF r
<1>4. r \in EvalType
  BY <1>1, <1>2 DEF EvalType
<1>5. EvalFits(r, now, Len(alerts))
  BY <1>1, <1>2, <1>4 DEF EvalFits, TypeOK
<1> QED
  BY <1>3, <1>4, <1>5, EvalFrame DEF TypeOK

\* A duplicate only moves the evaluation on.
LEMMA SuppressFits ==
  ASSUME TypeOK, Linked, NEW e \in Evals, Suppress(e)
  PROVE  TypeOK' /\ Linked'
BY NextTypeFits, EvalFrame DEF Suppress, queueVars, TypeOK

\* A deferred alert has a window, and what was seen is what there is.
LEMMA DecideFits ==
  ASSUME TypeOK, Linked, NEW e \in Evals, Decide(e)
  PROVE  TypeOK' /\ Linked'
<1> DEFINE d == Deferred(eval[e].window, Examined(e).severity)
           r == [eval[e] EXCEPT !.pc = "saving", !.triggered = now, !.deferred = d,
                                !.seen = Len(alerts)]
<1>1. eval' = [eval EXCEPT ![e] = r] /\ UNCHANGED <<now, alerts, job, worker, sent, faults>>
  BY DEF Decide, queueVars, TypeOK
<1>2. eval[e] \in EvalType /\ Len(eval[e].found) > 0
  BY DEF Linked, EvalFits, Decide
<1>3. d \in BOOLEAN /\ (d => eval[e].window \in Windows)
  BY <1>2 DEF Deferred, EvalType
<1>4. now \in 0..Horizon /\ Len(alerts) \in 0..MaxAlerts
  BY DEF TypeOK
<1> HIDE DEF d
<1>5. r \in EvalType
  BY <1>2, <1>3, <1>4 DEF EvalType
<1>6. EvalFits(r, now, Len(alerts))
  <2>1. /\ r.pc = "saving" /\ r.found = eval[e].found /\ r.seen = Len(alerts)
        /\ r.triggered = now /\ r.deferred = d /\ r.window = eval[e].window
    BY <1>2 DEF EvalType
  <2> HIDE DEF r
  <2> QED
    BY <1>2, <1>3, <1>4, <1>5, <2>1 DEF EvalFits
<1> HIDE DEF r
<1> QED
  BY <1>1, <1>5, <1>6, EvalFrame DEF TypeOK

\* A failed or cut-off evaluation fits as an idle one.
LEMMA ForgetFits ==
  ASSUME TypeOK, Linked, NEW e \in Evals, EvaluationFails(e) \/ OutOfRows(e)
  PROVE  TypeOK' /\ Linked'
<1>1. NotEvaluating \in EvalType
  BY DEF NotEvaluating, EvalType
<1>2. EvalFits(NotEvaluating, now, Len(alerts))
  BY <1>1 DEF EvalFits, NotEvaluating, TypeOK
<1>3. /\ eval' = [eval EXCEPT ![e] = NotEvaluating]
      /\ UNCHANGED <<now, alerts, job, worker, sent>>
  BY DEF EvaluationFails, OutOfRows, queueVars
<1>4. faults' \in 0..MaxFaults
  BY FaultCounted DEF EvaluationFails, OutOfRows, TypeOK
<1> HIDE DEF NotEvaluating
<1> QED
  BY <1>1, <1>2, <1>3, <1>4, EvalFrame DEF TypeOK

NewRow(e) ==
  [type |-> Examined(e).type, severity |-> Examined(e).severity,
   triggered |-> eval[e].triggered, created |-> now,
   deferred |-> eval[e].deferred, resolved |-> FALSE, delivery |-> "pending",
   seen |-> eval[e].seen, window |-> eval[e].window]

\* Saving appends one well-typed row and keeps the others.
LEMMA SaveStep ==
  ASSUME TypeOK, Linked, NEW e \in Evals, Save(e)
  PROVE  /\ NewRow(e) \in RowType
         /\ alerts' = Append(alerts, NewRow(e))
         /\ alerts' \in Seq(RowType)
         /\ Len(alerts') = Len(alerts) + 1
         /\ Len(alerts') <= MaxAlerts
         /\ \A i \in Alerts : alerts'[i] = alerts[i]
         /\ alerts'[Len(alerts) + 1] = NewRow(e)
<1>1. eval[e] \in EvalType /\ Len(eval[e].found) > 0
  BY DEF Linked, EvalFits, Save
<1>2. Examined(e) \in Findings
  BY <1>1, HeadTail DEF EvalType, Examined
<1>3. NewRow(e) \in RowType
  BY <1>1, <1>2 DEF NewRow, RowType, EvalType, Findings, TypeOK
<1>4. alerts' = Append(alerts, NewRow(e))
  BY DEF Save, NewRow
<1>5. alerts \in Seq(RowType) /\ Len(alerts) \in Nat /\ Len(alerts) < MaxAlerts
  BY DEF TypeOK, Save
<1> HIDE DEF NewRow, RowType
<1> QED
  BY <1>3, <1>4, <1>5 DEF Alerts

\* The row an evaluation goes on to queue exists.
LEMMA SaveFits ==
  ASSUME TypeOK, Linked, NEW e \in Evals, Save(e)
  PROVE  TypeOK' /\ Linked'
<1> DEFINE n == Len(alerts) + 1
           r == [eval[e] EXCEPT !.pc = "queueing", !.row = n]
<1>1. /\ eval' = [eval EXCEPT ![e] = r]
      /\ UNCHANGED <<now, job, worker, sent, faults>>
  BY DEF Save, queueVars, TypeOK
<1>2. /\ alerts' \in Seq(RowType) /\ Len(alerts') = n /\ n <= MaxAlerts
      /\ Len(alerts) \in Nat /\ n \in 0..MaxAlerts
  BY SaveStep DEF TypeOK
<1>3. /\ eval[e] \in EvalType /\ Len(eval[e].found) > 0
      /\ eval[e].seen <= Len(alerts) /\ eval[e].triggered <= now
      /\ eval[e].deferred => eval[e].window \in Windows
  BY DEF Linked, EvalFits, Save
<1> HIDE DEF n
<1>4. r \in EvalType
  BY <1>2, <1>3 DEF EvalType
<1>5. n \in 1..n /\ Len(alerts) <= n
  BY <1>2 DEF n
<1>6. EvalFits(r, now', n)
  <2>1. /\ r.pc = "queueing" /\ r.row = n /\ r.found = eval[e].found /\ r.seen = eval[e].seen
        /\ r.triggered = eval[e].triggered /\ r.deferred = eval[e].deferred
        /\ r.window = eval[e].window
    BY <1>3 DEF EvalType
  <2>2. eval[e].seen \in Nat
    BY <1>3 DEF EvalType
  <2>3. r.seen <= n
    BY <1>2, <1>3, <1>5, <2>1, <2>2
  <2> HIDE DEF r
  <2> QED
    BY <1>1, <1>3, <1>4, <1>5, <2>1, <2>3 DEF EvalFits
<1> HIDE DEF r
<1>7. eval' \in [Evals -> EvalType] /\ now' \in 0..Horizon /\ now <= now'
  BY <1>1, <1>4 DEF TypeOK
<1>8. \A f \in Evals : eval'[f] = eval[f] \/ EvalFits(eval'[f], now', n)
  BY <1>1, <1>6 DEF TypeOK
<1> QED
  BY <1>1, <1>2, <1>5, <1>7, <1>8, Frame DEF TypeOK

\* A delay is never negative.
LEMMA DelayIsNat ==
  ASSUME TypeOK, Linked, NEW e \in Evals
  PROVE  Delay(e) \in Nat
<1>1. eval[e] \in EvalType /\ eval[e].triggered \in Nat /\ (eval[e].deferred => eval[e].window \in WindowType)
  BY DEF Linked, EvalFits, EvalType
<1> QED
  BY <1>1, QuietUntilFacts DEF Delay

\* The new job is for an existing row and has its attempts before it.
LEMMA EnqueueFits ==
  ASSUME TypeOK, Linked, NEW e \in Evals, Enqueue(e)
  PROVE  TypeOK' /\ Linked'
<1> DEFINE d == now + Delay(e)
           j == [NoJob EXCEPT !.state = "waiting", !.due = d]
<1>1. /\ job' = [job EXCEPT ![eval[e].row] = j]
      /\ UNCHANGED <<now, alerts, worker, sent, faults>>
  BY DEF Enqueue
<1>2. eval[e].row \in 1..Len(alerts)
  BY DEF Linked, EvalFits, Enqueue
<1>3. d \in Nat
  BY DelayIsNat DEF TypeOK
<1> HIDE DEF d
<1>4. j = [state |-> "waiting", due |-> d, lock |-> None, made |-> 0, stalls |-> 0]
  BY NewJob
<1> HIDE DEF j
<1>5. j \in JobType
  BY <1>3, <1>4 DEF JobType
<1>8. JobFits(eval[e].row, j, Len(alerts))
  BY <1>2, <1>4, <1>5 DEF JobFits
<1>6. /\ eval' \in [Evals -> EvalType]
      /\ \A f \in Evals : eval'[f] = eval[f] \/ EvalFits(eval'[f], now, Len(alerts))
  BY NextTypeFits DEF Enqueue
<1>7. Len(alerts) <= Len(alerts') /\ now <= now'
  BY <1>1 DEF TypeOK
<1> QED
  BY <1>1, <1>5, <1>6, <1>7, <1>8, Frame DEF TypeOK

-----------------------------------------------------------------------------
(* Steps that change rows change only whether they are resolved and        *)
(* delivered.                                                              *)

SameNews(r, s) ==
  /\ r.type = s.type /\ r.severity = s.severity /\ r.triggered = s.triggered
  /\ r.created = s.created /\ r.deferred = s.deferred /\ r.seen = s.seen
  /\ r.window = s.window

RowsKept ==
  /\ alerts' \in Seq(RowType)
  /\ Len(alerts') = Len(alerts)
  /\ \A i \in Alerts : SameNews(alerts'[i], alerts[i])

\* Rewriting one row with the same news keeps the rows.
LEMMA Rewritten ==
  ASSUME TypeOK, NEW i \in Alerts, NEW r \in RowType, SameNews(r, alerts[i]),
         alerts' = [alerts EXCEPT ![i] = r]
  PROVE  RowsKept
<1>1. alerts \in Seq(RowType) /\ i \in 1..Len(alerts) /\ Len(alerts) \in Nat
  BY DEF TypeOK, Alerts
<1>2. alerts' \in Seq(RowType) /\ Len(alerts') = Len(alerts)
  <2> HIDE DEF RowType
  <2> QED
    BY <1>1
<1>3. \A k \in Alerts : alerts'[k] = IF k = i THEN r ELSE alerts[k]
  <2> HIDE DEF RowType
  <2> QED
    BY <1>1 DEF Alerts
<1>4. \A k \in Alerts : SameNews(alerts'[k], alerts[k])
  BY <1>3 DEF SameNews
<1> QED
  BY <1>2, <1>4 DEF RowsKept

\* Rows that are not written are kept.
LEMMA Unwritten ==
  ASSUME TypeOK, alerts' = alerts
  PROVE  RowsKept
BY DEF TypeOK, RowsKept, SameNews

\* Resolving changes neither the news nor the delivery of a row.
LEMMA ResolveStep ==
  ASSUME TypeOK, NEW i, Resolve(i)
  PROVE  /\ RowsKept
         /\ \A k \in Alerts : alerts'[k].delivery = alerts[k].delivery
         /\ UNCHANGED <<now, eval, job, worker, sent, faults>>
<1> DEFINE r == [alerts[i] EXCEPT !.resolved = TRUE]
<1>1. i \in Alerts /\ alerts[i] \in RowType
  BY DEF Resolve, TypeOK, Alerts
<1>2. r \in RowType /\ SameNews(r, alerts[i])
  BY <1>1 DEF RowType, SameNews
<1>3. alerts' = [alerts EXCEPT ![i] = r]
  BY DEF Resolve
<1>4. r.delivery = alerts[i].delivery
  BY <1>1 DEF RowType
<1> HIDE DEF r
<1>5. RowsKept
  BY <1>1, <1>2, <1>3, Rewritten
<1>6. \A k \in Alerts : alerts'[k] = IF k = i THEN r ELSE alerts[k]
  <2>1. alerts \in Seq(RowType)
    BY DEF TypeOK
  <2> HIDE DEF RowType
  <2> QED
    BY <1>1, <1>3, <2>1 DEF Alerts
<1> QED
  BY <1>4, <1>5, <1>6 DEF Resolve, queueVars

\* Saving an attempt's copy changes the delivery of its row alone.
LEMMA SaveCopyStep ==
  ASSUME TypeOK, Linked, NEW w \in Workers, worker[w].pc # "idle",
         NEW delivery \in {"pending", "delivered", "failed"}, SaveCopy(w, delivery)
  PROVE  /\ RowsKept
         /\ \A i \in Alerts : alerts'[i].delivery =
              IF i = worker[w].alert THEN delivery ELSE alerts[i].delivery
<1> DEFINE a == worker[w].alert
           r == [alerts[a] EXCEPT !.resolved = worker[w].resolved, !.delivery = delivery]
<1>1. worker[w] \in WorkerType /\ a \in Alerts
  BY DEF Linked, WorkerFits, Alerts
<1>2. alerts[a] \in RowType /\ worker[w].resolved \in BOOLEAN
  BY <1>1 DEF TypeOK, WorkerType, Alerts
<1>3. r \in RowType /\ SameNews(r, alerts[a]) /\ r.delivery = delivery
  BY <1>2 DEF RowType, SameNews
<1>4. alerts' = [alerts EXCEPT ![a] = r]
  BY DEF SaveCopy
<1> HIDE DEF r, a
<1>5. RowsKept
  BY <1>1, <1>3, <1>4, Rewritten
<1>6. alerts \in Seq(RowType)
  BY DEF TypeOK
<1>7. \A i \in Alerts : alerts'[i] = IF i = a THEN r ELSE alerts[i]
  <2> HIDE DEF RowType
  <2> QED
    BY <1>1, <1>4, <1>6 DEF Alerts
<1> QED
  BY <1>3, <1>5, <1>7 DEF a

\* A step of a worker's slot, which leaves evaluations and the clock alone.
LEMMA SlotFrame ==
  ASSUME TypeOK, Linked, RowsKept, UNCHANGED <<now, eval>>,
         sent' \in [Rows -> Nat], faults' \in 0..MaxFaults,
         job' \in [Rows -> JobType],
         \A i \in Rows : job'[i] = job[i] \/ JobFits(i, job'[i], Len(alerts)),
         worker' \in [Workers -> WorkerType],
         \A w \in Workers : worker'[w] = worker[w] \/ WorkerFits(worker'[w], Len(alerts))
  PROVE  TypeOK' /\ Linked'
<1>1. /\ alerts' \in Seq(RowType) /\ Len(alerts') = Len(alerts) /\ Len(alerts) \in Nat
      /\ Len(alerts) <= MaxAlerts /\ now \in 0..Horizon
  BY DEF RowsKept, TypeOK
<1>2. Len(alerts) <= Len(alerts') /\ now <= now'
  BY <1>1
<1> QED
  BY <1>1, <1>2, Frame DEF TypeOK

\* Resolving disturbs no link.
LEMMA ResolveFits == ASSUME TypeOK, Linked, NEW i, Resolve(i) PROVE TypeOK' /\ Linked'
BY ResolveStep, SlotFrame DEF TypeOK

\* A worker that moves on is still at its row.
LEMMA GotoFits ==
  ASSUME TypeOK, Linked, NEW w \in Workers, worker[w].pc # "idle",
         NEW pc \in {"marking", "whatsapp", "email", "delivered", "undelivered",
                     "returning", "throwing"},
         Goto(w, pc)
  PROVE  /\ worker' \in [Workers -> WorkerType]
         /\ \A v \in Workers : worker'[v] = worker[v] \/ WorkerFits(worker'[v], Len(alerts))
<1> DEFINE r == [worker[w] EXCEPT !.pc = pc]
<1>1. worker[w] \in WorkerType /\ WorkerFits(worker[w], Len(alerts))
  BY DEF Linked, WorkerFits
<1>2. r \in WorkerType /\ r.alert = worker[w].alert
  BY <1>1 DEF WorkerType
<1>3. WorkerFits(r, Len(alerts))
  BY <1>1, <1>2 DEF WorkerFits
<1>4. worker' = [worker EXCEPT ![w] = r]
  BY DEF Goto
<1> HIDE DEF r
<1> QED
  BY <1>2, <1>3, <1>4 DEF TypeOK

SendStep(w) ==
  \E c \in Channels : Skip(w, c) \/ Accept(w, c) \/ Refuse(w, c) \/ LoseResponse(w, c)

\* Trying a channel counts what was sent and moves the worker on.
LEMMA SendFits ==
  ASSUME TypeOK, Linked, NEW w \in Workers, SendStep(w)
  PROVE  TypeOK' /\ Linked'
<1>1. PICK c \in Channels : Skip(w, c) \/ Accept(w, c) \/ Refuse(w, c) \/ LoseResponse(w, c)
  BY DEF SendStep
<1>2. worker[w].pc # "idle" /\ worker[w].alert \in Rows
  BY <1>1 DEF Skip, Accept, Refuse, LoseResponse, Channels, Linked, WorkerFits, Rows, TypeOK
<1>3. \E pc \in {"email", "delivered", "undelivered"} : Goto(w, pc)
  BY <1>1 DEF Skip, Accept, Refuse, LoseResponse, AfterChannel
<1>4. /\ worker' \in [Workers -> WorkerType]
      /\ \A v \in Workers : worker'[v] = worker[v] \/ WorkerFits(worker'[v], Len(alerts))
  BY <1>2, <1>3, GotoFits
<1>5. sent' \in [Rows -> Nat] /\ faults' \in 0..MaxFaults
  BY <1>1, <1>2, FaultCounted DEF Skip, Accept, Refuse, LoseResponse, TypeOK
<1>6. RowsKept /\ UNCHANGED <<now, eval, job>>
  BY <1>1, Unwritten DEF Skip, Accept, Refuse, LoseResponse
<1> QED
  BY <1>4, <1>5, <1>6, SlotFrame DEF TypeOK

\* The steps that write the row, and the failure to.
RecordStep(w) == MarkProcessing(w) \/ RecordDelivery(w) \/ RecordFailure(w)

\* Writing the row keeps the rows and moves the worker on.
LEMMA RecordFits ==
  ASSUME TypeOK, Linked, NEW w \in Workers, RecordStep(w)
  PROVE  TypeOK' /\ Linked' /\ RowsKept
<1>1. worker[w].pc # "idle" /\ worker[w].delivery \in {"pending", "delivered", "failed"}
  BY DEF RecordStep, MarkProcessing, RecordDelivery, RecordFailure, TypeOK, WorkerType
<1>2. \E d \in {"pending", "delivered", "failed"} : SaveCopy(w, d)
  BY <1>1 DEF RecordStep, MarkProcessing, RecordDelivery, RecordFailure
<1>3. RowsKept
  BY <1>1, <1>2, SaveCopyStep
<1>4. \E pc \in {"whatsapp", "returning", "throwing"} : Goto(w, pc)
  BY DEF RecordStep, MarkProcessing, RecordDelivery, RecordFailure
<1>5. /\ worker' \in [Workers -> WorkerType]
      /\ \A v \in Workers : worker'[v] = worker[v] \/ WorkerFits(worker'[v], Len(alerts))
  BY <1>1, <1>4, GotoFits
<1>6. UNCHANGED <<now, eval, job, sent, faults>>
  BY DEF RecordStep, MarkProcessing, RecordDelivery, RecordFailure
<1> QED
  BY <1>3, <1>5, <1>6, SlotFrame DEF TypeOK

\* A failed save moves the worker on and writes nothing.
LEMMA SaveFailsFits ==
  ASSUME TypeOK, Linked, NEW w \in Workers, SaveFails(w)
  PROVE  TypeOK' /\ Linked'
<1>1. worker[w].pc # "idle" /\ Goto(w, "throwing") /\ UNCHANGED <<now, alerts, eval, job, sent>>
  BY DEF SaveFails
<1>2. /\ worker' \in [Workers -> WorkerType]
      /\ \A v \in Workers : worker'[v] = worker[v] \/ WorkerFits(worker'[v], Len(alerts))
  BY <1>1, GotoFits
<1>3. faults' \in 0..MaxFaults
  BY FaultCounted DEF SaveFails
<1> QED
  BY <1>1, <1>2, <1>3, Unwritten, SlotFrame DEF TypeOK

\* A job that can be handed out belongs to a row.
LEMMA TakeJobFits ==
  ASSUME TypeOK, Linked, NEW w \in Workers, NEW i \in Rows,
         NEW channels \in SUBSET Channels, TakeJob(w, i, channels)
  PROVE  TypeOK' /\ Linked'
<1> DEFINE j == [job[i] EXCEPT !.state = "active", !.lock = w]
           r == [pc |-> "marking", alert |-> i, channels |-> channels,
                 resolved |-> alerts[i].resolved, delivery |-> alerts[i].delivery]
<1>1. /\ job' = [job EXCEPT ![i] = j] /\ worker' = [worker EXCEPT ![w] = r]
      /\ UNCHANGED <<now, alerts, eval, sent, faults>> /\ job[i].state = "waiting"
  BY DEF TakeJob, Due, TypeOK
<1>2. JobFits(i, job[i], Len(alerts))
  BY DEF Linked
<1>3. i \in Alerts /\ alerts[i] \in RowType
  BY <1>1, <1>2 DEF JobFits, Alerts, TypeOK, Rows
<1>4. j \in JobType /\ JobFits(i, j, Len(alerts))
  BY <1>1, <1>2 DEF JobFits, JobType
<1>5. alerts[i].resolved \in BOOLEAN /\ alerts[i].delivery \in {"pending", "delivered", "failed"}
  BY <1>3 DEF RowType
<1>6. r \in WorkerType /\ WorkerFits(r, Len(alerts))
  BY <1>3, <1>5 DEF WorkerFits, WorkerType, Rows, Alerts
<1> HIDE DEF j, r
<1>7. job' \in [Rows -> JobType] /\ worker' \in [Workers -> WorkerType]
  BY <1>1, <1>4, <1>6 DEF TypeOK
<1>8. /\ \A k \in Rows : job'[k] = job[k] \/ JobFits(k, job'[k], Len(alerts))
      /\ \A v \in Workers : worker'[v] = worker[v] \/ WorkerFits(worker'[v], Len(alerts))
  BY <1>1, <1>4, <1>6 DEF TypeOK
<1> QED
  BY <1>1, <1>7, <1>8, Unwritten, SlotFrame DEF TypeOK

\* A worker that stops fits as an idle one.
LEMMA IdleFits ==
  ASSUME TypeOK, NEW w \in Workers, worker' = [worker EXCEPT ![w] = Idle]
  PROVE  /\ worker' \in [Workers -> WorkerType]
         /\ \A v \in Workers : worker'[v] = worker[v] \/ WorkerFits(worker'[v], Len(alerts))
<1>1. Idle \in WorkerType /\ Idle.pc = "idle"
  BY DEF Idle, WorkerType
<1> HIDE DEF Idle
<1> QED
  BY <1>1 DEF TypeOK, WorkerFits

\* The attempt that a lock belongs to is counted only while attempts are left.
LEMMA SettleFits ==
  ASSUME TypeOK, Linked, NEW w \in Workers, Return(w) \/ Throw(w)
  PROVE  TypeOK' /\ Linked'
<1> DEFINE a == worker[w].alert
           done == [job[a] EXCEPT !.state = "completed", !.lock = None]
           again == [job[a] EXCEPT
                       !.state = IF job[a].made + 1 < MaxAttempts THEN "waiting" ELSE "failed",
                       !.lock = None, !.made = job[a].made + 1]
<1>1. worker[w].pc # "idle" /\ UNCHANGED <<now, alerts, eval, sent, faults>>
  BY DEF Return, Throw
<1>2. a \in Rows
  BY <1>1 DEF Linked, WorkerFits, Rows, TypeOK
<1>3. JobFits(a, job[a], Len(alerts))
  BY <1>2 DEF Linked
<1>a. job[a] \in JobType
  BY <1>3 DEF JobFits
<1>b. /\ done \in JobType /\ done.state = "completed" /\ done.lock = None
  BY <1>a DEF JobType
<1>4. JobFits(a, done, Len(alerts))
  <2>1. a <= Len(alerts)
    BY <1>1 DEF Linked, WorkerFits, TypeOK
  <2> HIDE DEF done
  <2> QED
    BY <2>1, <1>b DEF JobFits
<1>5. job[a].lock = w => JobFits(a, again, Len(alerts)) /\ again \in JobType
  <2> SUFFICES ASSUME job[a].lock = w PROVE JobFits(a, again, Len(alerts)) /\ again \in JobType
    OBVIOUS
  <2>1. job[a].state = "active" /\ job[a].made < MaxAttempts /\ a <= Len(alerts)
    BY <1>3 DEF JobFits
  <2>2. again \in JobType
    <3> DEFINE made == job[a].made + 1
               state == IF made < MaxAttempts THEN "waiting" ELSE "failed"
    <3>1. made \in 0..MaxAttempts
      BY <1>a, <2>1 DEF JobType
    <3>2. again = [job[a] EXCEPT !.state = state, !.lock = None, !.made = made]
      OBVIOUS
    <3>3. state \in {"waiting", "failed"}
      OBVIOUS
    <3> HIDE DEF made, state, again
    <3> QED
      BY <1>a, <3>1, <3>2, <3>3 DEF JobType
  <2>3. /\ again.lock = None
        /\ again.made = job[a].made + 1
        /\ again.state = IF job[a].made + 1 < MaxAttempts THEN "waiting" ELSE "failed"
    BY <1>a DEF JobType
  <2> HIDE DEF again
  <2> QED
    BY <2>1, <2>2, <2>3 DEF JobFits
<1>6. \/ job' = job
      \/ job[a].lock = w /\ (job' = [job EXCEPT ![a] = done] \/ job' = [job EXCEPT ![a] = again])
  BY DEF Return, Throw, Settle
<1>7. worker' = [worker EXCEPT ![w] = Idle]
  BY DEF Return, Throw, Settle
<1> HIDE DEF done, again, a
<1>8. job' \in [Rows -> JobType] /\ \A k \in Rows : job'[k] = job[k] \/ JobFits(k, job'[k], Len(alerts))
  BY <1>2, <1>4, <1>5, <1>6, <1>b DEF TypeOK
<1> QED
  BY <1>1, <1>7, <1>8, IdleFits, Unwritten, SlotFrame DEF TypeOK

\* A job without its lock still fits.
LEMMA UnlockFits ==
  ASSUME TypeOK, Linked, NEW w \in Workers, Unlock(w)
  PROVE  /\ job' \in [Rows -> JobType]
         /\ \A i \in Rows : job'[i] = job[i] \/ JobFits(i, job'[i], Len(alerts))
<1>1. \A i \in Rows : /\ [job[i] EXCEPT !.lock = None] \in JobType
                      /\ JobFits(i, [job[i] EXCEPT !.lock = None], Len(alerts))
  BY DEF TypeOK, Linked, JobFits, JobType
<1> QED
  BY <1>1 DEF Unlock, TypeOK

\* A crash frees the slot and its locks.
LEMMA CrashFits ==
  ASSUME TypeOK, Linked, NEW w \in Workers, Crash(w)
  PROVE  TypeOK' /\ Linked'
BY UnlockFits, IdleFits, Unwritten, FaultCounted, SlotFrame DEF Crash, TypeOK

\* A lost lock leaves the attempt running.
LEMMA LoseLockFits ==
  ASSUME TypeOK, Linked, NEW w \in Workers, LoseLock(w)
  PROVE  TypeOK' /\ Linked'
BY UnlockFits, Unwritten, FaultCounted, SlotFrame DEF LoseLock, TypeOK

\* A stalled job goes back with its attempts, or fails.
LEMMA StalledCheckFits ==
  ASSUME TypeOK, Linked, NEW i \in Rows, StalledCheck(i)
  PROVE  TypeOK' /\ Linked'
<1> DEFINE again == [job[i] EXCEPT !.state = "waiting", !.stalls = job[i].stalls + 1]
           failed == [job[i] EXCEPT !.state = "failed"]
<1>1. /\ job[i].state = "active" /\ job[i].lock = None
      /\ UNCHANGED <<now, alerts, eval, worker, sent, faults>>
  BY DEF StalledCheck
<1>2. JobFits(i, job[i], Len(alerts))
  BY DEF Linked
<1>3. JobFits(i, failed, Len(alerts)) /\ failed \in JobType
  BY <1>1, <1>2 DEF JobFits, JobType
<1>4. job[i].stalls < MaxStalled => JobFits(i, again, Len(alerts)) /\ again \in JobType
  <2> SUFFICES ASSUME job[i].stalls < MaxStalled
               PROVE  JobFits(i, again, Len(alerts)) /\ again \in JobType
    OBVIOUS
  <2>1. again \in JobType
    <3> DEFINE stalls == job[i].stalls + 1
    <3>1. stalls \in 0..MaxStalled
      BY <1>2 DEF JobFits, JobType
    <3>2. again = [job[i] EXCEPT !.state = "waiting", !.stalls = stalls]
      OBVIOUS
    <3> HIDE DEF stalls, again
    <3> QED
      BY <1>2, <3>1, <3>2 DEF JobFits, JobType
  <2>2. again.state = "waiting" /\ again.lock = None /\ again.made = job[i].made
    BY <1>1, <1>2 DEF JobFits, JobType
  <2> HIDE DEF again
  <2> QED
    BY <1>1, <1>2, <2>1, <2>2 DEF JobFits
<1>5. job' = [job EXCEPT ![i] = IF job[i].stalls < MaxStalled THEN again ELSE failed]
  BY DEF StalledCheck
<1> HIDE DEF again, failed
<1>6. job' \in [Rows -> JobType] /\ \A k \in Rows : job'[k] = job[k] \/ JobFits(k, job'[k], Len(alerts))
  BY <1>3, <1>4, <1>5 DEF TypeOK
<1> QED
  BY <1>1, <1>6, Unwritten, SlotFrame DEF TypeOK

\* The next-state relation with its disjuncts grouped as the lemmas take them.
LEMMA NextCases ==
  ASSUME Next
  PROVE  \/ Tick
         \/ \E e \in Evals, found \in Readings, window \in Windows \cup {None} :
              Evaluate(e, found, window)
         \/ \E e \in Evals : \/ Suppress(e) \/ Decide(e) \/ Save(e) \/ Enqueue(e)
                             \/ EvaluationFails(e) \/ OutOfRows(e)
         \/ \E i \in Rows : Resolve(i) \/ StalledCheck(i)
         \/ \E w \in Workers, i \in Rows, channels \in SUBSET Channels : TakeJob(w, i, channels)
         \/ \E w \in Workers : \/ SendStep(w) \/ RecordStep(w) \/ SaveFails(w)
                               \/ Return(w) \/ Throw(w) \/ Crash(w) \/ LoseLock(w)
BY DEF Next, Evaluation, Attempt, SendStep, RecordStep

\* The inductive step of types and links.
LEMMA LinkedNext == TypeOK /\ Linked /\ [Next]_vars => TypeOK' /\ Linked'
<1> SUFFICES ASSUME TypeOK, Linked, [Next]_vars PROVE TypeOK' /\ Linked'
  OBVIOUS
<1>1. CASE UNCHANGED vars
  BY <1>1 DEF vars, queueVars, TypeOK, Linked
<1>2. CASE Tick
  BY <1>2, TickFits
<1>3. CASE \E e \in Evals, found \in Readings, window \in Windows \cup {None} :
             Evaluate(e, found, window)
  BY <1>3, EvaluateFits
<1>4. CASE \E e \in Evals : \/ Suppress(e) \/ Decide(e) \/ Save(e) \/ Enqueue(e)
                            \/ EvaluationFails(e) \/ OutOfRows(e)
  BY <1>4, SuppressFits, DecideFits, SaveFits, EnqueueFits, ForgetFits
<1>5. CASE \E i \in Rows : Resolve(i) \/ StalledCheck(i)
  BY <1>5, ResolveFits, StalledCheckFits
<1>6. CASE \E w \in Workers, i \in Rows, channels \in SUBSET Channels : TakeJob(w, i, channels)
  BY <1>6, TakeJobFits
<1>7. CASE \E w \in Workers : \/ SendStep(w) \/ RecordStep(w) \/ SaveFails(w)
                              \/ Return(w) \/ Throw(w) \/ Crash(w) \/ LoseLock(w)
  BY <1>7, SendFits, RecordFits, SaveFailsFits, SettleFits, CrashFits, LoseLockFits
<1> QED
  BY <1>1, <1>2, <1>3, <1>4, <1>5, <1>6, <1>7, NextCases

\* Every variable keeps its type, whatever the faults and the interleaving.
THEOREM TypeCorrect == Spec => []TypeOK
<1>1. Init => TypeOK /\ Linked
  BY LinkedInit
<1>2. TypeOK /\ Linked /\ [Next]_vars => (TypeOK /\ Linked)'
  BY LinkedNext
<1> QED
  BY <1>1, <1>2, PTL DEF Spec

-----------------------------------------------------------------------------
(* What is no news is raised again only by a race.  The reason an          *)
(* evaluation had to raise its alert stays a reason until the alert is     *)
(* saved; the latest alert it looked at answers for the older ones.        *)

Ordered ==
  \A i \in Alerts : /\ alerts[i].created <= now
                    /\ \A j \in Alerts : i < j => alerts[i].created <= alerts[j].created

\* No row up to this one keeps an alert of this type and severity from being
\* raised at this moment, but for rows saved without a look at it.
Raisable(type, severity, seen, moment) ==
  \A i \in 1..seen :
    /\ alerts[i].type = type
    /\ severity <= alerts[i].severity
    /\ moment - alerts[i].created < Cooldown
    => \E k \in i + 1 .. seen : alerts[k].type = type /\ alerts[k].seen < i

Raising(e) ==
  eval[e].pc = "saving" =>
    Raisable(Examined(e).type, Examined(e).severity, eval[e].seen, now)

Raised == Ordered /\ RepeatsOnlyByRace /\ \A e \in Evals : Raising(e)

\* A set of integers with a bound has a greatest element.
LEMMA Greatest ==
  ASSUME NEW bound \in Nat, NEW S, S \subseteq 1..bound, S # {}
  PROVE  \E i \in S : \A j \in S : j <= i
<1> DEFINE R == OpToRel(<, Nat)
           T == {bound - i : i \in S}
<1>1. IsWellFoundedOn(R, Nat)
  BY NatLessThanWellFounded
<1>2. \A x, y \in Nat : x < y => <<x, y>> \in R
  BY DEF OpToRel
<1> HIDE DEF R
<1>3. T \subseteq Nat /\ T # {}
  <2>1. \A i \in S : i \in 1..bound
    OBVIOUS
  <2>2. \A i \in 1..bound : bound - i \in Nat
    OBVIOUS
  <2>3. T \subseteq Nat
    BY <2>1, <2>2
  <2>4. PICK i \in S : TRUE
    OBVIOUS
  <2>5. bound - i \in T
    BY <2>4
  <2> QED
    BY <2>3, <2>5
<1> HIDE DEF T
<1>4. PICK x \in T : \A y \in T : ~ (<<y, x>> \in R)
  BY <1>1, <1>3, WFMin
<1>5. PICK i \in S : x = bound - i
  BY <1>4 DEF T
<1>6. ASSUME NEW j \in S, j > i PROVE FALSE
  <2>1. bound - j \in T /\ bound - j < x /\ bound - j \in Nat /\ x \in Nat
    BY <1>3, <1>4, <1>5, <1>6 DEF T
  <2> QED
    BY <1>2, <1>4, <2>1
<1> QED
  BY <1>6

\* No rows, no reasons needed.
LEMMA RaisedInit == Init => Raised
<1> SUFFICES ASSUME Init PROVE Raised
  OBVIOUS
<1>1. Alerts = {}
  BY DEF Init, Alerts
<1>2. \A e \in Evals : eval[e].pc # "saving"
  BY DEF Init, NotEvaluating
<1> QED
  BY <1>1, <1>2 DEF Raised, Ordered, RepeatsOnlyByRace, Raising

\* The numbers rows hold.
LEMMA NumbersOfRows ==
  ASSUME TypeOK
  PROVE  /\ Len(alerts) \in Nat /\ now \in Nat
         /\ \A i \in Alerts : /\ i \in Nat
                             /\ alerts[i].severity \in Nat /\ alerts[i].created \in Nat
                             /\ alerts[i].triggered \in Nat /\ alerts[i].seen \in Nat
<1>1. Len(alerts) \in Nat /\ now \in Nat /\ \A i \in Alerts : i \in Nat /\ alerts[i] \in RowType
  BY DEF TypeOK, Alerts
<1> QED
  BY <1>1 DEF RowType, Warning, Critical

\* The numbers of what an evaluation examines.
LEMMA NumbersOfExamined ==
  ASSUME TypeOK, Linked, NEW e \in Evals, eval[e].pc # "idle"
  PROVE  Examined(e).severity \in Nat /\ eval[e].seen \in 0..Len(alerts)
<1>1. /\ eval[e].found \in Seq(Findings) /\ Len(eval[e].found) > 0
      /\ eval[e].seen \in Nat /\ eval[e].seen <= Len(alerts)
  BY DEF Linked, EvalFits, EvalType
<1>2. Examined(e) \in Findings
  BY <1>1, HeadTail DEF Examined
<1> QED
  BY <1>1, <1>2, NumbersOfRows DEF Findings, Warning, Critical

\* Time does not undo a reason, nor does a change to what rows say of their
\* delivery.
LEMMA RaisedFrame ==
  ASSUME TypeOK, Linked, Raised, RowsKept, now <= now', now' \in Nat,
         \A e \in Evals : eval'[e] = eval[e] \/ eval'[e].pc # "saving"
  PROVE  Raised'
<1>1. Alerts' = Alerts /\ \A i \in Alerts : SameNews(alerts'[i], alerts[i])
  BY DEF RowsKept, Alerts
<1>2. Ordered'
  BY <1>1, NumbersOfRows DEF Raised, Ordered, SameNews
<1>3. RepeatsOnlyByRace'
  <2> SUFFICES ASSUME NEW i \in Alerts, NEW j \in Alerts, i < j,
                      alerts'[i].type = alerts'[j].type,
                      alerts'[j].severity <= alerts'[i].severity,
                      alerts'[j].created - alerts'[i].created < Cooldown
               PROVE  \E k \in i + 1 .. j : alerts'[k].type = alerts'[i].type /\ alerts'[k].seen < i
    BY <1>1 DEF RepeatsOnlyByRace
  <2>1. PICK k \in i + 1 .. j : alerts[k].type = alerts[i].type /\ alerts[k].seen < i
    BY <1>1 DEF Raised, RepeatsOnlyByRace, SameNews
  <2>2. k \in Alerts
    BY <2>1, NumbersOfRows DEF Alerts
  <2> QED
    BY <1>1, <2>1, <2>2 DEF SameNews
<1>4. ASSUME NEW e \in Evals PROVE Raising(e)'
  <2> SUFFICES ASSUME eval'[e].pc = "saving" PROVE Raising(e)'
    BY DEF Raising
  <2>1. eval'[e] = eval[e] /\ eval[e].pc = "saving" /\ Raising(e)
    BY DEF Raised
  <2>2. Examined(e).severity \in Nat /\ eval[e].seen \in 0..Len(alerts)
    BY <2>1, NumbersOfExamined
  <2> DEFINE type == Examined(e).type
             severity == Examined(e).severity
             seen == eval[e].seen
  <2>3. Raisable(type, severity, seen, now)
    BY <2>1 DEF Raising
  <2>4. Examined(e)' = Examined(e) /\ eval'[e].seen = seen
    BY <2>1 DEF Examined
  <2> HIDE DEF type, severity, seen
  <2>5. seen \in 0..Len(alerts) /\ severity \in Nat
    BY <2>2 DEF seen, severity
  <2>6. ASSUME NEW i \in 1..seen, alerts'[i].type = type, severity <= alerts'[i].severity,
               now' - alerts'[i].created < Cooldown
        PROVE  \E k \in i + 1 .. seen : alerts'[k].type = type /\ alerts'[k].seen < i
    <3>1. i \in Alerts
      BY <2>5, NumbersOfRows DEF Alerts
    <3>2. /\ alerts[i].type = type /\ severity <= alerts[i].severity
          /\ now - alerts[i].created < Cooldown
      <4>1. /\ alerts'[i].type = alerts[i].type /\ alerts'[i].severity = alerts[i].severity
            /\ alerts'[i].created = alerts[i].created
        BY <1>1, <3>1 DEF SameNews
      <4>2. alerts[i].created \in Nat /\ now \in Nat /\ Cooldown \in Nat
        BY <3>1, NumbersOfRows
      <4> QED
        BY <2>6, <4>1, <4>2
    <3>3. PICK k \in i + 1 .. seen : alerts[k].type = type /\ alerts[k].seen < i
      BY <2>3, <3>2 DEF Raisable
    <3>4. k \in Alerts
      BY <2>5, <3>3, NumbersOfRows DEF Alerts
    <3> QED
      BY <1>1, <3>3, <3>4 DEF SameNews
  <2>7. Raisable(type, severity, seen, now)'
    BY <2>4, <2>6 DEF Raisable, type, severity, seen
  <2> QED
    BY <2>4, <2>7 DEF Raising, type, severity, seen
<1> QED
  BY <1>2, <1>3, <1>4 DEF Raised

\* The latest alert of the type, which did not forbid this one, answers for
\* the older ones: it was raised after them for a reason of its own.
LEMMA DecideRaises ==
  ASSUME TypeOK, Linked, Raised, NEW e \in Evals, Decide(e)
  PROVE  Raised'
<1> DEFINE type == Examined(e).type
           severity == Examined(e).severity
<1>1. /\ eval[e].pc = "checking" /\ ~ Duplicate(type, severity)
      /\ UNCHANGED <<now, alerts>>
  BY DEF Decide
<1>2. /\ eval'[e].found = eval[e].found /\ eval'[e].seen = Len(alerts)
      /\ \A f \in Evals : f # e => eval'[f] = eval[f]
  BY DEF Decide, TypeOK, EvalType
<1>3. severity \in Nat
  BY <1>1, NumbersOfExamined
<1>4. Ordered' /\ RepeatsOnlyByRace'
  BY <1>1 DEF Raised, Ordered, RepeatsOnlyByRace, Alerts
<1>5. Examined(e)' = Examined(e)
  BY <1>2 DEF Examined
<1> HIDE DEF type, severity
<1>6. ASSUME NEW i \in Alerts, alerts[i].type = type, severity <= alerts[i].severity,
             now - alerts[i].created < Cooldown
      PROVE  \E k \in i + 1 .. Len(alerts) : alerts[k].type = type /\ alerts[k].seen < i
  <2> DEFINE S == {k \in Alerts : alerts[k].type = type}
  <2>1. S \subseteq 1..Len(alerts) /\ S # {} /\ Len(alerts) \in Nat
    BY <1>6, NumbersOfRows DEF Alerts
  <2>2. PICK l \in S : \A k \in S : k <= l
    BY <2>1, Greatest
  <2>3. ~ Blocks(l, severity) /\ l \in Alerts /\ alerts[l].type = type /\ i <= l
    BY <1>1, <1>6, <2>2 DEF Duplicate
  <2>4. severity > alerts[l].severity \/ now - alerts[l].created >= Cooldown
    BY <1>3, <2>3, NumbersOfRows DEF Blocks
  <2>5. i < l
    BY <1>3, <1>6, <2>3, <2>4, NumbersOfRows
  <2>6. alerts[l].severity <= alerts[i].severity /\ alerts[l].created - alerts[i].created < Cooldown
    <3>1. alerts[i].created <= alerts[l].created /\ alerts[l].created <= now
      BY <1>6, <2>3, <2>5 DEF Raised, Ordered
    <3>2. /\ alerts[i].created \in Nat /\ alerts[l].created \in Nat /\ now \in Nat
          /\ alerts[i].severity \in Nat /\ alerts[l].severity \in Nat
      BY <1>6, <2>3, NumbersOfRows
    <3>3. Cooldown \in Nat
      OBVIOUS
    <3> QED
      BY <1>3, <1>6, <2>4, <3>1, <3>2, <3>3
  <2>7. PICK k \in i + 1 .. l : alerts[k].type = type /\ alerts[k].seen < i
    BY <1>6, <2>3, <2>5, <2>6 DEF Raised, RepeatsOnlyByRace
  <2> QED
    BY <2>3, <2>7, NumbersOfRows DEF Alerts
<1>7. Raisable(type, severity, Len(alerts), now)
  BY <1>6 DEF Raisable, Alerts
<1>8. Raisable(type, severity, Len(alerts), now)'
  BY <1>1, <1>5, <1>7 DEF Raisable, type, severity
<1>9. ASSUME NEW f \in Evals PROVE Raising(f)'
  <2>1. CASE f = e
    BY <1>2, <1>5, <1>1, <1>8, <2>1 DEF Raising, type, severity
  <2>2. CASE f # e
    BY <1>1, <1>2, <2>2 DEF Raised, Raising, Examined, Raisable
  <2> QED
    BY <2>1, <2>2
<1> QED
  BY <1>4, <1>9 DEF Raised

\* The reason found when deciding still holds of the rows seen then; a row not
\* seen then makes the new one a race.
LEMMA SaveRaises ==
  ASSUME TypeOK, Linked, Raised, NEW e \in Evals, Save(e)
  PROVE  Raised'
<1> DEFINE type == Examined(e).type
           severity == Examined(e).severity
           seen == eval[e].seen
           n == Len(alerts) + 1
<1>1. /\ alerts' \in Seq(RowType) /\ Len(alerts') = n
      /\ \A i \in Alerts : alerts'[i] = alerts[i]
      /\ alerts'[n].type = type /\ alerts'[n].severity = severity
      /\ alerts'[n].created = now /\ alerts'[n].seen = seen
  <2>1. /\ NewRow(e).type = type /\ NewRow(e).severity = severity
        /\ NewRow(e).created = now /\ NewRow(e).seen = seen
    BY DEF NewRow
  <2>2. /\ alerts' \in Seq(RowType) /\ Len(alerts') = Len(alerts) + 1
        /\ \A i \in Alerts : alerts'[i] = alerts[i]
        /\ alerts'[Len(alerts) + 1] = NewRow(e)
    BY SaveStep
  <2> HIDE DEF type, severity, seen
  <2> QED
    BY <2>1, <2>2
<1>2. /\ eval[e].pc = "saving" /\ now' = now
      /\ eval'[e].pc = "queueing"
      /\ \A f \in Evals : f # e => eval'[f] = eval[f]
  BY DEF Save, TypeOK, EvalType
<1>3. severity \in Nat /\ seen \in 0..Len(alerts)
  BY <1>2, NumbersOfExamined
<1>4. Raisable(type, severity, seen, now)
  BY <1>2 DEF Raised, Raising
<1> HIDE DEF type, severity, seen
<1>5. /\ Alerts' = Alerts \cup {n} /\ n \notin Alerts /\ n \in Nat
      /\ \A i \in Alerts : i < n /\ i \in 1..Len(alerts)
  BY <1>1, NumbersOfRows DEF Alerts
<1>6. Ordered'
  BY <1>1, <1>2, <1>5, NumbersOfRows DEF Raised, Ordered
<1>7. ASSUME NEW i \in Alerts, NEW j \in Alerts, i < j,
             alerts'[i].type = alerts'[j].type,
             alerts'[j].severity <= alerts'[i].severity,
             alerts'[j].created - alerts'[i].created < Cooldown
      PROVE  \E k \in i + 1 .. j : alerts'[k].type = alerts'[i].type /\ alerts'[k].seen < i
  <2>1. PICK k \in i + 1 .. j : alerts[k].type = alerts[i].type /\ alerts[k].seen < i
    BY <1>1, <1>7 DEF Raised, RepeatsOnlyByRace
  <2>2. k \in Alerts
    BY <2>1, NumbersOfRows DEF Alerts
  <2> QED
    BY <1>1, <2>1, <2>2
<1>8. ASSUME NEW i \in Alerts,
             alerts'[i].type = alerts'[n].type,
             alerts'[n].severity <= alerts'[i].severity,
             alerts'[n].created - alerts'[i].created < Cooldown
      PROVE  \E k \in i + 1 .. n : alerts'[k].type = alerts'[i].type /\ alerts'[k].seen < i
  <2>1. /\ alerts[i].type = type /\ severity <= alerts[i].severity
        /\ now - alerts[i].created < Cooldown /\ alerts'[i].type = type
    BY <1>1, <1>8
  <2>2. CASE i <= seen
    <3>1. i \in 1..seen
      BY <1>3, <1>5, <2>2
    <3>2. PICK k \in i + 1 .. seen : alerts[k].type = type /\ alerts[k].seen < i
      BY <1>4, <2>1, <3>1 DEF Raisable
    <3>3. k \in Alerts /\ k \in i + 1 .. n
      BY <1>3, <1>5, <3>2, NumbersOfRows DEF Alerts
    <3> QED
      BY <1>1, <2>1, <3>2, <3>3
  <2>3. CASE seen < i
    BY <1>1, <1>5, <2>1, <2>3
  <2> QED
    BY <1>3, <1>5, <2>2, <2>3
<1>9. RepeatsOnlyByRace'
  <2> HIDE DEF n
  <2>1. \A i, j \in Alerts' : i < j => i \in Alerts /\ (j \in Alerts \/ j = n)
    BY <1>5
  <2> QED
    BY <1>7, <1>8, <2>1 DEF RepeatsOnlyByRace
<1>10. ASSUME NEW f \in Evals PROVE Raising(f)'
  <2>1. CASE f = e
    BY <1>2, <2>1 DEF Raising
  <2>2. CASE f # e /\ eval[f].pc = "saving"
    <3> DEFINE t == Examined(f).type
               s == Examined(f).severity
               m == eval[f].seen
    <3>1. m \in 0..Len(alerts) /\ Raisable(t, s, m, now)
      BY <2>2, NumbersOfExamined DEF Raised, Raising
    <3>2. Examined(f)' = Examined(f) /\ eval'[f].seen = m
      BY <1>2, <2>2 DEF Examined
    <3> HIDE DEF t, s, m
    <3>3. \A i \in 1..m : i \in Alerts /\ \A k \in i + 1 .. m : k \in Alerts
      BY <3>1, NumbersOfRows DEF Alerts
    <3>4. Raisable(t, s, m, now)'
      BY <1>1, <1>2, <3>1, <3>2, <3>3 DEF Raisable, t, s, m
    <3> QED
      BY <3>2, <3>4 DEF Raising, t, s, m
  <2>3. CASE f # e /\ eval[f].pc # "saving"
    BY <1>2, <2>3 DEF Raising
  <2> QED
    BY <2>1, <2>2, <2>3
<1> QED
  BY <1>6, <1>9, <1>10 DEF Raised

\* An evaluation that moves on neither saves nor queues.
LEMMA NextTypeLeaves ==
  ASSUME TypeOK, NEW e \in Evals, NextType(e)
  PROVE  \A f \in Evals : eval'[f] = eval[f] \/ eval'[f].pc \in {"idle", "checking"}
<1>1. CASE Len(eval[e].found) = 1
  BY <1>1 DEF NextType, NotEvaluating, TypeOK
<1>2. CASE Len(eval[e].found) # 1
  <2> DEFINE tail == Tail(eval[e].found)
             window == eval[e].window
             r == [NotEvaluating EXCEPT !.pc = "checking", !.found = tail, !.window = window]
  <2>1. eval' = [eval EXCEPT ![e] = r]
    BY <1>2 DEF NextType
  <2> HIDE DEF tail, window
  <2>2. r = [pc |-> "checking", found |-> tail, window |-> window,
             triggered |-> 0, deferred |-> FALSE, seen |-> 0, row |-> 0]
    BY NewEvaluation
  <2> HIDE DEF r
  <2> QED
    BY <2>1, <2>2 DEF TypeOK
<1> QED
  BY <1>1, <1>2

\* No other step raises an alert.
LEMMA OthersRaise ==
  ASSUME TypeOK, Linked, Raised, [Next]_vars,
         ~ \E e \in Evals : Decide(e) \/ Save(e)
  PROVE  Raised'
<1>1. CASE UNCHANGED vars
  BY <1>1, Unwritten, RaisedFrame, NumbersOfRows DEF vars, queueVars
<1>2. CASE Tick
  BY <1>2, Unwritten, RaisedFrame, NumbersOfRows DEF Tick
<1>3. CASE \E e \in Evals, found \in Readings, window \in Windows \cup {None} :
             Evaluate(e, found, window)
  <2>1. PICK e \in Evals, found \in Readings, window \in Windows \cup {None} :
               Evaluate(e, found, window)
    BY <1>3
  <2>2. \A f \in Evals : eval'[f] = eval[f] \/ eval'[f].pc # "saving"
    <3> DEFINE r == [NotEvaluating EXCEPT !.pc = "checking", !.found = found, !.window = window]
    <3>1. r = [pc |-> "checking", found |-> found, window |-> window,
               triggered |-> 0, deferred |-> FALSE, seen |-> 0, row |-> 0]
      BY NewEvaluation
    <3>2. eval' = [eval EXCEPT ![e] = r]
      BY <2>1 DEF Evaluate
    <3> HIDE DEF r
    <3> QED
      BY <3>1, <3>2 DEF TypeOK
  <2> QED
    BY <2>1, <2>2, Unwritten, RaisedFrame, NumbersOfRows DEF Evaluate
<1>4. CASE \E e \in Evals : \/ Suppress(e) \/ Enqueue(e)
                            \/ EvaluationFails(e) \/ OutOfRows(e)
  <2>1. PICK e \in Evals : Suppress(e) \/ Enqueue(e) \/ EvaluationFails(e) \/ OutOfRows(e)
    BY <1>4
  <2>2. \/ NextType(e)
        \/ eval' = [eval EXCEPT ![e] = NotEvaluating]
    BY <2>1 DEF Suppress, Enqueue, EvaluationFails, OutOfRows
  <2>3. \A f \in Evals : eval'[f] = eval[f] \/ eval'[f].pc # "saving"
    BY <2>2, NextTypeLeaves DEF NotEvaluating, TypeOK
  <2>4. UNCHANGED <<now, alerts>>
    BY <2>1 DEF Suppress, Enqueue, EvaluationFails, OutOfRows
  <2> QED
    BY <2>3, <2>4, Unwritten, RaisedFrame, NumbersOfRows
<1>5. CASE \E i \in Rows : Resolve(i) \/ StalledCheck(i)
  BY <1>5, ResolveStep, Unwritten, RaisedFrame, NumbersOfRows DEF StalledCheck
<1>6. CASE \E w \in Workers, i \in Rows, channels \in SUBSET Channels : TakeJob(w, i, channels)
  BY <1>6, Unwritten, RaisedFrame, NumbersOfRows DEF TakeJob
<1>7. CASE \E w \in Workers : \/ SendStep(w) \/ SaveFails(w)
                              \/ Return(w) \/ Throw(w) \/ Crash(w) \/ LoseLock(w)
  <2>1. UNCHANGED <<now, eval, alerts>>
    BY <1>7 DEF SendStep, SaveFails, Return, Throw, Crash, LoseLock,
                Skip, Accept, Refuse, LoseResponse
  <2> QED
    BY <2>1, Unwritten, RaisedFrame, NumbersOfRows
<1>8. CASE \E w \in Workers : RecordStep(w)
  <2>1. RowsKept
    BY <1>8, RecordFits
  <2>2. UNCHANGED <<now, eval>>
    BY <1>8 DEF RecordStep, MarkProcessing, RecordDelivery, RecordFailure
  <2> QED
    BY <2>1, <2>2, RaisedFrame, NumbersOfRows
<1> QED
  BY <1>1, <1>2, <1>3, <1>4, <1>5, <1>6, <1>7, <1>8, NextCases

\* Whatever the interleaving of evaluations, what is no news is raised again
\* only by an evaluation that had not seen a row of its type.
THEOREM RepeatsCorrect == Spec => []RepeatsOnlyByRace
<1>1. Init => TypeOK /\ Linked /\ Raised
  BY LinkedInit, RaisedInit
<1>2. TypeOK /\ Linked /\ Raised /\ [Next]_vars => (TypeOK /\ Linked /\ Raised)'
  BY LinkedNext, DecideRaises, SaveRaises, OthersRaise
<1>3. Raised => RepeatsOnlyByRace
  BY DEF Raised
<1> QED
  BY <1>1, <1>2, <1>3, PTL DEF Spec

-----------------------------------------------------------------------------
(* A row is written "delivered" by an attempt that delivered it, or by one *)
(* that read so.                                                           *)

Told ==
  /\ DeliveredWasSent
  /\ \A w \in Workers :
       worker[w].pc = "delivered" \/ (worker[w].pc # "idle" /\ worker[w].delivery = "delivered")
       => sent[worker[w].alert] > 0

\* The inductive step: only an accepted message leads to "delivered".
LEMMA ToldNext ==
  ASSUME TypeOK, Linked, Told, [Next]_vars
  PROVE  Told'
<1>1. CASE UNCHANGED <<alerts, worker, sent>>
  BY <1>1 DEF Told, DeliveredWasSent, Alerts
<1>2. CASE \E e \in Evals : Save(e)
  <2>1. PICK e \in Evals : Save(e)
    BY <1>2
  <2>2. /\ Len(alerts') = Len(alerts) + 1 /\ \A i \in Alerts : alerts'[i] = alerts[i]
        /\ alerts'[Len(alerts) + 1] = NewRow(e)
    BY <2>1, SaveStep
  <2>3. NewRow(e).delivery = "pending" /\ UNCHANGED <<worker, sent>>
    BY <2>1 DEF NewRow, Save, queueVars
  <2>4. DeliveredWasSent'
    BY <2>2, <2>3, NumbersOfRows DEF Told, DeliveredWasSent, Alerts
  <2> QED
    BY <2>3, <2>4 DEF Told
<1>3. CASE \E i \in Rows : Resolve(i)
  BY <1>3, ResolveStep DEF Told, DeliveredWasSent, RowsKept, Alerts
<1>4. CASE \E w \in Workers, i \in Rows, channels \in SUBSET Channels : TakeJob(w, i, channels)
  <2>1. PICK w \in Workers, i \in Rows, channels \in SUBSET Channels : TakeJob(w, i, channels)
    BY <1>4
  <2>2. /\ UNCHANGED <<alerts, sent>> /\ job[i].state # "none"
        /\ \A v \in Workers : v # w => worker'[v] = worker[v]
        /\ worker'[w].alert = i /\ worker'[w].pc = "marking"
        /\ worker'[w].delivery = alerts[i].delivery
    BY <2>1 DEF TakeJob, Due, TypeOK
  <2>3. i \in Alerts
    BY <2>2 DEF Linked, JobFits, Rows, Alerts, TypeOK
  <2> QED
    BY <2>2, <2>3 DEF Told, DeliveredWasSent, Alerts
<1>5. CASE \E w \in Workers : SendStep(w)
  <2>1. PICK w \in Workers : SendStep(w)
    BY <1>5
  <2>2. PICK c \in Channels : Skip(w, c) \/ Accept(w, c) \/ Refuse(w, c) \/ LoseResponse(w, c)
    BY <2>1 DEF SendStep
  <2>3. worker[w].pc # "idle" /\ worker[w].alert \in Rows /\ worker[w] \in WorkerType
    BY <2>2 DEF Skip, Accept, Refuse, LoseResponse, Channels, Linked, WorkerFits, Rows, TypeOK
  <2>4. \A i \in Rows : sent'[i] \in Nat /\ sent[i] \in Nat /\ sent[i] <= sent'[i]
    <3>1. \A i \in Rows : sent[i] \in Nat
      BY DEF TypeOK
    <3>2. CASE Skip(w, c) \/ Refuse(w, c)
      BY <3>1, <3>2 DEF Skip, Refuse
    <3>3. CASE Accept(w, c) \/ LoseResponse(w, c)
      <4>1. sent' = [sent EXCEPT ![worker[w].alert] = sent[worker[w].alert] + 1]
        BY <3>3 DEF Accept, LoseResponse
      <4>2. sent \in [Rows -> Nat]
        BY DEF TypeOK
      <4>3. \A i \in Rows : sent'[i] = (IF i = worker[w].alert THEN sent[i] + 1 ELSE sent[i])
        BY <4>1, <4>2
      <4> QED
        BY <3>1, <4>3
    <3> QED
      BY <2>2, <3>2, <3>3
  <2>5. /\ \A v \in Workers : v # w => worker'[v] = worker[v]
        /\ worker'[w].alert = worker[w].alert
        /\ worker'[w].delivery = worker[w].delivery
    BY <2>2, <2>3 DEF Skip, Accept, Refuse, LoseResponse, Goto, TypeOK, WorkerType
  <2>6. \/ worker'[w].pc # "delivered"
        \/ sent'[worker[w].alert] > 0
    BY <2>2, <2>3 DEF Skip, Accept, Refuse, LoseResponse, Goto, AfterChannel, TypeOK, WorkerType
  <2>7. \A v \in Workers : worker[v].pc # "idle" => worker[v].alert \in Rows
    BY DEF Linked, WorkerFits, Rows, TypeOK
  <2>8. alerts' = alerts /\ \A i \in Alerts : i \in Rows
    BY <2>2 DEF Skip, Accept, Refuse, LoseResponse, Alerts, Rows, TypeOK
  <2>9. DeliveredWasSent'
    BY <2>4, <2>8 DEF Told, DeliveredWasSent, Alerts
  <2> QED
    BY <2>3, <2>4, <2>5, <2>6, <2>7, <2>9 DEF Told
<1>6. CASE \E w \in Workers : RecordStep(w)
  <2>1. PICK w \in Workers : RecordStep(w)
    BY <1>6
  <2>2. worker[w].pc # "idle" /\ worker[w] \in WorkerType
    BY <2>1 DEF RecordStep, MarkProcessing, RecordDelivery, RecordFailure, TypeOK
  <2>3. PICK d \in {"pending", "delivered", "failed"} :
          /\ SaveCopy(w, d)
          /\ d = "delivered" => sent[worker[w].alert] > 0
    BY <2>1, <2>2 DEF RecordStep, MarkProcessing, RecordDelivery, RecordFailure, Told, WorkerType
  <2>4. /\ RowsKept
        /\ \A i \in Alerts : alerts'[i].delivery =
              IF i = worker[w].alert THEN d ELSE alerts[i].delivery
    BY <2>2, <2>3, SaveCopyStep
  <2>5. /\ sent' = sent /\ \A v \in Workers : v # w => worker'[v] = worker[v]
        /\ worker'[w].alert = worker[w].alert
        /\ worker'[w].delivery = worker[w].delivery /\ worker'[w].pc # "delivered"
    BY <2>1, <2>2 DEF RecordStep, MarkProcessing, RecordDelivery, RecordFailure, Goto,
                      TypeOK, WorkerType
  <2>6. DeliveredWasSent'
    BY <2>3, <2>4, <2>5 DEF Told, DeliveredWasSent, RowsKept, Alerts
  <2> QED
    BY <2>2, <2>5, <2>6 DEF Told
<1>7. CASE \E w \in Workers : SaveFails(w) \/ Return(w) \/ Throw(w) \/ Crash(w)
  <2>1. PICK w \in Workers : SaveFails(w) \/ Return(w) \/ Throw(w) \/ Crash(w)
    BY <1>7
  <2>2. worker[w].pc # "idle" /\ worker[w] \in WorkerType /\ UNCHANGED <<alerts, sent>>
    BY <2>1 DEF SaveFails, Return, Throw, Crash, TypeOK
  <2>3. \A v \in Workers : v # w => worker'[v] = worker[v]
    BY <2>1 DEF SaveFails, Return, Throw, Crash, Settle, Goto, TypeOK
  <2>4. \/ worker'[w].pc = "idle"
        \/ /\ worker'[w].pc = "throwing" /\ worker'[w].alert = worker[w].alert
           /\ worker'[w].delivery = worker[w].delivery
    BY <2>1, <2>2 DEF SaveFails, Return, Throw, Crash, Settle, Goto, Idle, TypeOK, WorkerType
  <2> QED
    BY <2>2, <2>3, <2>4 DEF Told, DeliveredWasSent, Alerts
<1> QED
  <2>1. \/ UNCHANGED <<alerts, worker, sent>>
        \/ \E e \in Evals : Save(e)
        \/ \E i \in Rows : Resolve(i)
        \/ \E w \in Workers, i \in Rows, channels \in SUBSET Channels : TakeJob(w, i, channels)
        \/ \E w \in Workers : \/ SendStep(w) \/ RecordStep(w) \/ SaveFails(w)
                              \/ Return(w) \/ Throw(w) \/ Crash(w)
    BY NextCases DEF vars, queueVars, Tick, Evaluate, Suppress, Decide, Enqueue,
                     EvaluationFails, OutOfRows, StalledCheck, LoseLock
  <2> QED
    BY <1>1, <1>2, <1>3, <1>4, <1>5, <1>6, <1>7, <2>1

\* What the history of a user's alerts says was delivered was sent.
THEOREM DeliveryCorrect == Spec => []DeliveredWasSent
<1>1. Init => TypeOK /\ Linked /\ Told
  <2>1. Init => Told
    BY DEF Init, Told, DeliveredWasSent, Alerts, Idle
  <2> QED
    BY <2>1, LinkedInit
<1>2. TypeOK /\ Linked /\ Told /\ [Next]_vars => (TypeOK /\ Linked /\ Told)'
  BY LinkedNext, ToldNext
<1>3. Told => DeliveredWasSent
  BY DEF Told
<1> QED
  BY <1>1, <1>2, <1>3, PTL DEF Spec

-----------------------------------------------------------------------------
(* What is deferred is due only when its quiet hours are over, and stays   *)
(* so through every retry and redelivery.                                  *)

QuietEnd(i) == QuietUntil(alerts[i].triggered, alerts[i].window)

\* The evaluation queues the row it saved.
OwnRow(e) ==
  eval[e].pc = "queueing" =>
    /\ alerts[eval[e].row].deferred = eval[e].deferred
    /\ alerts[eval[e].row].triggered = eval[e].triggered
    /\ alerts[eval[e].row].window = eval[e].window

DueLater(i) == job[i].state # "none" /\ alerts[i].deferred => QuietEnd(i) <= job[i].due

TriedLater(w) ==
  worker[w].pc # "idle" /\ alerts[worker[w].alert].deferred => QuietEnd(worker[w].alert) <= now

HeldBack ==
  /\ \A i \in Alerts : alerts[i].deferred => alerts[i].window \in WindowType
  /\ \A e \in Evals : OwnRow(e)
  /\ \A i \in Rows : DueLater(i)
  /\ \A w \in Workers : TriedLater(w)

\* Nothing is held back at first.
LEMMA HeldBackInit == Init => HeldBack
BY DEF Init, HeldBack, Alerts, OwnRow, DueLater, TriedLater, NotEvaluating, NoJob, Idle

\* Rows are kept and may be added to, and what is written holds of itself.
LEMMA HeldBackFrame ==
  ASSUME TypeOK, Linked, HeldBack, now <= now', now' \in Nat,
         \A i \in Alerts : SameNews(alerts'[i], alerts[i]),
         \A i \in Alerts' : i \in Alerts \/ (alerts'[i].deferred => alerts'[i].window \in WindowType),
         \A e \in Evals : eval'[e] = eval[e] \/ OwnRow(e)',
         \A i \in Rows : \/ job[i].state # "none" /\ job'[i].due = job[i].due
                         \/ job'[i].state = "none"
                         \/ DueLater(i)',
         \A w \in Workers : \/ worker[w].pc # "idle" /\ worker'[w].alert = worker[w].alert
                            \/ worker'[w].pc = "idle"
                            \/ TriedLater(w)'
  PROVE  HeldBack'
<1>1. \A i \in Alerts : /\ QuietEnd(i)' = QuietEnd(i)
                        /\ alerts'[i].deferred = alerts[i].deferred
                        /\ alerts'[i].window = alerts[i].window
                        /\ alerts'[i].triggered = alerts[i].triggered
  BY DEF SameNews, QuietEnd
<1>2. \A i \in Alerts' : alerts'[i].deferred => alerts'[i].window \in WindowType
  BY <1>1 DEF HeldBack
<1>3. ASSUME NEW e \in Evals PROVE OwnRow(e)'
  <2>1. CASE OwnRow(e)'
    BY <2>1
  <2>2. CASE eval'[e] = eval[e] /\ eval[e].pc = "queueing"
    <3>1. eval[e].row \in Alerts
      BY <2>2 DEF Linked, EvalFits, Alerts
    <3> QED
      BY <1>1, <2>2, <3>1 DEF HeldBack, OwnRow
  <2>3. CASE eval'[e] = eval[e] /\ eval[e].pc # "queueing"
    BY <2>3 DEF OwnRow
  <2> QED
    BY <2>1, <2>2, <2>3
<1>4. ASSUME NEW i \in Rows PROVE DueLater(i)'
  <2>1. CASE job[i].state # "none" /\ job'[i].due = job[i].due
    <3>1. i \in Alerts
      BY <2>1 DEF Linked, JobFits, Alerts, Rows, TypeOK
    <3> QED
      BY <1>1, <2>1, <3>1 DEF HeldBack, DueLater
  <2> QED
    BY <2>1 DEF DueLater
<1>5. ASSUME NEW w \in Workers PROVE TriedLater(w)'
  <2>1. CASE worker[w].pc # "idle" /\ worker'[w].alert = worker[w].alert
    <3>1. worker[w].alert \in Alerts
      BY <2>1 DEF Linked, WorkerFits, Alerts
    <3>2. SUFFICES ASSUME alerts[worker[w].alert].deferred
                   PROVE  QuietEnd(worker[w].alert) <= now'
      BY <1>1, <2>1, <3>1 DEF TriedLater
    <3>3. alerts[worker[w].alert].window \in WindowType /\ alerts[worker[w].alert].triggered \in Nat
      BY <3>1, <3>2, NumbersOfRows DEF HeldBack
    <3>4. QuietEnd(worker[w].alert) \in Nat
      BY <3>3, QuietUntilFacts DEF QuietEnd
    <3>5. QuietEnd(worker[w].alert) <= now
      BY <2>1, <3>2 DEF HeldBack, TriedLater
    <3> QED
      BY <3>4, <3>5, NumbersOfRows
  <2> QED
    BY <2>1 DEF TriedLater
<1> QED
  BY <1>2, <1>3, <1>4, <1>5 DEF HeldBack

\* A deferred row has a window, and the evaluation queues that row.
LEMMA SaveHolds ==
  ASSUME TypeOK, Linked, HeldBack, NEW e \in Evals, Save(e)
  PROVE  HeldBack'
<1> DEFINE n == Len(alerts) + 1
           row == NewRow(e)
<1>1. /\ Len(alerts') = n /\ \A i \in Alerts : alerts'[i] = alerts[i]
      /\ alerts'[n] = row
  BY SaveStep
<1>2. /\ row.deferred = eval[e].deferred /\ row.triggered = eval[e].triggered
      /\ row.window = eval[e].window
  BY DEF NewRow
<1>3. eval[e].deferred => eval[e].window \in WindowType
  BY DEF Linked, EvalFits
<1>4. /\ UNCHANGED <<now, job, worker>>
      /\ \A f \in Evals : f # e => eval'[f] = eval[f]
      /\ eval'[e].row = n /\ eval'[e].deferred = eval[e].deferred
      /\ eval'[e].triggered = eval[e].triggered /\ eval'[e].window = eval[e].window
  BY DEF Save, TypeOK, EvalType, queueVars
<1> HIDE DEF n, row
<1>5. OwnRow(e)'
  BY <1>1, <1>2, <1>4 DEF OwnRow
<1>6. \A i \in Alerts' : i \in Alerts \/ (alerts'[i].deferred => alerts'[i].window \in WindowType)
  BY <1>1, <1>2, <1>3, NumbersOfRows DEF Alerts, n
<1>7. \A w \in Workers : worker[w].pc # "idle" \/ worker'[w].pc = "idle"
  BY <1>4
<1>8. \A i \in Rows : job[i].state # "none" \/ job'[i].state = "none"
  BY <1>4
<1> QED
  BY <1>1, <1>4, <1>5, <1>6, <1>7, <1>8, HeldBackFrame, NumbersOfRows DEF SameNews

\* The delay reaches the end of the quiet hours: time has only passed since
\* it was computed.
LEMMA EnqueueHolds ==
  ASSUME TypeOK, Linked, HeldBack, NEW e \in Evals, Enqueue(e)
  PROVE  HeldBack'
<1> DEFINE i == eval[e].row
           d == now + Delay(e)
           j == [NoJob EXCEPT !.state = "waiting", !.due = d]
<1>1. /\ UNCHANGED <<now, alerts, worker>> /\ job' = [job EXCEPT ![i] = j]
      /\ NextType(e) /\ eval[e].pc = "queueing"
  BY DEF Enqueue
<1>2. /\ i \in Alerts /\ alerts[i].deferred = eval[e].deferred
      /\ alerts[i].triggered = eval[e].triggered /\ alerts[i].window = eval[e].window
  BY <1>1 DEF Linked, EvalFits, Alerts, HeldBack, OwnRow
<1>3. ASSUME alerts[i].deferred PROVE QuietEnd(i) <= d
  <2>1. Delay(e) = QuietEnd(i) - alerts[i].triggered
    BY <1>2, <1>3 DEF Delay, QuietEnd
  <2>2. alerts[i].triggered \in Nat /\ alerts[i].window \in WindowType
    BY <1>2, <1>3, NumbersOfRows DEF HeldBack
  <2>3. QuietEnd(i) \in Nat
    BY <2>2, QuietUntilFacts DEF QuietEnd
  <2>4. alerts[i].triggered <= now
    BY <1>2 DEF Linked, EvalFits
  <2> HIDE DEF i
  <2> QED
    BY <2>1, <2>2, <2>3, <2>4, NumbersOfRows
<1>4. \A f \in Evals : eval'[f] = eval[f] \/ OwnRow(f)'
  BY <1>1, NextTypeLeaves DEF OwnRow
<1> HIDE DEF d, i
<1>5. j = [state |-> "waiting", due |-> d, lock |-> None, made |-> 0, stalls |-> 0]
  BY NewJob
<1> HIDE DEF j
<1>6. \A k \in Rows : \/ job[k].state # "none" /\ job'[k].due = job[k].due
                      \/ job'[k].state = "none"
                      \/ DueLater(k)'
  BY <1>1, <1>3, <1>5 DEF DueLater, QuietEnd, TypeOK
<1>7. \A w \in Workers : worker[w].pc # "idle" \/ worker'[w].pc = "idle"
  BY <1>1
<1>8. \A k \in Alerts' : k \in Alerts
  BY <1>1 DEF Alerts
<1> QED
  BY <1>1, <1>4, <1>6, <1>7, <1>8, HeldBackFrame, NumbersOfRows DEF SameNews

\* A job is handed out only once it is due.
LEMMA TakeJobHolds ==
  ASSUME TypeOK, Linked, HeldBack, NEW w \in Workers, NEW i \in Rows,
         NEW channels \in SUBSET Channels, TakeJob(w, i, channels)
  PROVE  HeldBack'
<1>1. /\ UNCHANGED <<now, alerts, eval>> /\ job[i].state # "none" /\ job[i].due <= now
      /\ \A k \in Rows : /\ k # i => job'[k] = job[k]
                         /\ job'[k].due = job[k].due
      /\ \A v \in Workers : v # w => worker'[v] = worker[v]
      /\ worker'[w].alert = i
  BY DEF TakeJob, Due, TypeOK, JobType
<1>2. i \in Alerts /\ job[i].due \in Nat
  BY <1>1 DEF Linked, JobFits, JobType, Alerts, Rows, TypeOK
<1>3. alerts[i].deferred => QuietEnd(i) <= job[i].due /\ QuietEnd(i) \in Nat
  BY <1>1, <1>2, QuietUntilFacts, NumbersOfRows DEF HeldBack, DueLater, QuietEnd
<1>4. TriedLater(w)'
  BY <1>1, <1>2, <1>3, NumbersOfRows DEF TriedLater, QuietEnd
<1>5. \A k \in Alerts' : k \in Alerts
  BY <1>1 DEF Alerts
<1>6. \A k \in Rows : \/ job[k].state # "none" /\ job'[k].due = job[k].due
                      \/ job'[k].state = "none"
  BY <1>1
<1>7. \A v \in Workers : \/ worker[v].pc # "idle" /\ worker'[v].alert = worker[v].alert
                         \/ worker'[v].pc = "idle"
                         \/ TriedLater(v)'
  BY <1>1, <1>4
<1> QED
  BY <1>1, <1>5, <1>6, <1>7, HeldBackFrame, NumbersOfRows DEF SameNews

\* A worker's other steps and the stalled check leave what a job is due, and
\* which row an attempt is for, alone.
SlotStep ==
  \/ \E w \in Workers : \/ SendStep(w) \/ RecordStep(w) \/ SaveFails(w)
                       \/ Return(w) \/ Throw(w) \/ Crash(w) \/ LoseLock(w)
  \/ \E i \in Rows : StalledCheck(i)

\* Retries and redeliveries keep the moment a job was due.
LEMMA SlotHolds ==
  ASSUME TypeOK, Linked, HeldBack, SlotStep
  PROVE  HeldBack'
<1>1. RowsKept /\ UNCHANGED <<now, eval>>
  <2>1. CASE \E w \in Workers : RecordStep(w)
    BY <2>1, RecordFits DEF RecordStep, MarkProcessing, RecordDelivery, RecordFailure
  <2>2. CASE ~ \E w \in Workers : RecordStep(w)
    BY <2>2, Unwritten DEF SlotStep, SendStep, Skip, Accept, Refuse, LoseResponse, SaveFails,
                           Return, Throw, Crash, LoseLock, StalledCheck
  <2> QED
    BY <2>1, <2>2
<1>2. \A i \in Rows : \/ job'[i] = job[i]
                      \/ job[i].state # "none" /\ job'[i].due = job[i].due
  <2>1. CASE \E w \in Workers : SendStep(w) \/ RecordStep(w) \/ SaveFails(w)
    BY <2>1 DEF SendStep, Skip, Accept, Refuse, LoseResponse, SaveFails,
                RecordStep, MarkProcessing, RecordDelivery, RecordFailure
  <2>2. CASE \E w \in Workers : Return(w) \/ Throw(w)
    <3>1. PICK w \in Workers : Return(w) \/ Throw(w)
      BY <2>2
    <3>2. worker[w].alert \in Rows /\ JobFits(worker[w].alert, job[worker[w].alert], Len(alerts))
      BY <3>1 DEF Return, Throw, Linked, WorkerFits, Rows, TypeOK
    <3>3. job[worker[w].alert].lock = w => job[worker[w].alert].state # "none"
      BY <3>2 DEF JobFits
    <3>4. \A i \in Rows : job'[i] = job[i] \/ (i = worker[w].alert /\ job[i].lock = w)
      BY <3>1, <3>2 DEF Return, Throw, Settle, TypeOK
    <3>5. job'[worker[w].alert].due = job[worker[w].alert].due
      <4>1. job[worker[w].alert] \in JobType
        BY <3>2 DEF JobFits
      <4>2. CASE Return(w)
        BY <3>2, <4>1, <4>2 DEF Return, Settle, TypeOK, JobType
      <4>3. CASE Throw(w)
        BY <3>2, <4>1, <4>3 DEF Throw, Settle, TypeOK, JobType
      <4> QED
        BY <3>1, <4>2, <4>3
    <3> QED
      BY <3>3, <3>4, <3>5
  <2>3. CASE \E w \in Workers : Crash(w) \/ LoseLock(w)
    <3>1. PICK w \in Workers : Unlock(w)
      BY <2>3 DEF Crash, LoseLock
    <3>2. \A i \in Rows : job[i].lock = w => job[i].state # "none"
      BY DEF Linked, JobFits
    <3>3. \A i \in Rows : job'[i] = job[i] \/ (job[i].lock = w /\ job'[i].due = job[i].due)
      BY <3>1 DEF Unlock, TypeOK, JobType
    <3> QED
      BY <3>2, <3>3
  <2>4. CASE \E i \in Rows : StalledCheck(i)
    BY <2>4 DEF StalledCheck, TypeOK, JobType
  <2> QED
    BY <2>1, <2>2, <2>3, <2>4 DEF SlotStep
<1>3. \A v \in Workers : \/ worker'[v] = worker[v]
                         \/ worker[v].pc # "idle" /\ worker'[v].alert = worker[v].alert
                         \/ worker'[v].pc = "idle"
  <2>1. CASE \E w \in Workers : SendStep(w) \/ RecordStep(w) \/ SaveFails(w)
    <3>1. PICK w \in Workers : worker[w].pc # "idle" /\ \E pc : Goto(w, pc)
      BY <2>1 DEF SendStep, Skip, Accept, Refuse, LoseResponse, SaveFails, Channels,
                  RecordStep, MarkProcessing, RecordDelivery, RecordFailure
    <3> QED
      BY <3>1 DEF Goto, TypeOK, WorkerType
  <2>2. CASE \E w \in Workers : Return(w) \/ Throw(w) \/ Crash(w)
    BY <2>2 DEF Return, Throw, Crash, Settle, Idle, TypeOK
  <2>3. CASE \/ \E w \in Workers : LoseLock(w)
             \/ \E i \in Rows : StalledCheck(i)
    BY <2>3 DEF LoseLock, StalledCheck
  <2> QED
    BY <2>1, <2>2, <2>3 DEF SlotStep
<1>4. \A i \in Alerts' : i \in Alerts
  BY <1>1 DEF RowsKept, Alerts
<1>5. \A w \in Workers : \/ worker[w].pc # "idle" /\ worker'[w].alert = worker[w].alert
                         \/ worker'[w].pc = "idle"
  BY <1>3
<1>6. \A i \in Rows : \/ job[i].state # "none" /\ job'[i].due = job[i].due
                      \/ job'[i].state = "none"
  BY <1>2
<1> QED
  BY <1>1, <1>4, <1>5, <1>6, HeldBackFrame, NumbersOfRows DEF RowsKept

\* The inductive step of what is held back.
LEMMA HeldBackNext ==
  ASSUME TypeOK, Linked, HeldBack, [Next]_vars
  PROVE  HeldBack'
<1>1. CASE \E e \in Evals : Save(e) \/ Enqueue(e)
  BY <1>1, SaveHolds, EnqueueHolds
<1>2. CASE \E w \in Workers, i \in Rows, channels \in SUBSET Channels : TakeJob(w, i, channels)
  BY <1>2, TakeJobHolds
<1>3. CASE SlotStep
  BY <1>3, SlotHolds
<1>4. ASSUME RowsKept, now <= now', now' \in Nat, UNCHANGED <<job, worker>>,
             \A f \in Evals : eval'[f] = eval[f] \/ eval'[f].pc # "queueing"
      PROVE  HeldBack'
  <2>1. \A i \in Alerts' : i \in Alerts
    BY <1>4 DEF RowsKept, Alerts
  <2>2. \A f \in Evals : eval'[f] = eval[f] \/ OwnRow(f)'
    BY <1>4 DEF OwnRow
  <2>3. \A w \in Workers : \/ worker[w].pc # "idle" /\ worker'[w].alert = worker[w].alert
                           \/ worker'[w].pc = "idle"
    BY <1>4
  <2>4. \A i \in Rows : \/ job[i].state # "none" /\ job'[i].due = job[i].due
                        \/ job'[i].state = "none"
    BY <1>4
  <2> QED
    BY <1>4, <2>1, <2>2, <2>3, <2>4, HeldBackFrame DEF RowsKept
<1>5. CASE UNCHANGED vars \/ Tick \/ \E i \in Rows : Resolve(i)
  BY <1>4, <1>5, Unwritten, ResolveStep, NumbersOfRows DEF vars, queueVars, Tick
<1>6. CASE \E e \in Evals, found \in Readings, window \in Windows \cup {None} :
             Evaluate(e, found, window)
  <2>1. PICK e \in Evals, found \in Readings, window \in Windows \cup {None} :
               Evaluate(e, found, window)
    BY <1>6
  <2>2. \A f \in Evals : eval'[f] = eval[f] \/ eval'[f].pc # "queueing"
    <3> DEFINE r == [NotEvaluating EXCEPT !.pc = "checking", !.found = found, !.window = window]
    <3>1. r = [pc |-> "checking", found |-> found, window |-> window,
               triggered |-> 0, deferred |-> FALSE, seen |-> 0, row |-> 0]
      BY NewEvaluation
    <3>2. eval' = [eval EXCEPT ![e] = r]
      BY <2>1 DEF Evaluate
    <3> HIDE DEF r
    <3> QED
      BY <3>1, <3>2 DEF TypeOK
  <2> QED
    BY <1>4, <2>1, <2>2, Unwritten, NumbersOfRows DEF Evaluate, queueVars
<1>7. CASE \E e \in Evals : Suppress(e) \/ Decide(e) \/ EvaluationFails(e) \/ OutOfRows(e)
  <2>1. PICK e \in Evals : Suppress(e) \/ Decide(e) \/ EvaluationFails(e) \/ OutOfRows(e)
    BY <1>7
  <2>2. \A f \in Evals : eval'[f] = eval[f] \/ eval'[f].pc # "queueing"
    <3>1. CASE Suppress(e)
      BY <3>1, NextTypeLeaves DEF Suppress
    <3>2. CASE Decide(e)
      BY <3>2 DEF Decide, TypeOK, EvalType
    <3>3. CASE EvaluationFails(e) \/ OutOfRows(e)
      BY <3>3 DEF EvaluationFails, OutOfRows, NotEvaluating, TypeOK
    <3> QED
      BY <2>1, <3>1, <3>2, <3>3
  <2>3. UNCHANGED <<now, alerts, job, worker>>
    BY <2>1 DEF Suppress, Decide, EvaluationFails, OutOfRows, queueVars
  <2> QED
    BY <1>4, <2>2, <2>3, Unwritten, NumbersOfRows
<1> QED
  BY <1>1, <1>2, <1>3, <1>5, <1>6, <1>7, NextCases DEF SlotStep

\* Only a channel sends, and the attempt that tries it is late enough.
LEMMA SentLate ==
  ASSUME TypeOK, Linked, HeldBack, [Next]_vars,
         NEW i \in Alerts, sent'[i] # sent[i], alerts[i].deferred,
         ~ AlwaysQuiet(alerts[i].window)
  PROVE  \E m \in alerts[i].triggered .. now : ~ Quiet(m, alerts[i].window)
<1>1. PICK w \in Workers : SendStep(w)
  BY NextCases DEF vars, queueVars, Tick, Evaluate, Suppress, Decide, Save, Enqueue,
                   EvaluationFails, OutOfRows, Resolve, StalledCheck, TakeJob, LoseLock,
                   RecordStep, MarkProcessing, RecordDelivery, RecordFailure,
                   SaveFails, Return, Throw, Crash
<1>2. worker[w].pc # "idle" /\ worker[w].alert = i
  <2>1. PICK c \in Channels : Skip(w, c) \/ Accept(w, c) \/ Refuse(w, c) \/ LoseResponse(w, c)
    BY <1>1 DEF SendStep
  <2>2. worker[w].pc # "idle"
    BY <2>1 DEF Skip, Accept, Refuse, LoseResponse, Channels
  <2>3. i \in Rows
    BY DEF Alerts, Rows, TypeOK
  <2>4. sent' = sent \/ sent' = [sent EXCEPT ![worker[w].alert] = @ + 1]
    BY <2>1 DEF Skip, Accept, Refuse, LoseResponse
  <2> QED
    BY <2>2, <2>3, <2>4 DEF TypeOK
<1>3. QuietEnd(i) <= now
  BY <1>2 DEF HeldBack, TriedLater
<1>4. alerts[i].triggered \in Nat /\ alerts[i].window \in WindowType
  BY NumbersOfRows DEF HeldBack
<1>5. /\ QuietEnd(i) \in Nat /\ QuietEnd(i) > alerts[i].triggered
      /\ ~ Quiet(QuietEnd(i), alerts[i].window)
  BY <1>4, QuietUntilFacts DEF QuietEnd
<1>6. QuietEnd(i) \in alerts[i].triggered .. now
  BY <1>3, <1>4, <1>5, NumbersOfRows
<1> QED
  BY <1>5, <1>6

\* Through retries, redeliveries and crashes, what was held back for quiet
\* hours goes out only after a moment that was not quiet.
THEOREM QuietCorrect == Spec => QuietKept
<1>1. Init => TypeOK /\ Linked /\ HeldBack
  BY LinkedInit, HeldBackInit
<1>2. TypeOK /\ Linked /\ HeldBack /\ [Next]_vars => (TypeOK /\ Linked /\ HeldBack)'
  BY LinkedNext, HeldBackNext
<1>3. TypeOK /\ Linked /\ HeldBack /\ [Next]_vars =>
        [\A i \in Alerts :
           (sent'[i] # sent[i] /\ alerts[i].deferred /\ ~ AlwaysQuiet(alerts[i].window))
           => \E m \in alerts[i].triggered .. now : ~ Quiet(m, alerts[i].window)]_vars
  BY SentLate
<1> QED
  BY <1>1, <1>2, <1>3, PTL DEF Spec, QuietKept
-----------------------------------------------------------------------------
(* A message is sent once, and once more per fault at most: what was sent  *)
(* for a row, the attempts that may still send and the attempt that may    *)
(* still follow are never more.                                            *)

BeforeSending == {"marking", "whatsapp", "email"}
AfterFailing == {"undelivered", "throwing"}

\* The attempts that may still send the message of row i.
Trying(i) == {w \in Workers : worker[w].alert = i /\ worker[w].pc \in BeforeSending}

\* Another attempt may follow: the job waits, is to be made, has lost its
\* worker, or its worker is about to give it back.
Again(i) ==
  IF \/ job[i].state \in {"none", "waiting"}
     \/ job[i].state = "active" /\ job[i].lock = None
     \/ job[i].state = "active" /\ worker[job[i].lock].pc \in AfterFailing
  THEN 1 ELSE 0

Copies(i) == sent[i] + Cardinality(Trying(i)) + Again(i) <= 1 + faults

\* A lock is held by the slot that is at the row.
LockHeld ==
  \A i \in Rows : job[i].lock # None =>
    worker[job[i].lock].pc # "idle" /\ worker[job[i].lock].alert = i

\* A row is queued once: an evaluation that is about to is the only one.
Unqueued ==
  \A e \in Evals : eval[e].pc = "queueing" =>
    /\ job[eval[e].row].state = "none"
    /\ \A f \in Evals \ {e} : eval[f].pc = "queueing" => eval[f].row # eval[e].row

Spared == LockHeld /\ Unqueued /\ \A i \in Rows : Copies(i)

LEMMA CountOne ==
  ASSUME NEW S, IsFiniteSet(S), NEW w
  PROVE  /\ Cardinality(S) \in Nat /\ Cardinality(S \ {w}) \in Nat
         /\ w \in S => Cardinality(S) = Cardinality(S \ {w}) + 1
         /\ w \notin S => Cardinality(S) = Cardinality(S \ {w})
<1>1. Cardinality(S) \in Nat
  BY FS_CardinalityType
<1>2. S \ {w} \in SUBSET S
  OBVIOUS
<1>3. Cardinality(S \ {w}) \in Nat
  BY <1>2, FS_Subset, FS_CardinalityType
<1>4. w \in S => Cardinality(S \ {w}) = Cardinality(S) - 1
  BY FS_RemoveElement
<1>5. w \notin S => S \ {w} = S
  OBVIOUS
<1>6. w \notin S => Cardinality(S) = Cardinality(S \ {w})
  BY <1>5
<1> QED
  BY <1>1, <1>3, <1>4, <1>6

LEMMA TryingFinite == ASSUME NEW i PROVE IsFiniteSet(Trying(i)) /\ Cardinality(Trying(i)) \in Nat
<1>1. Trying(i) \in SUBSET Workers
  BY DEF Trying
<1> QED
  BY <1>1, FS_Subset, FS_CardinalityType

\* What changes at one slot is paid for by the attempt that it ends or by a
\* fault.
LEMMA Balance ==
  ASSUME NEW i \in Rows, NEW w \in Workers, Copies(i),
         sent[i] \in Nat, sent'[i] \in Nat, faults \in Nat, faults' \in Nat,
         \A v \in Workers \ {w} : worker'[v] = worker[v],
         sent'[i] + (IF w \in Trying(i)' THEN 1 ELSE 0) + Again(i)' + faults
           <= sent[i] + (IF w \in Trying(i) THEN 1 ELSE 0) + Again(i) + faults'
  PROVE  Copies(i)'
<1> DEFINE A == IF w \in Trying(i) THEN 1 ELSE 0
           B == IF w \in Trying(i)' THEN 1 ELSE 0
           n == Cardinality(Trying(i) \ {w})
           S == Trying(i)'
<1>1. S \ {w} = Trying(i) \ {w}
  BY DEF Trying
<1>2. IsFiniteSet(S)
  <2>1. S \in SUBSET Workers
    BY DEF Trying
  <2> QED
    BY <2>1, FS_Subset
<1>3. IsFiniteSet(Trying(i))
  BY TryingFinite
<1>4. n \in Nat /\ Cardinality(Trying(i)) = n + A
  BY <1>3, CountOne
<1>5. Cardinality(S) = Cardinality(S \ {w}) + B
  BY <1>2, CountOne
<1>6. Cardinality(S) = n + B
  BY <1>1, <1>5
<1>7. A \in 0..1 /\ B \in 0..1 /\ Again(i) \in 0..1 /\ Again(i)' \in 0..1
  BY DEF Again
<1>8. sent'[i] + B + Again(i)' + faults <= sent[i] + A + Again(i) + faults'
  OBVIOUS
<1>9. /\ sent[i] + Cardinality(Trying(i)) + Again(i) <= 1 + faults
      /\ Copies(i)' <=> sent'[i] + Cardinality(S) + Again(i)' <= 1 + faults'
  BY DEF Copies
<1> HIDE DEF A, B, n, S
<1> QED
  BY <1>4, <1>6, <1>7, <1>8, <1>9

LEMMA LocksTyped == ASSUME TypeOK, NEW i \in Rows PROVE job[i].lock \in Workers \cup {None}
<1>1. job[i] \in JobType
  BY DEF TypeOK
<1> QED
  BY <1>1 DEF JobType

\* No slot moves and nothing is sent.
LEMMA NoSlotMoves ==
  ASSUME TypeOK, TypeOK', Spared, UNCHANGED <<worker, sent>>, faults <= faults',
         \A i \in Rows : Again(i)' <= Again(i)
  PROVE  \A i \in Rows : Copies(i)'
<1> TAKE i \in Rows
<1>1. Trying(i)' = Trying(i)
  BY DEF Trying
<1>2. Cardinality(Trying(i)) \in Nat /\ sent[i] \in Nat /\ faults \in Nat /\ faults' \in Nat
  BY TryingFinite DEF TypeOK
<1>3. Again(i) \in 0..1 /\ Again(i)' \in 0..1 /\ Again(i)' <= Again(i)
  BY DEF Again
<1>4. sent'[i] = sent[i] /\ Copies(i)
  BY DEF Spared
<1> QED
  BY <1>1, <1>2, <1>3, <1>4 DEF Copies

\* A slot moves on within its attempt.
LEMMA SlotSteps ==
  ASSUME TypeOK, Linked, TypeOK', Spared, NEW w \in Workers, worker[w].pc # "idle",
         NEW pc \in {"marking", "whatsapp", "email", "delivered", "undelivered",
                     "returning", "throwing"},
         Goto(w, pc), job' = job, faults <= faults',
         \A i \in Rows \ {worker[w].alert} : sent'[i] = sent[i],
         LET a == worker[w].alert
             before == (IF worker[w].pc \in BeforeSending THEN 1 ELSE 0)
             after == (IF pc \in BeforeSending THEN 1 ELSE 0)
             was == (IF worker[w].pc \in AfterFailing THEN 1 ELSE 0)
             is == (IF pc \in AfterFailing THEN 1 ELSE 0)
         IN /\ sent'[a] + after + faults <= sent[a] + before + faults'
            /\ sent'[a] + after + is + faults <= sent[a] + before + was + faults'
  PROVE  LockHeld' /\ \A i \in Rows : Copies(i)'
<1>1. PICK a \in Rows : a = worker[w].alert
  BY DEF Linked, WorkerFits, Rows, TypeOK
<1>2. /\ \A v \in Workers \ {w} : worker'[v] = worker[v]
      /\ worker'[w].alert = a /\ worker'[w].pc = pc
  BY <1>1 DEF Goto, TypeOK, WorkerType
<1>3. LockHeld'
  BY <1>1, <1>2, LocksTyped DEF Spared, LockHeld
<1>4. /\ sent \in [Rows -> Nat] /\ sent' \in [Rows -> Nat] /\ faults \in Nat /\ faults' \in Nat
      /\ \A i \in Rows : job[i].lock \in Workers \cup {None}
  <2>1. faults \in 0..MaxFaults /\ faults' \in 0..MaxFaults
    BY DEF TypeOK
  <2>2. sent \in [Rows -> Nat] /\ sent' \in [Rows -> Nat]
    BY DEF TypeOK
  <2>3. faults \in Nat /\ faults' \in Nat
    BY <2>1
  <2> QED
    BY <2>2, <2>3, LocksTyped
<1>5. ASSUME NEW i \in Rows, i # a PROVE Copies(i)'
  <2>1. w \notin Trying(i) /\ w \notin Trying(i)'
    BY <1>1, <1>2, <1>5 DEF Trying
  <2>2. job[i].lock # w
    BY <1>1, <1>5 DEF Spared, LockHeld
  <2>3. Again(i)' = Again(i) /\ Again(i) \in 0..1
    BY <1>2, <1>4, <2>2 DEF Again
  <2>4. sent'[i] = sent[i] /\ faults <= faults' /\ Copies(i)
    BY <1>1, <1>5 DEF Spared
  <2> QED
    BY <1>2, <1>4, <2>1, <2>3, <2>4, Balance
<1>6. Copies(a)'
  <2>1. /\ w \in Trying(a) <=> worker[w].pc \in BeforeSending
        /\ w \in Trying(a)' <=> pc \in BeforeSending
    BY <1>1, <1>2 DEF Trying
  <2>2. CASE job[a].lock = w
    <3>1. job[a].state = "active" /\ w # None
      BY <1>1, <2>2 DEF Linked, JobFits
    <3>2. /\ Again(a) = IF worker[w].pc \in AfterFailing THEN 1 ELSE 0
          /\ Again(a)' = IF pc \in AfterFailing THEN 1 ELSE 0
      BY <1>2, <2>2, <3>1 DEF Again
    <3> QED
      BY <1>1, <1>2, <1>4, <2>1, <3>2, Balance DEF Spared
  <2>3. CASE job[a].lock # w
    <3>1. Again(a)' = Again(a) /\ Again(a) \in 0..1
      BY <1>1, <1>2, <1>4, <2>3 DEF Again
    <3> QED
      BY <1>1, <1>2, <1>4, <2>1, <3>1, Balance DEF Spared
  <2> QED
    BY <2>2, <2>3
<1> QED
  BY <1>3, <1>5, <1>6

\* A message that goes out uses up its attempt, or its answer was lost.
LEMMA SendSpares ==
  ASSUME TypeOK, Linked, TypeOK', Spared, NEW w \in Workers, SendStep(w)
  PROVE  LockHeld' /\ \A i \in Rows : Copies(i)'
<1>1. PICK c \in Channels : Skip(w, c) \/ Accept(w, c) \/ Refuse(w, c) \/ LoseResponse(w, c)
  BY DEF SendStep
<1>2. worker[w].pc = c /\ c \in {"whatsapp", "email"} /\ job' = job
  BY <1>1 DEF Skip, Accept, Refuse, LoseResponse, Channels
<1>3. worker[w].pc # "idle" /\ worker[w].alert \in Rows
  BY <1>2 DEF Linked, WorkerFits, Rows, TypeOK
<1> DEFINE a == worker[w].alert
<1>4. /\ sent \in [Rows -> Nat] /\ faults \in Nat /\ faults' \in Nat
  BY DEF TypeOK
<1>5. CASE Accept(w, c)
  <2>1. /\ Goto(w, "delivered") /\ faults' = faults /\ sent'[a] = sent[a] + 1
        /\ \A i \in Rows \ {a} : sent'[i] = sent[i]
    BY <1>3, <1>4, <1>5 DEF Accept
  <2> QED
    BY <1>2, <1>3, <1>4, <2>1, SlotSteps DEF BeforeSending, AfterFailing
<1>6. CASE Skip(w, c) \/ Refuse(w, c)
  <2>1. /\ Goto(w, AfterChannel(c)) /\ faults' = faults /\ sent' = sent
    BY <1>6 DEF Skip, Refuse
  <2>2. AfterChannel(c) \in {"email", "undelivered"}
    BY DEF AfterChannel
  <2> QED
    BY <1>2, <1>3, <1>4, <2>1, <2>2, SlotSteps DEF BeforeSending, AfterFailing
<1>7. CASE LoseResponse(w, c)
  <2>1. /\ Goto(w, AfterChannel(c)) /\ faults' = faults + 1 /\ sent'[a] = sent[a] + 1
        /\ \A i \in Rows \ {a} : sent'[i] = sent[i]
    BY <1>3, <1>4, <1>7 DEF LoseResponse, Fault
  <2>2. AfterChannel(c) \in {"email", "undelivered"}
    BY DEF AfterChannel
  <2> QED
    BY <1>2, <1>3, <1>4, <2>1, <2>2, SlotSteps DEF BeforeSending, AfterFailing
<1> QED
  BY <1>1, <1>5, <1>6, <1>7

\* Recording sends nothing; that it fails is a fault.
LEMMA RecordSpares ==
  ASSUME TypeOK, Linked, TypeOK', Spared, NEW w \in Workers, RecordStep(w) \/ SaveFails(w)
  PROVE  LockHeld' /\ \A i \in Rows : Copies(i)'
<1>1. /\ worker[w].pc # "idle" /\ sent' = sent /\ job' = job
      /\ sent \in [Rows -> Nat] /\ faults \in Nat /\ worker[w].alert \in Rows
  BY DEF RecordStep, MarkProcessing, RecordDelivery, RecordFailure, SaveFails,
         Linked, WorkerFits, Rows, TypeOK
<1>2. CASE MarkProcessing(w)
  <2>1. worker[w].pc = "marking" /\ Goto(w, "whatsapp") /\ faults' = faults
    BY <1>2 DEF MarkProcessing
  <2> QED
    BY <1>1, <2>1, SlotSteps DEF BeforeSending, AfterFailing
<1>3. CASE RecordDelivery(w)
  <2>1. worker[w].pc = "delivered" /\ Goto(w, "returning") /\ faults' = faults
    BY <1>3 DEF RecordDelivery
  <2> QED
    BY <1>1, <2>1, SlotSteps DEF BeforeSending, AfterFailing
<1>4. CASE RecordFailure(w)
  <2>1. worker[w].pc = "undelivered" /\ Goto(w, "throwing") /\ faults' = faults
    BY <1>4 DEF RecordFailure
  <2> QED
    BY <1>1, <2>1, SlotSteps DEF BeforeSending, AfterFailing
<1>5. CASE SaveFails(w)
  <2>1. Goto(w, "throwing") /\ faults' = faults + 1
    BY <1>5 DEF SaveFails, Fault
  <2> QED
    BY <1>1, <2>1, SlotSteps DEF BeforeSending, AfterFailing
<1> QED
  BY <1>2, <1>3, <1>4, <1>5 DEF RecordStep

\* A slot that stops leaves its job to nobody: it may be tried again if the
\* slot's attempt failed, or by a fault.
LEMMA SlotStops ==
  ASSUME TypeOK, Linked, TypeOK', Spared, NEW w \in Workers, worker[w].pc # "idle",
         worker' = [worker EXCEPT ![w] = Idle], sent' = sent, faults <= faults',
         \A i \in Rows : job[i].lock # w => job'[i] = job[i],
         \A i \in Rows : job[i].lock = w =>
           /\ job'[i].lock = None
           /\ Again(i)' + faults <= Again(i) + faults'
  PROVE  LockHeld' /\ \A i \in Rows : Copies(i)'
<1>1. /\ \A v \in Workers \ {w} : worker'[v] = worker[v]
      /\ worker'[w].pc = "idle"
  BY DEF Idle, TypeOK
<1>2. LockHeld'
  BY <1>1 DEF Spared, LockHeld, TypeOK, JobType
<1>3. ASSUME NEW i \in Rows PROVE Copies(i)'
  <2>1. w \notin Trying(i)'
    BY <1>1 DEF Trying, BeforeSending
  <2>2. /\ sent[i] \in Nat /\ sent'[i] = sent[i] /\ faults \in Nat /\ faults' \in Nat
        /\ Copies(i) /\ job[i].lock \in Workers \cup {None}
    BY DEF TypeOK, JobType, Spared
  <2>3. Again(i) \in 0..1 /\ Again(i)' \in 0..1
    BY DEF Again
  <2>4. Again(i)' + faults <= Again(i) + faults'
    <3>1. CASE job[i].lock # w
      <4>1. Again(i)' = Again(i)
        BY <1>1, <2>2, <3>1 DEF Again
      <4> QED
        BY <2>2, <2>3, <4>1
    <3> QED
      BY <3>1
  <2> QED
    BY <1>1, <2>1, <2>2, <2>3, <2>4, Balance
<1> QED
  BY <1>2, <1>3

\* An attempt that returns or throws.
LEMMA SettleSpares ==
  ASSUME TypeOK, Linked, TypeOK', Spared, NEW w \in Workers, Return(w) \/ Throw(w)
  PROVE  LockHeld' /\ \A i \in Rows : Copies(i)'
<1>1. /\ worker[w].pc \in {"returning", "throwing"} /\ sent' = sent /\ faults' = faults
      /\ worker' = [worker EXCEPT ![w] = Idle] /\ faults \in Nat
  BY DEF Return, Throw, Settle, TypeOK
<1>a. worker[w].pc # "idle" /\ faults <= faults'
  BY <1>1
<1>2. PICK a \in Rows : a = worker[w].alert
  <2>1. WorkerFits(worker[w], Len(alerts)) /\ Len(alerts) \in Nat /\ Len(alerts) <= MaxAlerts
    BY DEF Linked, TypeOK
  <2>2. worker[w].alert \in Rows
    BY <1>a, <2>1 DEF WorkerFits, Rows
  <2> QED
    BY <2>2
<1>3. w # None /\ \A i \in Rows : job[i].lock = w => i = a
  BY <1>2, WorkersAssumption DEF Spared, LockHeld
<1>4. \A i \in Rows : Again(i) \in 0..1 /\ Again(i)' \in 0..1
  BY DEF Again
<1>5. CASE job[a].lock # w
  <2>1. job' = job /\ \A i \in Rows : job[i].lock # w
    BY <1>2, <1>3, <1>5 DEF Return, Throw, Settle
  <2>2. /\ \A i \in Rows : job[i].lock # w => job'[i] = job[i]
        /\ \A i \in Rows : job[i].lock = w =>
             job'[i].lock = None /\ Again(i)' + faults <= Again(i) + faults'
    BY <2>1
  <2> QED
    BY <1>1, <1>a, <2>2, SlotStops
<1>6. CASE job[a].lock = w
  <2>1. job[a] \in JobType /\ job[a].state = "active"
    BY <1>3, <1>6 DEF Linked, JobFits, TypeOK
  <2>2. CASE Return(w)
    <3>1. job' = [job EXCEPT ![a] = [job[a] EXCEPT !.state = "completed", !.lock = None]]
      BY <1>2, <1>6, <2>2 DEF Return, Settle
    <3>2. /\ \A i \in Rows : job[i].lock # w => job'[i] = job[i]
          /\ job'[a].lock = None /\ job'[a].state = "completed"
      BY <1>6, <2>1, <3>1 DEF TypeOK, JobType
    <3>3. Again(a)' = 0
      BY <3>2 DEF Again
    <3>5. \A i \in Rows : job[i].lock = w =>
            job'[i].lock = None /\ Again(i)' + faults <= Again(i) + faults'
      <4>1. \A n, m \in 0..1 : (n = 0 \/ m = 1) => n + faults <= m + faults'
        BY <1>1
      <4> QED
        BY <1>3, <1>4, <3>2, <3>3, <4>1
    <3> QED
      BY <1>1, <1>a, <3>2, <3>5, SlotStops
  <2>3. CASE Throw(w)
    <3>1. worker[w].pc = "throwing"
      BY <2>3 DEF Throw
    <3>2. \E s \in {"waiting", "failed"}, m \in Nat :
            job' = [job EXCEPT ![a] = [job[a] EXCEPT !.state = s, !.lock = None, !.made = m]]
      <4> DEFINE s == IF job[a].made + 1 < MaxAttempts THEN "waiting" ELSE "failed"
                 m == job[a].made + 1
      <4>1. job' = [job EXCEPT ![a] = [job[a] EXCEPT !.state = s, !.lock = None, !.made = m]]
        BY <1>2, <1>6, <2>3 DEF Throw, Settle
      <4>2. s \in {"waiting", "failed"} /\ m \in Nat
        BY <2>1 DEF JobType
      <4> HIDE DEF s, m
      <4> QED
        BY <4>1, <4>2
    <3>3. /\ \A i \in Rows : job[i].lock # w => job'[i] = job[i]
          /\ job'[a].lock = None
      BY <1>6, <2>1, <3>2 DEF TypeOK, JobType
    <3>4. Again(a) = 1
      BY <1>6, <2>1, <3>1 DEF Again, AfterFailing
    <3>5. \A i \in Rows : job[i].lock = w =>
            job'[i].lock = None /\ Again(i)' + faults <= Again(i) + faults'
      <4>1. \A n, m \in 0..1 : (n = 0 \/ m = 1) => n + faults <= m + faults'
        BY <1>1
      <4> QED
        BY <1>3, <1>4, <3>3, <3>4, <4>1
    <3> QED
      BY <1>1, <1>a, <3>3, <3>5, SlotStops
  <2> QED
    BY <2>2, <2>3
<1> QED
  BY <1>5, <1>6

\* A crash, or a lock lost, is the fault that pays for the copy to come.
LEMMA UnlockSpares ==
  ASSUME TypeOK, Linked, TypeOK', Spared, NEW w \in Workers, Crash(w) \/ LoseLock(w)
  PROVE  LockHeld' /\ \A i \in Rows : Copies(i)'
<1>1. /\ worker[w].pc # "idle" /\ sent' = sent /\ faults' = faults + 1 /\ faults \in Nat
      /\ Unlock(w)
  BY DEF Crash, LoseLock, Fault, TypeOK
<1>2. \A i \in Rows : /\ job[i].lock # w => job'[i] = job[i]
                      /\ job[i].lock = w => job'[i].lock = None /\ job'[i].state = job[i].state
  BY <1>1 DEF Unlock, TypeOK, JobType
<1>3. \A i \in Rows : Again(i) \in 0..1 /\ Again(i)' \in 0..1
  BY DEF Again
<1>4. CASE Crash(w)
  <2>1. worker' = [worker EXCEPT ![w] = Idle]
    BY <1>4 DEF Crash
  <2>2. faults <= faults'
    BY <1>1
  <2>3. \A i \in Rows : Again(i)' + faults <= Again(i) + faults'
    <3>1. \A n, m \in 0..1 : n + faults <= m + faults'
      BY <1>1
    <3> QED
      BY <1>3, <3>1
  <2>4. \A i \in Rows : job[i].lock = w =>
          job'[i].lock = None /\ Again(i)' + faults <= Again(i) + faults'
    BY <1>2, <2>3
  <2>5. \A i \in Rows : job[i].lock # w => job'[i] = job[i]
    BY <1>2
  <2> QED
    BY <1>1, <2>1, <2>2, <2>4, <2>5, SlotStops
<1>5. CASE LoseLock(w)
  <2>1. worker' = worker
    BY <1>5 DEF LoseLock
  <2>2. LockHeld'
    BY <1>2, <2>1 DEF Spared, LockHeld
  <2>3. ASSUME NEW i \in Rows PROVE Copies(i)'
    <3>1. Trying(i)' = Trying(i)
      BY <2>1 DEF Trying
    <3>2. sent[i] \in Nat /\ sent'[i] = sent[i] /\ Copies(i)
      BY <1>1 DEF TypeOK, Spared
    <3>3. /\ Cardinality(Trying(i)) \in Nat
      <4>1. Trying(i) \in SUBSET Workers
        BY DEF Trying
      <4> QED
        BY <4>1, FS_Subset, FS_CardinalityType
    <3> QED
      BY <1>1, <1>3, <3>1, <3>2, <3>3 DEF Copies
  <2> QED
    BY <2>2, <2>3
<1> QED
  BY <1>4, <1>5

\* The attempt that a waiting job promised begins.
LEMMA TakeJobSpares ==
  ASSUME TypeOK, Linked, TypeOK', Spared, NEW w \in Workers, NEW i \in Rows,
         NEW channels \in SUBSET Channels, TakeJob(w, i, channels)
  PROVE  LockHeld' /\ \A k \in Rows : Copies(k)'
<1>1. /\ worker[w].pc = "idle" /\ job[i].state = "waiting"
      /\ \A v \in Workers \ {w} : worker'[v] = worker[v]
      /\ worker'[w].pc = "marking" /\ worker'[w].alert = i
      /\ sent' = sent /\ faults' = faults
  BY DEF TakeJob, Due, TypeOK
<1>2. /\ \A k \in Rows \ {i} : job'[k] = job[k]
      /\ job'[i].state = "active" /\ job'[i].lock = w
  BY DEF TakeJob, TypeOK, JobType
<1>3. \A k \in Rows : job[k].lock # w /\ job[k].lock \in Workers \cup {None}
  BY <1>1, WorkersAssumption, LocksTyped DEF Spared, LockHeld
<1>4. LockHeld'
  BY <1>1, <1>2, <1>3 DEF Spared, LockHeld
<1>5. ASSUME NEW k \in Rows PROVE Copies(k)'
  <2>1. /\ sent[k] \in Nat /\ sent'[k] = sent[k] /\ faults \in Nat /\ Copies(k)
    BY <1>1 DEF TypeOK, Spared
  <2>2. w \notin Trying(k) /\ (w \in Trying(k)' <=> k = i)
    BY <1>1 DEF Trying, BeforeSending
  <2>3. CASE k = i
    <3>1. Again(k) = 1 /\ Again(k)' = 0
      BY <1>1, <1>2, <2>3, WorkersAssumption DEF Again, AfterFailing
    <3> QED
      BY <1>1, <2>1, <2>2, <2>3, <3>1, Balance
  <2>4. CASE k # i
    <3>1. Again(k)' = Again(k) /\ Again(k) \in 0..1
      BY <1>1, <1>2, <1>3, <2>4 DEF Again
    <3> QED
      BY <1>1, <2>1, <2>2, <2>4, <3>1, Balance
  <2> QED
    BY <2>3, <2>4
<1> QED
  BY <1>4, <1>5

\* The evaluation that queues a row is the only one, and the row is new.
LEMMA UnqueuedNext ==
  ASSUME TypeOK, Linked, Unqueued, [Next]_vars
  PROVE  Unqueued'
<1>1. CASE \E e \in Evals : Save(e)
  <2>1. PICK e \in Evals : Save(e)
    BY <1>1
  <2>2. /\ eval'[e].row = Len(alerts) + 1 /\ job' = job
        /\ \A f \in Evals \ {e} : eval'[f] = eval[f]
    BY <2>1 DEF Save, queueVars, TypeOK, EvalType
  <2>3. Len(alerts) \in Nat /\ Len(alerts) + 1 \in Rows
    BY <2>1 DEF Save, TypeOK, Rows
  <2>4. job[Len(alerts) + 1].state = "none"
    BY <2>3 DEF Linked, JobFits
  <2>5. \A f \in Evals : eval[f].pc = "queueing" => eval[f].row # Len(alerts) + 1
    BY <2>3 DEF Linked, EvalFits
  <2> QED
    BY <2>2, <2>4, <2>5 DEF Unqueued
<1>2. CASE \E e \in Evals : Enqueue(e)
  <2>1. PICK e \in Evals : Enqueue(e)
    BY <1>2
  <2>2. /\ eval'[e].pc # "queueing" /\ \A f \in Evals \ {e} : eval'[f] = eval[f]
    BY <2>1 DEF Enqueue, NextType, NotEvaluating, TypeOK
  <2>3. eval[e].pc = "queueing" /\ \A k \in Rows \ {eval[e].row} : job'[k] = job[k]
    BY <2>1 DEF Enqueue, TypeOK
  <2>4. \A f \in Evals : eval[f].pc = "queueing" => eval[f].row \in Rows
    BY DEF Linked, EvalFits, TypeOK, Rows
  <2> QED
    BY <2>2, <2>3, <2>4 DEF Unqueued
<1>3. CASE /\ \A e \in Evals : eval'[e] = eval[e] \/ eval'[e].pc # "queueing"
           /\ \A i \in Rows : job[i].state = "none" => job'[i].state = "none"
  <2>1. \A f \in Evals : eval[f].pc = "queueing" => eval[f].row \in Rows
    BY DEF Linked, EvalFits, TypeOK, Rows
  <2> QED
    BY <1>3, <2>1 DEF Unqueued
<1>4. \/ \E e \in Evals : Save(e) \/ Enqueue(e)
      \/ /\ \A e \in Evals : eval'[e] = eval[e] \/ eval'[e].pc # "queueing"
         /\ \A i \in Rows : job[i].state = "none" => job'[i].state = "none"
  <2>1. CASE UNCHANGED <<eval, job>>
    BY <2>1
  <2>2. CASE \E e \in Evals : \/ Suppress(e) \/ Decide(e) \/ EvaluationFails(e) \/ OutOfRows(e)
                              \/ \E found \in Readings, window \in Windows \cup {None} :
                                   Evaluate(e, found, window)
    <3>1. PICK e \in Evals : \/ Suppress(e) \/ Decide(e) \/ EvaluationFails(e) \/ OutOfRows(e)
                             \/ \E found \in Readings, window \in Windows \cup {None} :
                                  Evaluate(e, found, window)
      BY <2>2
    <3>2. eval'[e].pc # "queueing" /\ \A f \in Evals \ {e} : eval'[f] = eval[f]
      <4>1. CASE Suppress(e)
        BY <4>1 DEF Suppress, NextType, NotEvaluating, TypeOK
      <4>2. CASE Decide(e)
        BY <4>2 DEF Decide, TypeOK, EvalType
      <4>3. CASE EvaluationFails(e) \/ OutOfRows(e)
        BY <4>3 DEF EvaluationFails, OutOfRows, NotEvaluating, TypeOK
      <4>4. CASE \E found \in Readings, window \in Windows \cup {None} : Evaluate(e, found, window)
        BY <4>4 DEF Evaluate, NotEvaluating, TypeOK
      <4> QED
        BY <3>1, <4>1, <4>2, <4>3, <4>4
    <3>3. job' = job
      BY <3>1 DEF Suppress, Decide, EvaluationFails, OutOfRows, Evaluate, queueVars
    <3> QED
      BY <3>2, <3>3 DEF TypeOK
  <2>3. CASE \E i \in Rows : StalledCheck(i)
    BY <2>3 DEF StalledCheck, TypeOK
  <2>4. CASE \E w \in Workers, i \in Rows, channels \in SUBSET Channels : TakeJob(w, i, channels)
    BY <2>4 DEF TakeJob, Due, TypeOK
  <2>5. CASE \E w \in Workers : Return(w) \/ Throw(w)
    <3>1. PICK w \in Workers : Return(w) \/ Throw(w)
      BY <2>5
    <3>2. worker[w].alert \in Rows
      BY <3>1 DEF Return, Throw, Linked, WorkerFits, Rows, TypeOK
    <3>3. job[worker[w].alert].lock = w => job[worker[w].alert].state = "active"
      BY <3>2, WorkersAssumption DEF Linked, JobFits
    <3> QED
      BY <3>1, <3>3 DEF Return, Throw, Settle, TypeOK
  <2>6. CASE \E w \in Workers : Crash(w) \/ LoseLock(w)
    <3>1. PICK w \in Workers : Unlock(w)
      BY <2>6 DEF Crash, LoseLock
    <3>2. \A i \in Rows : job'[i].state = job[i].state
      BY <3>1 DEF Unlock, TypeOK, JobType
    <3> QED
      BY <2>6, <3>2 DEF Crash, LoseLock
  <2> QED
    <3>1. \/ UNCHANGED <<eval, job>>
          \/ \E e \in Evals : Save(e) \/ Enqueue(e)
          \/ \E e \in Evals : \/ Suppress(e) \/ Decide(e) \/ EvaluationFails(e) \/ OutOfRows(e)
                              \/ \E found \in Readings, window \in Windows \cup {None} :
                                   Evaluate(e, found, window)
          \/ \E i \in Rows : StalledCheck(i)
          \/ \E w \in Workers, i \in Rows, channels \in SUBSET Channels : TakeJob(w, i, channels)
          \/ \E w \in Workers : Return(w) \/ Throw(w) \/ Crash(w) \/ LoseLock(w)
      BY NextCases DEF vars, queueVars, Tick, Resolve, SendStep, RecordStep, SaveFails,
                       Skip, Accept, Refuse, LoseResponse,
                       MarkProcessing, RecordDelivery, RecordFailure
    <3> QED
      BY <2>1, <2>2, <2>3, <2>4, <2>5, <2>6, <3>1
<1> QED
  BY <1>1, <1>2, <1>3, <1>4

\* The inductive step, action by action.
LEMMA SparedNext ==
  ASSUME TypeOK, Linked, Spared, [Next]_vars
  PROVE  Spared'
<1>1. TypeOK' /\ Linked' /\ Unqueued'
  BY LinkedNext, UnqueuedNext DEF Spared
<1>2. CASE /\ UNCHANGED <<job, worker, sent>> /\ faults <= faults'
  <2>1. LockHeld' /\ \A i \in Rows : Again(i)' = Again(i) /\ Again(i) \in 0..1
    BY <1>2 DEF Spared, LockHeld, Again
  <2> QED
    BY <1>1, <1>2, <2>1, NoSlotMoves DEF Spared
<1>3. CASE \E e \in Evals : Enqueue(e)
  <2>1. PICK e \in Evals : Enqueue(e)
    BY <1>3
  <2>2. eval[e].pc = "queueing" /\ eval[e].row \in Rows
    BY <2>1 DEF Enqueue, Linked, EvalFits, TypeOK, Rows
  <2>3. /\ UNCHANGED <<worker, sent, faults>> /\ faults \in Nat
        /\ \A k \in Rows \ {eval[e].row} : job'[k] = job[k]
        /\ job'[eval[e].row].lock = None /\ job'[eval[e].row].state = "waiting"
        /\ job[eval[e].row].state = "none"
    <3>1. PICK j : /\ job' = [job EXCEPT ![eval[e].row] = j]
                   /\ j = [NoJob EXCEPT !.state = "waiting", !.due = now + Delay(e)]
      BY <2>1 DEF Enqueue
    <3>2. j.state = "waiting" /\ j.lock = None
      <4> DEFINE due == now + Delay(e)
      <4>1. j = [NoJob EXCEPT !.state = "waiting", !.due = due]
        BY <3>1
      <4> HIDE DEF due
      <4>2. j = [state |-> "waiting", due |-> due, lock |-> None, made |-> 0, stalls |-> 0]
        BY <4>1, NewJob
      <4> QED
        BY <4>2
    <3>3. job[eval[e].row].state = "none"
      BY <2>2 DEF Spared, Unqueued
    <3>4. UNCHANGED <<worker, sent, faults>> /\ faults \in Nat
      BY <2>1 DEF Enqueue, TypeOK
    <3> QED
      BY <2>2, <3>1, <3>2, <3>3, <3>4 DEF TypeOK
  <2>4. LockHeld'
    BY <2>3 DEF Spared, LockHeld
  <2>5. \A i \in Rows : Again(i)' <= Again(i)
    BY <2>3 DEF Again
  <2> QED
    BY <1>1, <2>3, <2>4, <2>5, NoSlotMoves DEF Spared
<1>4. CASE \E i \in Rows : StalledCheck(i)
  <2>1. PICK i \in Rows : StalledCheck(i)
    BY <1>4
  <2>2. /\ UNCHANGED <<worker, sent, faults>> /\ faults \in Nat
        /\ \A k \in Rows \ {i} : job'[k] = job[k]
        /\ job[i].state = "active" /\ job[i].lock = None /\ job'[i].lock = None
    BY <2>1 DEF StalledCheck, TypeOK, JobType
  <2>3. LockHeld'
    BY <2>2 DEF Spared, LockHeld
  <2>4. \A k \in Rows : Again(k)' <= Again(k)
    BY <2>2 DEF Again
  <2> QED
    BY <1>1, <2>2, <2>3, <2>4, NoSlotMoves DEF Spared
<1>5. CASE \E w \in Workers, i \in Rows, channels \in SUBSET Channels : TakeJob(w, i, channels)
  BY <1>1, <1>5, TakeJobSpares DEF Spared
<1>6. CASE \E w \in Workers : \/ SendStep(w) \/ RecordStep(w) \/ SaveFails(w)
                              \/ Return(w) \/ Throw(w) \/ Crash(w) \/ LoseLock(w)
  BY <1>1, <1>6, SendSpares, RecordSpares, SettleSpares, UnlockSpares DEF Spared
<1> QED
  <2>1. faults \in Nat
    BY DEF TypeOK
  <2>2. \/ UNCHANGED <<job, worker, sent>> /\ faults <= faults'
        \/ \E e \in Evals : Enqueue(e)
        \/ \E i \in Rows : StalledCheck(i)
        \/ \E w \in Workers, i \in Rows, channels \in SUBSET Channels : TakeJob(w, i, channels)
        \/ \E w \in Workers : \/ SendStep(w) \/ RecordStep(w) \/ SaveFails(w)
                              \/ Return(w) \/ Throw(w) \/ Crash(w) \/ LoseLock(w)
    <3>1. ASSUME \/ UNCHANGED vars \/ Tick \/ \E i \in Rows : Resolve(i)
                 \/ \E e \in Evals, found \in Readings, window \in Windows \cup {None} :
                      Evaluate(e, found, window)
                 \/ \E e \in Evals : \/ Suppress(e) \/ Decide(e) \/ Save(e)
                                     \/ EvaluationFails(e) \/ OutOfRows(e)
          PROVE  UNCHANGED <<job, worker, sent>> /\ faults <= faults'
      <4>1. UNCHANGED <<job, worker, sent>> /\ (faults' = faults \/ faults' = faults + 1)
        BY <3>1 DEF vars, queueVars, Tick, Resolve, Evaluate, Suppress, Decide, Save,
                    EvaluationFails, OutOfRows, Fault
      <4> QED
        BY <2>1, <4>1
    <3> QED
      BY <3>1, NextCases
  <2> QED
    BY <1>2, <1>3, <1>4, <1>5, <1>6, <2>2

LEMMA SparedInit == Init => Spared
<1> SUFFICES ASSUME Init PROVE Spared
  OBVIOUS
<1>1. LockHeld /\ Unqueued
  BY DEF Init, LockHeld, Unqueued, NoJob, NotEvaluating
<1>2. ASSUME NEW i \in Rows PROVE Copies(i)
  <2>1. Trying(i) = {} /\ Again(i) = 1 /\ sent[i] = 0 /\ faults = 0
    BY DEF Init, Trying, BeforeSending, Idle, Again, NoJob
  <2> QED
    BY <2>1, FS_EmptySet DEF Copies
<1> QED
  BY <1>1, <1>2 DEF Spared

\* Retries, redeliveries and the fallback chain send a message once; what is
\* sent twice was sent because of a fault.
THEOREM CopiesBounded == Spec => []OneMessagePerFault
<1>1. Init => TypeOK /\ Linked /\ Spared
  BY LinkedInit, SparedInit
<1>2. TypeOK /\ Linked /\ Spared /\ [Next]_vars => (TypeOK /\ Linked /\ Spared)'
  BY LinkedNext, SparedNext
<1>3. TypeOK /\ Spared => OneMessagePerFault
  <2> SUFFICES ASSUME TypeOK, Spared, NEW i \in Rows PROVE sent[i] <= 1 + faults
    BY DEF OneMessagePerFault
  <2>1. Trying(i) \in SUBSET Workers
    BY DEF Trying
  <2>2. Cardinality(Trying(i)) \in Nat /\ Again(i) \in 0..1 /\ sent[i] \in Nat /\ faults \in Nat
    BY <2>1, FS_Subset, FS_CardinalityType DEF Again, TypeOK
  <2> QED
    BY <2>2 DEF Spared, Copies
<1> QED
  BY <1>1, <1>2, <1>3, PTL DEF Spec

=============================================================================
