------------------------ MODULE ReportPipelineProofs ------------------------
(***************************************************************************)
(* Theorems about ReportPipeline, for every number of rows, workers,       *)
(* attempts and faults.                                                    *)
(***************************************************************************)
EXTENDS ReportPipeline, FiniteSetTheorems, TLAPS

ProgramCounters == {"idle", "claiming", "computing", "renewing", "enqueueing",
                    "returning", "throwing"}

\* Replacing one job or one slot by a well-typed one keeps the function typed.
LEMMA JobUpdate ==
  ASSUME TypeOK, NEW r, NEW j \in JobType
  PROVE  [job EXCEPT ![r] = j] \in [Reports -> JobType]
BY DEF TypeOK

LEMMA WorkerUpdate ==
  ASSUME TypeOK, NEW w, NEW k \in WorkerType
  PROVE  [worker EXCEPT ![w] = k] \in [Workers -> WorkerType]
BY DEF TypeOK

\* Moving a slot to another program counter keeps its type.
LEMMA GotoType ==
  ASSUME TypeOK, NEW w \in Workers, NEW pc \in ProgramCounters, Goto(w, pc)
  PROVE  worker' \in [Workers -> WorkerType]
<1> DEFINE k == [worker[w] EXCEPT !.pc = pc]
<1>1. k \in WorkerType
  BY DEF TypeOK, WorkerType, ProgramCounters
<1> HIDE DEF k
<1>2. worker' = [worker EXCEPT ![w] = k]
  BY DEF Goto, k
<1> QED
  BY <1>1, <1>2, WorkerUpdate

\* An update of a row's status by id keeps the statuses typed.
LEMMA WriteType ==
  ASSUME TypeOK, NEW r, NEW s \in Statuses, Write(r, s)
  PROVE  status' \in [Reports -> Statuses]
BY DEF TypeOK, Write

LEMMA IdleType == Idle \in WorkerType
BY AttemptsAssumption DEF Idle, WorkerType

LEMMA NewJobType == NoJob \in JobType /\ NewJob \in JobType
BY AttemptsAssumption DEF NewJob, NoJob, JobType

\* Recording the outcome of an attempt keeps jobs and slots typed.
LEMMA SettleType ==
  ASSUME TypeOK, NEW w \in Workers, NEW outcome \in JobType, Settle(w, outcome)
  PROVE  job' \in [Reports -> JobType] /\ worker' \in [Workers -> WorkerType]
<1>1. worker' \in [Workers -> WorkerType]
  BY IdleType, WorkerUpdate DEF Settle
<1>2. job' \in [Reports -> JobType]
  BY JobUpdate DEF Settle, TypeOK
<1> QED
  BY <1>1, <1>2

LEMMA UnlockType ==
  ASSUME TypeOK, NEW w, Unlock(w)
  PROVE  job' \in [Reports -> JobType]
<1>1. \A r \in Reports : [job[r] EXCEPT !.lock = None] \in JobType
  BY DEF TypeOK, JobType
<1> QED
  BY <1>1 DEF Unlock, TypeOK

\* A slot that is busy is busy with a report, and one that enqueues a
\* successor knows which.
Assigned ==
  \A w \in Workers :
    /\ worker[w].pc # "idle" => worker[w].report \in Reports
    /\ worker[w].pc = "enqueueing" => worker[w].next \in Reports

\* A job is locked only while it runs, and a job still to run has attempts left.
JobsOpen ==
  \A r \in Reports :
    /\ job[r].lock # None => job[r].state = "active"
    /\ job[r].state \in {"waiting", "active"} => job[r].made < MaxAttempts

Shape == TypeOK /\ Assigned /\ JobsOpen

-----------------------------------------------------------------------------
\* What each action of the API, of an attempt and of the environment does to
\* the types.
LEMMA ApiType ==
  ASSUME TypeOK, NEW r \in Reports, Api(r)
  PROVE  TypeOK'
<1>1. ASSUME NEW recurring \in BOOLEAN, RequestReport(r, recurring) PROVE TypeOK'
  BY <1>1 DEF TypeOK, Statuses, RequestReport, CreateRow
<1>2. CASE EnqueueRequested(r)
  BY <1>2, NewJobType, JobUpdate DEF TypeOK, EnqueueRequested, rowVars
<1>3. CASE LoseRequest(r)
  BY <1>3, FaultsAssumption DEF TypeOK, LoseRequest, Fault, rowVars
<1>4. CASE Cancel(r)
  BY <1>4 DEF TypeOK, Statuses, Settled, Cancel
<1>5. CASE CheckDelete(r)
  BY <1>5 DEF TypeOK, CheckDelete, rowVars
<1>6. CASE CommitDelete(r)
  BY <1>6 DEF TypeOK, Statuses, CommitDelete
<1> QED
  BY <1>1, <1>2, <1>3, <1>4, <1>5, <1>6 DEF Api

LEMMA AttemptType ==
  ASSUME TypeOK, Assigned, JobsOpen, NEW w \in Workers, Attempt(w)
  PROVE  TypeOK'
<1>1. ASSUME NEW r \in Reports, TakeJob(w, r) PROVE TypeOK'
  <2> DEFINE j == [job[r] EXCEPT !.state = "active", !.lock = w]
             k == [pc |-> IF status[r] = "PENDING" THEN "claiming" ELSE "throwing",
                   report |-> r, made |-> job[r].made, next |-> None]
  <2>1. j \in JobType /\ job[r].made \in 0..MaxAttempts
    BY DEF TypeOK, JobType
  <2>2. k \in WorkerType
    BY <2>1 DEF WorkerType
  <2> HIDE DEF j, k
  <2>3. /\ job' = [job EXCEPT ![r] = j]
        /\ worker' = [worker EXCEPT ![w] = k]
        /\ UNCHANGED <<rowVars, requests, deleting, faults>>
    BY <1>1 DEF TakeJob, j, k
  <2> QED
    BY <2>1, <2>2, <2>3, JobUpdate, WorkerUpdate DEF TypeOK, rowVars
<1>2. CASE ClaimWon(w)
  BY <1>2, GotoType DEF TypeOK, Statuses, ClaimWon, ProgramCounters
<1>3. CASE ClaimLost(w)
  BY <1>3, GotoType DEF TypeOK, ClaimLost, ProgramCounters, rowVars
<1>4. CASE WriteReady(w)
  BY <1>4, GotoType, WriteType
  DEF TypeOK, WriteReady, ProgramCounters, Statuses, Settled
<1>5. CASE WriteFailure(w)
  BY <1>5, GotoType, WriteType
  DEF TypeOK, WriteFailure, ProgramCounters, Statuses, Settled
<1>6. ASSUME NEW n \in Reports, CreateSuccessor(w, n) PROVE TypeOK'
  <2> DEFINE k == [worker[w] EXCEPT !.pc = "enqueueing", !.next = n]
             r == worker[w].report
  <2>1. k \in WorkerType
    BY DEF TypeOK, WorkerType
  <2>2. r \in Reports
    BY <1>6 DEF CreateSuccessor, Assigned
  <2> HIDE DEF k, r
  <2>3. /\ worker' = [worker EXCEPT ![w] = k]
        /\ CreateRow(n, series[r], occ[r] + 1)
        /\ UNCHANGED <<requests, deleting, job, faults>>
    BY <1>6 DEF CreateSuccessor, k, r
  <2> QED
    BY <2>1, <2>2, <2>3, WorkerUpdate DEF TypeOK, Statuses, CreateRow
<1>7. CASE SuccessorRefused(w)
  BY <1>7, GotoType DEF TypeOK, SuccessorRefused, ProgramCounters, rowVars
<1>8. ASSUME EnqueueSuccessor(w) \/ LoseSuccessor(w) PROVE TypeOK'
  <2> DEFINE k == [worker[w] EXCEPT !.pc = "returning", !.next = None]
  <2>1. k \in WorkerType
    BY DEF TypeOK, WorkerType
  <2> HIDE DEF k
  <2>2. CASE EnqueueSuccessor(w)
    BY <2>1, <2>2, NewJobType, JobUpdate, WorkerUpdate
    DEF TypeOK, EnqueueSuccessor, rowVars, k
  <2>3. CASE LoseSuccessor(w)
    BY <2>1, <2>3, WorkerUpdate, FaultsAssumption
    DEF TypeOK, LoseSuccessor, Fault, rowVars, k
  <2> QED
    BY <1>8, <2>2, <2>3
<1>9. CASE Return(w)
  <2> DEFINE j == [job[worker[w].report] EXCEPT !.state = "completed", !.lock = None]
  <2>1. worker[w].report \in Reports
    BY <1>9 DEF Return, Assigned
  <2>2. j \in JobType
    BY <2>1 DEF TypeOK, JobType
  <2> HIDE DEF j
  <2>3. Settle(w, j) /\ UNCHANGED <<rowVars, requests, deleting, faults>>
    BY <1>9 DEF Return, j
  <2> QED
    BY <2>2, <2>3, SettleType DEF TypeOK, rowVars
<1>10. CASE Throw(w)
  <2> DEFINE r == worker[w].report
             j == job[r]
             st == IF j.made + 1 < MaxAttempts THEN "waiting" ELSE "failed"
             m == j.made + 1
             out == [j EXCEPT !.state = st, !.lock = None, !.made = m]
  <2>1. r \in Reports /\ j \in JobType
    BY <1>10 DEF TypeOK, Throw, Assigned
  <2>2. worker' = [worker EXCEPT ![w] = Idle] /\ UNCHANGED <<rowVars, requests, deleting, faults>>
    BY <1>10 DEF Throw, Settle
  <2>3. job' \in [Reports -> JobType]
    <3>1. CASE j.lock = w
      <4>1. j.made < MaxAttempts
        BY <2>1, <3>1, ReportsAssumption DEF JobsOpen
      <4>2. out \in JobType
        <5>1. m \in 0..MaxAttempts /\ st \in {"waiting", "failed"}
          BY <2>1, <4>1, AttemptsAssumption DEF JobType
        <5> HIDE DEF m, st
        <5> QED
          BY <2>1, <5>1 DEF JobType
      <4> HIDE DEF out
      <4>3. job' = [job EXCEPT ![r] = out]
        BY <1>10, <3>1 DEF Throw, Settle, out
      <4> QED
        BY <4>2, <4>3, JobUpdate
    <3>2. CASE j.lock # w
      BY <1>10, <3>2 DEF Throw, Settle, TypeOK
    <3> QED
      BY <3>1, <3>2
  <2> QED
    BY <2>2, <2>3, IdleType, WorkerUpdate DEF TypeOK, rowVars
<1> QED
  BY <1>1, <1>2, <1>3, <1>4, <1>5, <1>6, <1>7, <1>8, <1>9, <1>10 DEF Attempt

LEMMA EnvironmentType ==
  ASSUME TypeOK, Environment
  PROVE  TypeOK'
<1>1. ASSUME NEW w \in Workers, Crash(w) PROVE TypeOK'
  BY <1>1, UnlockType, IdleType, WorkerUpdate, FaultsAssumption
  DEF TypeOK, Crash, Fault, rowVars
<1>2. ASSUME NEW w \in Workers, LoseLock(w) PROVE TypeOK'
  BY <1>2, UnlockType, FaultsAssumption DEF TypeOK, LoseLock, Fault, rowVars
<1>3. ASSUME NEW r \in Reports, StalledCheck(r) PROVE TypeOK'
  <2> DEFINE j == IF job[r].stalls < MaxStalled
                  THEN [job[r] EXCEPT !.state = "waiting", !.stalls = job[r].stalls + 1]
                  ELSE [job[r] EXCEPT !.state = "failed"]
  <2>1. j \in JobType
    <3>1. job[r] \in JobType
      BY DEF TypeOK
    <3>2. [job[r] EXCEPT !.state = "failed"] \in JobType
      BY <3>1 DEF JobType
    <3>3. CASE job[r].stalls < MaxStalled
      <4> DEFINE n == job[r].stalls + 1
      <4>1. n \in 0..MaxStalled
        BY <3>1, <3>3, AttemptsAssumption DEF JobType
      <4> HIDE DEF n
      <4>2. [job[r] EXCEPT !.state = "waiting", !.stalls = n] \in JobType
        BY <3>1, <4>1 DEF JobType
      <4> QED
        BY <3>3, <4>2 DEF n
    <3> QED
      BY <3>2, <3>3
  <2> HIDE DEF j
  <2>2. job' = [job EXCEPT ![r] = j] /\ UNCHANGED <<rowVars, requests, deleting, worker, faults>>
    BY <1>3 DEF StalledCheck, j, TypeOK
  <2> QED
    BY <2>1, <2>2, JobUpdate DEF TypeOK, rowVars
<1>4. ASSUME NEW S \in SUBSET Reports, ResetStalled(S) PROVE TypeOK'
  BY <1>4 DEF TypeOK, Statuses, ResetStalled
<1> QED
  BY <1>1, <1>2, <1>3, <1>4 DEF Environment

\* A step that leaves every slot but w alone, and gives w a report when it is
\* busy, keeps slots assigned.
LEMMA AssignedStep == Shape /\ [Next]_vars => Assigned'
<1> SUFFICES ASSUME Shape, [Next]_vars PROVE Assigned'
  OBVIOUS
<1> USE DEF Shape, TypeOK, WorkerType, Assigned
<1>1. ASSUME NEW r \in Reports, Api(r) PROVE Assigned'
  BY <1>1 DEF Api, RequestReport, EnqueueRequested, LoseRequest, Cancel, CheckDelete,
              CommitDelete
<1>2. ASSUME NEW w \in Workers, Attempt(w) PROVE Assigned'
  <2>1. ASSUME NEW r \in Reports, TakeJob(w, r) PROVE Assigned'
    BY <2>1 DEF TakeJob
  <2>2. CASE ClaimWon(w) \/ ClaimLost(w)
    BY <2>2 DEF ClaimWon, ClaimLost, Goto
  <2>3. CASE WriteReady(w)
    BY <2>3 DEF WriteReady, Goto
  <2>4. CASE WriteFailure(w)
    BY <2>4 DEF WriteFailure, Goto
  <2>5. ASSUME NEW n \in Reports, CreateSuccessor(w, n) PROVE Assigned'
    BY <2>5 DEF CreateSuccessor
  <2>6. CASE SuccessorRefused(w)
    BY <2>6 DEF SuccessorRefused, Goto
  <2>7. CASE EnqueueSuccessor(w) \/ LoseSuccessor(w)
    <3>1. worker' = [worker EXCEPT ![w] =
                       [worker[w] EXCEPT !.pc = "returning", !.next = None]]
      BY <2>7 DEF EnqueueSuccessor, LoseSuccessor
    <3>2. worker[w].report \in Reports
      BY <2>7 DEF EnqueueSuccessor, LoseSuccessor
    <3> QED
      BY <3>1, <3>2
  <2>8. CASE Return(w) \/ Throw(w)
    BY <2>8 DEF Return, Throw, Settle, Idle
  <2> QED
    BY <1>2, <2>1, <2>2, <2>3, <2>4, <2>5, <2>6, <2>7, <2>8 DEF Attempt
<1>3. CASE Environment
  <2>1. ASSUME NEW w \in Workers, Crash(w) PROVE Assigned'
    BY <2>1 DEF Crash, Idle
  <2> QED
    BY <1>3, <2>1 DEF Environment, LoseLock, StalledCheck, ResetStalled
<1>4. CASE UNCHANGED vars
  BY <1>4 DEF vars
<1> QED
  BY <1>1, <1>2, <1>3, <1>4 DEF Next

LEMMA JobsOpenStep == Shape /\ [Next]_vars => JobsOpen'
<1> SUFFICES ASSUME Shape, [Next]_vars PROVE JobsOpen'
  OBVIOUS
<1> USE ReportsAssumption, AttemptsAssumption DEF Shape, TypeOK, JobType, JobsOpen
<1>1. ASSUME NEW r \in Reports, Api(r) PROVE JobsOpen'
  <2>1. CASE EnqueueRequested(r)
    BY <2>1 DEF EnqueueRequested, NewJob, NoJob
  <2> QED
    BY <1>1, <2>1 DEF Api, RequestReport, LoseRequest, Cancel, CheckDelete, CommitDelete
<1>2. ASSUME NEW w \in Workers, Attempt(w) PROVE JobsOpen'
  <2>1. ASSUME NEW r \in Reports, TakeJob(w, r) PROVE JobsOpen'
    BY <2>1 DEF TakeJob
  <2>2. CASE EnqueueSuccessor(w)
    BY <2>2 DEF EnqueueSuccessor, NewJob, NoJob
  <2>3. CASE Return(w)
    BY <2>3 DEF Return, Settle
  <2>4. CASE Throw(w)
    BY <2>4 DEF Throw, Settle
  <2>5. CASE UNCHANGED job
    BY <2>5
  <2> QED
    BY <1>2, <2>1, <2>2, <2>3, <2>4, <2>5
    DEF Attempt, ClaimWon, ClaimLost, WriteReady, WriteFailure, CreateSuccessor,
        SuccessorRefused, LoseSuccessor
<1>3. CASE Environment
  <2>1. ASSUME NEW w \in Workers, Unlock(w) PROVE JobsOpen'
    BY <2>1 DEF Unlock
  <2>2. ASSUME NEW r \in Reports, StalledCheck(r) PROVE JobsOpen'
    BY <2>2 DEF StalledCheck
  <2> QED
    BY <1>3, <2>1, <2>2 DEF Environment, Crash, LoseLock, ResetStalled
<1>4. CASE UNCHANGED vars
  BY <1>4 DEF vars
<1> QED
  BY <1>1, <1>2, <1>3, <1>4 DEF Next

\* The shape of rows, jobs and slots is inductive.
LEMMA ShapeStep == Shape /\ [Next]_vars => Shape'
<1> SUFFICES ASSUME Shape, [Next]_vars PROVE TypeOK'
  BY AssignedStep, JobsOpenStep DEF Shape
<1>1. CASE UNCHANGED vars
  BY <1>1 DEF vars, Shape, TypeOK
<1> QED
  BY <1>1, ApiType, AttemptType, EnvironmentType DEF Next, Shape

LEMMA ShapeInit == Init => Shape
BY ReportsAssumption, AttemptsAssumption, FaultsAssumption, IdleType, NewJobType
DEF Init, Shape, TypeOK, Statuses, Assigned, JobsOpen, Idle, NoJob

LEMMA ShapeAlways == Spec => []Shape
BY ShapeInit, ShapeStep, PTL DEF Spec

\* Rows, jobs and slots always have the shape the handlers rely on.
THEOREM TypeCorrect == Spec => []TypeOK
<1>1. Shape => TypeOK
  BY DEF Shape
<1> QED
  BY <1>1, ShapeAlways, PTL

-----------------------------------------------------------------------------
(* Series.                                                                 *)

\* A row that does not exist has no series, and a series is named by the first
\* row ever opened in it.
Origins ==
  \A r \in Reports :
    /\ status[r] = "ABSENT" => series[r] = None /\ occ[r] = 0
    /\ series[r] # None => status[series[r]] # "ABSENT"

\* No two live rows of a series share an occurrence: the unique constraint on the
\* two, and a fresh identifier for each series.
SeriesUnique ==
  \A p, q \in Reports :
    /\ series[p] # None /\ series[p] = series[q] /\ occ[p] = occ[q]
    /\ status[p] # "DELETED" /\ status[q] # "DELETED"
    => p = q

SeriesInv == Shape /\ Origins /\ SeriesUnique

\* Steps that open no row: they leave series alone and no row comes back from
\* being deleted or goes back to not existing.
NoRowOpened ==
  /\ UNCHANGED <<series, occ>>
  /\ \A r \in Reports : /\ status[r] = "DELETED" => status'[r] = "DELETED"
                        /\ status'[r] = "ABSENT" => status[r] = "ABSENT"

LEMMA NoRowOpenedSeries ==
  ASSUME SeriesInv, NoRowOpened
  PROVE  Origins' /\ SeriesUnique'
BY DEF SeriesInv, Shape, TypeOK, NoRowOpened, Origins, SeriesUnique

\* Opening a row in a series keeps occurrences distinct when the row starts
\* the series or its occurrence was free.
LEMMA RowOpenedSeries ==
  ASSUME SeriesInv, NEW r \in Reports, NEW s, NEW n, CreateRow(r, s, n),
         \/ s = None
         \/ s = r
         \/ s \in Reports /\ status[s] # "ABSENT" /\ ~ OccurrenceTaken(s, n)
  PROVE  Origins' /\ SeriesUnique'
<1> USE ReportsAssumption DEF SeriesInv, Shape, TypeOK, CreateRow
<1>1. Origins'
  BY DEF Origins
<1>2. SeriesUnique'
  <2> SUFFICES ASSUME NEW p \in Reports, NEW q \in Reports,
                      series'[p] # None, series'[p] = series'[q], occ'[p] = occ'[q],
                      status'[p] # "DELETED", status'[q] # "DELETED"
               PROVE  p = q
    BY DEF SeriesUnique
  <2>1. CASE p # r /\ q # r
    BY <2>1 DEF SeriesUnique
  <2>2. CASE p = r /\ q # r
    BY <2>2 DEF Origins, OccurrenceTaken
  <2>3. CASE q = r /\ p # r
    BY <2>3 DEF Origins, OccurrenceTaken
  <2> QED
    BY <2>1, <2>2, <2>3
<1> QED
  BY <1>1, <1>2

LEMMA SeriesStep == SeriesInv /\ [Next]_vars => SeriesInv'
<1> SUFFICES ASSUME SeriesInv, [Next]_vars PROVE Origins' /\ SeriesUnique'
  BY ShapeStep DEF SeriesInv
<1> USE DEF SeriesInv, Shape, TypeOK
<1>1. ASSUME NEW r \in Reports, Api(r) PROVE Origins' /\ SeriesUnique'
  <2>1. ASSUME NEW recurring \in BOOLEAN, RequestReport(r, recurring)
        PROVE  Origins' /\ SeriesUnique'
    BY <2>1, RowOpenedSeries DEF RequestReport
  <2>2. CASE NoRowOpened
    BY <2>2, NoRowOpenedSeries
  <2> QED
    BY <1>1, <2>1, <2>2
    DEF Api, EnqueueRequested, LoseRequest, Cancel, CheckDelete, CommitDelete,
        NoRowOpened, rowVars
<1>2. ASSUME NEW w \in Workers, Attempt(w) PROVE Origins' /\ SeriesUnique'
  <2>1. ASSUME NEW n \in Reports, CreateSuccessor(w, n)
        PROVE  Origins' /\ SeriesUnique'
    <3>1. worker[w].report \in Reports
      BY <2>1 DEF CreateSuccessor, Assigned
    <3> QED
      BY <2>1, <3>1, RowOpenedSeries DEF CreateSuccessor, Origins
  <2>2. CASE ClaimWon(w)
    BY <2>2, NoRowOpenedSeries DEF ClaimWon, NoRowOpened
  <2>3. CASE WriteReady(w) \/ WriteFailure(w)
    BY <2>3, NoRowOpenedSeries DEF WriteReady, WriteFailure, Write, NoRowOpened
  <2>4. CASE UNCHANGED rowVars
    BY <2>4, NoRowOpenedSeries DEF rowVars, NoRowOpened
  <2> QED
    BY <1>2, <2>1, <2>2, <2>3, <2>4
    DEF Attempt, TakeJob, ClaimLost, SuccessorRefused, EnqueueSuccessor,
        LoseSuccessor, Return, Throw
<1>3. CASE Environment
  BY <1>3, NoRowOpenedSeries
  DEF Environment, Crash, LoseLock, StalledCheck, ResetStalled, NoRowOpened, rowVars
<1>4. CASE UNCHANGED vars
  BY <1>4, NoRowOpenedSeries DEF vars, NoRowOpened
<1> QED
  BY <1>1, <1>2, <1>3, <1>4 DEF Next

LEMMA SeriesInit == Init => SeriesInv
BY ShapeInit DEF Init, SeriesInv, Origins, SeriesUnique

-----------------------------------------------------------------------------
(* Locks, whatever the faults and however long an attempt takes.           *)

Enqueueing(w, r) == worker[w].pc = "enqueueing" /\ worker[w].next = r

\* A row gets its job once, from the request or the attempt that opened it.
OneSource ==
  /\ \A r \in Reports : status[r] = "ABSENT" => job[r].state = "none"
  /\ \A r \in requests :
       /\ status[r] # "ABSENT" /\ job[r].state = "none"
       /\ \A w \in Workers : ~ Enqueueing(w, r)
  /\ \A w \in Workers : \A r \in Reports : Enqueueing(w, r) =>
       /\ status[r] # "ABSENT" /\ job[r].state = "none"
       /\ \A v \in Workers : Enqueueing(v, r) => v = w

LEMMA OneSourceStep == Shape /\ OneSource /\ [Next]_vars => OneSource'
<1> SUFFICES ASSUME Shape, OneSource, [Next]_vars PROVE OneSource'
  OBVIOUS
<1> USE DEF Shape, TypeOK
<1>1. ASSUME NEW r \in Reports, Api(r) PROVE OneSource'
  <2>1. UNCHANGED worker /\ \A w \in Workers, q \in Reports : Enqueueing(w, q)' <=> Enqueueing(w, q)
    BY <1>1 DEF Api, RequestReport, EnqueueRequested, LoseRequest, Cancel, CheckDelete, CommitDelete,
       Enqueueing
  <2>2. ASSUME NEW recurring \in BOOLEAN, RequestReport(r, recurring) PROVE OneSource'
    BY <2>1, <2>2 DEF RequestReport, CreateRow, OneSource
  <2>3. CASE EnqueueRequested(r)
    BY <2>1, <2>3 DEF EnqueueRequested, rowVars, OneSource
  <2>4. CASE LoseRequest(r) \/ Cancel(r) \/ CheckDelete(r) \/ CommitDelete(r)
    BY <2>1, <2>4 DEF LoseRequest, Cancel, CheckDelete, CommitDelete, rowVars, OneSource
  <2> QED
    BY <1>1, <2>2, <2>3, <2>4 DEF Api
<1>2. ASSUME NEW w \in Workers, Attempt(w) PROVE OneSource'
  <2> USE DEF WorkerType
  <2>1. ASSUME NEW n \in Reports, CreateSuccessor(w, n) PROVE OneSource'
    <3>1. \A v \in Workers, q \in Reports : Enqueueing(v, q)' => Enqueueing(v, q) \/ (v = w /\ q = n)
      BY <2>1 DEF CreateSuccessor, Enqueueing
    <3>2. status[n] = "ABSENT" /\ status'[n] = "PENDING"
      BY <2>1 DEF CreateSuccessor, CreateRow
    <3>3. UNCHANGED <<job, requests>> /\ \A q \in Reports \ {n} : status'[q] = status[q]
      BY <2>1 DEF CreateSuccessor, CreateRow
    <3> QED
      BY <3>1, <3>2, <3>3 DEF OneSource
  <2>2. CASE EnqueueSuccessor(w)
    <3> DEFINE n == worker[w].next
    <3>1. n \in Reports /\ Enqueueing(w, n)
      BY <2>2 DEF EnqueueSuccessor, Assigned, Enqueueing
    <3>2. \A v \in Workers, q \in Reports : Enqueueing(v, q)' => Enqueueing(v, q) /\ v # w
      BY <2>2 DEF EnqueueSuccessor, Enqueueing
    <3>3. /\ UNCHANGED <<status, requests>>
          /\ \A q \in Reports \ {n} : job'[q] = job[q]
      BY <2>2 DEF EnqueueSuccessor, rowVars
    <3> HIDE DEF n
    <3> QED
      BY <3>1, <3>2, <3>3 DEF OneSource
  <2>3. ASSUME UNCHANGED requests, \A q \in Reports : job[q].state = "none" => job'[q].state = "none",
               \A q \in Reports : status'[q] = "ABSENT" <=> status[q] = "ABSENT",
               \A v \in Workers, q \in Reports : Enqueueing(v, q)' => Enqueueing(v, q)
        PROVE  OneSource'
    BY <2>3 DEF OneSource
  <2>4. ASSUME NEW q \in Reports, TakeJob(w, q) PROVE OneSource'
    BY <2>3, <2>4 DEF TakeJob, Enqueueing, rowVars
  <2>5. CASE ClaimWon(w) \/ ClaimLost(w)
    BY <2>3, <2>5 DEF ClaimWon, ClaimLost, Goto, Enqueueing, rowVars
  <2>6. CASE WriteReady(w) \/ WriteFailure(w)
    <3>1. worker[w].report \in Reports /\ UNCHANGED <<job, requests>>
      BY <2>6 DEF WriteReady, WriteFailure, Assigned
    <3>2. \A v \in Workers, q \in Reports : Enqueueing(v, q)' => Enqueueing(v, q)
      BY <2>6 DEF WriteReady, WriteFailure, Goto, Enqueueing
    <3>3. \A q \in Reports : status'[q] = "ABSENT" => status[q] = "ABSENT"
      BY <2>6 DEF WriteReady, WriteFailure, Write
    <3> QED
      BY <3>1, <3>2, <3>3 DEF OneSource
  <2>7. CASE SuccessorRefused(w)
    BY <2>3, <2>7 DEF SuccessorRefused, Goto, Enqueueing, rowVars
  <2>8. CASE LoseSuccessor(w)
    BY <2>3, <2>8 DEF LoseSuccessor, Enqueueing, rowVars
  <2>9. CASE Return(w) \/ Throw(w)
    <3> DEFINE r == worker[w].report
    <3>1. r \in Reports
      BY <2>9 DEF Return, Throw, Assigned
    <3>2. \A v \in Workers, q \in Reports : Enqueueing(v, q)' => Enqueueing(v, q)
      BY <2>9 DEF Return, Throw, Settle, Idle, Enqueueing
    <3>3. UNCHANGED <<status, requests>>
      BY <2>9 DEF Return, Throw, rowVars
    <3>4. \A q \in Reports : job[q].state = "none" => job'[q].state = "none"
      BY <2>9, <3>1, ReportsAssumption DEF Return, Throw, Settle, JobsOpen
    <3> QED
      BY <3>2, <3>3, <3>4, <2>3
  <2> QED
    BY <1>2, <2>1, <2>2, <2>4, <2>5, <2>6, <2>7, <2>8, <2>9 DEF Attempt
<1>3. CASE Environment
  <2>1. UNCHANGED requests /\ \A q \in Reports : status'[q] = "ABSENT" => status[q] = "ABSENT"
    BY <1>3 DEF Environment, Crash, LoseLock, StalledCheck, ResetStalled, rowVars
  <2>2. \A v \in Workers, q \in Reports : Enqueueing(v, q)' => Enqueueing(v, q)
    <3>1. ASSUME NEW w \in Workers, Crash(w) PROVE \A v \in Workers : worker'[v] = worker[v] \/ worker'[v] = Idle
      BY <3>1 DEF Crash
    <3>2. UNCHANGED worker \/ \E w \in Workers : Crash(w)
      BY <1>3 DEF Environment, LoseLock, StalledCheck, ResetStalled
    <3> QED
      BY <3>1, <3>2 DEF Idle, Enqueueing
  <2>3. \A q \in Reports : job[q].state = "none" => job'[q].state = "none"
    <3>1. ASSUME NEW w \in Workers, Unlock(w) PROVE \A q \in Reports : job'[q].state = job[q].state
      BY <3>1 DEF Unlock, JobType
    <3>2. ASSUME NEW r \in Reports, StalledCheck(r) PROVE \A q \in Reports : q # r => job'[q] = job[q]
      BY <3>2 DEF StalledCheck
    <3>3. ASSUME NEW r \in Reports, StalledCheck(r) PROVE job[r].state # "none"
      BY <3>3 DEF StalledCheck
    <3> QED
      BY <1>3, <3>1, <3>2, <3>3 DEF Environment, Crash, LoseLock, ResetStalled
  <2> QED
    BY <2>1, <2>2, <2>3 DEF OneSource
<1>4. CASE UNCHANGED vars
  BY <1>4 DEF vars, OneSource, Enqueueing
<1> QED
  BY <1>1, <1>2, <1>3, <1>4 DEF Next

\* Attempts that go on although their job's lock is gone, or another one's.
Astray == {w \in Workers : worker[w].pc # "idle" /\ job[worker[w].report].lock # w}

LEMMA StillAstray ==
  ASSUME \A v \in Workers : worker[v].pc # "idle" => worker[v].report \in Reports,
         NEW w \in Workers, \A v \in Workers \ {w} : worker'[v] = worker[v],
         \A q \in Reports : job'[q].lock = job[q].lock \/ job[q].lock = w,
         worker'[w].pc # "idle" => /\ worker[w].pc # "idle"
                                  /\ worker'[w].report = worker[w].report
                                  /\ job'[worker[w].report].lock = job[worker[w].report].lock
  PROVE  Astray' \subseteq Astray
<1> SUFFICES ASSUME NEW v \in Workers, worker'[v].pc # "idle", job'[worker'[v].report].lock # v
             PROVE  worker[v].pc # "idle" /\ job[worker[v].report].lock # v
  BY DEF Astray
<1>1. CASE v = w
  BY <1>1
<1>2. CASE v # w
  BY <1>2
<1> QED
  BY <1>1, <1>2

\* Only a lost lock leads an attempt astray: a job is locked anew when nobody holds it.
LEMMA StrayStep ==
  ASSUME Shape, OneSource, [Next]_vars
  PROVE  \/ Astray' \subseteq Astray /\ faults' >= faults
         \/ \E w \in Workers : Astray' \subseteq Astray \cup {w} /\ faults' = faults + 1
<1>0. \A v \in Workers : worker[v].pc # "idle" => worker[v].report \in Reports
  BY DEF Shape, Assigned
<1> USE FaultsAssumption DEF Shape, TypeOK
<1>1. ASSUME NEW r \in Reports, Api(r) PROVE Astray' \subseteq Astray /\ faults' >= faults
  <2>1. faults' >= faults /\ UNCHANGED worker
    BY <1>1 DEF Api, RequestReport, EnqueueRequested, LoseRequest, Cancel, CheckDelete, CommitDelete, Fault
  <2>2. CASE EnqueueRequested(r)
    <3>1. job[r].lock = None /\ job'[r].lock = None
      BY <2>2 DEF EnqueueRequested, OneSource, JobsOpen, NewJob, NoJob
    <3>2. \A q \in Reports : job'[q].lock = job[q].lock
      BY <2>2, <3>1 DEF EnqueueRequested
    <3> QED
      BY <2>1, <3>2 DEF Astray, Assigned
  <2>3. CASE UNCHANGED job
    BY <2>1, <2>3 DEF Astray
  <2> QED
    BY <1>1, <2>2, <2>3 DEF Api, RequestReport, LoseRequest, Cancel, CheckDelete, CommitDelete
<1>2. ASSUME NEW w \in Workers, Attempt(w) PROVE Astray' \subseteq Astray /\ faults' >= faults
  <2> USE DEF WorkerType
  <2>1. faults' >= faults
    <3>1. UNCHANGED faults \/ LoseSuccessor(w)
      BY <1>2 DEF Attempt, TakeJob, ClaimWon, ClaimLost, WriteReady, WriteFailure, CreateSuccessor,
         SuccessorRefused, EnqueueSuccessor, Return, Throw
    <3> QED
      BY <3>1 DEF LoseSuccessor, Fault
  <2>2. ASSUME NEW q \in Reports, TakeJob(w, q) PROVE Astray' \subseteq Astray
    <3>1. job[q].lock = None /\ job'[q].lock = w /\ \A r \in Reports \ {q} : job'[r] = job[r]
      BY <2>2, ReportsAssumption DEF TakeJob, JobsOpen, JobType
    <3>2. worker'[w].report = q /\ \A v \in Workers \ {w} : worker'[v] = worker[v]
      BY <2>2 DEF TakeJob
    <3> SUFFICES ASSUME NEW v \in Workers, worker'[v].pc # "idle", job'[worker'[v].report].lock # v
                 PROVE  worker[v].pc # "idle" /\ job[worker[v].report].lock # v
      BY DEF Astray
    <3>3. v # w
      BY <3>1, <3>2
    <3> QED
      BY <3>1, <3>2, <3>3, ReportsAssumption DEF Assigned
  <2>3. CASE ClaimWon(w) \/ ClaimLost(w) \/ WriteReady(w) \/ WriteFailure(w) \/ SuccessorRefused(w)
    <3>1. UNCHANGED job /\ worker[w].pc # "idle"
      BY <2>3 DEF ClaimWon, ClaimLost, WriteReady, WriteFailure, SuccessorRefused
    <3>2. \E pc : Goto(w, pc)
      BY <2>3 DEF ClaimWon, ClaimLost, WriteReady, WriteFailure, SuccessorRefused
    <3>3. worker'[w].report = worker[w].report /\ \A v \in Workers \ {w} : worker'[v] = worker[v]
      BY <3>2 DEF Goto
    <3>4. worker'[w].pc # "idle" => /\ worker[w].pc # "idle"
                                     /\ worker'[w].report = worker[w].report
                                     /\ job'[worker[w].report].lock = job[worker[w].report].lock
      BY <3>1, <3>3
    <3>5. \A q \in Reports : job'[q].lock = job[q].lock \/ job[q].lock = w
      BY <3>1
    <3>6. \A v \in Workers \ {w} : worker'[v] = worker[v]
      BY <3>3
    <3> QED
      BY <3>4, <3>5, <3>6, <1>0, <2>1, StillAstray
  <2>4. ASSUME NEW n \in Reports, CreateSuccessor(w, n) PROVE Astray' \subseteq Astray
    <3>1. UNCHANGED job /\ worker[w].pc # "idle" /\ worker'[w].report = worker[w].report
      BY <2>4 DEF CreateSuccessor
    <3>2. \A v \in Workers \ {w} : worker'[v] = worker[v]
      BY <2>4 DEF CreateSuccessor
    <3>3. worker'[w].pc # "idle" => /\ worker[w].pc # "idle"
                                     /\ worker'[w].report = worker[w].report
                                     /\ job'[worker[w].report].lock = job[worker[w].report].lock
      BY <3>1
    <3>4. \A q \in Reports : job'[q].lock = job[q].lock \/ job[q].lock = w
      BY <3>1
    <3> QED
      BY <3>2, <3>3, <3>4, <1>0, StillAstray
  <2>5. CASE LoseSuccessor(w)
    <3>1. UNCHANGED job /\ worker[w].pc # "idle" /\ worker'[w].report = worker[w].report
      BY <2>5 DEF LoseSuccessor
    <3>2. \A v \in Workers \ {w} : worker'[v] = worker[v]
      BY <2>5 DEF LoseSuccessor
    <3>3. worker'[w].pc # "idle" => /\ worker[w].pc # "idle"
                                     /\ worker'[w].report = worker[w].report
                                     /\ job'[worker[w].report].lock = job[worker[w].report].lock
      BY <3>1
    <3>4. \A q \in Reports : job'[q].lock = job[q].lock \/ job[q].lock = w
      BY <3>1
    <3> QED
      BY <3>2, <3>3, <3>4, <1>0, <2>1, StillAstray
  <2>6. CASE EnqueueSuccessor(w)
    <3> DEFINE n == worker[w].next
    <3>1. n \in Reports /\ Enqueueing(w, n)
      BY <2>6 DEF EnqueueSuccessor, Assigned, Enqueueing
    <3>2. job[n].lock = None
      BY <3>1 DEF OneSource, JobsOpen
    <3>3. \A q \in Reports : job'[q].lock = job[q].lock
      BY <2>6, <3>1, <3>2 DEF EnqueueSuccessor, NewJob, NoJob
    <3>4. worker[w].pc # "idle" /\ worker'[w].report = worker[w].report
      BY <2>6 DEF EnqueueSuccessor
    <3>5. \A v \in Workers \ {w} : worker'[v] = worker[v]
      BY <2>6 DEF EnqueueSuccessor
    <3>6. worker[w].report \in Reports
      BY <3>4 DEF Assigned
    <3>7. worker'[w].pc # "idle" => /\ worker[w].pc # "idle"
                                     /\ worker'[w].report = worker[w].report
                                     /\ job'[worker[w].report].lock = job[worker[w].report].lock
      BY <3>3, <3>4, <3>6
    <3>8. \A q \in Reports : job'[q].lock = job[q].lock \/ job[q].lock = w
      BY <3>3
    <3> QED
      BY <3>5, <3>7, <3>8, <1>0, <2>1, StillAstray
  <2>7. CASE Return(w) \/ Throw(w)
    <3> DEFINE r == worker[w].report
    <3>1. r \in Reports
      BY <2>7 DEF Return, Throw, Assigned
    <3>2. worker'[w].pc = "idle" /\ \A v \in Workers \ {w} : worker'[v] = worker[v]
      BY <2>7 DEF Return, Throw, Settle, Idle
    <3>3. \A q \in Reports : job'[q].lock = job[q].lock \/ job[q].lock = w
      BY <2>7, <3>1 DEF Return, Throw, Settle
    <3>4. worker'[w].pc # "idle" => /\ worker[w].pc # "idle"
                                     /\ worker'[w].report = worker[w].report
                                     /\ job'[worker[w].report].lock = job[worker[w].report].lock
      BY <3>2
    <3>5. \A v \in Workers \ {w} : worker'[v] = worker[v]
      BY <3>2
    <3> QED
      BY <3>3, <3>4, <3>5, <1>0, <2>1, StillAstray
  <2> QED
    BY <1>2, <2>1, <2>2, <2>3, <2>4, <2>5, <2>6, <2>7 DEF Attempt
<1>3. ASSUME NEW w \in Workers, Crash(w) PROVE Astray' \subseteq Astray /\ faults' >= faults
  <2>1. worker'[w].pc = "idle" /\ \A v \in Workers \ {w} : worker'[v] = worker[v]
    BY <1>3 DEF Crash, Idle
  <2>2. \A q \in Reports : job'[q].lock = job[q].lock \/ job[q].lock = w
    BY <1>3 DEF Crash, Unlock
  <2>3. faults' >= faults
    BY <1>3 DEF Crash, Fault
  <2> QED
    BY <2>1, <2>2, <2>3, <1>0, StillAstray
<1>4. ASSUME NEW w \in Workers, LoseLock(w) PROVE Astray' \subseteq Astray \cup {w} /\ faults' = faults + 1
  <2>1. \A q \in Reports : job'[q].lock = job[q].lock \/ job[q].lock = w
    BY <1>4 DEF LoseLock, Unlock
  <2> QED
    BY <1>4, <2>1 DEF LoseLock, Fault, Astray, Assigned
<1>5. ASSUME NEW r \in Reports, StalledCheck(r) PROVE Astray' \subseteq Astray /\ faults' >= faults
  <2>1. \A q \in Reports : job'[q].lock = job[q].lock
    BY <1>5 DEF StalledCheck, JobType
  <2> QED
    BY <1>5, <2>1 DEF StalledCheck, Astray, Assigned
<1>6. ASSUME NEW S \in SUBSET Reports, ResetStalled(S) PROVE Astray' \subseteq Astray /\ faults' >= faults
  BY <1>6 DEF ResetStalled, Astray
<1>7. CASE UNCHANGED vars
  BY <1>7 DEF vars, Astray
<1> QED
  BY <1>1, <1>2, <1>3, <1>4, <1>5, <1>6, <1>7 DEF Next, Environment

LockInv ==
  /\ Shape /\ OneSource
  /\ IsFiniteSet(Astray) /\ Cardinality(Astray) <= faults

LEMMA LockInit == Init => LockInv
<1> SUFFICES ASSUME Init PROVE LockInv
  OBVIOUS
<1>1. OneSource
  BY DEF Init, OneSource, Enqueueing, Idle, NoJob
<1>2. Astray = {}
  BY DEF Init, Astray, Idle
<1>3. faults = 0
  BY DEF Init
<1> QED
  BY <1>1, <1>2, <1>3, ShapeInit, FS_EmptySet DEF LockInv

LEMMA LockStep == LockInv /\ [Next]_vars => LockInv'
<1> SUFFICES ASSUME LockInv, [Next]_vars PROVE LockInv'
  OBVIOUS
<1>1. Shape' /\ OneSource'
  BY ShapeStep, OneSourceStep DEF LockInv
<1>2. faults \in Nat /\ faults' \in Nat
  BY <1>1, FaultsAssumption DEF LockInv, Shape, TypeOK
<1>3. Cardinality(Astray) \in Nat
  BY FS_CardinalityType DEF LockInv
<1>4. CASE Astray' \subseteq Astray /\ faults' >= faults
  <2>1. IsFiniteSet(Astray') /\ Cardinality(Astray') <= Cardinality(Astray)
    BY <1>4, FS_Subset DEF LockInv
  <2>2. Cardinality(Astray') \in Nat
    BY <2>1, FS_CardinalityType
  <2> QED
    BY <1>1, <1>2, <1>3, <1>4, <2>1, <2>2 DEF LockInv
<1>5. ASSUME NEW w \in Workers, Astray' \subseteq Astray \cup {w}, faults' = faults + 1 PROVE LockInv'
  <2>1. IsFiniteSet(Astray \cup {w}) /\ Cardinality(Astray \cup {w}) <= Cardinality(Astray) + 1
    BY <1>3, FS_AddElement DEF LockInv
  <2>2. IsFiniteSet(Astray') /\ Cardinality(Astray') <= Cardinality(Astray \cup {w})
    BY <1>5, <2>1, FS_Subset
  <2>3. Cardinality(Astray') \in Nat /\ Cardinality(Astray \cup {w}) \in Nat
    BY <2>1, <2>2, FS_CardinalityType
  <2> QED
    BY <1>1, <1>2, <1>3, <1>5, <2>1, <2>2, <2>3 DEF LockInv
<1> QED
  BY <1>4, <1>5, StrayStep DEF LockInv

\* Of the attempts that compute a report one holds the lock of its job; all others have
\* lost theirs, each by a fault of its own.  No attempt need end in time, and the cron
\* may reset any row under it.
THEOREM EachRecomputationCostsALock == Spec => []RecomputedPerFault
<1>1. LockInv => RecomputedPerFault
  <2> SUFFICES ASSUME LockInv, NEW r \in Reports
               PROVE  Cardinality({w \in Workers : worker[w].pc = "computing" /\ worker[w].report = r})
                        <= 1 + faults
    BY DEF RecomputedPerFault
  <2> DEFINE C == {w \in Workers : worker[w].pc = "computing" /\ worker[w].report = r}
             h == job[r].lock
  <2>1. C \subseteq Astray \cup {h}
    BY DEF Astray
  <2>2. IsFiniteSet(Astray) /\ Cardinality(Astray) <= faults /\ Cardinality(Astray) \in Nat
    BY FS_CardinalityType DEF LockInv
  <2>3. faults \in Nat
    BY FaultsAssumption DEF LockInv, Shape, TypeOK
  <2> HIDE DEF C, h
  <2>4. IsFiniteSet(Astray \cup {h}) /\ Cardinality(Astray \cup {h}) <= Cardinality(Astray) + 1
    <3>1. IsFiniteSet(Astray)
      BY <2>2
    <3>2. Cardinality(Astray \cup {h}) = IF h \in Astray THEN Cardinality(Astray) ELSE Cardinality(Astray) + 1
      BY <3>1, FS_AddElement
    <3> QED
      BY <2>2, <3>1, <3>2, FS_AddElement
  <2>5. IsFiniteSet(C) /\ Cardinality(C) <= Cardinality(Astray \cup {h})
    BY <2>1, <2>4, FS_Subset
  <2>6. Cardinality(C) \in Nat /\ Cardinality(Astray \cup {h}) \in Nat
    BY <2>4, <2>5, FS_CardinalityType
  <2>7. Cardinality(C) <= 1 + faults
    BY <2>2, <2>3, <2>4, <2>5, <2>6
  <2> QED
    BY <2>7 DEF C
<1> QED
  BY <1>1, LockInit, LockStep, PTL DEF Spec

-----------------------------------------------------------------------------
(* The lifecycle, when no live attempt outlasts the cron's threshold.      *)

\* While an attempt computes a report the row is its own (PROCESSING) or gone;
\* while it schedules the next occurrence the row is READY or gone.
Held ==
  \A w \in Workers :
    LET r == worker[w].report IN
    /\ worker[w].pc = "computing" => status[r] \in {"PROCESSING", "DELETED"}
    /\ worker[w].pc = "renewing" => status[r] \in {"READY", "DELETED"} /\ series[r] # None

Deletable == \A r \in deleting : status[r] \notin {"ABSENT", "DELETED"}

ClaimInv == SeriesInv /\ Held /\ SingleComputation /\ Deletable

\* Steps of others keep a claim: a row that is PROCESSING stays so, and READY
\* stays READY, unless it is deleted.
ClaimsKept ==
  \A r \in Reports :
    /\ BeingComputed(r) /\ status[r] = "PROCESSING" => status'[r] \in {"PROCESSING", "DELETED"}
    /\ status[r] = "READY" => status'[r] \in {"READY", "DELETED"}
    /\ status[r] = "DELETED" => status'[r] = "DELETED"
    /\ series[r] # None => series'[r] = series[r]

LEMMA ClaimsKeptHeld ==
  ASSUME ClaimInv, ClaimsKept, UNCHANGED worker
  PROVE  Held' /\ SingleComputation'
BY DEF ClaimInv, SeriesInv, Shape, TypeOK, Assigned, ClaimsKept, BeingComputed, Held,
       SingleComputation

LEMMA ClaimStep == AttemptsFinish /\ ClaimInv /\ [Next]_vars => ClaimInv'
<1> SUFFICES ASSUME AttemptsFinish, ClaimInv, [Next]_vars
             PROVE  Held' /\ SingleComputation' /\ Deletable'
  BY SeriesStep DEF ClaimInv
<1> USE DEF ClaimInv, SeriesInv, Shape, TypeOK
<1>1. ASSUME NEW r \in Reports, Api(r) PROVE Held' /\ SingleComputation' /\ Deletable'
  <2>1. ClaimsKept /\ UNCHANGED worker
    BY <1>1 DEF Api, RequestReport, CreateRow, EnqueueRequested, LoseRequest, Cancel,
                CheckDelete, CommitDelete, ClaimsKept, rowVars, Origins
  <2>2. Deletable'
    BY <1>1 DEF Api, RequestReport, CreateRow, EnqueueRequested, LoseRequest, Cancel,
                CheckDelete, CommitDelete, rowVars, Deletable
  <2> QED
    BY <2>1, <2>2, ClaimsKeptHeld
<1>2. ASSUME NEW w \in Workers, Attempt(w)
      PROVE  Held' /\ SingleComputation' /\ Deletable'
  <2> DEFINE r == worker[w].report
  <2> USE DEF WorkerType
  <2>1. ASSUME NEW q \in Reports, TakeJob(w, q)
        PROVE  Held' /\ SingleComputation' /\ Deletable'
    BY <2>1 DEF TakeJob, rowVars, Held, SingleComputation, Deletable
  <2>2. CASE ClaimWon(w)
    BY <2>2 DEF ClaimWon, Goto, Assigned, Held, SingleComputation, Deletable
  <2>3. CASE WriteReady(w)
    BY <2>3 DEF WriteReady, Write, Goto, Assigned, Held, SingleComputation, Deletable
  <2>4. CASE WriteFailure(w)
    BY <2>4 DEF WriteFailure, Write, Goto, Assigned, Held, SingleComputation, Deletable
  <2>5. ASSUME NEW n \in Reports, CreateSuccessor(w, n)
        PROVE  Held' /\ SingleComputation' /\ Deletable'
    BY <2>5 DEF CreateSuccessor, CreateRow, Assigned, Held, SingleComputation, Deletable,
                Origins
  <2>6. CASE ClaimLost(w) \/ SuccessorRefused(w)
    BY <2>6 DEF ClaimLost, SuccessorRefused, Goto, rowVars, Held, SingleComputation,
                Deletable
  <2>7. CASE EnqueueSuccessor(w) \/ LoseSuccessor(w)
    <3>1. worker' = [worker EXCEPT ![w] =
                       [worker[w] EXCEPT !.pc = "returning", !.next = None]]
      BY <2>7 DEF EnqueueSuccessor, LoseSuccessor
    <3>2. UNCHANGED <<rowVars, deleting>>
      BY <2>7 DEF EnqueueSuccessor, LoseSuccessor
    <3> QED
      BY <3>1, <3>2 DEF rowVars, Held, SingleComputation, Deletable
  <2>8. CASE Return(w) \/ Throw(w)
    BY <2>8 DEF Return, Throw, Settle, Idle, rowVars, Held, SingleComputation, Deletable
  <2> QED
    BY <1>2, <2>1, <2>2, <2>3, <2>4, <2>5, <2>6, <2>7, <2>8 DEF Attempt
<1>3. CASE Environment
  <2>1. ASSUME NEW w \in Workers, Crash(w)
        PROVE  Held' /\ SingleComputation' /\ Deletable'
    BY <2>1 DEF Crash, Idle, rowVars, Held, SingleComputation, Deletable
  <2>2. ASSUME NEW S \in SUBSET Reports, ResetStalled(S)
        PROVE  Held' /\ SingleComputation' /\ Deletable'
    <3>1. ClaimsKept /\ UNCHANGED worker
      BY <2>2 DEF ResetStalled, ClaimsKept
    <3>2. Deletable'
      BY <2>2 DEF ResetStalled, Deletable
    <3> QED
      BY <3>1, <3>2, ClaimsKeptHeld
  <2>3. CASE UNCHANGED <<rowVars, deleting, worker>>
    BY <2>3 DEF rowVars, Held, SingleComputation, Deletable
  <2> QED
    BY <1>3, <2>1, <2>2, <2>3 DEF Environment, LoseLock, StalledCheck
<1>4. CASE UNCHANGED vars
  BY <1>4 DEF vars, Held, SingleComputation, Deletable
<1> QED
  BY <1>1, <1>2, <1>3, <1>4 DEF Next

LEMMA ClaimInit == Init => ClaimInv
BY SeriesInit DEF Init, ClaimInv, Held, SingleComputation, Deletable, Idle

LEMMA ClaimAlways == AttemptsFinish => (Spec => []ClaimInv)
<1> SUFFICES ASSUME AttemptsFinish PROVE Spec => []ClaimInv
  OBVIOUS
<1>1. ClaimInv /\ [Next]_vars => ClaimInv'
  BY ClaimStep
<1> QED
  BY <1>1, ClaimInit, PTL DEF Spec

\* However often BullMQ delivers a job, at most one live attempt computes a
\* report: the conditional UPDATE of the claim is enough.
THEOREM ReportsComputedOnce == AttemptsFinish => (Spec => []SingleComputation)
<1> SUFFICES ASSUME AttemptsFinish PROVE Spec => []SingleComputation
  OBVIOUS
<1>1. ClaimInv => SingleComputation
  BY DEF ClaimInv
<1> QED
  BY <1>1, ClaimAlways, PTL

-----------------------------------------------------------------------------
(* Refinement of ReportLifecycle.                                          *)

\* Every step of the pipeline is a step of the lifecycle or leaves it alone.
LEMMA LifecycleStep ==
  AttemptsFinish /\ ClaimInv /\ [Next]_vars
    => [Lifecycle!Next]_(Lifecycle!lifecycleVars)
<1> DEFINE Goal == [Lifecycle!Next]_(Lifecycle!lifecycleVars)
<1> SUFFICES ASSUME AttemptsFinish, ClaimInv, [Next]_vars PROVE Goal
  OBVIOUS
<1> USE DEF Lifecycle!lifecycleVars
<1>1. ASSUME NEW r \in Reports, Api(r) PROVE Goal
  <2>1. ASSUME NEW recurring \in BOOLEAN, RequestReport(r, recurring) PROVE Goal
    <3>1. Lifecycle!OpenSingle(r) \/ Lifecycle!OpenSeries(r)
      BY <2>1 DEF RequestReport, CreateRow, Lifecycle!OpenSingle, Lifecycle!OpenSeries,
                  Lifecycle!Open
    <3> QED
      BY <3>1 DEF Lifecycle!Next
  <2>2. CASE Cancel(r)
    <3>1. Lifecycle!Move(r, {"PENDING"}, "CANCELLED")
      BY <2>2 DEF Cancel, Lifecycle!Move
    <3> QED
      BY <3>1 DEF Lifecycle!Next
  <2>3. CASE CommitDelete(r)
    <3>1. status[r] \in Lifecycle!Statuses \ {"ABSENT", "DELETED"}
      BY <2>3 DEF CommitDelete, ClaimInv, SeriesInv, Shape, TypeOK, Deletable, Statuses,
                  Settled, Lifecycle!Statuses, Lifecycle!Settled
    <3>2. Lifecycle!Move(r, Lifecycle!Statuses \ {"ABSENT", "DELETED"}, "DELETED")
      BY <2>3, <3>1 DEF CommitDelete, Lifecycle!Move
    <3> QED
      BY <3>2 DEF Lifecycle!Next
  <2> QED
    BY <1>1, <2>1, <2>2, <2>3 DEF Api, EnqueueRequested, LoseRequest, CheckDelete, rowVars
<1>2. ASSUME NEW w \in Workers, Attempt(w) PROVE Goal
  <2> DEFINE r == worker[w].report
  <2>1. CASE ClaimWon(w)
    <3>1. r \in Reports
      BY <2>1 DEF ClaimWon, ClaimInv, SeriesInv, Shape, Assigned
    <3>2. Lifecycle!Move(r, {"PENDING"}, "PROCESSING")
      BY <2>1 DEF ClaimWon, Lifecycle!Move
    <3> QED
      BY <3>1, <3>2 DEF Lifecycle!Next
  <2>2. CASE WriteReady(w)
    <3>1. r \in Reports /\ status[r] \in {"PROCESSING", "DELETED"}
      BY <2>2 DEF WriteReady, ClaimInv, SeriesInv, Shape, Assigned, Held
    <3>2. UNCHANGED <<status, series, occ>> \/ Lifecycle!Move(r, {"PROCESSING"}, "READY")
      BY <2>2, <3>1 DEF WriteReady, Write, Lifecycle!Move
    <3> QED
      BY <3>1, <3>2 DEF Lifecycle!Next
  <2>3. CASE WriteFailure(w)
    <3>1. r \in Reports /\ status[r] \in {"PROCESSING", "DELETED"}
      BY <2>3 DEF WriteFailure, ClaimInv, SeriesInv, Shape, Assigned, Held
    <3>2. \/ UNCHANGED <<status, series, occ>>
          \/ Lifecycle!Move(r, {"PROCESSING"}, "FAILED")
          \/ Lifecycle!PutBack({r})
      BY <2>3, <3>1 DEF WriteFailure, Write, Lifecycle!Move, Lifecycle!PutBack, ClaimInv,
                        SeriesInv, Shape, TypeOK
    <3> QED
      BY <3>1, <3>2 DEF Lifecycle!Next
  <2>4. ASSUME NEW n \in Reports, CreateSuccessor(w, n) PROVE Goal
    <3>1. r \in Reports /\ status[r] \in {"READY", "DELETED"} /\ series[r] # None
      BY <2>4 DEF CreateSuccessor, ClaimInv, SeriesInv, Shape, Assigned, Held
    <3>2. ~ \E q \in Reports : /\ series[q] = series[r]
                              /\ occ[q] = occ[r] + 1
                              /\ status[q] # "DELETED"
      BY <2>4, <3>1 DEF CreateSuccessor, OccurrenceTaken, ClaimInv, SeriesInv, Origins
    <3>3. Lifecycle!OpenNext(n, r)
      BY <2>4, <3>1, <3>2 DEF CreateSuccessor, CreateRow, Lifecycle!OpenNext, Lifecycle!Open
    <3> QED
      BY <3>1, <3>3 DEF Lifecycle!Next
  <2> QED
    BY <1>2, <2>1, <2>2, <2>3, <2>4
    DEF Attempt, TakeJob, ClaimLost, SuccessorRefused, EnqueueSuccessor, LoseSuccessor,
        Return, Throw, rowVars
<1>3. CASE Environment
  <2>1. ASSUME NEW S \in SUBSET Reports, ResetStalled(S) PROVE Goal
    <3>1. Lifecycle!PutBack(S)
      BY <2>1 DEF ResetStalled, Lifecycle!PutBack
    <3> QED
      BY <3>1 DEF Lifecycle!Next
  <2> QED
    BY <1>3, <2>1 DEF Environment, Crash, LoseLock, StalledCheck, rowVars
<1>4. CASE UNCHANGED vars
  BY <1>4 DEF vars
<1> QED
  BY <1>1, <1>2, <1>3, <1>4 DEF Next

\* The queue, the workers, their crashes and retries and the cron together
\* implement the lifecycle of a report, as long as no live attempt outlasts the
\* cron's threshold.
THEOREM PipelineImplementsLifecycle == AttemptsFinish => (Spec => ImplementsLifecycle)
<1> SUFFICES ASSUME AttemptsFinish PROVE Spec => ImplementsLifecycle
  OBVIOUS
<1>1. Init => Lifecycle!Init
  BY DEF Init, Lifecycle!Init
<1>2. ClaimInv /\ [Next]_vars => [Lifecycle!Next]_(Lifecycle!lifecycleVars)
  BY LifecycleStep
<1> QED
  BY <1>1, <1>2, ClaimAlways, PTL DEF Spec, ImplementsLifecycle, Lifecycle!Spec

\* A cancelled, delivered or failed report is never taken back.
THEOREM SettledReportsStay == AttemptsFinish => (Spec => SettledIsFinal)
<1> SUFFICES ASSUME AttemptsFinish PROVE Spec => SettledIsFinal
  OBVIOUS
<1>1. ASSUME ClaimInv, [Next]_vars
      PROVE  \A r \in Reports : status[r] \in Settled => status'[r] \in {status[r], "DELETED"}
  <2>1. [Lifecycle!Next]_(Lifecycle!lifecycleVars)
    BY <1>1, LifecycleStep
  <2> QED
    BY <1>1, <2>1
    DEF ClaimInv, SeriesInv, Shape, TypeOK, Settled, Lifecycle!lifecycleVars, Lifecycle!Next,
        Lifecycle!OpenSingle, Lifecycle!OpenSeries, Lifecycle!OpenNext, Lifecycle!Open,
        Lifecycle!Move, Lifecycle!PutBack, Lifecycle!Statuses, Lifecycle!Settled
<1> QED
  BY <1>1, ClaimAlways, PTL DEF Spec, SettledIsFinal

\* A delivered or deleted row stays so, and its series and occurrence with it.
LEMMA SuccessorStep ==
  AttemptsFinish /\ ClaimInv /\ SuccessorOfDelivered /\ [Next]_vars => SuccessorOfDelivered'
<1> SUFFICES ASSUME AttemptsFinish, ClaimInv, SuccessorOfDelivered, [Next]_vars,
                    NEW r \in Reports, occ'[r] > 1
             PROVE  \E p \in Reports : /\ series'[p] = series'[r]
                                      /\ occ'[p] = occ'[r] - 1
                                      /\ status'[p] \in {"READY", "DELETED"}
  BY DEF SuccessorOfDelivered
<1> USE DEF ClaimInv, SeriesInv, Shape, TypeOK, Lifecycle!lifecycleVars
<1>1. [Lifecycle!Next]_(Lifecycle!lifecycleVars)
  BY LifecycleStep
<1>2. ASSUME NEW p \in Reports, status[p] \in {"READY", "DELETED"}
      PROVE  /\ status'[p] \in {"READY", "DELETED"}
             /\ series'[p] = series[p] /\ occ'[p] = occ[p]
  BY <1>1, <1>2
  DEF Lifecycle!Next, Lifecycle!OpenSingle, Lifecycle!OpenSeries, Lifecycle!OpenNext,
      Lifecycle!Open, Lifecycle!Move, Lifecycle!PutBack
<1>3. CASE series'[r] = series[r] /\ occ'[r] = occ[r]
  <2>1. PICK p \in Reports : /\ series[p] = series[r]
                            /\ occ[p] = occ[r] - 1
                            /\ status[p] \in {"READY", "DELETED"}
    BY <1>3 DEF SuccessorOfDelivered
  <2> QED
    BY <1>2, <1>3, <2>1
<1>4. ASSUME NEW p \in Reports, Lifecycle!OpenNext(r, p)
      PROVE  /\ series'[p] = series'[r]
             /\ occ'[p] = occ'[r] - 1
             /\ status'[p] \in {"READY", "DELETED"}
  <2>1. /\ status[r] = "ABSENT"
        /\ status[p] \in {"READY", "DELETED"}
        /\ series'[r] = series[p] /\ occ'[r] = occ[p] + 1
    BY <1>4 DEF Lifecycle!OpenNext, Lifecycle!Open
  <2> QED
    BY <1>2, <2>1
<1>5. \/ series'[r] = series[r] /\ occ'[r] = occ[r]
      \/ occ'[r] \in {0, 1}
      \/ \E p \in Reports : Lifecycle!OpenNext(r, p)
  BY <1>1 DEF Lifecycle!Next, Lifecycle!OpenSingle, Lifecycle!OpenSeries,
              Lifecycle!OpenNext, Lifecycle!Open, Lifecycle!Move, Lifecycle!PutBack
<1> QED
  BY <1>3, <1>4, <1>5

\* A recurring series advances only past a report that was delivered.
THEOREM SeriesAdvanceInOrder == AttemptsFinish => (Spec => []SuccessorOfDelivered)
<1> SUFFICES ASSUME AttemptsFinish PROVE Spec => []SuccessorOfDelivered
  OBVIOUS
<1>1. Init => SuccessorOfDelivered
  BY DEF Init, SuccessorOfDelivered
<1>2. ClaimInv /\ SuccessorOfDelivered /\ [Next]_vars => SuccessorOfDelivered'
  BY SuccessorStep
<1> QED
  BY <1>1, <1>2, ClaimAlways, PTL DEF Spec

-----------------------------------------------------------------------------
(* Without faults a job follows every row until it has settled.            *)

Over(r) == status[r] \in Settled \cup {"DELETED"}

\* An attempt holds the lock of its job, and counts as the job does.
Attempting ==
  \A w \in Workers : worker[w].pc # "idle" =>
    LET j == job[worker[w].report] IN j.state = "active" /\ j.lock = w /\ j.made = worker[w].made

\* A job that runs has its attempt, and a row that is PROCESSING one that computes.
Attended ==
  \A r \in Reports :
    /\ job[r].state = "active" => /\ job[r].lock \in Workers
                                  /\ worker[job[r].lock].pc # "idle"
                                  /\ worker[job[r].lock].report = r
    /\ status[r] = "PROCESSING" => /\ job[r].state = "active"
                                   /\ worker[job[r].lock].pc = "computing"

\* An attempt that returns leaves a row that is over, and so does the last that throws.
Concluding ==
  \A w \in Workers :
    /\ worker[w].pc \in {"returning", "renewing", "enqueueing"} => Over(worker[w].report)
    /\ worker[w].pc = "throwing" => Over(worker[w].report) \/ worker[w].made + 1 < MaxAttempts

Ended ==
  \A r \in Reports : job[r].state \in {"completed", "failed"} => Over(r)

\* A row without a job is about to get one.
Awaited ==
  \A r \in Reports : job[r].state = "none" =>
    status[r] = "ABSENT" \/ Over(r) \/ r \in requests \/ \E w \in Workers : Enqueueing(w, r)

Followed ==
  Shape /\ Attempting /\ Attended /\ Concluding /\ Ended /\ Awaited /\ OneSource

\* An attempt goes on to its next await; of the rows only its own may change.
LEMMA FollowedOn ==
  ASSUME FaultKinds = {}, Followed, NEW w \in Workers, NEW q, q = worker[w].report,
         NEW pc \in ProgramCounters \ {"idle", "enqueueing"},
         worker[w].pc \notin {"idle", "enqueueing"}, Goto(w, pc), UNCHANGED <<job, requests>>,
         Shape',
         \A r \in Reports \ {q} : status'[r] = status[r],
         status'[q] # "ABSENT",
         status'[q] = "PROCESSING" => pc = "computing",
         pc \in {"returning", "renewing"} => Over(q)',
         pc = "throwing" => Over(q)' \/ worker[w].made + 1 < MaxAttempts
  PROVE  Followed'
<1>1. q \in Reports /\ job[q].state = "active" /\ job[q].lock = w
  BY DEF Followed, Shape, Assigned, Attempting
<1>2. /\ worker'[w].pc = pc
      /\ \A v \in Workers : v # w => worker'[v] = worker[v]
      /\ \A v \in Workers : /\ worker'[v].report = worker[v].report
                            /\ worker'[v].made = worker[v].made
                            /\ worker'[v].next = worker[v].next
  BY DEF Goto, Followed, Shape, TypeOK, WorkerType
<1>3. \A v \in Workers, r \in Reports : Enqueueing(v, r)' <=> Enqueueing(v, r)
  BY <1>2 DEF Enqueueing
<1>4. Attempting'
  BY <1>2 DEF Followed, Attempting
<1>5. \A v \in Workers : v # w /\ worker[v].pc # "idle" => worker[v].report # q
  BY <1>1 DEF Followed, Attempting
<1>6. Attended'
  BY <1>1, <1>2 DEF Followed, Attended, ProgramCounters
<1>7. \A r \in Reports : r # q => (Over(r)' <=> Over(r))
  BY DEF Over
<1>8. Concluding'
  <2>1. ASSUME NEW v \in Workers, v # w
        PROVE  /\ worker'[v].pc \in {"returning", "renewing", "enqueueing"} => Over(worker[v].report)'
               /\ worker'[v].pc = "throwing" => Over(worker[v].report)' \/ worker'[v].made + 1 < MaxAttempts
    <3>1. worker[v].pc # "idle" => worker[v].report \in Reports
      BY DEF Followed, Shape, Assigned
    <3> QED
      BY <1>2, <1>5, <1>7, <2>1, <3>1 DEF Followed, Concluding
  <2> QED
    BY <1>2, <2>1 DEF Concluding, Over
<1>9. Ended'
  BY <1>1, <1>7 DEF Followed, Ended
<1>10. Awaited'
  BY <1>1, <1>3, <1>7 DEF Followed, Awaited
<1>11. OneSource'
  BY <1>1, <1>3 DEF Followed, OneSource, Shape, TypeOK
<1> QED
  BY <1>4, <1>6, <1>8, <1>9, <1>10, <1>11 DEF Followed

\* The status of a row that no attempt is at changes.
LEMMA FollowedRow ==
  ASSUME FaultKinds = {}, Followed, Shape', UNCHANGED <<job, worker, requests>>,
         \A r \in Reports : \/ status'[r] = status[r]
                            \/ status'[r] \in Settled \cup {"DELETED"}
                            \/ status[r] = "PROCESSING" /\ status'[r] = "PENDING"
  PROVE  Followed'
<1>1. \A r \in Reports : Over(r) => Over(r)'
  BY DEF Over, Settled
<1>2. \A r \in Reports : /\ status'[r] = "PROCESSING" => status[r] = "PROCESSING"
                         /\ status'[r] = "ABSENT" => status[r] = "ABSENT"
  BY DEF Settled
<1>3. \A v \in Workers, r \in Reports : Enqueueing(v, r)' <=> Enqueueing(v, r)
  BY DEF Enqueueing
<1>4. Attempting' /\ Attended'
  BY <1>2 DEF Followed, Attempting, Attended
<1>5. Concluding'
  BY <1>1 DEF Followed, Concluding, Shape, Assigned
<1>6. Ended'
  BY <1>1 DEF Followed, Ended
<1>7. \A r \in Reports : status[r] = "ABSENT" => status'[r] = "ABSENT" \/ Over(r)'
  BY DEF Over
<1>8. Awaited'
  BY <1>1, <1>3, <1>7 DEF Followed, Awaited
<1>9. OneSource'
  BY <1>2, <1>3 DEF Followed, OneSource, Shape, TypeOK
<1> QED
  BY <1>4, <1>5, <1>6, <1>8, <1>9 DEF Followed

LEMMA FollowedApi ==
  ASSUME FaultKinds = {}, Followed, Shape', NEW r \in Reports, Api(r)
  PROVE  Followed'
<1>1. ASSUME NEW recurring \in BOOLEAN, RequestReport(r, recurring) PROVE Followed'
  <2>1. /\ status[r] = "ABSENT" /\ status' = [status EXCEPT ![r] = "PENDING"]
        /\ requests' = requests \cup {r} /\ UNCHANGED <<job, worker>>
    BY <1>1 DEF RequestReport, CreateRow
  <2>2. job[r].state = "none"
    BY <2>1 DEF Followed, OneSource
  <2>3. \A q \in Reports \ {r} : status'[q] = status[q] /\ (Over(q)' <=> Over(q))
    BY <2>1 DEF Over, Followed, Shape, TypeOK
  <2>4. status'[r] = "PENDING" /\ ~ Over(r)
    BY <2>1 DEF Over, Settled, Followed, Shape, TypeOK
  <2>5. \A v \in Workers, q \in Reports : Enqueueing(v, q)' <=> Enqueueing(v, q)
    BY <2>1 DEF Enqueueing
  <2>6. Attempting' /\ Attended'
    BY <2>1, <2>3, <2>4, <2>2 DEF Followed, Attempting, Attended
  <2>7. Concluding'
    BY <2>1, <2>3, <2>4 DEF Followed, Concluding, Shape, Assigned
  <2>8. Ended'
    BY <2>1, <2>2, <2>3 DEF Followed, Ended
  <2>9. Awaited'
    BY <2>1, <2>3, <2>5 DEF Followed, Awaited
  <2>10. OneSource'
    BY <2>1, <2>2, <2>3, <2>4, <2>5 DEF Followed, OneSource, Shape, TypeOK
  <2> QED
    BY <2>6, <2>7, <2>8, <2>9, <2>10 DEF Followed
<1>2. CASE EnqueueRequested(r)
  <2>1. /\ r \in requests /\ requests' = requests \ {r}
        /\ job'[r].state = "waiting" /\ job'[r].lock = None
        /\ \A q \in Reports \ {r} : job'[q] = job[q]
        /\ UNCHANGED <<status, worker>>
    BY <1>2 DEF EnqueueRequested, rowVars, NewJob, NoJob, Followed, Shape, TypeOK
  <2>2. /\ job[r].state = "none" /\ status[r] # "ABSENT"
        /\ \A w \in Workers : ~ Enqueueing(w, r)
    BY <2>1 DEF Followed, OneSource
  <2>3. \A q \in Reports : Over(q)' <=> Over(q)
    BY <2>1 DEF Over
  <2>4. \A v \in Workers, q \in Reports : Enqueueing(v, q)' <=> Enqueueing(v, q)
    BY <2>1 DEF Enqueueing
  <2>5. Attempting' /\ Attended'
    BY <2>1, <2>2 DEF Followed, Attempting, Attended, Shape, Assigned
  <2>6. Concluding'
    BY <2>1, <2>3 DEF Followed, Concluding, Shape, Assigned
  <2>7. Ended'
    BY <2>1, <2>3 DEF Followed, Ended
  <2>8. Awaited'
    BY <2>1, <2>3, <2>4 DEF Followed, Awaited
  <2>9. OneSource'
    BY <2>1, <2>2, <2>4 DEF Followed, OneSource, Shape, TypeOK
  <2> QED
    BY <2>5, <2>6, <2>7, <2>8, <2>9 DEF Followed
<1>3. CASE LoseRequest(r)
  BY <1>3 DEF LoseRequest, Fault
<1>4. CASE Cancel(r) \/ CommitDelete(r) \/ CheckDelete(r)
  <2>1. UNCHANGED <<job, worker, requests>>
    BY <1>4 DEF Cancel, CommitDelete, CheckDelete
  <2>2. \A q \in Reports : status'[q] = status[q] \/ status'[q] \in Settled \cup {"DELETED"}
    BY <1>4 DEF Cancel, CommitDelete, CheckDelete, rowVars, Settled, Followed, Shape, TypeOK
  <2> QED
    BY <2>1, <2>2, FollowedRow
<1> QED
  BY <1>1, <1>2, <1>3, <1>4 DEF Api

\* An attempt begins: of the row it finds PENDING, or of one that is over.
LEMMA FollowedTake ==
  ASSUME FaultKinds = {}, Followed, Shape', NEW w \in Workers, NEW r \in Reports, TakeJob(w, r)
  PROVE  Followed'
<1>1. /\ worker[w].pc = "idle" /\ job[r].state = "waiting"
      /\ job'[r].state = "active" /\ job'[r].lock = w /\ job'[r].made = job[r].made
      /\ \A q \in Reports \ {r} : job'[q] = job[q]
      /\ \A v \in Workers \ {w} : worker'[v] = worker[v]
      /\ UNCHANGED <<status, requests>>
  BY DEF TakeJob, rowVars, Followed, Shape, TypeOK, JobType
<1>2. /\ worker'[w].pc = IF status[r] = "PENDING" THEN "claiming" ELSE "throwing"
      /\ worker'[w].report = r /\ worker'[w].made = job[r].made
  BY DEF TakeJob, Followed, Shape, TypeOK
<1>3. status[r] # "ABSENT" /\ status[r] # "PROCESSING"
  BY <1>1 DEF Followed, OneSource, Attended
<1>4. status[r] # "PENDING" => Over(r)
  BY <1>3 DEF Over, Followed, Shape, TypeOK, Statuses
<1>5. \A q \in Reports : Over(q)' <=> Over(q)
  BY <1>1 DEF Over
<1>6. \A v \in Workers, q \in Reports : Enqueueing(v, q)' <=> Enqueueing(v, q)
  BY <1>1, <1>2 DEF Enqueueing
<1>7. \A v \in Workers : worker[v].pc # "idle" => v # w /\ worker[v].report # r
  BY <1>1 DEF Followed, Attempting
<1>8. Attempting'
  BY <1>1, <1>2, <1>7 DEF Followed, Attempting, Shape, Assigned
<1>9. Attended'
  <2>1. ASSUME NEW q \in Reports \ {r}, job[q].state = "active"
        PROVE  job[q].lock # w
    BY <1>1, <2>1 DEF Followed, Attended
  <2> QED
    BY <1>1, <1>2, <1>3, <2>1 DEF Followed, Attended
<1>10. Concluding'
  BY <1>1, <1>2, <1>4, <1>5 DEF Followed, Concluding, Shape, Assigned
<1>11. Ended'
  BY <1>1, <1>5 DEF Followed, Ended
<1>12. Awaited'
  BY <1>1, <1>5, <1>6 DEF Followed, Awaited
<1>13. OneSource'
  BY <1>1, <1>3, <1>6 DEF Followed, OneSource, Shape, TypeOK
<1> QED
  BY <1>8, <1>9, <1>10, <1>11, <1>12, <1>13 DEF Followed

\* The successor's row is opened.
LEMMA FollowedCreate ==
  ASSUME FaultKinds = {}, Followed, Shape', NEW w \in Workers, NEW n \in Reports, CreateSuccessor(w, n)
  PROVE  Followed'
<1>1. /\ worker[w].pc = "renewing" /\ status[n] = "ABSENT"
      /\ status'[n] = "PENDING"
      /\ \A q \in Reports \ {n} : status'[q] = status[q]
      /\ UNCHANGED <<job, requests>>
  BY DEF CreateSuccessor, CreateRow, Followed, Shape, TypeOK
<1>2. /\ worker'[w].pc = "enqueueing" /\ worker'[w].next = n
      /\ worker'[w].report = worker[w].report /\ worker'[w].made = worker[w].made
      /\ \A v \in Workers \ {w} : worker'[v] = worker[v]
  BY DEF CreateSuccessor, Followed, Shape, TypeOK, WorkerType
<1>3. job[n].state = "none"
  BY <1>1 DEF Followed, OneSource
<1>4. \A q \in Reports \ {n} : Over(q)' <=> Over(q)
  BY <1>1 DEF Over
<1>5. \A v \in Workers : worker[v].pc # "idle" => worker[v].report # n
  BY <1>3 DEF Followed, Attempting
<1>6. \A v \in Workers, q \in Reports :
        Enqueueing(v, q)' <=> (Enqueueing(v, q) \/ (v = w /\ q = n))
  BY <1>1, <1>2 DEF Enqueueing
<1>7. Attempting'
  BY <1>1, <1>2 DEF Followed, Attempting
<1>8. Attended'
  BY <1>1, <1>2, <1>3 DEF Followed, Attended
<1>9. Concluding'
  BY <1>1, <1>2, <1>4, <1>5 DEF Followed, Concluding, Shape, Assigned
<1>10. Ended'
  BY <1>1, <1>3, <1>4 DEF Followed, Ended
<1>11. Awaited'
  BY <1>1, <1>4, <1>6 DEF Followed, Awaited
<1>12. OneSource'
  BY <1>1, <1>3, <1>6 DEF Followed, OneSource, Shape, TypeOK
<1> QED
  BY <1>7, <1>8, <1>9, <1>10, <1>11, <1>12 DEF Followed

\* It gets its job.
LEMMA FollowedEnqueue ==
  ASSUME FaultKinds = {}, Followed, Shape', NEW w \in Workers, EnqueueSuccessor(w)
  PROVE  Followed'
<1> DEFINE n == worker[w].next
<1>1. n \in Reports /\ Enqueueing(w, n)
  BY DEF EnqueueSuccessor, Followed, Shape, Assigned, Enqueueing
<1>2. /\ job'[n].state = "waiting" /\ job'[n].lock = None
      /\ \A q \in Reports \ {n} : job'[q] = job[q]
      /\ UNCHANGED <<status, requests>>
  BY <1>1 DEF EnqueueSuccessor, rowVars, NewJob, NoJob, Followed, Shape, TypeOK
<1>3. /\ worker[w].pc = "enqueueing" /\ worker'[w].pc = "returning"
      /\ worker'[w].report = worker[w].report /\ worker'[w].made = worker[w].made
      /\ \A v \in Workers \ {w} : worker'[v] = worker[v]
  BY DEF EnqueueSuccessor, Followed, Shape, TypeOK, WorkerType
<1>4. job[n].state = "none" /\ status[n] # "ABSENT" /\ n \notin requests
  BY <1>1 DEF Followed, OneSource
<1> HIDE DEF n
<1>5. \A q \in Reports : Over(q)' <=> Over(q)
  BY <1>2 DEF Over
<1>6. \A v \in Workers : worker[v].pc # "idle" => worker[v].report # n
  BY <1>4 DEF Followed, Attempting
<1>7. \A v \in Workers, q \in Reports : Enqueueing(v, q)' <=> Enqueueing(v, q) /\ v # w
  BY <1>3 DEF Enqueueing
<1>8. \A q \in Reports \ {n} : ~ Enqueueing(w, q)
  BY DEF Enqueueing, n
<1>9. Attempting'
  BY <1>2, <1>3, <1>6 DEF Followed, Attempting, Shape, Assigned
<1>10. Attended'
  BY <1>2, <1>3, <1>4 DEF Followed, Attended
<1>11. Concluding'
  BY <1>2, <1>3, <1>5 DEF Followed, Concluding, Shape, Assigned
<1>12. Ended'
  BY <1>2, <1>5 DEF Followed, Ended
<1>13. Awaited'
  BY <1>2, <1>5, <1>7, <1>8 DEF Followed, Awaited
<1>14. OneSource'
  BY <1>1, <1>2, <1>4, <1>7 DEF Followed, OneSource, Shape, TypeOK
<1> QED
  BY <1>9, <1>10, <1>11, <1>12, <1>13, <1>14 DEF Followed

\* The attempt is over, and BullMQ takes its outcome.
LEMMA FollowedSettle ==
  ASSUME FaultKinds = {}, Followed, Shape', NEW w \in Workers, Return(w) \/ Throw(w)
  PROVE  Followed'
<1> DEFINE r == worker[w].report
<1>1. r \in Reports /\ job[r].state = "active" /\ job[r].lock = w /\ job[r].made = worker[w].made
  BY DEF Return, Throw, Followed, Shape, Assigned, Attempting
<1>2. /\ worker[w].pc \in {"returning", "throwing"}
      /\ worker'[w].pc = "idle" /\ worker'[w].next = None
      /\ \A v \in Workers \ {w} : worker'[v] = worker[v]
      /\ UNCHANGED <<status, requests>>
  BY DEF Return, Throw, Settle, Idle, rowVars, Followed, Shape, TypeOK
<1>3. \A q \in Reports \ {r} : job'[q] = job[q]
  BY DEF Return, Throw, Settle, Followed, Shape, TypeOK
<1>4. /\ job'[r].lock = None /\ job'[r].state \in {"waiting", "completed", "failed"}
      /\ job'[r].state # "waiting" => Over(r)
  <2>1. CASE Return(w)
    <3>1. job'[r].state = "completed" /\ job'[r].lock = None
      BY <1>1, <2>1 DEF Return, Settle, Followed, Shape, TypeOK, JobType
    <3> QED
      BY <2>1, <3>1 DEF Return, Followed, Concluding
  <2>2. CASE Throw(w)
    <3>1. /\ job'[r].lock = None
          /\ job'[r].state = IF job[r].made + 1 < MaxAttempts THEN "waiting" ELSE "failed"
      BY <1>1, <2>2 DEF Throw, Settle, Followed, Shape, TypeOK, JobType
    <3>2. Over(r) \/ job[r].made + 1 < MaxAttempts
      BY <1>1, <2>2 DEF Throw, Followed, Concluding
    <3> QED
      BY <3>1, <3>2
  <2> QED
    BY <2>1, <2>2
<1> HIDE DEF r
<1>5. \A q \in Reports : Over(q)' <=> Over(q)
  BY <1>2 DEF Over
<1>6. \A v \in Workers \ {w} : worker[v].pc # "idle" => worker[v].report # r
  BY <1>1 DEF Followed, Attempting
<1>7. \A v \in Workers, q \in Reports : Enqueueing(v, q)' <=> Enqueueing(v, q)
  BY <1>2 DEF Enqueueing
<1>8. status[r] # "PROCESSING" /\ status[r] # "ABSENT"
  BY <1>1, <1>2 DEF Followed, Attended, OneSource
<1>9. \A q \in Reports \ {r} : job[q].state = "active" => job[q].lock # w
  BY DEF Followed, Attended, r
<1>10. Attempting'
  BY <1>2, <1>3, <1>6 DEF Followed, Attempting, Shape, Assigned
<1>11. Attended'
  BY <1>2, <1>3, <1>4, <1>8, <1>9 DEF Followed, Attended
<1>12. Concluding'
  BY <1>2, <1>5 DEF Followed, Concluding, Shape, Assigned
<1>13. Ended'
  BY <1>3, <1>4, <1>5 DEF Followed, Ended
<1>14. Awaited'
  BY <1>2, <1>3, <1>4, <1>5, <1>7 DEF Followed, Awaited
<1>15. OneSource'
  BY <1>1, <1>2, <1>3, <1>7, <1>8 DEF Followed, OneSource, Shape, TypeOK
<1> QED
  BY <1>10, <1>11, <1>12, <1>13, <1>14, <1>15 DEF Followed

LEMMA FollowedAttempt ==
  ASSUME FaultKinds = {}, Followed, Shape', NEW w \in Workers, Attempt(w)
  PROVE  Followed'
<1>0. PICK q : q = worker[w].report
  OBVIOUS
<1>1. worker[w].pc # "idle" => /\ q \in Reports /\ job[q].state = "active"
                               /\ status[q] \in Statuses /\ status[q] # "ABSENT"
                               /\ worker[w].pc # "computing" => status[q] # "PROCESSING"
  BY <1>0 DEF Followed, Shape, Assigned, Attempting, OneSource, Attended, TypeOK
<1>2. CASE ClaimWon(w)
  <2>1. /\ worker[w].pc = "claiming" /\ status[q] = "PENDING" /\ Goto(w, "computing")
        /\ status' = [status EXCEPT ![q] = "PROCESSING"] /\ UNCHANGED <<job, requests>>
    BY <1>0, <1>2 DEF ClaimWon
  <2>2. /\ \A r \in Reports \ {q} : status'[r] = status[r]
        /\ status'[q] = "PROCESSING" /\ ~ Over(q)
    BY <1>0, <1>1, <2>1 DEF Followed, Shape, TypeOK, Over, Settled
  <2> QED
    BY <1>0, <2>1, <2>2, FollowedOn DEF ProgramCounters
<1>3. CASE ClaimLost(w)
  <2>1. /\ worker[w].pc = "claiming" /\ status[q] # "PENDING" /\ Goto(w, "returning")
        /\ UNCHANGED <<status, job, requests>>
    BY <1>0, <1>3 DEF ClaimLost, rowVars
  <2>2. Over(q) /\ Over(q)'
    BY <1>0, <1>1, <2>1 DEF Over, Statuses
  <2> QED
    BY <1>0, <1>1, <2>1, <2>2, FollowedOn DEF ProgramCounters
<1>4. CASE WriteReady(w)
  <2>1. /\ worker[w].pc = "computing" /\ Write(q, "READY") /\ UNCHANGED <<job, requests>>
    BY <1>0, <1>4 DEF WriteReady
  <2>2. /\ \A r \in Reports \ {q} : status'[r] = status[r]
        /\ status'[q] \in {"READY", "DELETED"}
    BY <1>0, <1>1, <2>1 DEF Write, Followed, Shape, TypeOK
  <2>3. Over(q)'
    BY <1>0, <2>2 DEF Over, Settled
  <2>4. CASE Goto(w, "renewing")
    BY <1>0, <1>1, <2>1, <2>2, <2>3, <2>4, FollowedOn DEF ProgramCounters
  <2>5. CASE Goto(w, "returning")
    BY <1>0, <1>1, <2>1, <2>2, <2>3, <2>5, FollowedOn DEF ProgramCounters
  <2> QED
    BY <1>0, <1>4, <2>4, <2>5 DEF WriteReady
<1>5. CASE WriteFailure(w)
  <2>1. /\ worker[w].pc = "computing" /\ Goto(w, "throwing") /\ UNCHANGED <<job, requests>>
        /\ Write(q, IF IsLastAttempt(w) THEN "FAILED" ELSE "PENDING")
    BY <1>0, <1>5 DEF WriteFailure
  <2>2. /\ \A r \in Reports \ {q} : status'[r] = status[r]
        /\ status'[q] = IF status[q] = "DELETED" THEN "DELETED"
                        ELSE IF IsLastAttempt(w) THEN "FAILED" ELSE "PENDING"
    BY <1>0, <1>1, <2>1 DEF Write, Followed, Shape, TypeOK
  <2>3. Over(q)' \/ worker[w].made + 1 < MaxAttempts
    <3>1. worker[w].made \in Nat
      BY DEF Followed, Shape, TypeOK, WorkerType
    <3>2. ~ IsLastAttempt(w) => worker[w].made + 1 < MaxAttempts
      BY <3>1, AttemptsAssumption DEF IsLastAttempt
    <3> QED
      BY <1>0, <2>2, <3>2 DEF Over, Settled
  <2>4. status'[q] # "ABSENT" /\ status'[q] # "PROCESSING"
    BY <1>0, <2>2
  <2> QED
    BY <1>0, <1>1, <2>1, <2>2, <2>3, <2>4, FollowedOn DEF ProgramCounters
<1>6. CASE SuccessorRefused(w)
  <2>1. /\ worker[w].pc = "renewing" /\ Goto(w, "returning")
        /\ UNCHANGED <<status, job, requests>>
    BY <1>0, <1>6 DEF SuccessorRefused, rowVars
  <2>2. Over(q) /\ Over(q)'
    BY <1>0, <2>1 DEF Over, Followed, Concluding
  <2> QED
    BY <1>0, <1>1, <2>1, <2>2, FollowedOn DEF ProgramCounters
<1>7. CASE LoseSuccessor(w)
  BY <1>0, <1>7 DEF LoseSuccessor, Fault
<1> QED
  BY <1>2, <1>3, <1>4, <1>5, <1>6, <1>7, FollowedTake, FollowedCreate, FollowedEnqueue,
     FollowedSettle DEF Attempt

LEMMA FollowedStep == FaultKinds = {} /\ Followed /\ [Next]_vars => Followed'
<1> SUFFICES ASSUME FaultKinds = {}, Followed, [Next]_vars PROVE Followed'
  OBVIOUS
<1>1. Shape'
  BY ShapeStep DEF Followed
<1>2. CASE UNCHANGED vars
  <2>1. UNCHANGED <<job, worker, requests, status>>
    BY <1>2 DEF vars
  <2> QED
    BY <1>1, <2>1, FollowedRow
<1>3. CASE Environment
  <2>1. ASSUME NEW w \in Workers, Crash(w) \/ LoseLock(w) PROVE FALSE
    BY <2>1 DEF Crash, LoseLock, Fault
  <2>2. ASSUME NEW r \in Reports, StalledCheck(r) PROVE FALSE
    BY <2>2, ReportsAssumption DEF StalledCheck, Followed, Attended
  <2>3. ASSUME NEW S \in SUBSET Reports, ResetStalled(S) PROVE Followed'
    <3>1. /\ UNCHANGED <<job, worker, requests>>
          /\ \A r \in Reports : \/ status'[r] = status[r]
                                \/ status[r] = "PROCESSING" /\ status'[r] = "PENDING"
      BY <2>3 DEF ResetStalled
    <3> QED
      BY <1>1, <3>1, FollowedRow
  <2> QED
    BY <1>3, <2>1, <2>2, <2>3 DEF Environment
<1> QED
  BY <1>1, <1>2, <1>3, FollowedApi, FollowedAttempt DEF Next

LEMMA FollowedInit == Init => Followed
<1> SUFFICES ASSUME Init PROVE Followed
  OBVIOUS
<1>1. Shape
  BY ShapeInit
<1>2. /\ \A w \in Workers : worker[w].pc = "idle" /\ worker[w].next = None
      /\ \A r \in Reports : status[r] = "ABSENT" /\ job[r].state = "none"
      /\ requests = {}
  BY DEF Init, Idle, NoJob
<1> QED
  BY <1>1, <1>2 DEF Followed, Attempting, Attended, Concluding, Ended, Awaited, OneSource, Enqueueing

\* Without faults no row waits for a job that will not come, whatever users cancel and
\* delete, and even if the cron takes live attempts for dead.
THEOREM NoReportIsStranded == FaultKinds = {} => (Spec => []NoStrandedReport)
<1> SUFFICES ASSUME FaultKinds = {} PROVE Spec => []NoStrandedReport
  OBVIOUS
<1>1. Followed => NoStrandedReport
  <2> SUFFICES ASSUME Followed, NEW r \in Reports, status[r] \in {"PENDING", "PROCESSING"}
               PROVE  \/ job[r].state \in {"waiting", "active"}
                      \/ r \in requests
                      \/ \E w \in Workers : worker[w].next = r
    BY DEF NoStrandedReport
  <2>1. ~ Over(r)
    BY DEF Over, Settled
  <2>2. job[r].state \in {"none", "waiting", "active", "completed", "failed"}
    BY DEF Followed, Shape, TypeOK, JobType
  <2> QED
    BY <2>1, <2>2 DEF Followed, Ended, Awaited, Enqueueing
<1>2. Followed /\ [Next]_vars => Followed'
  BY FollowedStep
<1> QED
  BY <1>1, <1>2, FollowedInit, PTL DEF Spec
=============================================================================
