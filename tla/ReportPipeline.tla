--------------------------- MODULE ReportPipeline ---------------------------
(***************************************************************************)
(* Report rows in PostgreSQL, their compute jobs in BullMQ, the workers of *)
(* the report queue, the API requests that create, cancel and delete       *)
(* reports, and the cron that recovers orphaned rows.                      *)
(*                                                                         *)
(* The row and its job live in two stores that nothing keeps together: a   *)
(* handler writes one, awaits, and writes the other.  Each await of the    *)
(* code at which another actor can run is a step boundary here.            *)
(***************************************************************************)
EXTENDS Naturals, FiniteSets

CONSTANTS
  Reports,       \* report rows (a UUID is never reused)
  Workers,       \* execution slots of the report queue's workers
  None,          \* no report, no series, no worker
  MaxAttempts,   \* attempts of a compute job: 3 in the code
  MaxStalled,    \* times a stalled job is redelivered: BullMQ's default, 1
  FaultKinds,    \* the faults a run allows
  MaxFaults,     \* bound: how many of them happen in a behaviour
  AttemptsFinish \* TRUE: no live attempt outlasts the cron's 30 minutes

ASSUME ReportsAssumption == None \notin Reports /\ None \notin Workers
ASSUME AttemptsAssumption == MaxAttempts \in Nat \ {0} /\ MaxStalled \in Nat
ASSUME FaultsAssumption ==
  /\ FaultKinds \subseteq {"crash", "lockLost", "queueDown"}
  /\ MaxFaults \in Nat
  /\ AttemptsFinish \in BOOLEAN

VARIABLES
  status, series, occ,  \* the report row; "ABSENT" before and "DELETED" after
  requests,             \* rows generateReport created and has not enqueued yet
  deleting,             \* rows deleteReports checked and has not deleted yet
  job,                  \* the compute job of each row
  worker,               \* what each execution slot is doing
  faults                \* faults so far

vars == <<status, series, occ, requests, deleting, job, worker, faults>>
rowVars == <<status, series, occ>>

Lifecycle == INSTANCE ReportLifecycle

Settled == {"READY", "FAILED", "CANCELLED"}
Statuses == {"ABSENT", "PENDING", "PROCESSING", "DELETED"} \cup Settled

NoJob == [state |-> "none", lock |-> None, made |-> 0, stalls |-> 0]
NewJob == [NoJob EXCEPT !.state = "waiting"]
Idle == [pc |-> "idle", report |-> None, made |-> 0, next |-> None]

JobType == [state: {"none", "waiting", "active", "completed", "failed"},
            lock: Workers \cup {None}, made: 0..MaxAttempts, stalls: 0..MaxStalled]
WorkerType == [pc: {"idle", "claiming", "computing", "renewing", "enqueueing",
                    "returning", "throwing"},
               report: Reports \cup {None}, made: 0..MaxAttempts,
               next: Reports \cup {None}]

Init ==
  /\ status = [r \in Reports |-> "ABSENT"]
  /\ series = [r \in Reports |-> None]
  /\ occ = [r \in Reports |-> 0]
  /\ requests = {}
  /\ deleting = {}
  /\ job = [r \in Reports |-> NoJob]
  /\ worker = [w \in Workers |-> Idle]
  /\ faults = 0

Fault(kind) ==
  /\ kind \in FaultKinds
  /\ faults < MaxFaults
  /\ faults' = faults + 1

-----------------------------------------------------------------------------
(* The API.                                                                *)

CreateRow(r, s, n) ==
  /\ status[r] = "ABSENT"
  /\ status' = [status EXCEPT ![r] = "PENDING"]
  /\ series' = [series EXCEPT ![r] = s]
  /\ occ' = [occ EXCEPT ![r] = n]

\* @Unique(['seriesId', 'occurrence']): NULLs never collide.
OccurrenceTaken(s, n) ==
  \E q \in Reports : /\ status[q] \notin {"ABSENT", "DELETED"}
                     /\ series[q] = s
                     /\ occ[q] = n

RequestReport(r, recurring) ==
  /\ IF recurring THEN CreateRow(r, r, 1) ELSE CreateRow(r, None, 0)
  /\ requests' = requests \cup {r}
  /\ UNCHANGED <<deleting, job, worker, faults>>

EnqueueRequested(r) ==
  /\ r \in requests
  /\ requests' = requests \ {r}
  /\ job' = [job EXCEPT ![r] = NewJob]
  /\ UNCHANGED <<rowVars, deleting, worker, faults>>

\* queue.add rejects, or the process dies, after the row is committed.
LoseRequest(r) ==
  /\ r \in requests
  /\ Fault("queueDown") \/ Fault("crash")
  /\ requests' = requests \ {r}
  /\ UNCHANGED <<rowVars, deleting, job, worker>>

\* cancelReports: one conditional UPDATE, refused unless the row is PENDING.
Cancel(r) ==
  /\ status[r] = "PENDING"
  /\ status' = [status EXCEPT ![r] = "CANCELLED"]
  /\ UNCHANGED <<series, occ, requests, deleting, job, worker, faults>>

\* deleteReports reads the status, awaits, and deletes by id alone.
CheckDelete(r) ==
  /\ status[r] \notin {"ABSENT", "DELETED", "PROCESSING"}
  /\ deleting' = deleting \cup {r}
  /\ UNCHANGED <<rowVars, requests, job, worker, faults>>

CommitDelete(r) ==
  /\ r \in deleting
  /\ deleting' = deleting \ {r}
  /\ status' = [status EXCEPT ![r] = "DELETED"]
  /\ UNCHANGED <<series, occ, requests, job, worker, faults>>

-----------------------------------------------------------------------------
(* handleComputeReport, one worker slot at a time.                         *)

Goto(w, pc) == worker' = [worker EXCEPT ![w] = [@ EXCEPT !.pc = pc]]

\* Mutant: save() instead of update(), which inserts a row that is gone.
WriteUpsert(r, s) == status' = [status EXCEPT ![r] = s]

\* An UPDATE by id: it affects no row once the report is deleted.
Write(r, s) ==
  status' = IF status[r] = "DELETED" THEN status ELSE [status EXCEPT ![r] = s]

\* The job is handed to w, which reads the row; a row that is gone, or is not
\* PENDING, makes the attempt throw.
TakeJob(w, r) ==
  /\ worker[w].pc = "idle"
  /\ job[r].state = "waiting"
  /\ job' = [job EXCEPT ![r] = [@ EXCEPT !.state = "active", !.lock = w]]
  /\ worker' = [worker EXCEPT ![w] =
       [pc |-> IF status[r] = "PENDING" THEN "claiming" ELSE "throwing",
        report |-> r, made |-> job[r].made, next |-> None]]
  /\ UNCHANGED <<rowVars, requests, deleting, faults>>

\* Mutant: the claim's UPDATE without "AND status = PENDING".
ClaimAnyStatus(w) ==
  /\ worker[w].pc = "claiming"
  /\ status' = [status EXCEPT ![worker[w].report] = "PROCESSING"]
  /\ Goto(w, "computing")
  /\ UNCHANGED <<series, occ, requests, deleting, job, faults>>

ClaimWon(w) ==
  /\ worker[w].pc = "claiming"
  /\ status[worker[w].report] = "PENDING"
  /\ status' = [status EXCEPT ![worker[w].report] = "PROCESSING"]
  /\ Goto(w, "computing")
  /\ UNCHANGED <<series, occ, requests, deleting, job, faults>>

ClaimLost(w) ==
  /\ worker[w].pc = "claiming"
  /\ status[worker[w].report] # "PENDING"
  /\ Goto(w, "returning")
  /\ UNCHANGED <<rowVars, requests, deleting, job, faults>>

\* Mutant: the report is delivered and its series forgotten.
WriteReadyOnly(w) ==
  /\ worker[w].pc = "computing"
  /\ Write(worker[w].report, "READY")
  /\ Goto(w, "returning")
  /\ UNCHANGED <<series, occ, requests, deleting, job, faults>>

WriteReady(w) ==
  /\ worker[w].pc = "computing"
  /\ Write(worker[w].report, "READY")
  /\ Goto(w, IF series[worker[w].report] # None THEN "renewing" ELSE "returning")
  /\ UNCHANGED <<series, occ, requests, deleting, job, faults>>

IsLastAttempt(w) == worker[w].made >= MaxAttempts - 1

\* Mutant: a failure always puts the report back, the last attempt's too.
PutBackOnFailure(w) ==
  /\ worker[w].pc = "computing"
  /\ Write(worker[w].report, "PENDING")
  /\ Goto(w, "throwing")
  /\ UNCHANGED <<series, occ, requests, deleting, job, faults>>

\* Mutant: only the last failure is written; earlier ones leave PROCESSING.
KeepOnFailure(w) ==
  /\ worker[w].pc = "computing"
  /\ IF IsLastAttempt(w) THEN Write(worker[w].report, "FAILED") ELSE UNCHANGED status
  /\ Goto(w, "throwing")
  /\ UNCHANGED <<series, occ, requests, deleting, job, faults>>

WriteFailure(w) ==
  /\ worker[w].pc = "computing"
  /\ Write(worker[w].report, IF IsLastAttempt(w) THEN "FAILED" ELSE "PENDING")
  /\ Goto(w, "throwing")
  /\ UNCHANGED <<series, occ, requests, deleting, job, faults>>

CreateSuccessor(w, n) ==
  LET r == worker[w].report IN
  /\ worker[w].pc = "renewing"
  /\ ~ OccurrenceTaken(series[r], occ[r] + 1)
  /\ CreateRow(n, series[r], occ[r] + 1)
  /\ worker' = [worker EXCEPT ![w] = [@ EXCEPT !.pc = "enqueueing", !.next = n]]
  /\ UNCHANGED <<requests, deleting, job, faults>>

RowsExhausted == \A r \in Reports : status[r] # "ABSENT"   \* bound of an instance

\* generateNewSeriesReport throws and its caller only logs it: the unique
\* constraint refuses the row, or (bound) the instance has no row left.
SuccessorRefused(w) ==
  LET r == worker[w].report IN
  /\ worker[w].pc = "renewing"
  /\ OccurrenceTaken(series[r], occ[r] + 1) \/ RowsExhausted
  /\ Goto(w, "returning")
  /\ UNCHANGED <<rowVars, requests, deleting, job, faults>>

EnqueueSuccessor(w) ==
  /\ worker[w].pc = "enqueueing"
  /\ job' = [job EXCEPT ![worker[w].next] = NewJob]
  /\ worker' = [worker EXCEPT ![w] = [@ EXCEPT !.pc = "returning", !.next = None]]
  /\ UNCHANGED <<rowVars, requests, deleting, faults>>

LoseSuccessor(w) ==
  /\ worker[w].pc = "enqueueing"
  /\ Fault("queueDown")
  /\ worker' = [worker EXCEPT ![w] = [@ EXCEPT !.pc = "returning", !.next = None]]
  /\ UNCHANGED <<rowVars, requests, deleting, job>>

\* BullMQ accepts the outcome of an attempt only from the holder of the lock.
Settle(w, outcome) ==
  /\ job' = IF job[worker[w].report].lock = w
            THEN [job EXCEPT ![worker[w].report] = outcome] ELSE job
  /\ worker' = [worker EXCEPT ![w] = Idle]

Return(w) ==
  LET j == job[worker[w].report] IN
  /\ worker[w].pc = "returning"
  /\ Settle(w, [j EXCEPT !.state = "completed", !.lock = None])
  /\ UNCHANGED <<rowVars, requests, deleting, faults>>

\* A failed attempt goes back to the queue after its backoff until the last.
Throw(w) ==
  LET j == job[worker[w].report] IN
  /\ worker[w].pc = "throwing"
  /\ Settle(w, [j EXCEPT
       !.state = IF j.made + 1 < MaxAttempts THEN "waiting" ELSE "failed",
       !.lock = None,
       !.made = j.made + 1])
  /\ UNCHANGED <<rowVars, requests, deleting, faults>>

-----------------------------------------------------------------------------
(* Faults, and what recovers from them.                                    *)

Unlock(w) ==
  job' = [r \in Reports |-> IF job[r].lock = w THEN [job[r] EXCEPT !.lock = None]
                                               ELSE job[r]]

Crash(w) ==
  /\ worker[w].pc # "idle"
  /\ Fault("crash")
  /\ Unlock(w)
  /\ worker' = [worker EXCEPT ![w] = Idle]
  /\ UNCHANGED <<rowVars, requests, deleting>>

\* The attempt goes on, but its lock was not renewed in time.
LoseLock(w) ==
  /\ worker[w].pc # "idle"
  /\ job[worker[w].report].lock = w
  /\ Fault("lockLost")
  /\ Unlock(w)
  /\ UNCHANGED <<rowVars, requests, deleting, worker>>

\* BullMQ's stalled check: redelivered without counting an attempt, or failed.
StalledCheck(r) ==
  /\ job[r].state = "active"
  /\ job[r].lock = None
  /\ job' = [job EXCEPT ![r] =
       IF job[r].stalls < MaxStalled
       THEN [job[r] EXCEPT !.state = "waiting", !.stalls = job[r].stalls + 1]
       ELSE [job[r] EXCEPT !.state = "failed"]]
  /\ UNCHANGED <<rowVars, requests, deleting, worker, faults>>

BeingComputed(r) == \E w \in Workers : worker[w].pc = "computing" /\ worker[w].report = r

\* Mutant: the cron enqueues the rows it resets.
ResetAndEnqueue(S) ==
  /\ S # {}
  /\ \A r \in S : status[r] = "PROCESSING" /\ (AttemptsFinish => ~ BeingComputed(r))
  /\ status' = [r \in Reports |-> IF r \in S THEN "PENDING" ELSE status[r]]
  /\ job' = [r \in Reports |-> IF r \in S THEN NewJob ELSE job[r]]
  /\ UNCHANGED <<series, occ, requests, deleting, worker, faults>>

\* resetStalledProcessingReports: one UPDATE over the rows that have been
\* PROCESSING for over 30 minutes.  It enqueues nothing.
ResetStalled(S) ==
  /\ S # {}
  /\ \A r \in S : status[r] = "PROCESSING" /\ (AttemptsFinish => ~ BeingComputed(r))
  /\ status' = [r \in Reports |-> IF r \in S THEN "PENDING" ELSE status[r]]
  /\ UNCHANGED <<series, occ, requests, deleting, job, worker, faults>>

-----------------------------------------------------------------------------
Api(r) ==
  \/ \E recurring \in BOOLEAN : RequestReport(r, recurring)
  \/ EnqueueRequested(r)
  \/ LoseRequest(r)
  \/ Cancel(r)
  \/ CheckDelete(r)
  \/ CommitDelete(r)

Attempt(w) ==
  \/ \E r \in Reports : TakeJob(w, r)
  \/ ClaimWon(w)
  \/ ClaimLost(w)
  \/ WriteReady(w)
  \/ WriteFailure(w)
  \/ \E n \in Reports : CreateSuccessor(w, n)
  \/ SuccessorRefused(w)
  \/ EnqueueSuccessor(w)
  \/ LoseSuccessor(w)
  \/ Return(w)
  \/ Throw(w)

Environment ==
  \/ \E w \in Workers : Crash(w) \/ LoseLock(w)
  \/ \E r \in Reports : StalledCheck(r)
  \/ \E S \in SUBSET Reports : ResetStalled(S)

Next ==
  \/ \E r \in Reports : Api(r)
  \/ \E w \in Workers : Attempt(w)
  \/ Environment

Spec == Init /\ [][Next]_vars

\* The event loop runs what it started, BullMQ hands out what waits and checks
\* for stalled jobs, the cron fires: none of them stops for ever.  Users and
\* faults are not fair.
Fairness ==
  /\ \A r \in Reports : /\ WF_vars(EnqueueRequested(r))
                        /\ WF_vars(CommitDelete(r))
                        /\ WF_vars(StalledCheck(r))
                        /\ WF_vars(ResetStalled({r}))
                        /\ SF_vars(\E w \in Workers : TakeJob(w, r))
  /\ \A w \in Workers : WF_vars(worker[w].pc # "idle" /\ Attempt(w))

FairSpec == Spec /\ Fairness

-----------------------------------------------------------------------------
TypeOK ==
  /\ status \in [Reports -> Statuses]
  /\ series \in [Reports -> Reports \cup {None}]
  /\ occ \in [Reports -> Nat]
  /\ requests \subseteq Reports
  /\ deleting \subseteq Reports
  /\ job \in [Reports -> JobType]
  /\ worker \in [Workers -> WorkerType]
  /\ faults \in 0..MaxFaults

\* The atomic claim of handleComputeReport: however often a job is delivered,
\* at most one live attempt computes a report, so one result is written.
SingleComputation ==
  \A v, w \in Workers :
    /\ worker[v].pc = "computing"
    /\ worker[w].pc = "computing"
    /\ worker[v].report = worker[w].report
    => v = w

\* A user's cancellation and a delivered or failed result are never taken
\* back: the unconditional writes of updateReport and resetReportToPending
\* never hit a row that settled meanwhile.
SettledIsFinal ==
  [][\A r \in Reports : status[r] \in Settled => status'[r] \in {status[r], "DELETED"}]_vars

\* A recurring series advances only past a delivered report.
SuccessorOfDelivered ==
  \A r \in Reports : occ[r] > 1 =>
    \E p \in Reports : /\ series[p] = series[r]
                       /\ occ[p] = occ[r] - 1
                       /\ status[p] \in {"READY", "DELETED"}

\* A second live computation of a report costs a lock: an attempt that outlives the
\* cron's threshold has its row reset under it, but the row alone starts no other
\* attempt, and its job is handed out again only once the lock was lost.
RecomputedPerFault ==
  \A r \in Reports :
    Cardinality({w \in Workers : worker[w].pc = "computing" /\ worker[w].report = r}) <= 1 + faults

\* Without faults, no row is left waiting for a job that will never come: while
\* a report is unsettled, its job is queued or running or about to be queued.
NoStrandedReport ==
  \A r \in Reports : status[r] \in {"PENDING", "PROCESSING"} =>
    \/ job[r].state \in {"waiting", "active"}
    \/ r \in requests
    \/ \E w \in Workers : worker[w].next = r

\* The abstract lifecycle, implemented (status, series and occ map to themselves).
ImplementsLifecycle == Lifecycle!Spec

\* Every report settles, is deleted, or fails for good.
EverySettles ==
  \A r \in Reports : status[r] \in {"PENDING", "PROCESSING"}
                     ~> status[r] \in Settled \cup {"DELETED"}

HasSuccessor(r) == \E q \in Reports : series[q] = series[r] /\ occ[q] = occ[r] + 1

\* Delivering an occurrence of a series leads to the next one being opened.
SeriesContinues ==
  \A r \in Reports : status[r] = "READY" /\ series[r] # None
                     ~> HasSuccessor(r) \/ RowsExhausted

\* "Recovers reports stuck in PROCESSING due to worker crashes ... so the next
\* scheduled job can pick it up again" (report.action.ts, reports.cron.ts).
CrashedReportsAreRetried ==
  \A r \in Reports : status[r] = "PROCESSING"
                     ~> status[r] \in Settled \cup {"DELETED"}
=============================================================================
