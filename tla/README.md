# Intell API: verification models

TLA+ models of the Intell API (NestJS, PostgreSQL through TypeORM, BullMQ and
Redis), the configurations that model-check them with TLC, and theorems about
them checked by TLAPS. Paths are relative to the repository root; `reports.service.ts`
and the like are under `src/src/modules/<component>/`.

## 1. The system

One Node process runs the HTTP API, the workers of every BullMQ queue, the cron
jobs, the inverter pollers and the alert detection; several of them may run side
by side against one PostgreSQL database and one Redis. Inside a process only one
callback runs at a time, so a step of a model is what happens between two
`await`s. Nothing else is atomic: a handler that reads a row, awaits, and writes
it back can be interleaved with every other handler, a database row and its queue
job are written one after the other, and most writes are `UPDATE ... WHERE id`.

| Component | State it keeps | Operations | Talks to |
| --- | --- | --- | --- |
| Reports (`reports/`) | `reports` rows (status, series, occurrence), compute jobs | create, compute, retry, next occurrence, cancel, delete, recover orphans | BullMQ, metrics, e-mail, share links |
| Report sharing (`reports/`, `common/cloudinary`) | `uploaded_reports` rows, files at the file host, delayed delete jobs | upload, open a link, delete remote file | Cloudinary, BullMQ |
| Metrics poller (`metrics-stream/poller`) | in-memory lists of inverters and failure counts; `inverters.is_offline`; metric rows | load, register, deregister, poll, go offline/online, alert | inverter adapters, Redis pub/sub, alerts |
| Inverters (`inverters/`) | `inverters` rows | connect, deactivate | adapters, control channel |
| Metrics pub/sub and SSE stream (`metrics-stream/`) | channel and pattern subscriptions, open responses | publish, subscribe, unsubscribe, stream, close | Redis, poller, alert detection |
| Alert detection (`alerts/jobs/alert-detection.job.ts`, `alerts/helpers`) | `alerts` rows | evaluate a metric, suppress duplicates, defer for quiet hours, save, dispatch | pub/sub, BullMQ, preferences |
| Alert dispatch (`alerts/jobs/alert-dispatch.processor.ts`, `fallback.service.ts`) | delivery status of an alert | deliver with fallback, deferred delivery, resolve | WhatsApp, push, e-mail |
| Auth and sessions (`auth/`, `users/`) | users, sessions (refresh-token hash), one-time codes in Redis | register, verify, login, refresh, logout, reset password, Google login | Redis, e-mail |
| Onboarding (`auth/`, `users/`, `team-access/`) | user, subscription and membership rows made by one request | verify e-mail, Google sign-up, accept an invite | sessions, team access |
| Team access (`team-access/`, `common/guards/inverter-role.guard.ts`) | membership rows, invite tokens | invite, re-invite, accept, change role, revoke, authorise | users, e-mail |
| Installers (`installers/`) | profiles, assignments | create profile, change status, assign, revoke | users, inverters |
| Admins (`super-admin/`, `users/`) | roles and activity of accounts | create admin, change role, change status | users |
| Notifications (`notification/`) | notification rows, sockets, push jobs | create, push, mark read | Firebase, BullMQ |
| E-mail (`email/`) | e-mail jobs | send each kind of mail, deliver a report | Resend, reports |
| WhatsApp (`whatsapp/`) | none | send a message | WhatsApp API |
| Chatbot (`chatbot/`, `ai-usage/`) | chats, messages, token usage | start chat, stream an answer, record usage | LLM, metrics, alerts |
| Metrics analytics (`inverters-metrics/`) | none of its own | health status, charts, savings, summaries | metric rows |
| Adapters (`inverters/adapters`) | upstream tokens | fetch and normalise a reading | brand APIs |
| Leads, feedback, waitlist, contact | one table each | create, list, update status | e-mail |
| Configuration, filters, interceptors, migrations, mock server | - | - | - |

### What is hard, and what makes each component right

* **Reports.** A job is delivered at least once; a row must be computed by one
  attempt at a time, settle once, never come back, and never wait for a job that
  will not come. A series must advance without skipping or repeating.
* **Report sharing.** The row, the file and the delete job are three stores: a link
  must not point at a deleted file, a file must be deleted in the end, and a
  renewed link must outlive the delete job of the link it replaced.
* **Poller.** Polls overlap (an interval does not wait for the previous poll), are
  concurrent per inverter of a user, and outlive deregistration. A reading that
  succeeds late and a failure that is marked late must not leave an inverter in
  the wrong state for good; one inverter's alert must not silence another's.
* **Pub/sub and stream.** Subscriptions are counted in memory while the Redis
  command is awaited; a subscriber must not lose the channel because another left.
  (One may: 3.7. A client that leaves before the handler listens to 'close' leaves its callback
  behind: a leak, listed as a hazard.)
* **Alerts.** Duplicate suppression reads before it writes; a worsening must get
  through; quiet hours defer, never drop; CRITICAL is never deferred; a delivered
  alert is not delivered again by a retry.
* **Sessions.** A refresh token is used once, also by two requests at once; a logout
  ends the session whatever is in flight. (A password reset ends none: `resetPassword`
  changes the password and nothing else.)
* **Team access.** An invite is accepted once, by its addressee; revoking a member
  wins over an acceptance that is in flight.
* **Installers.** A suspended installer has no active assignment; an installer has
  at most one active assignment per inverter.
* **Report periods.** A report is about a week or a month, runs once that is over, and
  hands a reference date to its successor: the occurrences of a series must not tell of
  a moment twice, although attempts are late and months differ in length.
* **Figures.** The same computation is written out for endpoints, agent and reports;
  the copies must agree, and a worse reading must not be graded milder.
* **Chat, notifications, mail.** A model call is charged once, although several turns run
  at once and nobody awaits the event that charges it; a message reaches its user once, and again only
  for a failure.
* **Onboarding.** A verified user has a subscription and an accepted invite a member,
  whatever requests meet; a wrong code is counted, a reset token opens one reset. (What a
  step that fails half way leaves behind, nothing repairs: 3.6.)

PROJECT.json lists each hazard at its line, with the properties that cover it.

## 2. Plan

In order of importance; section 3 describes what is done.

| Modules | Of | Model | Theorems |
| --- | --- | --- | --- |
| `ReportLifecycle`, `ReportPipeline` | reports | done | done, refinement included; liveness is TLC's |
| `MetricsPoller` | poller, connecting inverters | done | done for its three invariants |
| `AssignmentBook`, `InstallerAssignments` | installers | done | done, refinement included |
| `Sessions` | login, refresh, logout | done | done |
| `QuietHours`, `AlertPipeline` | alert detection and dispatch | done | done; `QueuedSettles` is liveness |
| `TeamAccess` | invites, roles, revocation | done | done |
| `Onboarding` | sign-up, codes, reset, Google | done | done, `PatientGuesses` for guesses that overlap no other |
| `Sharing` | share links | done | done |
| `Streams` | pub/sub and event streams | done | done |
| `Chat`, `Messages` | chatbot, AI usage, notifications, e-mail | done | done |
| `Grading`, `ReportSeries` | grades, report periods | done | done |
| `EnergySavings` | figures | done | done, with the sums over sets they rest on |

Theorems are in `ReportPipelineProofs`, `MetricsPollerProofs`, `InstallerAssignmentsProofs`, `SessionsProofs`, `AlertPipelineProofs` and
`OnboardingProofs`, which extend the module they are about, and in `ServicesProofs` and `AccountsProofs`, which extend the side-by-side
modules `MCServices` and `MCAccounts` and speak of their parts: `Links!Spec => []LinkWorks` is about `Sharing` with the constants of the run left open.

A new component gets a part of one of the two side-by-side runs (3.0) rather than a run of its
own, and a run of its own only for liveness or for a disagreement with a document.

## 3. What is modelled, checked and proved

Each module names the code it models operation by operation (PROJECT.json, "map",
gives the lines). Operators marked "Mutant:" are not part of a model: each is a
plausible bug in the definition that follows it, and makes the named property fail.

### 3.0 Runs that explore several systems

`Services` and `AccountsReadings` explore systems that share nothing, one after the other in one
run. A variable `part` says which; the variables of the others stay in one initial state. So the
run's state space is the sum of the parts' and not their product, and every property is checked on
the whole space of the part it is about. Parts share model values where their elements are
interchangeable, so that one symmetry set serves all of them: three values are
assignments, requests, reports, files, streams, turns and jobs in `Services`, two are profiles, inverters, worker slots, uploads and messages.
The runs with temporal liveness properties use no symmetry, which TLC does not support there.

That the runs add nothing to their parts is a theorem of each: `SidesAreTheirSpecs` (in `ServicesProofs` and in `AccountsProofs`) says that
`SideSpec` implies the specification of every part, so what is proved of a part holds of the run.

| Run | Parts | Properties |
| --- | --- | --- |
| `Services` (`MCServices`) | installers' assignments (3.3), reports whose attempts outlive the cron's threshold (3.1), share links, event streams, chat, messages (3.7) | `IndexNeverRefuses`, `ImplementsBook`, `RecomputedPerFault`, `LinkWorks`, `NoForgottenFile`, `OpenIsHeard`, `UsageCounted`, `OncePerFailure` |
| `AccountsReadings` (`MCAccounts`, `MCReadings`) | team, onboarding (3.6), savings, grading, report series (3.8) | `MembersWereInvited`, `MembersKeepTheirPlace`, `SpentInviteAdmitsNobody`, `PatientGuesses`, `VerifiedAreSubscribed`, `ResetTokenUsedUp`, `ChartsAddUp`, `AnswersAgree`, `WorseNeverMilder`, `AlarmInTime`, `InsightsAgree`, `SeriesTellsOnce` |

### 3.1 Reports: `ReportLifecycle`, `ReportPipeline`

`ReportLifecycle` says what a report row promises with no queue in sight: opened
PENDING, worked on, settled once, deleted at most once, and occurrence n + 1 of a
series opened only after occurrence n was delivered.

`ReportPipeline` is the code. The row (`status`, `series`, `occ`) and the compute job
(`job`) are separate: `RequestReport` commits the row, `EnqueueRequested` adds the
job, `LoseRequest` is the failure in between. `worker` is one execution slot of the
BullMQ workers; its `pc` names the next await of `handleComputeReport`:
claiming (the conditional UPDATE to PROCESSING), computing, renewing and enqueueing
(the successor of a recurring report), returning or throwing (what BullMQ is told).
The queue itself is external: delivery to one lock holder, at-least-once through
the stalled check, `attempts: 3`, one redelivery of a stalled job. `ResetStalled` is the
cron. Cancellation is one conditional UPDATE; deletion is a check and, an await
later, a DELETE by id.

| Run | Instance | Shows |
| --- | --- | --- |
| `ReportPipeline_faults` | 2 rows, 2 slots, 3 attempts, any 2 of crash, lost lock, refused job | one attempt computes a report at a time, and `ReportLifecycle` is implemented: a settled report stays settled, a series advances past delivered reports only |
| `ReportPipeline_live` | 2 rows, 2 slots, no faults | no row waits for a job that will not come; every report settles; every series goes on |
| `ReportPipeline_orphans` | 1 row, 1 slot, 1 crash (violation) | the cron resets the row of a crashed attempt and enqueues nothing: the row may stay PENDING for ever |
| `Services`, part `reports` | 2 rows, 2 slots, 1 attempt, a lost lock; an attempt may outlive the cron's 30 minutes | a report is computed by one attempt, and by one more at once for each lock that was lost: the row that the cron resets under a live attempt starts no other by itself |

Bounds: two slots are the fewest that race for one job; two rows give a report and its
successor, or two competing reports. Attempts and stalls are the code's and BullMQ's own limits (one attempt in `Services`,
where retries add nothing to the race). Two faults let a second one strike during the
recovery from the first. A run that needs a row when none is left takes
`SuccessorRefused`, which `SeriesContinues` excepts by `RowsExhausted`.

Fairness (`FairSpec`): requests under way, attempts, the stalled check and the cron go
on; a waiting job is handed out although other jobs may be ahead of it at any moment,
hence strong fairness of `TakeJob`. Users and faults are never fair.

`AttemptsFinish` states the code's own premise: an attempt ends within the 30 minutes after
which the cron takes it for dead (nothing enforces it). It is FALSE in `_live` and in `Services`,
and an explicit hypothesis of the theorems that need it.

That no row waits in vain and that every series goes on is shown without faults only. A queue that
refuses a job after the row was committed, a process that dies in between, and a successor that cannot be enqueued leave a row
waiting for ever: nothing in the code repairs that, so no property claims it (hazards without one).

Proved, for any rows, slots, attempts and faults: `TypeCorrect`, `EachRecomputationCostsALock` (`RecomputedPerFault`, with no
premise; `SlowReportsComputedOnce` carries it over to the instance in `Services`), and under `AttemptsFinish` `ReportsComputedOnce`, `SettledReportsStay`,
`SeriesAdvanceInOrder` and `PipelineImplementsLifecycle`. The invariant is built in layers:
`Shape` (types; a busy slot has a report; a job still to run has attempts left), `Origins` (a
series is named by its first row, so a fresh row's series collides with nobody's), and
`Held` (a report being computed is PROCESSING or deleted), without which
`SingleComputation` is not inductive: the claim succeeds only on a PENDING row, and
the only steps that make a row PENDING again are its own computation's failure and the
cron, which by the premise spares live computations. `Deletable` carries the check of
deletion across its await. For `RecomputedPerFault` the invariant counts the attempts that no longer hold the lock
of their job (`Astray`): each was put there by a fault of its own, and of the others only one can compute a report.

`NoReportIsStranded` (for `FaultKinds = {}`, with no premise about the cron) is an invariant of its own, `Followed`: an attempt holds
its job's lock (`Attempting`), a job that runs has its attempt and a PROCESSING row one that computes (`Attended`), an attempt that
reports success has settled its row and one that reports failure may be retried or has settled it (`Concluding`), a job that is over or was
never added belongs to a row that is over or still has its request (`Ended`, `Awaited`), and a row gets its job from one source only (`OneSource`).
`EverySettles` and `SeriesContinues` are liveness and stay with TLC.

### 3.2 Poller: `MetricsPoller`

State: the database (`row`, `offline`), the process (`phase`, `tracked`, `failures`,
`lookups`), the control channel (`pending`, `inbox`, `missed`), up to |Slots| overlapping
polls of each inverter (`poll`, whose value names the next await of `pollVictronOne`,
`pollGrowattOne`, `pollSunsynkOne`, `pollSandboxOne` and `fireInverterOfflineAlert`), and the alerts of the current cooldown.
`LoadInverters`, `Subscribe`, `Deliver`, `Register` and `Deregister` keep the lists;
`StartPoll` is the interval, which never waits for earlier polls; `Fetch` lets the cloud
answer and `ReadingArrives` or `FailureArrives` lets the process learn it, any time later.
`Restart` loses everything the process kept in memory.

The run `MetricsPoller` has one inverter, two overlapping polls, and any two of a restart, a lost
publication and a failing database. It shows that the lists hold an inverter once at most
(`PolledOnce`); that a connected one is in them unless its announcement itself was lost
(`ActiveIsTracked`); that polls that do not overlap alert an outage once per cooldown, and
overlapping ones once each at most (`OneAlertPerCooldown`: less than "Duplicate suppression is handled", lines 461-463, promises,
because the check and the save are two steps); and, as liveness, that an inverter that
stays reachable ends up online (`RecoversOnline`) and that one that stays away ends up offline (`OutageIsNoticed`), whatever late answers and restarts intervene.

`MetricsPoller_cooldown` (violation) has two inverters of one user, polled without overlap and without faults. The comment at
`metrics-poller.service.ts:474` says "Check for a recent unresolved offline alert for this inverter"; the query at lines 475-481 asks for the owner's
latest alert of the type. So the alert of one inverter holds back that of another, which `HeldBackByItsOwn` denies, and
nothing says that a lasting outage is ever alerted: no property claims it.

Bounds: the lists, the flag, the counts and the polls of one inverter do not touch another's; inverters share only the owner's cooldown,
which is what the second run is about. Two slots give every overlap of an older and a newer poll. Failures
are counted up to the threshold of three, beyond which the code does not tell them apart, and alerts
up to one more than the slots, which is where the bound would fail. Fairness: a started process
runs on, intervals fire, awaits return, an hour passes; users, clouds and restarts are not fair, and
the liveness properties suppose that from some time on the inverter stays tracked and stays
reachable or away.

Proved for any inverters, owners, faults and finite sets of slots: `InvertersPolledOnce`,
`ActiveInvertersTracked`, `AlertsBounded`. The second needs to know where an announcement is
(`Announced`: pending, in the inbox, being looked up, or accounted for by the lists), and that a
deactivated row stays so (`FinalDeactivation`); the third that the alerts of a cooldown and the polls that have looked
and not yet saved are together at most the slots (`Pending`), by finite cardinalities.

Modelled and not claimed otherwise: between `LoadInverters` and `Subscribe` an
announcement is lost until the next restart (`missed`); a restart polls deactivated
inverters again; a deregistration that overtakes the lookup of a registration
leaves the inverter tracked.

### 3.3 Installers: `AssignmentBook`, `InstallerAssignments`

`AssignmentBook` is the promise: assignments to active installers only, once per inverter and
installer, all gone in the instant of a suspension. `InstallerAssignments` has the
transactions: `BeginSuspend` / `BeginAssign` take the profile's row lock (`lock`),
`RevokeAll`, `CheckDuplicate` work inside, `CommitSuspend`, `CommitAssign` and `RollBack` end them;
`BeginRevoke` and `CommitRevoke` are the two statements of `revokeAssignment`. Writes
are visible at the commit (READ COMMITTED).

The part `desk` of `Services` (2 profiles, 2 inverters, 3 assignments, 3 requests at once)
checks `IndexNeverRefuses` and the refinement `ImplementsBook`. Three requests are a
suspension, an assignment and a revocation that meet; three assignment rows allow a row to
be revoked and its pair assigned again next to another one.

All of it is proved for any sets: `TypeCorrect`, `SuspensionRevokes`, `LockSuffices`,
`RequestsImplementBook`. The invariant is `TypeOK`, `SuspendedHasNone` and `Relies(q)`: what a
request may rely on between its statements: the profile is active while assigning, a
passed duplicate check still holds, and what a suspension claimed is all the profile has.

### 3.4 Sessions: `Sessions`

`row` is `user_sessions` (active, hash of the refresh token, created, expires). A request is a
small program: `kind` says which, `pc` where it awaits, `seen` the row it read. `Login` and
`PersistRefreshToken`; `PresentRefresh`, `Pass` / `Reject` / `FindExpired`, `Swap` (the
compare-and-swap UPDATE) or `SwapLost`; `PresentAccess`, `Look` (the JWT strategy);
`Blacklist`, `DeactivateSession` (logout); `Reply` or `Fail`. A hash is the token: bcrypt and
SHA collisions are left out.

`Sessions` (1 session, 3 tokens, 2 requests at once, a clock of 4) checks that a refresh token is
exchanged once, in time, that a logout is final and that it stops a refresh under
way. Deleting a user and resetting a password are not actions: a reset leaves `user_sessions` alone, and a deletion takes the rows with it.
`POST /auth/refresh` demands the token in the cookie and in the body (`auth.controller.ts:155-158`), although
`refresh-token.dto.ts:14` describes the body as the way of mobile clients; `Admitted` models the code, and no property claims that a client
with one of the two gets in. Sessions do not share rows, so one is enough; three tokens are a login and two
rotations; a sliding window of 2 and a cap of 3 make the cap cut the window.

Proved for any sessions, tokens, requests and durations: `TypeCorrect`, `ExchangedOnce`,
`ExchangedInTime`, `LogoutIsFinal`, `LogoutEndsRotation`. The invariant says that a token that was
exchanged is never again the hash of a row (`Spent`), that an ended session has no
hash and is inactive (`Ended`), that a current token is not older than its row's expiry less the
sliding window (`Rows`), and of each request what its code relies on (`Requesting`): one that
began after the logout has read an inactive row. `Logins` keeps two logins from one row.

### 3.5 Alerts: `QuietHours`, `AlertPipeline`

`QuietHours` holds the arithmetic: conversion to UTC, the window test with its wrap around
midnight and its sentinel, and the moment an alert is deferred to. `AlertPipeline` extends it with the
alerts of one user. `eval` are the evaluations under way (`handleMetricMessage` does not await
them, so two readings are evaluated at once): `Evaluate` takes any findings, one per type at
most; `Suppress` or `Decide` is `isDuplicate` followed by the quiet-hours test; `Save` and
`Enqueue` are the two awaits of `saveAndDispatchAlert`; `EvaluationFails` forgets the
rest. `job` and `worker` are BullMQ's as in 3.1; `worker.pc` follows `handleDispatch`: marking, the
WhatsApp and e-mail links of the fallback chain (`Skip`, `Accept`, `Refuse`, `LoseResponse`),
`RecordDelivery` or `RecordFailure`, and the end of the attempt. An attempt saves the entity it
read, so that `SaveCopy` also writes back the resolution as it was then. `sent`, and a row's
`seen` and `window`, are history.

A user's settings and the channels a user has enabled are inputs, and so is the severity of a
finding (which `Grading`, 3.8, computes): every combination is tried. `deliveryProcessingStatus`
follows the worker's steps and nothing reads it, so it is left out. The backoff between attempts
is left out: a retry may come at once, which allows more than the code does.

| Run | Instance | Shows |
| --- | --- | --- |
| `AlertPipeline_detect` | 2 types, 2 evaluations at once, 3 rows, cooldown 2, a clock of 5, one failed evaluation, no workers | within a cooldown, an alert that is no news is raised only by an evaluation that had not seen a row of its type |
| `AlertPipeline_deliver` | 1 alert, 2 slots, 2 attempts, windows across midnight and always quiet, any one crash, lost lock, failed save or lost answer | one message, and at most one copy more per fault; "delivered" means sent; nothing deferred goes out before its quiet hours end; every queued alert ends delivered or failed |

Bounds: three rows are an alert, one that is graver and one that repeats the first; two evaluations are the
race. A day of two moments has a quiet one and one that is not; the clock outlasts the cooldown
and one deferral (`Evaluate` stops a day before `Horizon`, so that what it defers can come due).
`EvaluationsFinish` keeps the clock still while an evaluation runs, only to keep these instances
small; no theorem assumes it. `OutOfRows` ends evaluations when an instance has no row left.
Fairness: the clock, the event loop and the workers go on; `TakeJob` is strongly fair as in 3.1.

Proved for any numbers of types, evaluations, rows, faults, any finite set of slots, any cooldown, day and windows:

* `TypeCorrect`, from `Linked`: an evaluation that queues, a job and a busy slot have their row, and
  a job that may be tried again has attempts left.
* `RepeatsCorrect`. A saved row keeps for ever the reason it had for being raised; an evaluation
  that decided carries its reason until it saves (`Raising`), and time only strengthens it. The
  step that needs the rows' order is `Decide`: the code looks at the latest alert of the type
  only, and the latest answers for older ones because it was itself raised after them, for a
  reason that the invariant remembers. The lemma `Greatest` supplies the latest row.
* `DeliveryCorrect`, from `Told`: a copy that says "delivered" was read from such a row.
* `QuietCorrect`, from `HeldBack`: a job is due no earlier than its row's quiet hours end, a busy slot is
  past that moment, and retries and redeliveries do not move it; with `QuietUntilFacts`, the theorem
  about the arithmetic for every offset and window.
* `CopiesBounded`: one message, and one more per fault. The bound alone is not inductive. `Spared` counts, besides
  what was sent, the attempts that may still send and the one that the queue may still start:
  together they never exceed 1 plus the faults, because an attempt that ends without a fault
  either has recorded its delivery or has sent nothing. `LockHeld` (an attempt without a fault holds its
  job's lock) keeps a second attempt from starting for free.

`QueuedSettles` is liveness and stays with TLC.

`AlwaysQuiet`, the sentinel 00:00 to 00:00, is excepted from `QuietKept`: an alert deferred by it is delivered at
the next UTC midnight, and any offset from UTC turns it into a window without extent.

### 3.6 Accounts: `TeamAccess`, `Onboarding`

`TeamAccess` has the rows of one inverter's `inverter_members`. A request is one row of `request`, whose `pc` names
the statement it awaits. `BeginInvite` is `inviteMember` past the guard and the lookup of the address; `InsertInvite`
or `Revive` (the conditional UPDATE of a deactivated row) ends it, or the partial unique index refuses it (`InsertRefused`, `ReviveRefused`).
`RefreshInvite` is one UPDATE. `BeginRoleChange` / `ChangeRole` and `BeginRevoke` / `Revoke` write by id, whatever the
row became after the guard. `BeginAccept` finds the invite by token and address; `CreateInvitedUser` and `Activate` follow,
with an account and without one. `DeleteAccount` is `DELETE /users/:id`: the rows that name the account lose it and stay ACTIVE (ON DELETE SET NULL,
`inverter-members.entity.ts:49`), and the requests that hold it end with it, because the foreign key refuses their next write of its id. (That the foreign key also refuses an invite whose sender was deleted
meanwhile is left out.) A person is an e-mail address; a token is a model value that was `issued`. `spent` is history.

`Onboarding` has the `users` rows, their subscriptions, and the Redis keys of an address (`otp`, `tries`, `resends`, `reset`), each of
which may expire at any moment. Each request is again a sequence of statements: sign-up (`BeginRegister` to `MailCode`), `verifyEmail`
(`BeginVerify`, `Admit`, `Compare`, `CountTry` or `Verify`, `Inspect`, `Subscribe`, `ForgetCode`, `ForgetTries`), Google login (`BeginGoogle`,
`Link`), password reset (`BeginForgot` to `ForgetToken`). `Fail` ends a request between any two of them. `guesses` and `used` are history.

`AccountsReadings`, parts `team` and `onboarding`, shows:

* a member whose account is there is the person the invite was addressed to, not an account that was deleted since (`MembersWereInvited`); members keep their place
  until it is revoked or their account deleted, whichever invites and acceptances of the row are still in flight (`MembersKeepTheirPlace`); and tokens admit nobody
  a second time, through revocation and a new invite (`SpentInviteAdmitsNobody`). That an address has one live row is the database's index: the model has it as
  a guard and claims nothing of it. That an accepted invite really makes a member is not claimed either: a request that dies between the account and the activation leaves both as they are;
* whoever waits for the answer to one wrong code before sending the next gets no more of them than the limit, and one more per request that died before it counted its own
  (`PatientGuesses`), also when others verify the same address, write back a counter they read before, or keys expire in between. Guesses that overlap read one counter and are
  not limited by it: nothing in `verifyEmail` bounds them, only the throttle of three requests a minute in front of it, which is per client and not modelled;
* a user who verified by code has a subscription unless the request failed in between (`VerifiedAreSubscribed`): the failure is excepted because
  the model shows that nothing makes up for it;
* a reset token opens one reset (`ResetTokenUsedUp`), although the key is deleted whatever it holds. Two resets that present one token before
  either deletes it both succeed, and a reset may delete the newer token of another request; the code does nothing about either, and the property does not claim it.

Bounds: two requests at once are the race; two people, two rows and two tokens give an invite, its revival and a competing invite of
the same address; one address is enough for `Onboarding`, whose keys and rows are per address, with two codes (an old and a new one), two tries, one Google id and one failure.

`TeamAccess_revoked` (violation): an acceptance admitted before a revocation activates the row after it.

Proved of `TeamAccess` (in `AccountsProofs`) for any people, rows, tokens, requests and faults: `TypeCorrect`, `OnlyTheInvitedJoin`, `PlacesAreKept`,
`SpentTokensStaySpent`. The invariant: two invites have no token in common and every token was issued (`Tokened`); a request that awaits its
activation has its addressee's row and, past the creation, an account (`Relies(q)`); and a row whose token was spent is not
an invite with that token (`UsedUp`), which holds although `Activate` writes by id because `Revive` and `RefreshInvite` draw a token that is new.

Proved of `Onboarding` for any addresses, codes, requests, tries and failures, if None is no code: `TypeCorrect`; `SubscriptionFollows`, which is inductive with the types,
because only the two steps after `Verify` and `Link` may owe a subscription; and `ResetTokensAreUsedUp`. For the latter the invariant follows a
code from the moment it is drawn: it reaches one mailbox only, a stored token is in its owner's (`Delivered`), a token about to be stored is stored
nowhere yet and no other request holds it (`Carried`, `Unshared`), so that a token that was used up is never stored again (`Spent`).

`PatientGuessesEnd` bounds the guesses that overlap no other for any number of tries and of requests. The bound alone is not inductive: a request writes back one more than the counter it read, so
a patient request beside others may see the counter fall. The history `crowded` holds the requests whose guess overlapped another of the address; the others are the ones counted, and the
invariant (`Patient`, in `GuessInv`) says that the counter, and what every request in flight has read of it, lag behind the guesses by the one being counted and the failures at most, and that a
request that is not crowded is the only one in flight. `SignupSubscribes`, `SignupResetsOnce` and `SignupGuessesEnd` carry the three theorems over to the instance of
`Onboarding` in the run, of which `Onboarding`'s own specification is shown to be the same formula (`SignupIsOnboarding`).

### 3.7 Services: `Sharing`, `Streams`, `Chat`, `Messages`

The parts of the run `Services` next to 3.1.

`Sharing` is the share link of one report: the row, the file host and the delayed delete jobs. `UploadFile` to `NoteJob` are the awaits of
`uploadReportToCloudinary`: upload, save (`ReplaceRow`, or `FindNoRow` and `InsertRow`), remove the old job and file, schedule the new deletion and note its id. `UploadFails` and
`Undo` are its catch. `RunJob`, `RefuseJob`, `DestroyFile` and `DeleteRow` are `deleteRemoteReport`, for a job or for a visitor of an expired link
(`OpenExpiredLink`). Public id, share token and job id are drawn together, so the file's name stands for all three. `LinkWorks`: a link leads to a file until it
expires; `NoForgottenFile`: every file is the row's or in hand. Both except the request that failed, because its catch deletes the file after the row was written as well.
Bounds: three files are a link, its renewal and a competing upload; two uploads, one visitor, a link that lives one tick of a clock of two, two attempts of a delete job, one failure.

`Streams` is the shared subscription of one channel: `SubscribeFirst` makes the set and awaits Redis, `SubscribeToo` joins it, `Answer` is Redis, in order; `Close` takes a
callback away and with the last one the set. `Leave` is a client that disconnects before the handler listens. `RedisError` is heard by the open streams; with none, it
ends the process (`RedisErrorUnheard`). `OpenIsHeard`: the callback of a stream whose response is open is in the set, and the channel will be subscribed once Redis has answered, except for the streams
that are `robbed`: they awaited Redis when the last of the others left, which deletes the set (`metrics-pubsub.service.ts:82`) and sends an unsubscribe after their subscribe. Their response stays open and
deaf. The property says that this is the only way to a deaf stream; that the code has it is a hazard. Bounds: three
streams, five openings, so that a stream may come back while another's commands are on their way.

`Chat` is one chat, its turns in flight together, and the agent's loop of model calls and tools. `logUsage` is not awaited and swallows its failure (`agent.service.ts:60-82`), for answers, cards and titles alike:
`LogUsage` sends an event on its way and `SaveUsage` writes it, at any time later, or the database refuses it (as it must once the chat the event names is deleted). `UsageCounted`: no call is ever
charged twice; and once a turn is over and nothing is on its way, every call was charged but those whose events were refused and the one that a breaking stream takes with it. Bounds: three turns, a context of two
messages, two model calls per turn. `sendMessage`, `invoke` and `invokeWithHistory`, which nothing calls, are left out.

`Messages` has notifications with their push job, mails, and reports forwarded to the mail queue, each with its attempts and stalls. `OncePerFailure`: a user gets a
message once, and once more only for a failure that struck after it went out; a push recorded as successful reached a device. Bounds: two messages, three jobs (a report takes two), two devices, one failure.

Proved in `ServicesProofs` for any numbers of everything:

* `LinksTyped`, `LinksWork` and `NoFileIsForgotten`, if None is no file, row or job and times are integers. The invariant ties the three stores: a file not yet linked
  is known to its upload alone (`Fresh`); the job of the row's file is due when the link expires (`RowFits`); a deletion under way has a file that no link has, or an expired one
  (`DeletionFits`); uploads have different files, and none replaces what another one brings (`Apart`); every file is linked, owed by an upload, or left by a failed one (`Kept`).
* `OpenStreamsHear`. That the channel will be subscribed once Redis has answered has to be known of channels without an open stream as well: the set of callbacks is there
  exactly when the last command sent to Redis, or its state if none is on its way, is a subscription (`EventInv`). A stream that is mute, or awaits Redis while there is no set, was robbed of it (`Robbed`).
* `CallsAreCharged`. A turn's calls are those charged, those refused, those on their way, and at most one whose usage is not logged (`ChatInv`), and a step of one turn leaves the accounts of the others alone.
* `SlowReportsComputedOnce`, from 3.1.
* `MessagesOncePerFailure`. The bound alone is not inductive: `Borne` counts, besides the times a message has reached its user, the jobs that may still bring it
  (`Bearers`: a report's compute job hands this over to its mail job). Together they never exceed one plus the failures. `Untouched` says that nothing was sent for a message not yet saved.

### 3.8 Readings: `EnergySavings`, `Grading`, `ReportSeries`

Pure computations, with just enough state to make their inputs ones the program can be in: readings recorded in the order of time, settings created by their first change, a clock.
All arithmetic is exact, in the smallest unit a figure has, and rounding (`toFixed`, `Math.round`) happens where the code rounds.

`EnergySavings` has every range (calendar periods in the process's zone, charts that reach back, custom dates), the grouping in Lagos time, the sums, and the
fuel and price tables, as the endpoints, the agent and the reports compute them: `PeriodSavings`, `CustomSavings`, `Cumulative`, `Dashboard`, `EnergyUsage`, `SolarReport`, `CostReport` and the agent's
copies. Money in reports has three digits and at the endpoints two; litres, CO2 and consumed energy are rounded at the endpoints and exact quotients (`Quotient`) in reports.

`ChartsAddUp`: an hour is counted in one bar, and the rounded energies and litres of a chart's bars add up to the rounded totals within half a unit each (in the code the totals are sums over the same bars; money is not compared).
`AnswersAgree`: the days of a day, week or month, current or a day earlier, asked for by their two dates at the endpoint or by the agent, have the totals of that period, hours included; once the owner has settings
a report of the period has the same hours and its money within half of the endpoint's last digit; a lifetime's litres are its readings' to within half a unit a month.
Not claimed, because the code does otherwise: custom reports begin at UTC midnight and leave the second date out; without a settings row the endpoint's price is not a number, and the report's is a default;
in a process west of Greenwich the dates of a range name the days before. `Readings_dashboard` (violation): the dashboard's SQL divides two integers first, so its energy is 0.

`Grading` has depletion, the three alert rules, the health colour and the agent's insights, with the code's treatment of null. `WorseNeverMilder`: a graver reading is never graded
milder; `AlarmInTime`: less than half an hour before the threshold is critical and more than an hour is none, whatever the threshold; `InsightsAgree`: the agent's
estimate is the alerts', to the minute.

`ReportSeries` has the validity of a request's dates, the calendar range of a report's figures, the window of its alerts, the delay of its job and the reference it hands to its
successor. `SeriesTellsOnce`: a report is computed when its time is over; no moment is told of twice; no alert is counted twice; and from the first reference of a series on none in a report's range is missed but
those of the 31st, which the property excepts because the code does miss them.

Bounds: a day of two hours, weeks of two days, months of three (for `ReportSeries`: of three, one and two, so that they are shorter and longer than the span of two), a zone an hour off the
process's, three readings that draw one kW or two (the sun changes neither property and is fixed): enough for bars in two buckets and two rows in one; one alert and three occurrences of a report. Grades are checked on a grid around the constants of the battery and load rules; those of the solar rule (its percentages of the panels) are not on it, and no property
speaks of the solar alert. Left out: the averages of the state of charge,
generator hours, money in the insights, texts, and the counts of alerts by type.

Proved in `AccountsProofs`:

* `SeriesTellsEverythingOnce`, for every calendar in which each day up to the last one lies in a month (`CalendarAssumption`), any alerts and any number of occurrences. A report that
  has read its alerts has read all of its window that were raised before, and none from before its reference, and it was due when its range was over (`Scheduled`); the reference of an
  occurrence is later than anything the one before has read (`Follows`). From that: ranges of one period that start at references in that order do not overlap (`PeriodsFollow`, from `WeekHolds` and
  `MonthHolds`), and the window of a week reaches at least to the end of its range, that of a month perhaps not, which is the exception the property names.
* `GraverIsNeverMilder`, `AlarmsAreInTime` and `AgentAndAlertsAgree`, for any numbers that users, readings and inverters may hold, missing ones among them (`GradingAssumption`; the sun is never negative, which
  `GraverIsNeverMilder` needs: the colour asks whether the panels give exactly 0). `Rounded` characterises `Math.round` of a quotient, `RoundGrows` says that less energy used up faster does not last longer, and
  `BatteryGrade` and `Depletes` say what the cascades of comparisons amount to. `AgentAndAlertsAgree` assumes that no charge is above 100 %, because the alerts cap it and the agent does not.

* `ChartsTellTheTotals` and `WhoeverAsks` (`ChartsAddUp`, `AnswersAgree`), for any readings, settings, offsets, calendar lengths and number of rows
  (`SavingsAssumption`: readings and prices are integers, a generator has a power, days, weeks and months are not empty, and the process is not west of Greenwich). The invariant (`SavingsInv`) only types the rows; what matters is the argument about the sums.
  The modules add with `MapThenSumSet`, a recursive function on the subsets of a finite set. Induction over sets cannot be cited from the library, whose theorems take an operator;
  `AllNumbers` and `AllSubsets` give it back in a first-order form (a set of numbers, or of subsets, that is closed under the step is all of them), from the well-foundedness of `<` on `Nat`.
  From them: the recursive function exists (`SumExists`) and does not depend on the set it was computed within (`SumIsUnique`), so that a sum may be begun with any element (`TotalSplits`);
  the sum over a partition is that of its parts (`TotalOfUnion`, and `TotalOfSizes` for counts), and amounts rounded one by one are off by half a unit each (`TotalOfRounded`).
  `LoadIsTotal`, `EnergySum`, `LitresSum` and `HoursSum` say that the module's sums are such totals, and `BucketsSplit` that grouping is a partition in which rows of one time stay together,
  which is why an hour is counted in one bar. `DatesNameDays` and `PeriodsAreDays` take a calendar period to its dates and back, `SameDaysSameTotals` says that totals depend on the range alone and not on the bars,
  `HoursOfRange` that the active hours of the bars are those of the range, and `OneDigitMore` compares an amount rounded to two digits and to three.

### 3.9 What the violation runs report

Four runs show the code doing other than a comment or document of the repository says; each
finding in PROJECT.json quotes the line: `ReportPipeline_orphans`, `MetricsPoller_cooldown`, `TeamAccess_revoked` and
`Readings_dashboard`. Other places where the models follow the code and a reader might
expect otherwise are listed as hazards without a property, with a note.

### 3.10 Limits

Liveness is model-checked only, on the instances above: the prover has no rules for fairness.
Redis, PostgreSQL and BullMQ are modelled by what the code relies on: single statements are atomic, a
row lock excludes, a pub/sub message reaches the subscribers of that moment, a job is
delivered at least once. Several processes are modelled as more slots, requests
or evaluations; nothing in the models is shared in memory except where the
code shares it (the poller's lists, the subscriptions of a process).

## 4. Not modelled

* **Admins**, **leads, feedback, waitlist, contact**: one insert or one single-row update per request behind a role guard. No two of them
  interact beyond the last write of a row.
* **Inverter adapters**: HTTP calls and the normalisation of the answers. `MetricsPoller` has their success, failure and lateness, `Grading` their missing values.
* **Configuration, filters, interceptors, migrations, mock server**: no behaviour of their own beyond values the models take from them.
* **Deleting an account** (`DELETE /users/:id`) outside of `TeamAccess`: its cascades to sessions, subscriptions, settings, notifications, installer profiles, reports and inverters. The models of those parts have owners that stay.
* Of the modelled parts: checking credentials with a brand's cloud and the reuse of sandbox rows when an inverter is connected; the device token of a session;
  listings; the role change that comes with an installer's profile in the same transaction; the count of downloads of a link; pattern subscriptions other than
  the poller's own; the wording of every text.
