------------------------------- MODULE Messages -------------------------------
(***************************************************************************)
(* Outgoing messages: notifications with their push, e-mails, and reports  *)
(* sent by e-mail, each by a job of its queue.  A job is delivered at      *)
(* least once and tried again when its attempt throws.                     *)
(***************************************************************************)
EXTENDS Integers, FiniteSets

CONSTANTS
  Messages,
  Jobs,              \* bound: jobs
  None,
  MaxAttempts,       \* attempts of the queues' default options
  MaxStalled,        \* redeliveries of a stalled job
  MaxDevices,        \* bound: sessions of the user
  MaxFaults          \* bound: failures

VARIABLES
  message,           \* "none", "saved", "sent", "refused", as its caller sees it
  status,            \* push_delivery_status of a notification, or None
  read,              \* is_read
  job,               \* [kind, of, pc, fids, left, stalls], or None; a "report" job only
                     \* passes its message on to one of kind "reportMail"
  reportReady,       \* the report that a mail attaches exists and is READY
  reached,           \* history: times each message got to its user
  faults

vars == <<message, status, read, job, reportReady, reached, faults>>

Init ==
  /\ message = [m \in Messages |-> "none"]
  /\ status = [m \in Messages |-> None]
  /\ read = {}
  /\ job = [j \in Jobs |-> None]
  /\ reportReady = TRUE
  /\ reached = [m \in Messages |-> 0]
  /\ faults = 0

NewJob(kind, m) ==
  [kind |-> kind, of |-> m, pc |-> "waiting", fids |-> 0, left |-> MaxAttempts, stalls |-> 0]

Add(j, kind, m) ==
  /\ job[j] = None
  /\ job' = [job EXCEPT ![j] = NewJob(kind, m)]

Is(j, kind, pc) == job[j] # None /\ job[j].kind = kind /\ job[j].pc = pc
Goto(j, pc) == job' = [job EXCEPT ![j].pc = pc]
Complete(j) == Goto(j, "completed")

\* The attempt throws: the job waits for its next one, or has failed.
Retried(j) ==
  [job EXCEPT ![j].left = job[j].left - 1, ![j].pc = IF job[j].left = 1 THEN "failed" ELSE "waiting"]
Throw(j) == job' = Retried(j)

Reach(m) == reached' = [reached EXCEPT ![m] = @ + 1]

-----------------------------------------------------------------------------
(* Requests *)

\* NotificationService.create: the row, the open sockets, and then the job.
SaveNotification(m) ==
  /\ message[m] = "none"
  /\ message' = [message EXCEPT ![m] = "saved"]
  /\ status' = [status EXCEPT ![m] = "pending"]
  /\ UNCHANGED <<read, job, reportReady, reached, faults>>

QueuePush(m) ==
  /\ message[m] = "saved"
  /\ \E j \in Jobs : Add(j, "push", m)
  /\ message' = [message EXCEPT ![m] = "sent"]
  /\ UNCHANGED <<status, read, reportReady, reached, faults>>

\* The queue does not take it: the caller is told, the row stays pending.
PushRefused(m) ==
  /\ message[m] = "saved"
  /\ faults < MaxFaults /\ faults' = faults + 1
  /\ message' = [message EXCEPT ![m] = "refused"]
  /\ UNCHANGED <<status, read, job, reportReady, reached>>

MarkAsRead(m) ==
  /\ status[m] # None /\ m \notin read
  /\ read' = read \cup {m}
  /\ UNCHANGED <<message, status, job, reportReady, reached, faults>>

\* One method of EmailService, or triggerReportEmail for a READY report.
QueueMail(m, kind) ==
  /\ message[m] = "none"
  /\ kind = "report" => reportReady
  /\ \E j \in Jobs : Add(j, kind, m)
  /\ message' = [message EXCEPT ![m] = "sent"]
  /\ UNCHANGED <<status, read, reportReady, reached, faults>>

ReportGoes ==
  /\ reportReady
  /\ reportReady' = FALSE
  /\ UNCHANGED <<message, status, read, job, reached, faults>>

-----------------------------------------------------------------------------
(* handleSendPush *)

\* A user without devices gets no push.
ReadDevices(j) ==
  /\ Is(j, "push", "waiting")
  /\ \E n \in 0 .. MaxDevices :
       job' = [job EXCEPT ![j] = [@ EXCEPT !.pc = IF n = 0 THEN "noDevice" ELSE "sending", !.fids = n]]
  /\ UNCHANGED <<message, status, read, reportReady, reached, faults>>

RecordNoDevice(j) ==
  /\ Is(j, "push", "noDevice")
  /\ status' = [status EXCEPT ![job[j].of] = "failed"]
  /\ Complete(j)
  /\ UNCHANGED <<message, read, reportReady, reached, faults>>

\* Mutant: a push that some devices did not get is tried again.
OutcomeOrRetry(failures, fids) == IF failures > 0 THEN "catching" ELSE "recordSuccess"
Outcome(failures, fids) == IF failures = fids THEN "recordFailed" ELSE "recordSuccess"

\* Firebase reports a success or failure of each device.
SendPush(j) ==
  /\ Is(j, "push", "sending")
  /\ \E failures \in 0 .. job[j].fids :
       /\ IF failures < job[j].fids THEN Reach(job[j].of) ELSE UNCHANGED reached
       /\ Goto(j, Outcome(failures, job[j].fids))
  /\ UNCHANGED <<message, status, read, reportReady, faults>>

\* Firebase rejects the call as a whole.
PushRejected(j) ==
  /\ Is(j, "push", "sending")
  /\ Goto(j, "catching")
  /\ UNCHANGED <<message, status, read, reportReady, reached, faults>>

RecordPush(j) ==
  /\ Is(j, "push", "recordFailed") \/ Is(j, "push", "recordSuccess")
  /\ status' = [status EXCEPT ![job[j].of] =
                  IF job[j].pc = "recordSuccess" THEN "successful" ELSE "failed"]
  /\ Complete(j)
  /\ UNCHANGED <<message, read, reportReady, reached, faults>>

\* The update after the push is in the try block as well; the one of a user without
\* devices is not, and neither is the reading of the devices.
RecordThrows(j) ==
  /\ Is(j, "push", "recordFailed") \/ Is(j, "push", "recordSuccess")
  /\ faults < MaxFaults /\ faults' = faults + 1
  /\ Goto(j, "catching")
  /\ UNCHANGED <<message, status, read, reportReady, reached>>

CatchPush(j) ==
  /\ Is(j, "push", "catching")
  /\ status' = [status EXCEPT ![job[j].of] = "failed"]
  /\ Throw(j)
  /\ UNCHANGED <<message, read, reportReady, reached, faults>>

PushThrows(j) ==
  /\ Is(j, "push", "waiting") \/ Is(j, "push", "noDevice") \/ Is(j, "push", "catching")
  /\ faults < MaxFaults /\ faults' = faults + 1
  /\ Throw(j)
  /\ UNCHANGED <<message, status, read, reportReady, reached>>

-----------------------------------------------------------------------------
(* The processor of e-mails, and that of reports, which only passes one on. *)

StartMail(j) ==
  /\ Is(j, "mail", "waiting")
  /\ Goto(j, "sending")
  /\ UNCHANGED <<message, status, read, reportReady, reached, faults>>

\* handleSendReport reads the report again and attaches it.
AttachReport(j) ==
  /\ Is(j, "reportMail", "waiting")
  /\ IF reportReady THEN Goto(j, "sending") ELSE Throw(j)
  /\ UNCHANGED <<message, status, read, reportReady, reached, faults>>

Sends(j) == Is(j, "mail", "sending") \/ Is(j, "reportMail", "sending")

\* The provider takes the mail.
SendMail(j) ==
  /\ Sends(j)
  /\ Reach(job[j].of)
  /\ Complete(j)
  /\ UNCHANGED <<message, status, read, reportReady, faults>>

\* It returns an error, and the handler throws.
MailRefused(j) ==
  /\ Sends(j)
  /\ Throw(j)
  /\ UNCHANGED <<message, status, read, reportReady, reached, faults>>

\* It takes the mail and its answer is an error, or is lost.
MailAnswerLost(j) ==
  /\ Sends(j)
  /\ faults < MaxFaults /\ faults' = faults + 1
  /\ Reach(job[j].of)
  /\ Throw(j)
  /\ UNCHANGED <<message, status, read, reportReady>>

\* sendPdfReport queues the mail; the queue completes the job afterwards.
ForwardReport(j) ==
  /\ Is(j, "report", "waiting")
  /\ \E k \in Jobs \ {j} :
       /\ job[k] = None
       /\ job' = [job EXCEPT ![k] = NewJob("reportMail", job[j].of), ![j].pc = "forwarded"]
  /\ UNCHANGED <<message, status, read, reportReady, reached, faults>>

\* The queue does not take it, or its answer is lost.
ForwardThrows(j) ==
  /\ Is(j, "report", "waiting") \/ Is(j, "report", "forwarded")
  /\ faults < MaxFaults /\ faults' = faults + 1
  /\ Throw(j)
  /\ UNCHANGED <<message, status, read, reportReady, reached>>

ReportForwarded(j) ==
  /\ Is(j, "report", "forwarded")
  /\ Complete(j)
  /\ UNCHANGED <<message, status, read, reportReady, reached, faults>>

\* A worker dies with the job it has, which goes to another one or has failed.
Stall(j) ==
  /\ job[j] # None /\ job[j].pc \notin {"waiting", "completed", "failed"}
  /\ faults < MaxFaults /\ faults' = faults + 1
  /\ job' = [job EXCEPT ![j].pc = IF job[j].stalls = MaxStalled THEN "failed" ELSE "waiting",
                        ![j].stalls = IF job[j].stalls = MaxStalled THEN @ ELSE @ + 1]
  /\ UNCHANGED <<message, status, read, reportReady, reached>>

Next ==
  \/ \E m \in Messages :
       \/ SaveNotification(m) \/ QueuePush(m) \/ PushRefused(m) \/ MarkAsRead(m)
       \/ \E kind \in {"mail", "report"} : QueueMail(m, kind)
  \/ \E j \in Jobs :
       \/ ReadDevices(j) \/ RecordNoDevice(j) \/ SendPush(j) \/ PushRejected(j)
       \/ RecordPush(j) \/ RecordThrows(j) \/ CatchPush(j) \/ PushThrows(j)
       \/ StartMail(j) \/ AttachReport(j) \/ SendMail(j) \/ MailRefused(j)
       \/ MailAnswerLost(j) \/ ForwardReport(j) \/ ForwardThrows(j) \/ ReportForwarded(j)
       \/ Stall(j)
  \/ ReportGoes

Spec == Init /\ [][Next]_vars

-----------------------------------------------------------------------------
\* A user gets a message once, and in all at most once more for each failure of the
\* run, a stall, a lost answer or a failed write of the status; a push that only some
\* devices got is not sent again.  And a push recorded as successful did reach a device.
OncePerFailure ==
  \A m \in Messages : /\ reached[m] <= 1 + faults
                      /\ status[m] = "successful" => reached[m] > 0
=============================================================================
