------------------------------- MODULE Sharing -------------------------------
(***************************************************************************)
(* The share link of one report: its row in uploaded-reports, the files at *)
(* the file host, and the delayed jobs that delete a file when its link    *)
(* expires.  The three are written one after the other.                    *)
(*                                                                         *)
(* Every upload draws a public id, a share token and a job id of its own;  *)
(* one name, that of the file, stands for all three.                       *)
(***************************************************************************)
EXTENDS Integers, FiniteSets

CONSTANTS
  Files,
  Uploads, Opens,    \* requests that create a link, requests that open one
  None,
  LinkLife,          \* how long a link works
  DeleteAttempts,    \* attempts of a delete job
  Horizon,           \* bound: the clock
  MaxFaults          \* bound: failures

VARIABLES
  reportExists,
  row,               \* uploaded-reports, at most one row of a report, or None
  files,             \* what the file host holds
  jobs,              \* delete jobs: file |-> [due, left], or None
  upload,            \* requests of uploadReportToCloudinary
  deletion,          \* runs of deleteRemoteReport: a job's by its file, or a visitor's
  drawn,             \* names used so far
  now, faults,
  failed             \* history: files of uploads that failed, and those they replaced

vars == <<reportExists, row, files, jobs, upload, deletion, drawn, now, faults, failed>>

Idle == [pc |-> "idle", file |-> None, expires |-> 0, old |-> None, oldJob |-> None]
Deleters == Files \cup Opens
NotDeleting == [pc |-> "idle", file |-> None]

Init ==
  /\ reportExists = TRUE
  /\ row = None
  /\ files = {}
  /\ jobs = [f \in Files |-> None]
  /\ upload = [q \in Uploads |-> Idle]
  /\ deletion = [d \in Deleters |-> NotDeleting]
  /\ drawn = {}
  /\ now = 0 /\ faults = 0
  /\ failed = {}

LinksTo(f) == row # None /\ row.file = f
At(q, pc) == upload[q].pc = pc
Goto(q, pc) == upload' = [upload EXCEPT ![q].pc = pc]
Finish(q) == upload' = [upload EXCEPT ![q] = Idle]

-----------------------------------------------------------------------------
(* uploadReportToCloudinary.  The report is READY: no settled report changes *)
(* its status.  An upload that yields no file ends the request, unsaved.     *)

UploadFile(q, f) ==
  /\ At(q, "idle") /\ reportExists
  /\ f \notin drawn
  /\ drawn' = drawn \cup {f}
  /\ files' = files \cup {f}
  /\ upload' = [upload EXCEPT ![q] = [Idle EXCEPT !.pc = "saving", !.file = f, !.expires = now + LinkLife]]
  /\ UNCHANGED <<reportExists, row, jobs, deletion, now, faults, failed>>

LinkOf(q, job) == [file |-> upload[q].file, expires |-> upload[q].expires, job |-> job]

\* The row is locked, read and updated; deleteJobId is not part of the update.
ReplaceRow(q) ==
  /\ At(q, "saving") /\ row # None
  /\ row' = LinkOf(q, row.job)
  /\ upload' = [upload EXCEPT ![q] =
       [@ EXCEPT !.pc = "removing", !.old = row.file, !.oldJob = row.job]]
  /\ UNCHANGED <<reportExists, files, jobs, deletion, drawn, now, faults, failed>>

\* There is no row to lock.
FindNoRow(q) ==
  /\ At(q, "saving") /\ row = None
  /\ Goto(q, "inserting")
  /\ UNCHANGED <<reportExists, row, files, jobs, deletion, drawn, now, faults, failed>>

InsertRow(q) ==
  /\ At(q, "inserting") /\ row = None /\ reportExists
  /\ row' = LinkOf(q, None)
  /\ Goto(q, "removing")
  /\ UNCHANGED <<reportExists, files, jobs, deletion, drawn, now, faults, failed>>

\* The row of a concurrent request, or the foreign key, refuses the insert.
InsertRefused(q) ==
  /\ At(q, "inserting") /\ (row # None \/ ~reportExists)
  /\ Goto(q, "undoing")
  /\ UNCHANGED <<reportExists, row, files, jobs, deletion, drawn, now, faults, failed>>

\* A job that a worker holds is not removed; that error is swallowed.
RemoveOldJob(q) ==
  /\ At(q, "removing")
  /\ LET j == upload[q].oldJob
     IN jobs' = [f \in Files |-> IF f = j /\ deletion[f].pc = "idle" THEN None ELSE jobs[f]]
  /\ Goto(q, "replacing")
  /\ UNCHANGED <<reportExists, row, files, deletion, drawn, now, faults, failed>>

\* Mutant: the file the row points to by now is deleted.
RowsFile(q) == row.file
ReplacedFile(q) == upload[q].old

DeleteOldFile(q) ==
  /\ At(q, "replacing")
  /\ files' = files \ {ReplacedFile(q)}
  /\ Goto(q, "scheduling")
  /\ UNCHANGED <<reportExists, row, jobs, deletion, drawn, now, faults, failed>>

\* A link that has expired by now is not told of its job.
ScheduleDeletion(q) ==
  /\ At(q, "scheduling")
  /\ jobs' = [jobs EXCEPT ![upload[q].file] = [due |-> upload[q].expires, left |-> DeleteAttempts]]
  /\ IF now < upload[q].expires THEN Goto(q, "noting") ELSE Finish(q)
  /\ UNCHANGED <<reportExists, row, files, deletion, drawn, now, faults, failed>>

\* UPDATE ... WHERE share_token: a row that has been renewed is left alone.
NoteJob(q) ==
  /\ At(q, "noting")
  /\ row' = IF LinksTo(upload[q].file) THEN [row EXCEPT !.job = upload[q].file] ELSE row
  /\ Finish(q)
  /\ UNCHANGED <<reportExists, files, jobs, deletion, drawn, now, faults, failed>>

\* Any await after the upload may reject, and the process may die; the file
\* host's failure to delete the replaced file is only logged.
UploadFails(q) ==
  /\ faults < MaxFaults /\ faults' = faults + 1
  /\ \/ upload[q].pc \in {"saving", "inserting", "scheduling", "noting"} /\ Goto(q, "undoing")
     \/ At(q, "replacing") /\ Goto(q, "scheduling")
     \/ ~At(q, "idle") /\ Finish(q)
  /\ failed' = failed \cup {upload[q].file, upload[q].old}
  /\ UNCHANGED <<reportExists, row, files, jobs, deletion, drawn, now>>

\* The catch deletes the new file, whether or not the row points to it.
Undo(q) ==
  /\ At(q, "undoing")
  /\ files' = files \ {upload[q].file}
  /\ Finish(q)
  /\ UNCHANGED <<reportExists, row, jobs, deletion, drawn, now, faults, failed>>

-----------------------------------------------------------------------------
(* deleteRemoteReport, for a due job or for a visitor of an expired link.  *)

Due(f) == jobs[f] # None /\ now >= jobs[f].due

\* The queue gives a failed attempt another go until they are used up.
Retried(f) ==
  IF jobs[f].left = 1 THEN [jobs EXCEPT ![f] = None] ELSE [jobs EXCEPT ![f].left = @ - 1]

RunJob(f) ==
  /\ Due(f) /\ deletion[f].pc = "idle"
  /\ reportExists /\ LinksTo(f)
  /\ deletion' = [deletion EXCEPT ![f] = [pc |-> "destroying", file |-> f]]
  /\ UNCHANGED <<reportExists, row, files, jobs, upload, drawn, now, faults, failed>>

\* The report or its row is gone, or the row has another file.
RefuseJob(f) ==
  /\ Due(f) /\ deletion[f].pc = "idle"
  /\ ~(reportExists /\ LinksTo(f))
  /\ jobs' = Retried(f)
  /\ UNCHANGED <<reportExists, row, files, upload, deletion, drawn, now, faults, failed>>

\* accessShareableLink, by the token of file f.  What it returns for a link that
\* has not expired is f's address, and the count of downloads is not modelled.
OpenExpiredLink(v, f) ==
  /\ deletion[v].pc = "idle"
  /\ LinksTo(f) /\ now > row.expires
  /\ deletion' = [deletion EXCEPT ![v] = [pc |-> "checking", file |-> f]]
  /\ UNCHANGED <<reportExists, row, files, jobs, upload, drawn, now, faults, failed>>

CheckOpened(v) ==
  /\ deletion[v].pc = "checking"
  /\ deletion' = [deletion EXCEPT ![v] =
       IF LinksTo(@.file) THEN [@ EXCEPT !.pc = "destroying"] ELSE NotDeleting]
  /\ UNCHANGED <<reportExists, row, files, jobs, upload, drawn, now, faults, failed>>

DestroyFile(d) ==
  /\ deletion[d].pc = "destroying"
  /\ files' = files \ {deletion[d].file}
  /\ deletion' = [deletion EXCEPT ![d].pc = "deleting"]
  /\ UNCHANGED <<reportExists, row, jobs, upload, drawn, now, faults, failed>>

\* Mutant: the row of the report is deleted, whichever file it has.
IsRowOfReport(f) == row # None
IsRowOf(f) == LinksTo(f)

EndOf(d) == IF d \in Files THEN [jobs EXCEPT ![d] = None] ELSE jobs

DeleteRow(d) ==
  /\ deletion[d].pc = "deleting"
  /\ row' = IF IsRowOf(deletion[d].file) THEN None ELSE row
  /\ deletion' = [deletion EXCEPT ![d] = NotDeleting]
  /\ jobs' = EndOf(d)
  /\ UNCHANGED <<reportExists, files, upload, drawn, now, faults, failed>>

\* The file host or the database fails; a job is retried, a visitor is not.
DeletionFails(d) ==
  /\ faults < MaxFaults /\ faults' = faults + 1
  /\ deletion[d].pc \in {"destroying", "deleting"}
  /\ deletion' = [deletion EXCEPT ![d] = NotDeleting]
  /\ jobs' = IF d \in Files THEN Retried(d) ELSE jobs
  /\ UNCHANGED <<reportExists, row, files, upload, drawn, now, failed>>

-----------------------------------------------------------------------------
\* deleteReports: the foreign key of the row refuses it while there is one.
DeleteReport ==
  /\ reportExists /\ row = None
  /\ reportExists' = FALSE
  /\ UNCHANGED <<row, files, jobs, upload, deletion, drawn, now, faults, failed>>

Tick ==
  /\ now < Horizon
  /\ now' = now + 1
  /\ UNCHANGED <<reportExists, row, files, jobs, upload, deletion, drawn, faults, failed>>

Next ==
  \/ \E q \in Uploads :
       \/ \E f \in Files : UploadFile(q, f)
       \/ ReplaceRow(q) \/ FindNoRow(q) \/ InsertRow(q) \/ InsertRefused(q)
       \/ RemoveOldJob(q) \/ DeleteOldFile(q) \/ ScheduleDeletion(q) \/ NoteJob(q)
       \/ UploadFails(q) \/ Undo(q)
  \/ \E f \in Files : RunJob(f) \/ RefuseJob(f)
  \/ \E v \in Opens : CheckOpened(v) \/ \E f \in Files : OpenExpiredLink(v, f)
  \/ \E d \in Deleters : DestroyFile(d) \/ DeleteRow(d) \/ DeletionFails(d)
  \/ DeleteReport
  \/ Tick

Spec == Init /\ [][Next]_vars

-----------------------------------------------------------------------------
InHand(f) == \E q \in Uploads : f \in {upload[q].file, upload[q].old}

\* A shared link leads to a file until it expires, whatever uploads, renewals,
\* delete jobs and visitors meet, unless the request that made it has failed: the
\* catch deletes its file after the row was written too (reports.service.ts:620).
LinkWorks ==
  row # None /\ row.file \notin files => now >= row.expires \/ row.file \in failed

\* No file is forgotten: every file is the row's, whose job or next visitor deletes
\* it, or a request under way has it in hand, or such a request has failed.
NoForgottenFile ==
  \A f \in files : LinksTo(f) \/ InHand(f) \/ f \in failed
=============================================================================
