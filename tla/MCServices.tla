------------------------------ MODULE MCServices ------------------------------
(***************************************************************************)
(* Instances of Sharing, Streams, Chat and Messages for TLC, side by side  *)
(* with InstallerAssignments and with a ReportPipeline whose attempts may  *)
(* outlive the cron's threshold.  `part' says which of them runs, so that  *)
(* one run explores the states of each and never their product.  The same  *)
(* model values stand for the interchangeable elements of each, so that    *)
(* one symmetry serves them all.                                           *)
(***************************************************************************)
EXTENDS InstallerAssignments, TLC

CONSTANTS
  Reports, Workers, MaxAttempts, MaxStalled, FaultKinds, MaxFaults, AttemptsFinish,
  Opens, LinkLife, DeleteAttempts, Horizon, MaxOpened, ContextLength, MaxCalls, MaxDevices

VARIABLES
  part,
  report, series, occ, requests, deleting, job, worker, faults,
  reportExists, row, files, jobs, upload, deletion, drawn, now, linkFaults, failed,
  callbacks, commands, subscribed, stream, gone, listening, opened, robbed,
  chat, messages, turn, context, calls, usage, unsaved, charged, refused, text, broken,
  message, push, read, mailJob, reportReady, reached, mailFaults

Pipeline == INSTANCE ReportPipeline WITH Reports <- Workers, status <- report
Links == INSTANCE Sharing WITH Files <- Reports, Uploads <- Workers, faults <- linkFaults
Events == INSTANCE Streams WITH Streams <- Reports
Assistant == INSTANCE Chat WITH Turns <- Reports
Mail == INSTANCE Messages WITH
  Messages <- Workers, Jobs <- Reports, MaxAttempts <- 3,
  status <- push, job <- mailJob, faults <- mailFaults

pipelineVars == <<report, series, occ, requests, deleting, job, worker, faults>>
linkVars == <<reportExists, row, files, jobs, upload, deletion, drawn, now, linkFaults, failed>>
eventVars == <<callbacks, commands, subscribed, stream, gone, listening, opened, robbed>>
assistantVars ==
  <<chat, messages, turn, context, calls, usage, unsaved, charged, refused, text, broken>>
mailVars == <<message, push, read, mailJob, reportReady, reached, mailFaults>>

\* Each part has one initial state, in which it stays while another one runs.
SideInit ==
  /\ part \in {"desk", "reports", "links", "events", "assistant", "mail"}
  /\ Init /\ Pipeline!Init /\ Links!Init /\ Events!Init /\ Assistant!Init /\ Mail!Init

SideNext ==
  /\ UNCHANGED part
  /\ \/ /\ part = "desk" /\ Next
        /\ UNCHANGED <<pipelineVars, linkVars, eventVars, assistantVars, mailVars>>
     \/ /\ part = "reports" /\ Pipeline!Next
        /\ UNCHANGED <<vars, linkVars, eventVars, assistantVars, mailVars>>
     \/ /\ part = "links" /\ Links!Next
        /\ UNCHANGED <<vars, pipelineVars, eventVars, assistantVars, mailVars>>
     \/ /\ part = "events" /\ Events!Next
        /\ UNCHANGED <<vars, pipelineVars, linkVars, assistantVars, mailVars>>
     \/ /\ part = "assistant" /\ Assistant!Next
        /\ UNCHANGED <<vars, pipelineVars, linkVars, eventVars, mailVars>>
     \/ /\ part = "mail" /\ Mail!Next
        /\ UNCHANGED <<vars, pipelineVars, linkVars, eventVars, assistantVars>>

SideSpec ==
  SideInit /\ [][SideNext]_<<part, vars, pipelineVars, linkVars, eventVars, assistantVars, mailVars>>

Symmetry == Permutations(Reports) \cup Permutations(Workers)

\* The properties of the other modules that the run checks, stated and explained there.
RecomputedPerFault == Pipeline!RecomputedPerFault
LinkWorks == Links!LinkWorks
NoForgottenFile == Links!NoForgottenFile
OpenIsHeard == Events!OpenIsHeard
UsageCounted == Assistant!UsageCounted
OncePerFailure == Mail!OncePerFailure
=============================================================================
