--------------------------- MODULE ReportLifecycle ---------------------------
(***************************************************************************)
(* What the reports component promises of a report row, with no queue, no  *)
(* worker and no cron in sight.  A row is opened PENDING; it is worked on, *)
(* possibly put back, and settles once; a settled row only ever leaves by  *)
(* being deleted; and occurrence n + 1 of a recurring series is opened     *)
(* only once occurrence n has been delivered, and only once.               *)
(***************************************************************************)
EXTENDS Naturals

CONSTANTS Reports,   \* identities of report rows; a UUID is never used twice
          None       \* "no series"

VARIABLES status, series, occ

lifecycleVars == <<status, series, occ>>

Settled == {"READY", "FAILED", "CANCELLED"}
Statuses == {"ABSENT", "PENDING", "PROCESSING", "DELETED"} \cup Settled

Init ==
  /\ status = [r \in Reports |-> "ABSENT"]
  /\ series = [r \in Reports |-> None]
  /\ occ = [r \in Reports |-> 0]

Open(r, s, n) ==
  /\ status[r] = "ABSENT"
  /\ status' = [status EXCEPT ![r] = "PENDING"]
  /\ series' = [series EXCEPT ![r] = s]
  /\ occ' = [occ EXCEPT ![r] = n]

OpenSingle(r) == Open(r, None, 0)

OpenSeries(r) == Open(r, r, 1)

\* p was delivered (it may have been deleted since) and has no successor yet.
OpenNext(r, p) ==
  /\ status[p] \in {"READY", "DELETED"}
  /\ series[p] # None
  /\ ~ \E q \in Reports : series[q] = series[p] /\ occ[q] = occ[p] + 1
                          /\ status[q] # "DELETED"
  /\ Open(r, series[p], occ[p] + 1)

Move(r, from, to) ==
  /\ status[r] \in from
  /\ status' = [status EXCEPT ![r] = to]
  /\ UNCHANGED <<series, occ>>

PutBack(S) ==
  /\ \A r \in S : status[r] = "PROCESSING"
  /\ status' = [r \in Reports |-> IF r \in S THEN "PENDING" ELSE status[r]]
  /\ UNCHANGED <<series, occ>>

Next ==
  \/ \E r \in Reports :
       \/ OpenSingle(r)
       \/ OpenSeries(r)
       \/ \E p \in Reports : OpenNext(r, p)
       \/ Move(r, {"PENDING"}, "PROCESSING")
       \/ Move(r, {"PENDING"}, "CANCELLED")
       \/ Move(r, {"PROCESSING"}, "READY")
       \/ Move(r, {"PROCESSING"}, "FAILED")
       \/ Move(r, Statuses \ {"ABSENT", "DELETED"}, "DELETED")
  \/ \E S \in SUBSET Reports : PutBack(S)

Spec == Init /\ [][Next]_lifecycleVars
=============================================================================
