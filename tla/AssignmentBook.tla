--------------------------- MODULE AssignmentBook ---------------------------
(***************************************************************************)
(* What installer assignments promise, with no transactions in sight: an   *)
(* inverter is assigned to an active installer, once; and suspending an    *)
(* installer takes all its assignments away in the same instant.           *)
(***************************************************************************)
CONSTANTS Profiles, Inverters, Assignments, None

VARIABLES status,  \* of each installer profile
          holder   \* the inverter and profile of each active assignment

bookVars == <<status, holder>>

Init ==
  /\ status = [p \in Profiles |-> "absent"]
  /\ holder = [a \in Assignments |-> None]

Open(p) ==
  /\ status[p] = "absent"
  /\ status' = [status EXCEPT ![p] = "pending"]
  /\ UNCHANGED holder

Change(p, s) ==
  /\ status[p] # "absent"
  /\ status' = [status EXCEPT ![p] = s]
  /\ UNCHANGED holder

HeldBy(p) == {a \in Assignments : \E i \in Inverters : holder[a] = <<i, p>>}

Suspend(p) ==
  /\ status[p] # "absent"
  /\ status' = [status EXCEPT ![p] = "suspended"]
  /\ holder' = [a \in Assignments |-> IF a \in HeldBy(p) THEN None ELSE holder[a]]

Assign(a, i, p) ==
  /\ status[p] = "active"
  /\ \A b \in Assignments : holder[b] # <<i, p>>
  /\ holder' = [holder EXCEPT ![a] = <<i, p>>]
  /\ UNCHANGED status

Revoke(a) ==
  /\ holder' = [holder EXCEPT ![a] = None]
  /\ UNCHANGED status

Next ==
  \/ \E p \in Profiles : \/ Open(p)
                         \/ \E s \in {"pending", "active"} : Change(p, s)
                         \/ Suspend(p)
  \/ \E a \in Assignments : \/ \E i \in Inverters, p \in Profiles : Assign(a, i, p)
                            \/ Revoke(a)

Spec == Init /\ [][Next]_bookVars
=============================================================================
