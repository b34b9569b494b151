------------------------ MODULE InstallerAssignments ------------------------
(***************************************************************************)
(* Installer profiles and their assignments to inverters, with the         *)
(* PostgreSQL transactions that change them (READ COMMITTED): a row lock   *)
(* on the profile for suspending and for assigning, plain statements for   *)
(* everything else.  What a transaction writes is visible once it commits. *)
(***************************************************************************)
CONSTANTS Profiles, Inverters, Assignments,
          Requests,  \* bound: requests under way at once
          None

ASSUME NoneAssumption == /\ None \notin Profiles \cup Inverters
                         /\ None \notin Assignments \cup Requests
                         /\ \A i \in Inverters, p \in Profiles : None # <<i, p>>

VARIABLES
  status,      \* profile rows
  state,       \* assignment rows: absent, active or revoked
  inverterOf, profileOf,
  lock,        \* the request holding the profile's row lock
  request      \* what each request is doing

vars == <<status, state, inverterOf, profileOf, lock, request>>
rows == <<state, inverterOf, profileOf>>

Idle == [pc |-> "idle", profile |-> None, inverter |-> None, claimed |-> {}]

Init ==
  /\ status = [p \in Profiles |-> "absent"]
  /\ state = [a \in Assignments |-> "absent"]
  /\ inverterOf = [a \in Assignments |-> None]
  /\ profileOf = [a \in Assignments |-> None]
  /\ lock = [p \in Profiles |-> None]
  /\ request = [q \in Requests |-> Idle]

\* Mutant: the SELECT takes no lock.
Unlocked(p) == TRUE

LockFree(p) == lock[p] = None

Lock(q, p) == lock' = [lock EXCEPT ![p] = q]
Unlock(p) == lock' = [lock EXCEPT ![p] = None]
Become(q, r) == request' = [request EXCEPT ![q] = r]

ActiveOf(p) == {a \in Assignments : state[a] = "active" /\ profileOf[a] = p}
Taken(i, p) == \E a \in ActiveOf(p) : inverterOf[a] = i

\* Rows a suspension has revoked and not committed yet.
RowLocked(a) == \E q \in Requests : request[q].pc = "revoking" /\ a \in request[q].claimed

-----------------------------------------------------------------------------
(* Profiles.                                                               *)

\* createProfile: one profile per user, by a check and a unique index.
CreateProfile(p) ==
  /\ status[p] = "absent"
  /\ status' = [status EXCEPT ![p] = "pending"]
  /\ UNCHANGED <<rows, lock, request>>

\* updateStatus to anything but suspended: an UPDATE, which waits for the lock.
SetStatus(p, s) ==
  /\ status[p] # "absent"
  /\ LockFree(p)
  /\ status' = [status EXCEPT ![p] = s]
  /\ UNCHANGED <<rows, lock, request>>

\* updateStatus to suspended.
BeginSuspend(q, p) ==
  /\ request[q].pc = "idle"
  /\ status[p] # "absent"
  /\ LockFree(p)
  /\ Lock(q, p)
  /\ Become(q, [Idle EXCEPT !.pc = "suspending", !.profile = p])
  /\ UNCHANGED <<status, rows>>

RevokeAll(q) ==
  LET p == request[q].profile IN
  /\ request[q].pc = "suspending"
  /\ Become(q, [Idle EXCEPT !.pc = "revoking", !.profile = p, !.claimed = ActiveOf(p)])
  /\ UNCHANGED <<status, rows, lock>>

CommitSuspend(q) ==
  LET p == request[q].profile IN
  /\ request[q].pc = "revoking"
  /\ status' = [status EXCEPT ![p] = "suspended"]
  /\ state' = [a \in Assignments |->
                 IF a \in request[q].claimed THEN "revoked" ELSE state[a]]
  /\ Unlock(p)
  /\ Become(q, Idle)
  /\ UNCHANGED <<inverterOf, profileOf>>

-----------------------------------------------------------------------------
(* Assignments.                                                            *)

\* createAssignment has locked and read the profile; refused unless active.
BeginAssign(q, i, p) ==
  /\ request[q].pc = "idle"
  /\ status[p] = "active"
  /\ LockFree(p)
  /\ Lock(q, p)
  /\ Become(q, [Idle EXCEPT !.pc = "checking", !.profile = p, !.inverter = i])
  /\ UNCHANGED <<status, rows>>

CheckDuplicate(q) ==
  LET r == request[q] IN
  /\ r.pc = "checking"
  /\ ~ Taken(r.inverter, r.profile)
  /\ Become(q, [r EXCEPT !.pc = "inserting"])
  /\ UNCHANGED <<status, rows, lock>>

\* The unique index on active assignments has the last word.
CommitAssign(q, a) ==
  LET r == request[q] IN
  /\ r.pc = "inserting"
  /\ ~ Taken(r.inverter, r.profile)
  /\ state[a] = "absent"
  /\ state' = [state EXCEPT ![a] = "active"]
  /\ inverterOf' = [inverterOf EXCEPT ![a] = r.inverter]
  /\ profileOf' = [profileOf EXCEPT ![a] = r.profile]
  /\ Unlock(r.profile)
  /\ Become(q, Idle)
  /\ UNCHANGED status

\* revokeAssignment reads the row; refused unless it is active.
BeginRevoke(q, a) ==
  /\ request[q].pc = "idle"
  /\ state[a] = "active"
  /\ Become(q, [Idle EXCEPT !.pc = "withdrawing", !.claimed = {a}])
  /\ UNCHANGED <<status, rows, lock>>

\* Mutant: the assignment is looked up again by its pair, not by its id.
CommitRevokeByPair(q) ==
  /\ request[q].pc = "withdrawing"
  /\ state' = [b \in Assignments |->
                 IF \E a \in request[q].claimed : inverterOf[b] = inverterOf[a]
                 THEN "revoked" ELSE state[b]]
  /\ Become(q, Idle)
  /\ UNCHANGED <<status, inverterOf, profileOf, lock>>

\* ... and writes it by id.
CommitRevoke(q) ==
  /\ request[q].pc = "withdrawing"
  /\ \A a \in request[q].claimed : ~ RowLocked(a)
  /\ state' = [a \in Assignments |->
                 IF a \in request[q].claimed THEN "revoked" ELSE state[a]]
  /\ Become(q, Idle)
  /\ UNCHANGED <<status, inverterOf, profileOf, lock>>

\* A conflict, a database error or a crash: the transaction is rolled back.
RollBack(q) ==
  LET r == request[q] IN
  /\ r.pc # "idle"
  /\ lock' = IF r.pc = "withdrawing" THEN lock ELSE [lock EXCEPT ![r.profile] = None]
  /\ Become(q, Idle)
  /\ UNCHANGED <<status, rows>>

-----------------------------------------------------------------------------
Step(q) ==
  \/ \E p \in Profiles : BeginSuspend(q, p)
  \/ RevokeAll(q)
  \/ CommitSuspend(q)
  \/ \E i \in Inverters, p \in Profiles : BeginAssign(q, i, p)
  \/ CheckDuplicate(q)
  \/ \E a \in Assignments : CommitAssign(q, a)
  \/ \E a \in Assignments : BeginRevoke(q, a)
  \/ CommitRevoke(q)
  \/ RollBack(q)

Next ==
  \/ \E p \in Profiles : CreateProfile(p) \/ \E s \in {"pending", "active"} : SetStatus(p, s)
  \/ \E q \in Requests : Step(q)

Spec == Init /\ [][Next]_vars

-----------------------------------------------------------------------------
RequestType == [pc: {"idle", "suspending", "revoking", "checking", "inserting", "withdrawing"},
                profile: Profiles \cup {None}, inverter: Inverters \cup {None},
                claimed: SUBSET Assignments]

TypeOK ==
  /\ status \in [Profiles -> {"absent", "pending", "active", "suspended"}]
  /\ state \in [Assignments -> {"absent", "active", "revoked"}]
  /\ inverterOf \in [Assignments -> Inverters \cup {None}]
  /\ profileOf \in [Assignments -> Profiles \cup {None}]
  /\ \A a \in Assignments : state[a] # "absent" => /\ inverterOf[a] \in Inverters
                                                  /\ profileOf[a] \in Profiles
  /\ lock \in [Profiles -> Requests \cup {None}]
  /\ request \in [Requests -> RequestType]

\* "so no new assignments can be created against a profile mid-suspension"
\* (installers.service.ts): a suspended installer has no active assignment.
SuspendedHasNone == \A p \in Profiles : status[p] = "suspended" => ActiveOf(p) = {}

\* The profile's lock already serialises createAssignment: the unique index
\* never refuses a row whose duplicate check has passed.
IndexNeverRefuses ==
  \A q \in Requests : request[q].pc = "inserting"
                      => ~ Taken(request[q].inverter, request[q].profile)

Holder == [a \in Assignments |->
             IF state[a] = "active" THEN <<inverterOf[a], profileOf[a]>> ELSE None]

Book == INSTANCE AssignmentBook WITH holder <- Holder

\* Locks, checks, commits and rollbacks implement the atomic book.
ImplementsBook == Book!Spec
=============================================================================
