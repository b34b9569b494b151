--------------------- MODULE InstallerAssignmentsProofs ---------------------
(***************************************************************************)
(* Theorems about InstallerAssignments, for every number of profiles,      *)
(* inverters, assignments and concurrent requests.                         *)
(***************************************************************************)
EXTENDS InstallerAssignments, TLAPS

Locking == {"suspending", "revoking", "checking", "inserting"}

\* What a request may rely on while it is under way.
Relies(q) ==
  LET r == request[q] IN
  /\ r.pc \in Locking => r.profile \in Profiles /\ lock[r.profile] = q
  /\ r.pc \in {"checking", "inserting"} => /\ status[r.profile] = "active"
                                           /\ r.inverter \in Inverters
  /\ r.pc \in {"suspending", "revoking"} => status[r.profile] # "absent"
  /\ r.pc = "inserting" => ~ Taken(r.inverter, r.profile)
  /\ r.pc = "revoking" => r.claimed = ActiveOf(r.profile)
  /\ r.pc = "withdrawing" => \E a \in Assignments : r.claimed = {a} /\ state[a] # "absent"

Inv == TypeOK /\ (\A q \in Requests : Relies(q)) /\ SuspendedHasNone

LEMMA IdleType == Idle \in RequestType
BY DEF Idle, RequestType

LEMMA BecomeType ==
  ASSUME TypeOK, NEW q, NEW r \in RequestType, Become(q, r)
  PROVE  request' \in [Requests -> RequestType]
BY DEF TypeOK, Become

LEMMA LockType ==
  ASSUME TypeOK, NEW p, NEW q \in Requests \cup {None}, lock' = [lock EXCEPT ![p] = q]
  PROVE  lock' \in [Profiles -> Requests \cup {None}]
BY DEF TypeOK

\* A request that takes no part in a step keeps what it relies on if its
\* profile, its profile's lock and its profile's assignments are left alone.
LEMMA Frame ==
  ASSUME NEW q \in Requests, Relies(q), request'[q] = request[q],
         request[q].pc \in Locking =>
           LET p == request[q].profile IN
           /\ lock'[p] = lock[p]
           /\ status'[p] = status[p]
           /\ ActiveOf(p)' = ActiveOf(p)
           /\ \A a \in ActiveOf(p) : inverterOf'[a] = inverterOf[a],
         \A a \in Assignments : state[a] # "absent" => state'[a] # "absent"
  PROVE  Relies(q)'
BY DEF Relies, Locking, Taken

\* A request that just became idle relies on nothing.
LEMMA IdleRelies ==
  ASSUME TypeOK, NEW q \in Requests, Become(q, Idle)
  PROVE  Relies(q)'
<1>1. request'[q].pc = "idle"
  BY DEF TypeOK, Become, Idle
<1> QED
  BY <1>1 DEF Relies, Locking

\* Two requests never hold the lock of one profile.
LEMMA Exclusion ==
  ASSUME NEW v \in Requests, NEW w \in Requests, Relies(v), Relies(w), v # w,
         request[v].pc \in Locking, request[w].pc \in Locking
  PROVE  request[v].profile # request[w].profile
BY DEF Relies

LEMMA InitInv == Init => Inv
<1> SUFFICES ASSUME Init PROVE Inv
  OBVIOUS
<1>1. TypeOK
  BY IdleType DEF Init, TypeOK
<1>2. \A q \in Requests : Relies(q)
  BY DEF Init, Idle, Relies, Locking
<1>3. SuspendedHasNone
  BY DEF Init, SuspendedHasNone
<1> QED
  BY <1>1, <1>2, <1>3 DEF Inv

-----------------------------------------------------------------------------
\* One lemma per action: the invariant survives it.

LEMMA CreateProfileInv ==
  ASSUME Inv, NEW p \in Profiles, CreateProfile(p)
  PROVE  Inv'
<1> USE DEF CreateProfile, rows
<1>1. TypeOK'
  BY DEF Inv, TypeOK
<1>2. ASSUME NEW q \in Requests PROVE Relies(q)'
  BY Frame DEF Inv, TypeOK, Relies, ActiveOf, Taken, Locking
<1>3. SuspendedHasNone'
  BY DEF Inv, TypeOK, SuspendedHasNone, ActiveOf
<1> QED
  BY <1>1, <1>2, <1>3 DEF Inv

LEMMA SetStatusInv ==
  ASSUME Inv, NEW p \in Profiles, NEW s \in {"pending", "active"}, SetStatus(p, s)
  PROVE  Inv'
<1> USE DEF SetStatus, rows, LockFree
<1>1. TypeOK'
  BY DEF Inv, TypeOK
<1>2. ASSUME NEW q \in Requests PROVE Relies(q)'
  <2>1. request[q].pc \in Locking => request[q].profile # p
    BY NoneAssumption DEF Inv, Relies
  <2> QED
    BY <2>1, Frame DEF Inv, TypeOK, ActiveOf
<1>3. SuspendedHasNone'
  BY DEF Inv, TypeOK, SuspendedHasNone, ActiveOf
<1> QED
  BY <1>1, <1>2, <1>3 DEF Inv

LEMMA BeginSuspendInv ==
  ASSUME Inv, NEW q \in Requests, NEW p \in Profiles, BeginSuspend(q, p)
  PROVE  Inv'
<1> DEFINE r == [Idle EXCEPT !.pc = "suspending", !.profile = p]
<1>1. r \in RequestType /\ r.pc = "suspending" /\ r.profile = p
  BY DEF Idle, RequestType
<1> HIDE DEF r
<1>2. /\ Become(q, r) /\ Lock(q, p) /\ LockFree(p) /\ status[p] # "absent"
      /\ UNCHANGED <<status, state, inverterOf, profileOf>>
  BY DEF BeginSuspend, rows, r
<1>3. TypeOK'
  BY <1>1, <1>2, BecomeType, LockType DEF Inv, TypeOK, Lock
<1>4. request'[q] = r /\ lock'[p] = q
  BY <1>2 DEF Become, Lock, Inv, TypeOK
<1>5. ASSUME NEW w \in Requests PROVE Relies(w)'
  <2>1. CASE w = q
    BY <1>1, <1>2, <1>4, <2>1 DEF Relies, Locking
  <2>2. CASE w # q
    <3>1. request[w].pc \in Locking => request[w].profile # p
      BY <1>2, NoneAssumption DEF Inv, Relies, LockFree
    <3> QED
      BY <1>2, <2>2, <3>1, Frame DEF Inv, TypeOK, ActiveOf, Become, Lock
  <2> QED
    BY <2>1, <2>2
<1>6. SuspendedHasNone'
  BY <1>2 DEF Inv, SuspendedHasNone, ActiveOf
<1> QED
  BY <1>3, <1>5, <1>6 DEF Inv

LEMMA RevokeAllInv ==
  ASSUME Inv, NEW q \in Requests, RevokeAll(q)
  PROVE  Inv'
<1> DEFINE p == request[q].profile
           r == [Idle EXCEPT !.pc = "revoking", !.profile = p, !.claimed = ActiveOf(p)]
<1>1. p \in Profiles /\ lock[p] = q /\ status[p] # "absent"
  BY DEF RevokeAll, Inv, Relies, Locking
<1>2. ActiveOf(p) \subseteq Assignments
  BY DEF ActiveOf
<1>3. /\ r \in RequestType
      /\ r.pc = "revoking" /\ r.profile = p /\ r.claimed = ActiveOf(p)
  BY <1>1, <1>2 DEF Idle, RequestType
<1>4. Become(q, r) /\ UNCHANGED <<status, state, inverterOf, profileOf, lock>>
  BY DEF RevokeAll, rows
<1> HIDE DEF r, p
<1>5. TypeOK'
  BY <1>3, <1>4, BecomeType DEF Inv, TypeOK
<1>6. request'[q] = r
  BY <1>4 DEF Become, Inv, TypeOK
<1>7. ASSUME NEW w \in Requests PROVE Relies(w)'
  <2>1. CASE w = q
    BY <1>1, <1>3, <1>4, <1>6, <2>1 DEF Relies, Locking, ActiveOf
  <2>2. CASE w # q
    BY <1>4, <2>2, Frame DEF Inv, TypeOK, ActiveOf, Become
  <2> QED
    BY <2>1, <2>2
<1>8. SuspendedHasNone'
  BY <1>4 DEF Inv, SuspendedHasNone, ActiveOf
<1> QED
  BY <1>5, <1>7, <1>8 DEF Inv

LEMMA CommitSuspendInv ==
  ASSUME Inv, NEW q \in Requests, CommitSuspend(q)
  PROVE  Inv'
<1> DEFINE p == request[q].profile
<1>1. p \in Profiles /\ lock[p] = q /\ request[q].claimed = ActiveOf(p)
  BY DEF CommitSuspend, Inv, Relies, Locking
<1>2. /\ status' = [status EXCEPT ![p] = "suspended"]
      /\ state' = [a \in Assignments |-> IF a \in ActiveOf(p) THEN "revoked" ELSE state[a]]
      /\ lock' = [lock EXCEPT ![p] = None]
      /\ Become(q, Idle)
      /\ UNCHANGED <<inverterOf, profileOf>>
  BY <1>1 DEF CommitSuspend, Unlock
<1>3. request[q].pc \in Locking
  BY DEF CommitSuspend, Locking
<1> HIDE DEF p
<1>4. TypeOK'
  <2>1. request' \in [Requests -> RequestType]
    BY <1>2, IdleType, BecomeType DEF Inv
  <2>2. lock' \in [Profiles -> Requests \cup {None}]
    BY <1>2, LockType DEF Inv
  <2> QED
    BY <1>2, <2>1, <2>2 DEF Inv, TypeOK, ActiveOf
<1>5. ASSUME NEW w \in Requests PROVE Relies(w)'
  <2>1. CASE w = q
    BY <1>2, <2>1, IdleRelies DEF Inv
  <2>2. CASE w # q
    <3>1. request[w].pc \in Locking => request[w].profile # p
      BY <1>3, <2>2, Exclusion DEF Inv, p
    <3>2. \A x \in Profiles : x # p => ActiveOf(x)' = ActiveOf(x)
      BY <1>2 DEF ActiveOf
    <3>3. request[w].pc \in Locking => request[w].profile \in Profiles
      BY DEF Inv, Relies
    <3>4. request'[w] = request[w]
      BY <1>2, <2>2 DEF Become, Inv, TypeOK
    <3>5. \A a \in Assignments : state[a] # "absent" => state'[a] # "absent"
      BY <1>2
    <3>6. request[w].pc \in Locking =>
            /\ lock'[request[w].profile] = lock[request[w].profile]
            /\ status'[request[w].profile] = status[request[w].profile]
      BY <1>2, <3>1, <3>3 DEF Inv, TypeOK
    <3> QED
      BY <1>2, <3>1, <3>2, <3>3, <3>4, <3>5, <3>6, Frame DEF Inv
  <2> QED
    BY <2>1, <2>2
<1>6. SuspendedHasNone'
  BY <1>1, <1>2 DEF Inv, TypeOK, SuspendedHasNone, ActiveOf
<1> QED
  BY <1>4, <1>5, <1>6 DEF Inv

LEMMA BeginAssignInv ==
  ASSUME Inv, NEW q \in Requests, NEW i \in Inverters, NEW p \in Profiles, BeginAssign(q, i, p)
  PROVE  Inv'
<1> DEFINE r == [Idle EXCEPT !.pc = "checking", !.profile = p, !.inverter = i]
<1>1. r \in RequestType /\ r.pc = "checking" /\ r.profile = p /\ r.inverter = i
  BY DEF Idle, RequestType
<1> HIDE DEF r
<1>2. /\ Become(q, r) /\ Lock(q, p) /\ LockFree(p) /\ status[p] = "active"
      /\ UNCHANGED <<status, state, inverterOf, profileOf>>
  BY DEF BeginAssign, rows, r
<1>3. TypeOK'
  BY <1>1, <1>2, BecomeType, LockType DEF Inv, TypeOK, Lock
<1>4. request'[q] = r /\ lock'[p] = q
  BY <1>2 DEF Become, Lock, Inv, TypeOK
<1>5. ASSUME NEW w \in Requests PROVE Relies(w)'
  <2>1. CASE w = q
    BY <1>1, <1>2, <1>4, <2>1 DEF Relies, Locking
  <2>2. CASE w # q
    <3>1. request[w].pc \in Locking => request[w].profile # p
      BY <1>2, NoneAssumption DEF Inv, Relies, LockFree
    <3> QED
      BY <1>2, <2>2, <3>1, Frame DEF Inv, TypeOK, ActiveOf, Become, Lock
  <2> QED
    BY <2>1, <2>2
<1>6. SuspendedHasNone'
  BY <1>2 DEF Inv, SuspendedHasNone, ActiveOf
<1> QED
  BY <1>3, <1>5, <1>6 DEF Inv

LEMMA CheckDuplicateInv ==
  ASSUME Inv, NEW q \in Requests, CheckDuplicate(q)
  PROVE  Inv'
<1> DEFINE r == [request[q] EXCEPT !.pc = "inserting"]
<1>1. /\ r \in RequestType /\ r.pc = "inserting"
      /\ r.profile = request[q].profile /\ r.inverter = request[q].inverter
  BY DEF Inv, TypeOK, RequestType
<1> HIDE DEF r
<1>2. /\ Become(q, r) /\ request[q].pc = "checking"
      /\ ~ Taken(request[q].inverter, request[q].profile)
      /\ UNCHANGED <<status, state, inverterOf, profileOf, lock>>
  BY DEF CheckDuplicate, rows, r
<1>3. TypeOK'
  BY <1>1, <1>2, BecomeType DEF Inv, TypeOK
<1>4. request'[q] = r
  BY <1>2 DEF Become, Inv, TypeOK
<1>5. ASSUME NEW w \in Requests PROVE Relies(w)'
  <2>1. CASE w = q
    BY <1>1, <1>2, <1>4, <2>1 DEF Inv, Relies, Locking, Taken, ActiveOf
  <2>2. CASE w # q
    BY <1>2, <2>2, Frame DEF Inv, TypeOK, ActiveOf, Become
  <2> QED
    BY <2>1, <2>2
<1>6. SuspendedHasNone'
  BY <1>2 DEF Inv, SuspendedHasNone, ActiveOf
<1> QED
  BY <1>3, <1>5, <1>6 DEF Inv
LEMMA CommitAssignInv ==
  ASSUME Inv, NEW q \in Requests, NEW a \in Assignments, CommitAssign(q, a)
  PROVE  Inv'
<1> DEFINE p == request[q].profile
           i == request[q].inverter
<1>1. p \in Profiles /\ i \in Inverters /\ status[p] = "active" /\ request[q].pc \in Locking
  BY DEF CommitAssign, Inv, Relies, Locking
<1>2. /\ state[a] = "absent"
      /\ state' = [state EXCEPT ![a] = "active"]
      /\ inverterOf' = [inverterOf EXCEPT ![a] = i]
      /\ profileOf' = [profileOf EXCEPT ![a] = p]
      /\ lock' = [lock EXCEPT ![p] = None]
      /\ Become(q, Idle)
      /\ UNCHANGED status
  BY DEF CommitAssign, Unlock
<1> HIDE DEF p, i
<1>3. TypeOK'
  <2>1. request' \in [Requests -> RequestType]
    BY <1>2, IdleType, BecomeType DEF Inv
  <2>2. lock' \in [Profiles -> Requests \cup {None}]
    BY <1>2, LockType DEF Inv
  <2> QED
    BY <1>1, <1>2, <2>1, <2>2 DEF Inv, TypeOK
<1>4. \A x \in Profiles : x # p => ActiveOf(x)' = ActiveOf(x)
  BY <1>2 DEF ActiveOf, Inv, TypeOK
<1>5. ASSUME NEW w \in Requests PROVE Relies(w)'
  <2>1. CASE w = q
    BY <1>2, <2>1, IdleRelies DEF Inv
  <2>2. CASE w # q
    <3>1. request[w].pc \in Locking => request[w].profile \in Profiles /\ request[w].profile # p
      BY <1>1, <2>2, Exclusion DEF Inv, Relies, p
    <3>2. request'[w] = request[w]
      BY <1>2, <2>2 DEF Become, Inv, TypeOK
    <3>3. \A b \in Assignments : state[b] # "absent" => state'[b] # "absent"
      BY <1>2 DEF Inv, TypeOK
    <3>4. request[w].pc \in Locking =>
            /\ lock'[request[w].profile] = lock[request[w].profile]
            /\ status'[request[w].profile] = status[request[w].profile]
      BY <1>2, <3>1 DEF Inv, TypeOK
    <3>5. \A x : \A b \in ActiveOf(x) : inverterOf'[b] = inverterOf[b]
      BY <1>2 DEF ActiveOf, Inv, TypeOK
    <3> QED
      BY <1>4, <3>1, <3>2, <3>3, <3>4, <3>5, Frame DEF Inv
  <2> QED
    BY <2>1, <2>2
<1>6. SuspendedHasNone'
  BY <1>1, <1>2, <1>4 DEF Inv, SuspendedHasNone
<1> QED
  BY <1>3, <1>5, <1>6 DEF Inv

LEMMA BeginRevokeInv ==
  ASSUME Inv, NEW q \in Requests, NEW a \in Assignments, BeginRevoke(q, a)
  PROVE  Inv'
<1> DEFINE r == [Idle EXCEPT !.pc = "withdrawing", !.claimed = {a}]
<1>1. r \in RequestType /\ r.pc = "withdrawing" /\ r.claimed = {a}
  BY DEF Idle, RequestType
<1> HIDE DEF r
<1>2. /\ Become(q, r) /\ state[a] = "active"
      /\ UNCHANGED <<status, state, inverterOf, profileOf, lock>>
  BY DEF BeginRevoke, rows, r
<1>3. TypeOK'
  BY <1>1, <1>2, BecomeType DEF Inv, TypeOK
<1>4. request'[q] = r
  BY <1>2 DEF Become, Inv, TypeOK
<1>5. ASSUME NEW w \in Requests PROVE Relies(w)'
  <2>1. CASE w = q
    BY <1>1, <1>2, <1>4, <2>1 DEF Relies, Locking
  <2>2. CASE w # q
    BY <1>2, <2>2, Frame DEF Inv, TypeOK, ActiveOf, Become
  <2> QED
    BY <2>1, <2>2
<1>6. SuspendedHasNone'
  BY <1>2 DEF Inv, SuspendedHasNone, ActiveOf
<1> QED
  BY <1>3, <1>5, <1>6 DEF Inv

LEMMA CommitRevokeInv ==
  ASSUME Inv, NEW q \in Requests, CommitRevoke(q)
  PROVE  Inv'
<1>1. PICK a \in Assignments : request[q].claimed = {a} /\ state[a] # "absent"
  BY DEF CommitRevoke, Inv, Relies
<1>2. /\ state' = [b \in Assignments |-> IF b = a THEN "revoked" ELSE state[b]]
      /\ Become(q, Idle) /\ ~ RowLocked(a)
      /\ UNCHANGED <<status, inverterOf, profileOf, lock>>
  BY <1>1 DEF CommitRevoke
<1>3. TypeOK'
  <2>1. request' \in [Requests -> RequestType]
    BY <1>2, IdleType, BecomeType DEF Inv
  <2> QED
    BY <1>1, <1>2, <2>1 DEF Inv, TypeOK
<1>4. \A x : ActiveOf(x)' = ActiveOf(x) \ {a}
  BY <1>2 DEF ActiveOf
<1>5. ASSUME NEW w \in Requests PROVE Relies(w)'
  <2>1. CASE w = q
    BY <1>2, <2>1, IdleRelies DEF Inv
  <2>2. CASE w # q
    <3>1. request'[w] = request[w]
      BY <1>2, <2>2 DEF Become, Inv, TypeOK
    <3>2. request[w].pc = "revoking" => a \notin request[w].claimed
      BY <1>2 DEF RowLocked
    <3>3. state[a] # "absent" /\ \A b \in Assignments : state[b] # "absent" => state'[b] # "absent"
      BY <1>1, <1>2
    <3>4. UNCHANGED <<lock, status>> /\ Relies(w)
      BY <1>2 DEF Inv
    <3>5. request[w].pc = "revoking" => ActiveOf(request[w].profile)' = ActiveOf(request[w].profile)
      BY <1>4, <3>1, <3>2, <3>4 DEF Relies
    <3>6. request[w].pc = "inserting" => ~ Taken(request[w].inverter, request[w].profile)'
      BY <1>2, <1>4, <3>1, <3>4 DEF Relies, Taken
    <3> HIDE DEF ActiveOf, Taken
    <3> QED
      BY <3>1, <3>3, <3>4, <3>5, <3>6 DEF Relies, Locking
  <2> QED
    BY <2>1, <2>2
<1>6. SuspendedHasNone'
  BY <1>2, <1>4 DEF Inv, SuspendedHasNone
<1> QED
  BY <1>3, <1>5, <1>6 DEF Inv

LEMMA RollBackInv ==
  ASSUME Inv, NEW q \in Requests, RollBack(q)
  PROVE  Inv'
<1> DEFINE p == request[q].profile
<1>1. Become(q, Idle) /\ UNCHANGED <<status, state, inverterOf, profileOf>>
  BY DEF RollBack, rows
<1>2. lock' = lock \/ (lock' = [lock EXCEPT ![p] = None] /\ request[q].pc \in Locking)
  BY DEF RollBack, Inv, TypeOK, RequestType, Locking
<1> HIDE DEF p
<1>3. TypeOK'
  <2>1. request' \in [Requests -> RequestType]
    BY <1>1, IdleType, BecomeType DEF Inv
  <2>2. lock' \in [Profiles -> Requests \cup {None}]
    BY <1>2, LockType DEF Inv, TypeOK
  <2> QED
    BY <1>1, <2>1, <2>2 DEF Inv, TypeOK
<1>4. ASSUME NEW w \in Requests PROVE Relies(w)'
  <2>1. CASE w = q
    BY <1>1, <2>1, IdleRelies DEF Inv
  <2>2. CASE w # q
    <3>1. request'[w] = request[w]
      BY <1>1, <2>2 DEF Become, Inv, TypeOK
    <3>2. request[w].pc \in Locking => lock'[request[w].profile] = lock[request[w].profile]
      BY <1>2, <2>2, Exclusion DEF Inv, Relies, TypeOK, p
    <3>3. \A x : ActiveOf(x)' = ActiveOf(x)
      BY <1>1 DEF ActiveOf
    <3> QED
      BY <1>1, <3>1, <3>2, <3>3, Frame DEF Inv
  <2> QED
    BY <2>1, <2>2
<1>5. SuspendedHasNone'
  BY <1>1 DEF Inv, SuspendedHasNone, ActiveOf
<1> QED
  BY <1>3, <1>4, <1>5 DEF Inv

LEMMA NextInv == Inv /\ [Next]_vars => Inv'
<1> SUFFICES ASSUME Inv, [Next]_vars PROVE Inv'
  OBVIOUS
<1>1. CASE UNCHANGED vars
  BY <1>1 DEF vars, Inv, TypeOK, Relies, SuspendedHasNone, ActiveOf, Taken
<1>2. ASSUME NEW p \in Profiles,
             CreateProfile(p) \/ \E s \in {"pending", "active"} : SetStatus(p, s)
      PROVE  Inv'
  BY <1>2, CreateProfileInv, SetStatusInv
<1>3. ASSUME NEW q \in Requests, Step(q) PROVE Inv'
  BY <1>3, BeginSuspendInv, RevokeAllInv, CommitSuspendInv, BeginAssignInv,
     CheckDuplicateInv, CommitAssignInv, BeginRevokeInv, CommitRevokeInv, RollBackInv DEF Step
<1> QED
  BY <1>1, <1>2, <1>3 DEF Next

LEMMA Invariance == Spec => []Inv
BY InitInv, NextInv, PTL DEF Spec

-----------------------------------------------------------------------------
\* Profiles, assignments, locks and requests are well typed.
THEOREM TypeCorrect == Spec => []TypeOK
<1>1. Inv => TypeOK
  BY DEF Inv
<1> QED
  BY <1>1, Invariance, PTL

\* A suspended installer has no active assignment, however requests interleave.
THEOREM SuspensionRevokes == Spec => []SuspendedHasNone
<1>1. Inv => SuspendedHasNone
  BY DEF Inv
<1> QED
  BY <1>1, Invariance, PTL

\* The unique index never has to refuse what the duplicate check let through.
THEOREM LockSuffices == Spec => []IndexNeverRefuses
<1>1. Inv => IndexNeverRefuses
  BY DEF Inv, Relies, IndexNeverRefuses
<1> QED
  BY <1>1, Invariance, PTL

-----------------------------------------------------------------------------
\* The rows held for a profile are its active rows.
LEMMA HeldIsActive ==
  ASSUME TypeOK, NEW p \in Profiles
  PROVE  Book!HeldBy(p) = ActiveOf(p)
<1>1. ASSUME NEW a \in Assignments
      PROVE  (\E i \in Inverters : Holder[a] = <<i, p>>) <=> state[a] = "active" /\ profileOf[a] = p
  BY NoneAssumption DEF Holder, TypeOK
<1> QED
  BY <1>1 DEF Book!HeldBy, ActiveOf

\* A step that leaves the committed rows alone is a stutter of the book.
LEMMA HolderFrame ==
  ASSUME UNCHANGED rows
  PROVE  UNCHANGED Holder
BY DEF rows, Holder

LEMMA BookStep == Inv /\ [Next]_vars => [Book!Next]_<<status, Holder>>
<1> SUFFICES ASSUME Inv, [Next]_vars
             PROVE  Book!Next \/ UNCHANGED <<status, Holder>>
  OBVIOUS
<1>1. CASE UNCHANGED vars
  BY <1>1, HolderFrame DEF vars, rows
<1>2. ASSUME NEW p \in Profiles, CreateProfile(p) PROVE Book!Next
  BY <1>2, HolderFrame DEF CreateProfile, Book!Next, Book!Open
<1>3. ASSUME NEW p \in Profiles, NEW s \in {"pending", "active"}, SetStatus(p, s)
      PROVE  Book!Next
  BY <1>3, HolderFrame DEF SetStatus, Book!Next, Book!Change
<1>4. ASSUME NEW q \in Requests, Step(q) PROVE Book!Next \/ UNCHANGED <<status, Holder>>
  <2>1. CASE CommitSuspend(q)
    <3> DEFINE p == request[q].profile
    <3>1. p \in Profiles /\ request[q].claimed = ActiveOf(p) /\ lock[p] = q
      BY <2>1 DEF CommitSuspend, Inv, Relies, Locking
    <3>2. status' = [status EXCEPT ![p] = "suspended"]
      BY <2>1 DEF CommitSuspend
    <3>3. Holder' = [a \in Assignments |-> IF a \in Book!HeldBy(p) THEN None ELSE Holder[a]]
      BY <2>1, <3>1, HeldIsActive DEF CommitSuspend, Holder, Inv
    <3>4. status[p] # "absent"
      BY <2>1 DEF CommitSuspend, Inv, Relies
    <3> QED
      BY <3>1, <3>2, <3>3, <3>4 DEF Book!Next, Book!Suspend
  <2>2. ASSUME NEW a \in Assignments, CommitAssign(q, a) PROVE Book!Next
    <3> DEFINE p == request[q].profile
               i == request[q].inverter
    <3>1. p \in Profiles /\ i \in Inverters /\ status[p] = "active" /\ ~ Taken(i, p)
      BY <2>2 DEF CommitAssign, Inv, Relies, Locking
    <3>2. \A b \in Assignments : Holder[b] # <<i, p>>
      BY <3>1, NoneAssumption DEF Holder, Taken, ActiveOf
    <3>3. Holder' = [Holder EXCEPT ![a] = <<i, p>>] /\ UNCHANGED status
      BY <2>2 DEF CommitAssign, Holder, Inv, TypeOK
    <3> QED
      BY <3>1, <3>2, <3>3 DEF Book!Next, Book!Assign
  <2>3. CASE CommitRevoke(q)
    <3>1. PICK a \in Assignments : request[q].claimed = {a}
      BY <2>3 DEF CommitRevoke, Inv, Relies
    <3>2. Holder' = [Holder EXCEPT ![a] = None] /\ UNCHANGED status
      BY <2>3, <3>1 DEF CommitRevoke, Holder
    <3> QED
      BY <3>2 DEF Book!Next, Book!Revoke
  <2>4. CASE \/ \E p \in Profiles : BeginSuspend(q, p)
             \/ RevokeAll(q)
             \/ \E i \in Inverters, p \in Profiles : BeginAssign(q, i, p)
             \/ CheckDuplicate(q)
             \/ \E a \in Assignments : BeginRevoke(q, a)
             \/ RollBack(q)
    BY <2>4, HolderFrame
    DEF BeginSuspend, RevokeAll, BeginAssign, CheckDuplicate, BeginRevoke, RollBack
  <2> QED
    BY <1>4, <2>1, <2>2, <2>3, <2>4 DEF Step
<1> QED
  BY <1>1, <1>2, <1>3, <1>4 DEF Next

\* Requests that lock, check, commit and roll back implement the atomic book.
THEOREM RequestsImplementBook == Spec => ImplementsBook
<1>1. Init => Book!Init
  BY DEF Init, Book!Init, Holder
<1> QED
  BY <1>1, BookStep, Invariance, PTL DEF Spec, ImplementsBook, Book!Spec, Book!bookVars
=============================================================================
