--------------------------- MODULE AccountsProofs ---------------------------
(***************************************************************************)
(* Theorems about the systems that MCAccounts puts side by side: the       *)
(* members of an inverter (TeamAccess), the reports of a series            *)
(* (ReportSeries), the grades of a reading (Grading), the figures computed *)
(* from its rows (EnergySavings) and, by the theorems of OnboardingProofs, *)
(* the sign-up.  They hold for any numbers of people, rows, tokens,        *)
(* requests, failures, reports and readings.                               *)
(***************************************************************************)
EXTENDS MCAccounts, Sequences, FiniteSetTheorems, WellFoundedInduction, TLAPS

-----------------------------------------------------------------------------
(* The members of an inverter.                                             *)

\* Every token is one row's, also after the row has been given another one.
Tokened ==
  /\ \A m \in Rows : member[m].token \in issued \cup {None}
  /\ \A m, n \in Rows : member[m].token # None /\ member[m].token = member[n].token => m = n
  /\ spent \subseteq issued

\* What a request that accepts may rely on until it activates its row: a row keeps
\* the address it was inserted with, whatever else happens to it.
Relies(q) ==
  LET r == request[q] IN
  /\ r.pc \in {"reviving", "ranking", "revoking"} => r.row \in Rows
  /\ r.pc \in {"joining", "activating"} =>
       /\ r.row \in Rows /\ r.email \in People /\ r.token \in issued
       /\ member[r.row].status # "absent"
       /\ member[r.row].email = r.email
       /\ \A n \in Rows : member[n].token = r.token => n = r.row
  /\ r.pc = "activating" => r.user = r.email /\ r.email \in account

\* A token that has been used is no longer that of an invite.
UsedUp == \A m \in Rows : member[m].token \in spent => member[m].status # "invited"

Inv ==
  /\ TypeOK
  /\ Tokened
  /\ \A q \in Requests : Relies(q)
  /\ MembersWereInvited
  /\ UsedUp

book == <<member, account, issued, spent>>

LEMMA IdleType == Idle \in RequestType
BY DEF Idle, RequestType

LEMMA BecomeType ==
  ASSUME TypeOK, NEW q, NEW r \in RequestType, Become(q, r)
  PROVE  request' \in [Requests -> RequestType]
BY DEF TypeOK, Become

LEMMA InitInv == Init => Inv
<1> SUFFICES ASSUME Init PROVE Inv
  OBVIOUS
<1>1. TypeOK
  <2>1. Absent \in MemberType
    BY DEF Absent, MemberType
  <2> QED
    BY <2>1, IdleType, TeamAssumption DEF Init, TypeOK
<1>2. \A q \in Requests : Relies(q)
  BY DEF Init, Idle, Relies
<1>3. Tokened /\ MembersWereInvited /\ UsedUp
  BY DEF Init, Absent, Tokened, MembersWereInvited, UsedUp
<1> QED
  BY <1>1, <1>2, <1>3 DEF Inv

-----------------------------------------------------------------------------
(* Steps that leave the book alone.                                        *)

\* A request goes on, and may rely on what it found.
LEMMA GoOn ==
  ASSUME Inv, NEW q \in Requests, NEW r \in RequestType, Become(q, r),
         member' = member, account' = account, issued' = issued, spent' = spent,
         faults' \in 0..MaxFaults, Relies(q)'
  PROVE  Inv'
<1>1. TypeOK'
  BY BecomeType DEF Inv, TypeOK
<1>2. ASSUME NEW w \in Requests PROVE Relies(w)'
  BY DEF Inv, TypeOK, Become, Relies
<1>3. Tokened' /\ MembersWereInvited' /\ UsedUp'
  BY DEF Inv, Tokened, MembersWereInvited, UsedUp
<1> QED
  BY <1>1, <1>2, <1>3 DEF Inv

\* Or it ends, or waits for a statement that relies on nothing.
LEMMA GoAway ==
  ASSUME Inv, NEW q \in Requests, NEW r \in RequestType, Become(q, r),
         r.pc \notin {"joining", "activating"},
         r.pc \in {"reviving", "ranking", "revoking"} => r.row \in Rows,
         member' = member, account' = account, issued' = issued, spent' = spent,
         faults' \in 0..MaxFaults
  PROVE  Inv'
<1>1. request'[q] = r
  BY DEF Inv, TypeOK, Become
<1>2. Relies(q)'
  BY <1>1 DEF Relies
<1> QED
  BY <1>2, GoOn

LEMMA BeginInviteInv ==
  ASSUME Inv, NEW q \in Requests, NEW by, NEW e \in People, NEW role \in Roles,
         BeginInvite(q, by, e, role)
  PROVE  Inv'
<1> DEFINE first == [Idle EXCEPT !.pc = "addressing", !.email = e, !.role = role]
           again(m) == [Idle EXCEPT !.pc = "reviving", !.row = m, !.role = role]
<1>1. first \in RequestType /\ first.pc = "addressing"
  BY DEF Idle, RequestType
<1>2. ASSUME NEW m \in Rows PROVE again(m) \in RequestType /\ again(m).pc = "reviving" /\ again(m).row = m
  BY DEF Idle, RequestType
<1>3. \/ Become(q, first)
      \/ \E m \in Rows : Become(q, again(m))
  BY DEF BeginInvite
<1>4. UNCHANGED book /\ faults' \in 0..MaxFaults
  BY DEF BeginInvite, book, Inv, TypeOK
<1> HIDE DEF first, again
<1>5. CASE Become(q, first)
  BY <1>1, <1>4, <1>5, GoAway DEF book
<1>6. ASSUME NEW m \in Rows, Become(q, again(m)) PROVE Inv'
  BY <1>2, <1>4, <1>6, GoAway DEF book
<1> QED
  BY <1>3, <1>5, <1>6

LEMMA FindAddresseeInv ==
  ASSUME Inv, NEW q \in Requests, FindAddressee(q)
  PROVE  Inv'
<1> DEFINE e == request[q].email
           r == [request[q] EXCEPT !.pc = "inserting", !.user = IF e \in account THEN e ELSE None]
<1>1. r \in RequestType /\ r.pc = "inserting"
  BY DEF Inv, TypeOK, RequestType
<1>2. Become(q, r) /\ UNCHANGED book /\ faults' \in 0..MaxFaults
  BY DEF FindAddressee, book, Inv, TypeOK
<1> HIDE DEF r
<1> QED
  BY <1>1, <1>2, GoAway DEF book

\* The ends of requests that change nothing.
LEMMA GiveUpInv ==
  ASSUME Inv, NEW q \in Requests,
         InsertRefused(q) \/ ReviveRefused(q) \/ ActivateRefused(q) \/ Fail(q)
  PROVE  Inv'
<1>1. Become(q, Idle) /\ UNCHANGED book /\ faults' \in 0..MaxFaults
  BY TeamAssumption
  DEF InsertRefused, ReviveRefused, ActivateRefused, Fail, Done, book, Inv, TypeOK
<1>2. Idle.pc = "idle"
  BY DEF Idle
<1> QED
  BY <1>1, <1>2, IdleType, GoAway DEF book

LEMMA BeginChangeInv ==
  ASSUME Inv, NEW q \in Requests, NEW by, NEW m \in Rows,
         BeginRevoke(q, by, m) \/ \E role \in Roles : BeginRoleChange(q, by, m, role)
  PROVE  Inv'
<1>1. PICK r \in RequestType : Become(q, r) /\ r.pc \in {"revoking", "ranking"} /\ r.row = m
  <2>1. [Idle EXCEPT !.pc = "revoking", !.row = m] \in RequestType
    BY DEF Idle, RequestType
  <2>2. \A role \in Roles : [Idle EXCEPT !.pc = "ranking", !.row = m, !.role = role] \in RequestType
    BY DEF Idle, RequestType
  <2> QED
    BY <2>1, <2>2 DEF BeginRevoke, BeginRoleChange, Idle
<1>2. UNCHANGED book /\ faults' \in 0..MaxFaults
  BY DEF BeginRevoke, BeginRoleChange, book, Inv, TypeOK
<1> QED
  BY <1>1, <1>2, GoAway DEF book

LEMMA BeginAcceptInv ==
  ASSUME Inv, NEW q \in Requests, NEW e \in People, NEW t \in Tokens, BeginAccept(q, e, t)
  PROVE  Inv'
<1>1. PICK m \in Rows :
        /\ InviteFor(m, t, e)
        /\ \/ Become(q, [Idle EXCEPT !.pc = "joining", !.email = e, !.row = m, !.token = t])
           \/ /\ e \in account
              /\ Become(q, [Idle EXCEPT !.pc = "activating", !.email = e, !.row = m, !.token = t,
                                         !.user = e])
  BY DEF BeginAccept
<1>2. PICK r \in RequestType : /\ Become(q, r)
                               /\ r.pc \in {"joining", "activating"}
                               /\ r.pc = "activating" => e \in account /\ r.user = e
                               /\ r.email = e /\ r.row = m /\ r.token = t
  <2>1. LET r == [Idle EXCEPT !.pc = "joining", !.email = e, !.row = m, !.token = t]
        IN r \in RequestType /\ r.pc = "joining" /\ r.email = e /\ r.row = m /\ r.token = t
    BY DEF Idle, RequestType
  <2>2. LET r == [Idle EXCEPT !.pc = "activating", !.email = e, !.row = m, !.token = t, !.user = e]
        IN /\ r \in RequestType /\ r.pc = "activating" /\ r.email = e /\ r.row = m /\ r.token = t
           /\ r.user = e
    BY DEF Idle, RequestType
  <2> QED
    BY <1>1, <2>1, <2>2
<1>3. UNCHANGED book /\ faults' \in 0..MaxFaults
  BY DEF BeginAccept, book, Inv, TypeOK
<1>4. request'[q] = r
  BY <1>2 DEF Become, Inv, TypeOK
<1>5. t \in issued /\ t # None /\ \A n \in Rows : member[n].token = t => n = m
  BY <1>1, TeamAssumption DEF InviteFor, Inv, Tokened
<1>6. Relies(q)'
  BY <1>1, <1>2, <1>3, <1>4, <1>5 DEF Relies, InviteFor, book
<1> QED
  BY <1>2, <1>3, <1>6, GoOn DEF book

-----------------------------------------------------------------------------
(* Steps that write one row.                                               *)

\* What a request relies on outlives any write that leaves its row present, with its
\* address, and gives its token to no other row.
LEMMA Frame ==
  ASSUME NEW q \in Requests, Relies(q), request'[q] = request[q],
         \A n \in Rows : /\ member[n].status # "absent" => /\ member'[n].status # "absent"
                                                           /\ member'[n].email = member[n].email
                         /\ member'[n].token = member[n].token \/ member'[n].token \notin issued,
         issued \subseteq issued', account \subseteq account'
  PROVE  Relies(q)'
BY DEF Relies

\* A row gets a token that nobody has been sent.
LEMMA FreshToken ==
  ASSUME Inv, NEW m \in Rows, NEW t \in Tokens, NEW r \in MemberType, Issue(t), r.token = t,
         member' = [member EXCEPT ![m] = r], UNCHANGED spent
  PROVE  Tokened' /\ UsedUp' /\ t # None
<1>1. t \notin issued /\ t # None /\ issued' = issued \cup {t} /\ t \notin spent
  BY TeamAssumption DEF Issue, Inv, Tokened
<1>2. /\ member'[m].token = t
      /\ \A n \in Rows \ {m} : member'[n] = member[n]
  BY DEF Inv, TypeOK
<1>3. \A n \in Rows \ {m} : member'[n].token # t
  BY <1>1, <1>2 DEF Inv, Tokened
<1> QED
  BY <1>1, <1>2, <1>3 DEF Inv, Tokened, UsedUp

LEMMA InsertInviteInv ==
  ASSUME Inv, NEW q \in Requests, NEW m \in Rows, NEW t \in Tokens, InsertInvite(q, m, t)
  PROVE  Inv'
<1> DEFINE old == request[q]
           r == [status |-> "invited", email |-> old.email, user |-> old.user,
                 role |-> old.role, token |-> t, fresh |-> TRUE]
<1>1. r \in MemberType /\ r.status = "invited" /\ r.token = t /\ r.email = old.email
  BY DEF Inv, TypeOK, RequestType, MemberType
<1>2. /\ member' = [member EXCEPT ![m] = r] /\ Become(q, Idle) /\ Issue(t)
      /\ member[m].status = "absent" /\ IndexAllows(m, old.email)
      /\ UNCHANGED <<account, faults, spent>>
  BY DEF InsertInvite, Done
<1> HIDE DEF r
<1>3. /\ member'[m] = r /\ request'[q] = Idle
      /\ \A n \in Rows \ {m} : member'[n] = member[n]
  BY <1>2, IdleType DEF Inv, TypeOK, Become
<1>4. Tokened' /\ UsedUp' /\ t # None
  BY <1>1, <1>2, FreshToken
<1>5. TypeOK'
  BY <1>1, <1>2, IdleType, BecomeType DEF Inv, TypeOK, Issue
<1>6. ASSUME NEW w \in Requests PROVE Relies(w)'
  <2>1. CASE w = q
    BY <1>3, <2>1 DEF Relies, Idle
  <2>2. CASE w # q
    BY <1>1, <1>2, <1>3, <2>2, Frame DEF Inv, Become, Issue
  <2> QED
    BY <2>1, <2>2
<1>7. MembersWereInvited'
  BY <1>1, <1>2, <1>3 DEF Inv, MembersWereInvited
<1> QED
  BY <1>4, <1>5, <1>6, <1>7 DEF Inv

LEMMA ReviveInv ==
  ASSUME Inv, NEW q \in Requests, NEW t \in Tokens, Revive(q, t)
  PROVE  Inv'
<1> DEFINE m == request[q].row
           r == [member[m] EXCEPT !.status = "invited", !.fresh = TRUE, !.token = t,
                                  !.role = request[q].role]
<1>0. m \in Rows /\ member[m] \in MemberType /\ request[q].role \in Roles \cup {None}
  BY DEF Revive, Inv, Relies, TypeOK, RequestType
<1>1. /\ r \in MemberType /\ r.status = "invited" /\ r.token = t
      /\ r.email = member[m].email
  BY <1>0 DEF MemberType
<1>2. /\ member' = [member EXCEPT ![m] = r] /\ Become(q, Idle) /\ Issue(t)
      /\ member[m].status = "deactivated" /\ IndexAllows(m, member[m].email)
      /\ UNCHANGED <<account, faults, spent>>
  BY <1>0 DEF Revive, Done, Inv, TypeOK
<1> HIDE DEF r, m
<1>3. /\ member'[m] = r /\ request'[q] = Idle
      /\ \A n \in Rows \ {m} : member'[n] = member[n]
  BY <1>0, <1>2, IdleType DEF Inv, TypeOK, Become
<1>4. Tokened' /\ UsedUp' /\ t # None
  BY <1>0, <1>1, <1>2, FreshToken
<1>5. TypeOK'
  BY <1>0, <1>1, <1>2, IdleType, BecomeType DEF Inv, TypeOK, Issue
<1>6. ASSUME NEW w \in Requests PROVE Relies(w)'
  <2>1. CASE w = q
    BY <1>3, <2>1 DEF Relies, Idle
  <2>2. CASE w # q
    BY <1>0, <1>1, <1>2, <1>3, <2>2, Frame DEF Inv, Become, Issue
  <2> QED
    BY <2>1, <2>2
<1>7. MembersWereInvited'
  BY <1>0, <1>1, <1>2, <1>3 DEF Inv, MembersWereInvited
<1> QED
  BY <1>4, <1>5, <1>6, <1>7 DEF Inv

LEMMA RefreshInviteInv ==
  ASSUME Inv, NEW by, NEW m \in Rows, NEW t \in Tokens, RefreshInvite(by, m, t)
  PROVE  Inv'
<1> DEFINE r == [member[m] EXCEPT !.token = t, !.fresh = TRUE]
<1>1. /\ r \in MemberType /\ r.status = "invited" /\ r.token = t
      /\ r.email = member[m].email
  BY DEF RefreshInvite, Inv, TypeOK, MemberType
<1>2. /\ member' = [member EXCEPT ![m] = r] /\ Issue(t)
      /\ member[m].status = "invited"
      /\ UNCHANGED <<account, request, faults, spent>>
  BY DEF RefreshInvite, Inv, TypeOK
<1> HIDE DEF r
<1>3. /\ member'[m] = r
      /\ \A n \in Rows \ {m} : member'[n] = member[n]
  BY <1>2 DEF Inv, TypeOK
<1>4. Tokened' /\ UsedUp'
  BY <1>1, <1>2, FreshToken
<1>5. TypeOK'
  BY <1>1, <1>2 DEF Inv, TypeOK, Issue
<1>6. ASSUME NEW w \in Requests PROVE Relies(w)'
  BY <1>1, <1>2, <1>3, Frame DEF Inv, Issue
<1>7. MembersWereInvited'
  BY <1>1, <1>2, <1>3 DEF Inv, MembersWereInvited
<1> QED
  BY <1>4, <1>5, <1>6, <1>7 DEF Inv

\* ChangeRole and Revoke: the row keeps its token and its address, and does not
\* come to life.
LEMMA ChangeInv ==
  ASSUME Inv, NEW q \in Requests, ChangeRole(q) \/ Revoke(q)
  PROVE  Inv'
<1> DEFINE m == request[q].row
<1>1. m \in Rows /\ member[m] \in MemberType /\ request[q].role \in Roles \cup {None}
  BY DEF ChangeRole, Revoke, Inv, Relies, TypeOK, RequestType
<1>2. PICK r \in MemberType :
        /\ member' = [member EXCEPT ![m] = r]
        /\ r.email = member[m].email /\ r.user = member[m].user /\ r.token = member[m].token
        /\ r.status \in {member[m].status, "deactivated"}
  <2>1. LET r == [member[m] EXCEPT !.role = request[q].role]
        IN  /\ r \in MemberType /\ r.email = member[m].email /\ r.user = member[m].user
            /\ r.token = member[m].token /\ r.status = member[m].status
    BY <1>1 DEF MemberType
  <2>2. LET r == [member[m] EXCEPT !.status = "deactivated"]
        IN  /\ r \in MemberType /\ r.email = member[m].email /\ r.user = member[m].user
            /\ r.token = member[m].token /\ r.status = "deactivated"
    BY <1>1 DEF MemberType
  <2>3. \/ member' = [member EXCEPT ![m] = [member[m] EXCEPT !.role = request[q].role]]
        \/ member' = [member EXCEPT ![m] = [member[m] EXCEPT !.status = "deactivated"]]
    BY <1>1 DEF ChangeRole, Revoke, Inv, TypeOK
  <2> HIDE DEF m
  <2> QED
    BY <2>1, <2>2, <2>3
<1>3. Become(q, Idle) /\ UNCHANGED <<account, issued, faults, spent>>
  BY DEF ChangeRole, Revoke, Done
<1> HIDE DEF m
<1>4. /\ member'[m] = r /\ request'[q] = Idle
      /\ \A n \in Rows \ {m} : member'[n] = member[n]
  BY <1>1, <1>2, <1>3, IdleType DEF Inv, TypeOK, Become
<1>5. TypeOK'
  BY <1>2, <1>3, IdleType, BecomeType DEF Inv, TypeOK
<1>6. Tokened' /\ UsedUp'
  BY <1>2, <1>3, <1>4 DEF Inv, Tokened, UsedUp
<1>7. ASSUME NEW w \in Requests PROVE Relies(w)'
  <2>1. CASE w = q
    BY <1>4, <2>1 DEF Relies, Idle
  <2>2. CASE w # q
    BY <1>2, <1>3, <1>4, <2>2, Frame DEF Inv, Become
  <2> QED
    BY <2>1, <2>2
<1>8. MembersWereInvited'
  BY <1>2, <1>3, <1>4 DEF Inv, MembersWereInvited
<1> QED
  BY <1>5, <1>6, <1>7, <1>8 DEF Inv

\* The person found by address and token is the one the row becomes.
LEMMA ActivateInv ==
  ASSUME Inv, NEW q \in Requests, Activate(q)
  PROVE  Inv'
<1> DEFINE old == request[q]
           m == old.row
           r == [member[m] EXCEPT !.status = "active", !.fresh = FALSE, !.user = old.user]
<1>1. /\ m \in Rows /\ old.email \in People /\ old.email \in account /\ old.token \in issued
      /\ old.user = old.email
      /\ member[m].email = old.email /\ member[m].status # "absent"
      /\ \A n \in Rows : member[n].token = old.token => n = m
      /\ member[m] \in MemberType
  BY DEF Activate, Inv, Relies, TypeOK
<1>2. /\ r \in MemberType /\ r.status = "active" /\ r.user = old.email
      /\ r.email = member[m].email /\ r.token = member[m].token
  BY <1>1 DEF MemberType
<1>3. /\ member' = [member EXCEPT ![m] = r] /\ Become(q, Idle)
      /\ IndexAllows(m, member[m].email) /\ spent' = spent \cup {old.token}
      /\ UNCHANGED <<account, issued, faults>>
  BY <1>1 DEF Activate, Done, Inv, TypeOK
<1> HIDE DEF r, m
<1>4. /\ member'[m] = r /\ request'[q] = Idle
      /\ \A n \in Rows \ {m} : member'[n] = member[n]
  BY <1>1, <1>2, <1>3, IdleType DEF Inv, TypeOK, Become
<1>5. TypeOK'
  BY <1>1, <1>2, <1>3, IdleType, BecomeType DEF Inv, TypeOK
<1>6. Tokened'
  BY <1>1, <1>2, <1>3, <1>4 DEF Inv, Tokened
<1>7. UsedUp'
  BY <1>1, <1>2, <1>3, <1>4 DEF Inv, UsedUp
<1>8. ASSUME NEW w \in Requests PROVE Relies(w)'
  <2>1. CASE w = q
    BY <1>4, <2>1 DEF Relies, Idle
  <2>2. CASE w # q
    BY <1>2, <1>3, <1>4, <2>2, Frame DEF Inv, Become
  <2> QED
    BY <2>1, <2>2
<1>9. MembersWereInvited'
  BY <1>1, <1>2, <1>3, <1>4 DEF Inv, MembersWereInvited
<1> QED
  BY <1>5, <1>6, <1>7, <1>8, <1>9 DEF Inv

\* An account is created: by the acceptance of an invite or by a sign-up.
LEMMA CreateInvitedUserInv ==
  ASSUME Inv, NEW q \in Requests, CreateInvitedUser(q)
  PROVE  Inv'
<1> DEFINE old == request[q]
           r == [old EXCEPT !.pc = "activating", !.user = old.email]
<1>1. CASE old.email \in account
  <2>1. Become(q, Idle) /\ UNCHANGED book /\ faults' \in 0..MaxFaults
    BY <1>1 DEF CreateInvitedUser, Done, book, Inv, TypeOK
  <2> QED
    BY <2>1, IdleType, GoAway DEF book, Idle
<1>2. CASE old.email \notin account
  <2>1. old \in RequestType /\ old.pc = "joining" /\ old.email \in People
    BY DEF CreateInvitedUser, Inv, TypeOK, Relies
  <2>2. /\ r \in RequestType /\ r.pc = "activating"
        /\ r.row = old.row /\ r.email = old.email /\ r.token = old.token /\ r.user = old.email
    BY <2>1 DEF RequestType
  <2>3. /\ Become(q, r) /\ account' = account \cup {old.email}
        /\ UNCHANGED <<member, issued, faults, spent>>
    BY <1>2 DEF CreateInvitedUser
  <2> HIDE DEF r
  <2>4. request'[q] = r
    BY <2>3 DEF Become, Inv, TypeOK
  <2>5. TypeOK'
    BY <2>1, <2>2, <2>3, BecomeType DEF Inv, TypeOK
  <2>6. ASSUME NEW w \in Requests PROVE Relies(w)'
    <3>1. CASE w = q
      BY <2>1, <2>2, <2>3, <2>4, <3>1 DEF Inv, Relies
    <3>2. CASE w # q
      BY <2>3, <3>2, Frame DEF Inv, Become
    <3> QED
      BY <3>1, <3>2
  <2>7. Tokened' /\ UsedUp' /\ MembersWereInvited'
    BY <2>3 DEF Inv, Tokened, UsedUp, MembersWereInvited
  <2> QED
    BY <2>5, <2>6, <2>7 DEF Inv
<1> QED
  BY <1>1, <1>2

LEMMA SignUpInv ==
  ASSUME Inv, NEW e \in People, SignUp(e)
  PROVE  Inv'
<1> USE DEF SignUp
<1>1. TypeOK' /\ Tokened' /\ UsedUp' /\ MembersWereInvited'
  BY DEF Inv, TypeOK, Tokened, UsedUp, MembersWereInvited
<1>2. ASSUME NEW w \in Requests PROVE Relies(w)'
  BY Frame DEF Inv
<1> QED
  BY <1>1, <1>2 DEF Inv

\* A row keeps everything but the account that is deleted, and a request that holds
\* its id has ended: what the others rely on, an account of another address, stays.
LEMMA DeleteAccountInv ==
  ASSUME Inv, NEW e \in People, DeleteAccount(e)
  PROVE  Inv'
<1>1. /\ e # None /\ account' = account \ {e}
      /\ UNCHANGED <<issued, faults, spent>>
  BY TeamAssumption DEF DeleteAccount
<1>2. ASSUME NEW m \in Rows
      PROVE  /\ member'[m] \in MemberType
             /\ member'[m].status = member[m].status /\ member'[m].email = member[m].email
             /\ member'[m].token = member[m].token
             /\ member'[m].user = IF member[m].user = e THEN None ELSE member[m].user
  <2>1. member[m] \in MemberType
    BY DEF Inv, TypeOK
  <2>2. CASE member[m].user = e
    <3>1. member'[m] = [member[m] EXCEPT !.user = None]
      BY <2>2 DEF DeleteAccount
    <3> QED
      BY <2>1, <2>2, <3>1 DEF MemberType
  <2>3. CASE member[m].user # e
    BY <2>1, <2>3 DEF DeleteAccount
  <2> QED
    BY <2>2, <2>3
<1>3. ASSUME NEW q \in Requests
      PROVE  request'[q] = IF request[q].user = e THEN Idle ELSE request[q]
  BY DEF DeleteAccount
<1>4. TypeOK'
  <2>1. member' \in [Rows -> MemberType]
    BY <1>2 DEF DeleteAccount
  <2>2. request' \in [Requests -> RequestType]
    BY IdleType DEF DeleteAccount, Inv, TypeOK
  <2> QED
    BY <1>1, <2>1, <2>2 DEF Inv, TypeOK
<1>5. Tokened' /\ UsedUp'
  BY <1>1, <1>2 DEF Inv, Tokened, UsedUp
<1>6. ASSUME NEW w \in Requests PROVE Relies(w)'
  <2>1. CASE request[w].user = e
    BY <1>3, <2>1 DEF Relies, Idle
  <2>2. CASE request[w].user # e
    <3>1. request'[w] = request[w] /\ Relies(w)
      BY <1>3, <2>2 DEF Inv
    <3> QED
      BY <1>1, <1>2, <2>2, <3>1 DEF Relies
  <2> QED
    BY <2>1, <2>2
<1>7. MembersWereInvited'
  BY <1>1, <1>2 DEF Inv, MembersWereInvited
<1> QED
  BY <1>4, <1>5, <1>6, <1>7 DEF Inv

LEMMA ExpireInv ==
  ASSUME Inv, NEW m \in Rows, Expire(m)
  PROVE  Inv'
<1> DEFINE r == [member[m] EXCEPT !.fresh = FALSE]
<1>1. /\ r \in MemberType /\ r.status = member[m].status /\ r.user = member[m].user
      /\ r.email = member[m].email /\ r.token = member[m].token
  BY DEF Inv, TypeOK, MemberType
<1>2. member' = [member EXCEPT ![m] = r] /\ UNCHANGED <<account, issued, request, faults, spent>>
  BY DEF Expire, Inv, TypeOK
<1> HIDE DEF r
<1>3. /\ member'[m] = r
      /\ \A n \in Rows \ {m} : member'[n] = member[n]
  BY <1>2 DEF Inv, TypeOK
<1>4. TypeOK' /\ Tokened' /\ UsedUp' /\ MembersWereInvited'
  BY <1>1, <1>2, <1>3 DEF Inv, TypeOK, Tokened, UsedUp, MembersWereInvited
<1>5. ASSUME NEW w \in Requests PROVE Relies(w)'
  BY <1>1, <1>2, <1>3, Frame DEF Inv
<1> QED
  BY <1>4, <1>5 DEF Inv

-----------------------------------------------------------------------------
LEMMA Inductive == Inv /\ [Next]_vars => Inv'
<1> SUFFICES ASSUME Inv, [Next]_vars PROVE Inv'
  OBVIOUS
<1>1. ASSUME NEW q \in Requests,
             \/ \E by \in People \cup {Owner}, e \in People, role \in Roles :
                  BeginInvite(q, by, e, role)
             \/ \E by \in People \cup {Owner}, m \in Rows, role \in Roles :
                  BeginRoleChange(q, by, m, role)
             \/ \E by \in People \cup {Owner}, m \in Rows : BeginRevoke(q, by, m)
             \/ \E e \in People, t \in Tokens : BeginAccept(q, e, t)
      PROVE  Inv'
  BY <1>1, BeginInviteInv, BeginChangeInv, BeginAcceptInv
<1>2. ASSUME NEW q \in Requests,
             \/ \E m \in Rows, t \in Tokens : InsertInvite(q, m, t)
             \/ \E t \in Tokens : Revive(q, t)
             \/ FindAddressee(q) \/ InsertRefused(q) \/ ReviveRefused(q)
      PROVE  Inv'
  BY <1>2, InsertInviteInv, ReviveInv, FindAddresseeInv, GiveUpInv
<1>3. ASSUME NEW q \in Requests,
             \/ ChangeRole(q) \/ Revoke(q)
             \/ CreateInvitedUser(q) \/ Activate(q) \/ ActivateRefused(q)
             \/ Fail(q)
      PROVE  Inv'
  BY <1>3, ChangeInv, CreateInvitedUserInv, ActivateInv, GiveUpInv
<1>4. ASSUME \/ \E by \in People \cup {Owner}, m \in Rows, t \in Tokens : RefreshInvite(by, m, t)
             \/ \E e \in People : SignUp(e) \/ DeleteAccount(e)
             \/ \E m \in Rows : Expire(m)
      PROVE  Inv'
  BY <1>4, RefreshInviteInv, SignUpInv, DeleteAccountInv, ExpireInv
<1>5. CASE UNCHANGED vars
  <2>1. TypeOK' /\ Tokened' /\ UsedUp' /\ MembersWereInvited'
    BY <1>5 DEF vars, Inv, TypeOK, Tokened, UsedUp, MembersWereInvited
  <2>2. ASSUME NEW w \in Requests PROVE Relies(w)'
    BY <1>5, Frame DEF vars, Inv
  <2> QED
    BY <2>1, <2>2 DEF Inv
<1> QED
  BY <1>1, <1>2, <1>3, <1>4, <1>5 DEF Next

LEMMA Invariant == Spec => []Inv
BY InitInv, Inductive, PTL DEF Spec

\* Every row, request and token is of its type.
THEOREM TypeCorrect == Spec => []TypeOK
<1>1. Inv => TypeOK
  BY DEF Inv
<1> QED
  BY <1>1, Invariant, PTL

\* Whoever is a member is the person the invite was addressed to, with the account
\* they have now, also when accounts are deleted while invites are accepted.
THEOREM OnlyTheInvitedJoin == Spec => []MembersWereInvited
<1>1. Inv => MembersWereInvited
  BY DEF Inv
<1> QED
  BY <1>1, Invariant, PTL

\* What becomes of a member in one step.
KeepsPlace(m) ==
  /\ member'[m].status = "active" \/ (member'[m].status = "deactivated" /\ Revoking(m))
  /\ member[m].user # None =>
       \/ member'[m].user = member[m].user
       \/ member'[m].user = None /\ member[m].user \notin account'

LEMMA PlaceIsKept ==
  ASSUME Inv, [Next]_vars, NEW m \in Rows, member[m].status = "active"
  PROVE  KeepsPlace(m)
<1>1. ASSUME member'[m] = member[m] PROVE KeepsPlace(m)
  BY <1>1 DEF KeepsPlace
<1>2. ASSUME NEW n \in Rows, NEW r, n # m, member' = [member EXCEPT ![n] = r]
      PROVE  KeepsPlace(m)
  BY <1>1, <1>2
<1>3. ASSUME NEW q \in Requests,
             \/ \E n \in Rows, t \in Tokens : InsertInvite(q, n, t)
             \/ \E t \in Tokens : Revive(q, t)
      PROVE  KeepsPlace(m)
  <2>1. ASSUME NEW n \in Rows, NEW t \in Tokens, InsertInvite(q, n, t) PROVE KeepsPlace(m)
    <3>1. n # m
      BY <2>1 DEF InsertInvite
    <3>2. member'[m] = member[m]
      BY <2>1, <3>1 DEF InsertInvite
    <3> QED
      BY <1>1, <3>2
  <2>2. ASSUME NEW t \in Tokens, Revive(q, t) PROVE KeepsPlace(m)
    <3>1. request[q].row # m
      BY <2>2 DEF Revive
    <3>2. member'[m] = member[m]
      BY <2>2, <3>1 DEF Revive
    <3> QED
      BY <1>1, <3>2
  <2> QED
    BY <1>3, <2>1, <2>2
<1>4. ASSUME NEW q \in Requests, ChangeRole(q) \/ Revoke(q) PROVE KeepsPlace(m)
  <2>1. member[m] \in MemberType /\ Relies(q)
    BY DEF Inv, TypeOK
  <2>2. CASE request[q].row # m
    <3>1. CASE ChangeRole(q)
      BY <1>1, <2>2, <3>1 DEF ChangeRole, Inv, TypeOK
    <3>2. CASE Revoke(q)
      BY <1>1, <2>2, <3>2 DEF Revoke, Inv, TypeOK
    <3> QED
      BY <1>4, <3>1, <3>2
  <2>3. CASE request[q].row = m /\ ChangeRole(q)
    <3>1. member'[m] = [member[m] EXCEPT !.role = request[q].role]
      BY <2>3 DEF ChangeRole, Inv, TypeOK
    <3>2. member'[m].status = "active" /\ member'[m].user = member[m].user
      BY <2>1, <3>1 DEF MemberType
    <3> QED
      BY <3>2 DEF KeepsPlace
  <2>4. CASE request[q].row = m /\ Revoke(q)
    <3>1. member'[m] = [member[m] EXCEPT !.status = "deactivated"]
      BY <2>4 DEF Revoke, Inv, TypeOK
    <3>2. member'[m].status = "deactivated" /\ member'[m].user = member[m].user
      BY <2>1, <3>1 DEF MemberType
    <3>3. Revoking(m)
      BY <2>4 DEF Revoke, Revoking
    <3> QED
      BY <3>2, <3>3 DEF KeepsPlace
  <2> QED
    BY <1>4, <2>2, <2>3, <2>4
\* A second acceptance of the same invite writes the account that the row has.
<1>5. ASSUME NEW q \in Requests, Activate(q) PROVE KeepsPlace(m)
  <2>1. CASE request[q].row # m
    <3>1. member'[m] = member[m]
      BY <1>5, <2>1 DEF Activate
    <3> QED
      BY <1>1, <3>1
  <2>2. CASE request[q].row = m
    <3>1. member[m] \in MemberType /\ member[m].email = request[q].user
      BY <1>5, <2>2 DEF Activate, Inv, TypeOK, Relies
    <3>2. member'[m] = [member[m] EXCEPT !.status = "active", !.fresh = FALSE,
                                         !.user = request[q].user]
      BY <1>5, <2>2 DEF Activate, Inv, TypeOK
    <3>3. member'[m].status = "active" /\ member'[m].user = member[m].email
      BY <3>1, <3>2 DEF MemberType
    <3>4. member[m].user # None => member[m].user = member[m].email
      BY DEF Inv, MembersWereInvited
    <3> QED
      BY <3>3, <3>4 DEF KeepsPlace
  <2> QED
    BY <2>1, <2>2
<1>6. ASSUME NEW n \in Rows, Expire(n) \/ \E by, t : RefreshInvite(by, n, t) PROVE KeepsPlace(m)
  <2>1. CASE Expire(n)
    BY <1>1, <2>1 DEF Expire, Inv, TypeOK
  <2>2. ASSUME NEW by, NEW t, RefreshInvite(by, n, t) PROVE KeepsPlace(m)
    BY <1>1, <2>2 DEF RefreshInvite, Inv, TypeOK
  <2> QED
    BY <1>6, <2>1, <2>2
<1>7. ASSUME NEW e \in People, DeleteAccount(e) PROVE KeepsPlace(m)
  <2>1. CASE member[m].user # e
    BY <1>1, <1>7, <2>1 DEF DeleteAccount
  <2>2. CASE member[m].user = e
    <3>1. member[m] \in MemberType
      BY DEF Inv, TypeOK
    <3>2. member'[m] = [member[m] EXCEPT !.user = None] /\ e \notin account'
      BY <1>7, <2>2 DEF DeleteAccount
    <3>3. member'[m].status = "active" /\ member'[m].user = None
      BY <3>1, <3>2 DEF MemberType
    <3> QED
      BY <2>2, <3>2, <3>3 DEF KeepsPlace
  <2> QED
    BY <2>1, <2>2
<1>8. ASSUME UNCHANGED member PROVE KeepsPlace(m)
  BY <1>1, <1>8
<1>9. ASSUME NEW q \in Requests,
             \/ \E by \in People \cup {Owner}, e \in People, role \in Roles :
                  BeginInvite(q, by, e, role)
             \/ \E by \in People \cup {Owner}, n \in Rows, role \in Roles :
                  BeginRoleChange(q, by, n, role)
             \/ \E by \in People \cup {Owner}, n \in Rows : BeginRevoke(q, by, n)
             \/ \E e \in People, t \in Tokens : BeginAccept(q, e, t)
             \/ FindAddressee(q) \/ InsertRefused(q) \/ ReviveRefused(q)
             \/ CreateInvitedUser(q) \/ ActivateRefused(q) \/ Fail(q)
      PROVE  UNCHANGED member
  BY <1>9 DEF BeginInvite, BeginRoleChange, BeginRevoke, BeginAccept, FindAddressee, InsertRefused,
              ReviveRefused, CreateInvitedUser, ActivateRefused, Fail
<1>10. ASSUME \/ \E e \in People : SignUp(e)
              \/ UNCHANGED vars
       PROVE  UNCHANGED member
  BY <1>10 DEF SignUp, vars
<1> QED
  BY <1>3, <1>4, <1>5, <1>6, <1>7, <1>8, <1>9, <1>10 DEF Next

\* A member's place is theirs until it is revoked or their account is deleted,
\* whatever invites of the row were begun before they joined.
THEOREM PlacesAreKept == Spec => MembersKeepTheirPlace
<1>1. Inv /\ [Next]_vars =>
        [\A m \in Rows :
           member[m].status = "active" =>
             /\ member'[m].status = "active" \/ (member'[m].status = "deactivated" /\ Revoking(m))
             /\ member[m].user # None =>
                  \/ member'[m].user = member[m].user
                  \/ member'[m].user = None /\ member[m].user \notin account']_vars
  BY PlaceIsKept DEF KeepsPlace
<1> QED
  BY <1>1, Invariant, PTL DEF Spec, MembersKeepTheirPlace

\* A step in which a request starts to accept is BeginAccept, and what it presents
\* is the token of an invite.
LEMMA AcceptsAnInvite ==
  ASSUME Inv, [Next]_vars, NEW q \in Requests, ~ Accepting(q), Accepting(q)'
  PROVE  request'[q].token \notin spent
<1>1. ASSUME NEW w \in Requests, NEW r, Become(w, r), r.pc \notin {"joining", "activating"}
      PROVE  FALSE
  BY <1>1 DEF Become, Accepting, Inv, TypeOK
<1>2. ASSUME request' = request PROVE FALSE
  BY <1>2 DEF Accepting
<1>3. Idle.pc = "idle"
  BY DEF Idle
<1>4. ASSUME NEW w \in Requests,
             \/ \E by \in People \cup {Owner}, e \in People, role \in Roles :
                  BeginInvite(w, by, e, role)
             \/ \E by \in People \cup {Owner}, m \in Rows, role \in Roles :
                  BeginRoleChange(w, by, m, role)
             \/ \E by \in People \cup {Owner}, m \in Rows : BeginRevoke(w, by, m)
      PROVE  FALSE
  <2>1. ASSUME NEW by, NEW e \in People, NEW role \in Roles, BeginInvite(w, by, e, role)
        PROVE  FALSE
    <3>1. [Idle EXCEPT !.pc = "addressing", !.email = e, !.role = role].pc = "addressing"
      BY DEF Idle
    <3>2. \A n \in Rows : [Idle EXCEPT !.pc = "reviving", !.row = n, !.role = role].pc = "reviving"
      BY DEF Idle
    <3>3. \/ Become(w, [Idle EXCEPT !.pc = "addressing", !.email = e, !.role = role])
          \/ \E n \in Rows : Become(w, [Idle EXCEPT !.pc = "reviving", !.row = n, !.role = role])
      BY <2>1 DEF BeginInvite
    <3> QED
      BY <3>1, <3>2, <3>3, <1>1
  <2>2. ASSUME NEW by, NEW m \in Rows, NEW role \in Roles, BeginRoleChange(w, by, m, role)
        PROVE  FALSE
    <3>1. [Idle EXCEPT !.pc = "ranking", !.row = m, !.role = role].pc = "ranking"
      BY DEF Idle
    <3> QED
      BY <2>2, <3>1, <1>1 DEF BeginRoleChange
  <2>3. ASSUME NEW by, NEW m \in Rows, BeginRevoke(w, by, m)
        PROVE  FALSE
    <3>1. [Idle EXCEPT !.pc = "revoking", !.row = m].pc = "revoking"
      BY DEF Idle
    <3> QED
      BY <2>3, <3>1, <1>1 DEF BeginRevoke
  <2> QED
    BY <1>4, <2>1, <2>2, <2>3
<1>5. ASSUME NEW w \in Requests, FindAddressee(w) PROVE FALSE
  <2> DEFINE u == IF request[w].email \in account THEN request[w].email ELSE None
             r == [request[w] EXCEPT !.pc = "inserting", !.user = u]
  <2>1. r.pc = "inserting" /\ Become(w, r)
    BY <1>5 DEF FindAddressee, Inv, TypeOK, RequestType
  <2> HIDE DEF r
  <2> QED
    BY <2>1, <1>1
<1>6. ASSUME NEW w \in Requests, CreateInvitedUser(w) PROVE FALSE
  <2>1. w # q
    BY <1>6 DEF CreateInvitedUser, Accepting
  <2>2. request'[q] = request[q]
    BY <1>6, <2>1 DEF CreateInvitedUser, Done, Become, Inv, TypeOK
  <2> QED
    BY <2>2 DEF Accepting
<1>7. ASSUME NEW w \in Requests, NEW e \in People, NEW t \in Tokens, BeginAccept(w, e, t)
      PROVE  request'[q].token \notin spent
  <2>1. PICK m \in Rows : InviteFor(m, t, e)
    BY <1>7 DEF BeginAccept
  <2>2. t \notin spent
    BY <2>1 DEF InviteFor, Inv, UsedUp
  <2>3. PICK r : Become(w, r) /\ r.token = t
    <3>1. \A n \in Rows, pc \in {"joining", "activating"} :
            /\ [Idle EXCEPT !.pc = pc, !.email = e, !.row = n, !.token = t].token = t
            /\ [Idle EXCEPT !.pc = pc, !.email = e, !.row = n, !.token = t, !.user = e].token = t
      BY DEF Idle
    <3>2. \/ \E n \in Rows : Become(w, [Idle EXCEPT !.pc = "joining", !.email = e, !.row = n,
                                                    !.token = t])
          \/ \E n \in Rows : Become(w, [Idle EXCEPT !.pc = "activating", !.email = e, !.row = n,
                                                    !.token = t, !.user = e])
      BY <1>7 DEF BeginAccept
    <3> QED
      BY <3>1, <3>2
  <2>4. w = q
    BY <2>3 DEF Become, Accepting, Inv, TypeOK
  <2>5. request'[q] = r
    BY <2>3, <2>4 DEF Become, Inv, TypeOK
  <2> QED
    BY <2>2, <2>3, <2>5
<1>8. ASSUME NEW w \in Requests, Done(w) PROVE FALSE
  BY <1>8, <1>1, <1>3 DEF Done
<1> QED
  <2>1. ASSUME NEW w \in Requests,
               \/ \E m \in Rows, t \in Tokens : InsertInvite(w, m, t)
               \/ \E t \in Tokens : Revive(w, t)
               \/ InsertRefused(w) \/ ReviveRefused(w) \/ ChangeRole(w) \/ Revoke(w)
               \/ Activate(w) \/ ActivateRefused(w) \/ Fail(w)
        PROVE  FALSE
    BY <2>1, <1>8 DEF InsertInvite, Revive, InsertRefused, ReviveRefused, ChangeRole, Revoke,
                      Activate, ActivateRefused, Fail
  <2>2. ASSUME \/ \E by \in People \cup {Owner}, m \in Rows, t \in Tokens :
                    RefreshInvite(by, m, t)
               \/ \E e \in People : SignUp(e)
               \/ \E m \in Rows : Expire(m)
               \/ UNCHANGED vars
        PROVE  FALSE
    BY <2>2, <1>2 DEF RefreshInvite, SignUp, Expire, vars
  <2>3. ASSUME NEW e \in People, DeleteAccount(e)
        PROVE  FALSE
    <3>1. request'[q] = IF request[q].user = e THEN Idle ELSE request[q]
      BY <2>3 DEF DeleteAccount
    <3> QED
      BY <3>1, <1>3 DEF Accepting
  <2> QED
    BY <2>1, <2>2, <2>3, <1>4, <1>5, <1>6, <1>7 DEF Next

\* Once somebody has become a member with a token, it is never accepted again.
THEOREM SpentTokensStaySpent == Spec => SpentInviteAdmitsNobody
<1>1. Inv /\ [Next]_vars =>
        [\A q \in Requests : ~ Accepting(q) /\ Accepting(q)' => request'[q].token \notin spent]_vars
  BY AcceptsAnInvite
<1> QED
  BY <1>1, Invariant, PTL DEF Spec, SpentInviteAdmitsNobody

-----------------------------------------------------------------------------
(* The reports of a series.                                                *)

\* Days, weeks and months have a length, every day of the instance is in a month, and
\* what is missing is no number.
CalendarAssumption ==
  /\ DayLen \in Nat \ {0} /\ DaysPerWeek \in Nat \ {0} /\ MonthSpan \in Nat /\ LastMoment \in Nat
  /\ MonthStarts \subseteq Int
  /\ \A d \in 0 .. (LastMoment \div DayLen) :
       \E b, e \in MonthStarts : b <= d /\ d < e /\ \A m \in MonthStarts : m <= b \/ e <= m
  /\ Missing \notin Int

Moments == 0 .. LastMoment
OccurrenceType ==
  [period: {"weekly", "monthly", "custom"}, reference: Moments, until: Moments \cup {Missing},
   recurring: BOOLEAN, due: Int, counted: SUBSET Moments, read: Moments \cup {Missing},
   delivered: Moments \cup {Missing}]

\* A report is due when its range is over; what it has read, it has read since then: the
\* alerts of its window that were raised before, and none from before its reference.
Scheduled(r) ==
  /\ r.period = "custom" => r.until \in Moments /\ ~ r.recurring
  /\ r.due >= Series!RangeOf(r).to
  /\ r.delivered # Missing => r.read # Missing
  /\ r.read # Missing =>
       /\ r.due <= r.read /\ r.read <= moment
       /\ \A a \in r.counted : r.reference <= a /\ a <= r.read
       /\ \A a \in raised : a \in Series!AlertsIn(Series!AlertWindow(r)) /\ a < r.read => a \in r.counted

\* The reference of an occurrence is after everything the one before it has read.
Follows(r, s) ==
  /\ r.read # Missing /\ r.read < s.reference /\ s.reference <= moment
  /\ r.period = s.period /\ r.period # "custom"

SeriesInv ==
  /\ moment \in Moments /\ raised \subseteq 0 .. moment
  /\ occurrences \in Seq(OccurrenceType)
  /\ \A i \in DOMAIN occurrences : Scheduled(occurrences[i])
  /\ \A i, j \in DOMAIN occurrences : i < j => Follows(occurrences[i], occurrences[j])

-----------------------------------------------------------------------------
(* Division, and the larger of two numbers.                                *)

\* Math.floor of a quotient, and what is left.
LEMMA Division ==
  ASSUME NEW a \in Int, NEW b \in Nat \ {0}
  PROVE  /\ (a \div b) \in Int /\ b * (a \div b) <= a /\ a < b * (a \div b) + b
         /\ (a % b) = a - b * (a \div b)
OBVIOUS

LEMMA MaxOfTwo ==
  ASSUME NEW a \in Int, NEW b \in Int
  PROVE  Series!Max({a, b}) = IF a >= b THEN a ELSE b
<1>1. /\ Series!Max({a, b}) \in {a, b}
      /\ \A y \in {a, b} : Series!Max({a, b}) >= y
  <2>1. \E x \in {a, b} : \A y \in {a, b} : x >= y
    <3>1. CASE a >= b
      BY <3>1
    <3>2. CASE ~ (a >= b)
      BY <3>2
    <3> QED
      BY <3>1, <3>2
  <2> QED
    BY <2>1 DEF Series!Max
<1> QED
  BY <1>1

\* No multiple of b lies between a multiple below a and a.
LEMMA QuotientGrows ==
  ASSUME NEW a \in Int, NEW b \in Nat \ {0}, NEW k \in Int, b * k <= a
  PROVE  k <= (a \div b)
<1> DEFINE q == a \div b
<1>1. q \in Int /\ a < b * q + b
  BY Division
<1> HIDE DEF q
<1>2. SUFFICES ASSUME k >= q + 1 PROVE FALSE
  BY <1>1 DEF q
<1>3. PICK d \in Nat : k = q + 1 + d
  <2> USE <1>1, <1>2
  <2> WITNESS k - q - 1 \in Nat
  <2> QED
    OBVIOUS
<1>4. b * k = b * q + b + b * d /\ b * d \in Nat /\ b * q \in Int
  BY <1>1, <1>3
<1> QED
  BY <1>1, <1>4

-----------------------------------------------------------------------------
\* The range of a calendar period holds its moment, and a week is no longer than its days.
LEMMA WeekHolds ==
  ASSUME CalendarAssumption, NEW t \in Moments
  PROVE  LET R == Series!PeriodRange("weekly", t)
             k == Series!DayOf(t) \div DaysPerWeek
         IN /\ k \in Int
            /\ R = [from |-> (DaysPerWeek * k) * DayLen, to |-> (DaysPerWeek * k + DaysPerWeek) * DayLen]
            /\ R.from \in Int /\ R.to \in Int /\ R.from <= t /\ t < R.to
            /\ R.to = R.from + DaysPerWeek * DayLen
<1> DEFINE D == Series!DayOf(t)
           k == D \div DaysPerWeek
           m == DaysPerWeek * k
<1>1. t \in Int /\ DayLen \in Nat \ {0} /\ DaysPerWeek \in Nat \ {0}
  BY DEF CalendarAssumption, Moments
<1>2. D \in Int /\ DayLen * D <= t /\ t < DayLen * D + DayLen
  BY <1>1, Division DEF Series!DayOf
<1> HIDE DEF D
<1>3. k \in Int /\ m <= D /\ D < m + DaysPerWeek /\ D - (D % DaysPerWeek) = m /\ m \in Int
  <2>1. /\ k \in Int /\ DaysPerWeek * k <= D /\ D < DaysPerWeek * k + DaysPerWeek
        /\ (D % DaysPerWeek) = D - DaysPerWeek * k
    BY <1>1, <1>2, Division
  <2> HIDE DEF k
  <2>2. DaysPerWeek * k \in Int
    BY <1>1, <2>1
  <2> QED
    BY <1>2, <2>1, <2>2
<1>4. Series!PeriodRange("weekly", t) = [from |-> m * DayLen, to |-> (m + DaysPerWeek) * DayLen]
  BY <1>3 DEF Series!PeriodRange, Series!Days, D
<1> HIDE DEF m
<1>5. m * DayLen <= D * DayLen /\ (D + 1) * DayLen <= (m + DaysPerWeek) * DayLen
  <2>1. PICK x \in Nat, y \in Nat : D = m + x /\ m + DaysPerWeek = D + 1 + y
    <3> USE <1>1, <1>2, <1>3
    <3> WITNESS D - m \in Nat
    <3> WITNESS m + DaysPerWeek - D - 1 \in Nat
    <3> QED
      OBVIOUS
  <2>2. x * DayLen \in Nat /\ y * DayLen \in Nat /\ m * DayLen \in Int /\ D * DayLen \in Int
    BY <1>1, <1>2, <1>3
  <2>3. D * DayLen = m * DayLen + x * DayLen
    BY <1>1, <1>3, <2>1
  <2>4. (m + DaysPerWeek) * DayLen = (D + 1) * DayLen + y * DayLen
    BY <1>1, <1>2, <2>1
  <2> QED
    BY <1>1, <1>2, <2>2, <2>3, <2>4
<1>6. m * DayLen \in Int /\ (m + DaysPerWeek) * DayLen = m * DayLen + DaysPerWeek * DayLen
      /\ DaysPerWeek * DayLen \in Int
  BY <1>1, <1>3
<1>7. (D + 1) * DayLen = DayLen * D + DayLen /\ D * DayLen = DayLen * D /\ DayLen * D \in Int
  BY <1>1, <1>2
<1> QED
  BY <1>1, <1>2, <1>3, <1>4, <1>5, <1>6, <1>7 DEF m, D

LEMMA MonthHolds ==
  ASSUME CalendarAssumption, NEW t \in Moments
  PROVE  LET R == Series!PeriodRange("monthly", t)
         IN \E b, e \in MonthStarts :
              /\ R = [from |-> b * DayLen, to |-> e * DayLen]
              /\ b <= Series!DayOf(t) /\ Series!DayOf(t) < e
              /\ \A m \in MonthStarts : m <= b \/ e <= m
              /\ R.from \in Int /\ R.to \in Int /\ R.from <= t /\ t < R.to
<1> DEFINE D == Series!DayOf(t)
<1>1. t \in Int /\ DayLen \in Nat \ {0} /\ 0 <= t /\ t <= LastMoment /\ LastMoment \in Int
      /\ MonthStarts \subseteq Int
  BY DEF CalendarAssumption, Moments
<1>2. D \in Int /\ DayLen * D <= t /\ t < DayLen * D + DayLen
  BY <1>1, Division DEF Series!DayOf
<1>3. D \in 0 .. (LastMoment \div DayLen)
  <2> HIDE DEF D
  <2>1. (LastMoment \div DayLen) \in Int
    BY <1>1, Division
  <2>2. DayLen * D \in Int
    BY <1>1, <1>2
  <2>3. D <= (LastMoment \div DayLen)
    BY <1>1, <1>2, <2>2, QuotientGrows
  <2>4. 0 <= (t \div DayLen)
    BY <1>1, QuotientGrows
  <2> QED
    BY <1>2, <2>1, <2>3, <2>4 DEF D, Series!DayOf
<1>4. PICK b, e \in MonthStarts : b <= D /\ D < e /\ \A m \in MonthStarts : m <= b \/ e <= m
  BY <1>3 DEF CalendarAssumption
<1> HIDE DEF D
<1>5. Series!Max({d \in MonthStarts : d <= D}) = b
  <2> DEFINE S == {d \in MonthStarts : d <= D}
  <2>1. b \in S /\ \A y \in S : b >= y
    BY <1>1, <1>2, <1>4
  <2>2. \A x \in S : (\A y \in S : x >= y) => x = b
    BY <1>1, <2>1
  <2> HIDE DEF S
  <2> QED
    BY <2>1, <2>2 DEF Series!Max, S
<1>6. Series!Min({d \in MonthStarts : d > D}) = e
  <2> DEFINE S == {d \in MonthStarts : d > D}
  <2>1. e \in S /\ \A y \in S : e <= y
    BY <1>1, <1>2, <1>4
  <2>2. \A x \in S : (\A y \in S : x <= y) => x = e
    BY <1>1, <2>1
  <2> HIDE DEF S
  <2> QED
    BY <2>1, <2>2 DEF Series!Min, S
<1>7. Series!PeriodRange("monthly", t) = [from |-> b * DayLen, to |-> e * DayLen]
  BY <1>5, <1>6 DEF Series!PeriodRange, Series!Days, D
<1>8. b * DayLen <= t /\ t < e * DayLen /\ b * DayLen \in Int /\ e * DayLen \in Int
  <2>1. PICK x \in Nat, y \in Nat : D = b + x /\ e = D + 1 + y
    <3> USE <1>1, <1>2, <1>4
    <3> WITNESS D - b \in Nat
    <3> WITNESS e - D - 1 \in Nat
    <3> QED
      OBVIOUS
  <2>2. x * DayLen \in Nat /\ y * DayLen \in Nat /\ b * DayLen \in Int /\ DayLen * D \in Int
    BY <1>1, <1>2
  <2>3. DayLen * D = b * DayLen + x * DayLen
    BY <1>1, <2>1
  <2>4. e * DayLen = DayLen * D + DayLen + y * DayLen
    BY <1>1, <1>2, <2>1
  <2> QED
    BY <1>1, <1>2, <2>2, <2>3, <2>4
<1> QED
  BY <1>4, <1>7, <1>8 DEF D

LEMMA PeriodHolds ==
  ASSUME CalendarAssumption, NEW period \in {"weekly", "monthly"}, NEW t \in Moments
  PROVE  LET R == Series!PeriodRange(period, t)
         IN R.from \in Int /\ R.to \in Int /\ R.from <= t /\ t < R.to
<1>1. CASE period = "weekly"
  BY <1>1, WeekHolds
<1>2. CASE period = "monthly"
  BY <1>2, MonthHolds
<1> QED
  BY <1>1, <1>2

\* The period of a moment after a period begins where that one ends, or later.
LEMMA PeriodsFollow ==
  ASSUME CalendarAssumption, NEW period \in {"weekly", "monthly"}, NEW s \in Moments, NEW t \in Moments,
         Series!PeriodRange(period, s).to <= t
  PROVE  Series!PeriodRange(period, s).to <= Series!PeriodRange(period, t).from
<1> DEFINE D == Series!DayOf(t)
<1>1. t \in Int /\ DayLen \in Nat \ {0} /\ DaysPerWeek \in Nat \ {0} /\ MonthStarts \subseteq Int
  BY DEF CalendarAssumption, Moments
<1>2. D \in Int
  BY <1>1, Division DEF Series!DayOf
<1>3. ASSUME NEW x \in Int, x * DayLen <= t PROVE x <= D
  <2>1. DayLen * x = x * DayLen
    BY <1>1
  <2> QED
    BY <1>1, <1>3, <2>1, QuotientGrows DEF Series!DayOf
<1>4. ASSUME NEW x \in Int, NEW y \in Int, x <= y PROVE x * DayLen <= y * DayLen
  <2>1. PICK n \in Nat : y = x + n
    <3> USE <1>4
    <3> WITNESS y - x \in Nat
    <3> QED
      OBVIOUS
  <2>2. y * DayLen = x * DayLen + n * DayLen /\ n * DayLen \in Nat /\ x * DayLen \in Int
    BY <1>1, <2>1
  <2> QED
    BY <2>2
<1>5. CASE period = "weekly"
  <2> DEFINE k == Series!DayOf(s) \div DaysPerWeek
             l == D \div DaysPerWeek
  <2>1. k \in Int /\ Series!PeriodRange(period, s).to = (DaysPerWeek * k + DaysPerWeek) * DayLen
    BY <1>5, WeekHolds
  <2>2. l \in Int /\ Series!PeriodRange(period, t).from = (DaysPerWeek * l) * DayLen
    BY <1>5, WeekHolds
  <2> HIDE DEF k, D
  <2>3. DaysPerWeek * k + DaysPerWeek \in Int /\ DaysPerWeek * k + DaysPerWeek = DaysPerWeek * (k + 1)
    BY <1>1, <2>1
  <2>4. DaysPerWeek * (k + 1) <= D
    BY <1>3, <2>1, <2>3
  <2>5. k + 1 <= l
    BY <1>1, <1>2, <2>1, <2>4, QuotientGrows
  <2> HIDE DEF l
  <2>6. DaysPerWeek * (k + 1) <= DaysPerWeek * l /\ DaysPerWeek * l \in Int
    <3>1. PICK n \in Nat : l = k + 1 + n
      <4> USE <2>1, <2>2, <2>5
      <4> WITNESS l - k - 1 \in Nat
      <4> QED
        OBVIOUS
    <3>2. DaysPerWeek * l = DaysPerWeek * (k + 1) + DaysPerWeek * n /\ DaysPerWeek * n \in Nat
          /\ DaysPerWeek * (k + 1) \in Int
      BY <1>1, <2>1, <3>1
    <3> QED
      BY <3>2
  <2> QED
    BY <1>4, <2>1, <2>2, <2>3, <2>6
<1>6. CASE period = "monthly"
  <2>1. PICK b, e \in MonthStarts :
          /\ Series!PeriodRange(period, s) = [from |-> b * DayLen, to |-> e * DayLen]
          /\ b <= Series!DayOf(s) /\ Series!DayOf(s) < e
    BY <1>6, MonthHolds
  <2>2. PICK c, f \in MonthStarts :
          /\ Series!PeriodRange(period, t) = [from |-> c * DayLen, to |-> f * DayLen]
          /\ c <= D /\ D < f
          /\ \A m \in MonthStarts : m <= c \/ f <= m
    BY <1>6, MonthHolds
  <2> HIDE DEF D
  <2>3. e <= D
    BY <1>1, <1>3, <2>1
  <2>4. e <= c
    BY <1>1, <1>2, <2>2, <2>3
  <2> QED
    BY <1>1, <1>4, <2>1, <2>2, <2>4
<1> QED
  BY <1>5, <1>6

\* Two sequences, one after the other.
LEMMA Joined ==
  ASSUME NEW S, NEW s \in Seq(S), NEW t \in Seq(S)
  PROVE  /\ s \o t \in Seq(S) /\ Len(s \o t) = Len(s) + Len(t)
         /\ \A i \in 1 .. Len(s) + Len(t) : (s \o t)[i] = IF i <= Len(s) THEN s[i] ELSE t[i - Len(s)]
<1>1. s \o t \in Seq(S)
  OBVIOUS
<1>2. Len(s \o t) = Len(s) + Len(t)
  OBVIOUS
<1>3. \A i \in 1 .. Len(s) + Len(t) : (s \o t)[i] = IF i <= Len(s) THEN s[i] ELSE t[i - Len(s)]
  OBVIOUS
<1> QED
  BY <1>1, <1>2, <1>3

\* The energy figures of a report cover a range of times.
LEMMA RangeTyped ==
  ASSUME CalendarAssumption, NEW r \in OccurrenceType, r.period = "custom" => r.until \in Moments
  PROVE  Series!RangeOf(r).from \in Int /\ Series!RangeOf(r).to \in Int
<1>1. CASE r.period = "custom"
  BY <1>1 DEF Series!RangeOf, OccurrenceType, Moments
<1>2. CASE r.period # "custom"
  <2>1. r.period \in {"weekly", "monthly"} /\ r.reference \in Moments
    BY <1>2 DEF OccurrenceType
  <2>2. Series!RangeOf(r) = Series!PeriodRange(r.period, r.reference)
    BY <1>2 DEF Series!RangeOf
  <2> QED
    BY <2>1, <2>2, PeriodHolds
<1> QED
  BY <1>1, <1>2

\* A report of its dates, put into the queue.
LEMMA EnqueuedTyped ==
  ASSUME CalendarAssumption, moment \in Moments, NEW period \in {"weekly", "monthly", "custom"},
         NEW reference \in Moments, NEW until \in Moments \cup {Missing}, NEW recurring \in BOOLEAN,
         period = "custom" => until \in Moments /\ ~ recurring
  PROVE  LET r == Series!Enqueued(Series!NewReport(period, reference, until, recurring))
         IN /\ r \in OccurrenceType /\ r.period = period /\ r.reference = reference
            /\ r.read = Missing /\ Scheduled(r)
<1> DEFINE new == Series!NewReport(period, reference, until, recurring)
           r == Series!Enqueued(new)
           due == moment + Series!Delay(new)
           to == Series!RangeOf(new).to
<1>1. new = [period |-> period, reference |-> reference, until |-> until, recurring |-> recurring,
             due |-> Missing, counted |-> {}, read |-> Missing, delivered |-> Missing]
  BY DEF Series!NewReport
<1>2. to \in Int
  <2>1. CASE period = "custom"
    BY <1>1, <2>1 DEF Series!RangeOf, Moments
  <2>2. CASE period # "custom"
    <3>1. to = Series!PeriodRange(period, reference).to
      BY <1>1, <2>2 DEF Series!RangeOf
    <3> HIDE DEF to
    <3> QED
      BY <2>2, <3>1, PeriodHolds
  <2> QED
    BY <2>1, <2>2
<1>3. due \in Int /\ due >= to
  <2>1. moment \in Int /\ 0 \in Int
    BY DEF Moments
  <2>2. Series!Delay(new) = Series!Max({to - moment, 0})
    BY DEF Series!Delay
  <2> HIDE DEF to, new
  <2>3. Series!Max({to - moment, 0}) = IF to - moment >= 0 THEN to - moment ELSE 0
    BY <1>2, <2>1, MaxOfTwo
  <2> QED
    BY <1>2, <2>1, <2>2, <2>3
<1>4. r = [new EXCEPT !.due = due]
  BY DEF Series!Enqueued
<1> HIDE DEF due, r
<1>5. r = [period |-> period, reference |-> reference, until |-> until, recurring |-> recurring,
           due |-> due, counted |-> {}, read |-> Missing, delivered |-> Missing]
  BY <1>1, <1>4
<1>6. r \in OccurrenceType
  BY <1>3, <1>5 DEF OccurrenceType
<1>7. Series!RangeOf(r).to = to
  BY <1>1, <1>5 DEF Series!RangeOf
<1> HIDE DEF to, new
<1>8. Scheduled(r)
  BY <1>3, <1>5, <1>7 DEF Scheduled
<1> QED
  BY <1>5, <1>6, <1>8 DEF r, new

\* Time that passes and an alert of this moment change nothing of what has been read.
LEMMA KeptScheduled ==
  ASSUME CalendarAssumption, SeriesInv, NEW r \in OccurrenceType, Scheduled(r),
         moment' \in Moments, moment' >= moment, raised' \subseteq raised \cup {moment}
  PROVE  Scheduled(r)'
<1>1. moment \in Int /\ moment' \in Int /\ raised \subseteq Int /\ raised' \subseteq Int
  BY DEF SeriesInv, Moments
<1>2. ASSUME r.read # Missing
      PROVE  /\ r.due <= r.read /\ r.read <= moment'
             /\ \A a \in raised' :
                  Series!AlertWindow(r).from <= a /\ a <= Series!AlertWindow(r).to /\ a < r.read
                  => a \in r.counted
  <2>1. r.read \in Int /\ r.due <= r.read /\ r.read <= moment
    BY <1>2 DEF Scheduled, OccurrenceType, Moments
  <2>2. ASSUME NEW a \in raised', Series!AlertWindow(r).from <= a, a <= Series!AlertWindow(r).to, a < r.read
        PROVE  a \in r.counted
    <3>1. a \in raised
      BY <1>1, <2>1, <2>2
    <3> QED
      BY <1>2, <2>2, <3>1 DEF Scheduled, Series!AlertsIn
  <2> QED
    BY <1>1, <2>1, <2>2
<1>3. r.read # Missing => \A a \in r.counted : r.reference <= a /\ a <= r.read
  BY DEF Scheduled
<1>4. /\ r.period = "custom" => r.until \in Moments /\ ~ r.recurring
      /\ r.due >= Series!RangeOf(r).to
      /\ r.delivered # Missing => r.read # Missing
  BY DEF Scheduled
<1> QED
  BY <1>2, <1>3, <1>4 DEF Scheduled, Series!AlertsIn

\* Whatever happens, a report has read what it is scheduled for.
LEMMA SeriesStep == CalendarAssumption /\ SeriesInv /\ [Series!Next]_seriesVars => SeriesInv'
<1> SUFFICES ASSUME CalendarAssumption, SeriesInv, [Series!Next]_seriesVars PROVE SeriesInv'
  OBVIOUS
<1>0. /\ Missing \notin Moments /\ Moments \subseteq Int /\ LastMoment \in Int
      /\ moment \in Moments /\ moment \in Int /\ raised \subseteq Moments
  BY DEF CalendarAssumption, Moments, SeriesInv
<1> DEFINE n == Len(occurrences)
<1>1. /\ occurrences \in Seq(OccurrenceType) /\ n \in Nat /\ DOMAIN occurrences = 1 .. n
      /\ \A i \in 1 .. n : occurrences[i] \in OccurrenceType /\ Scheduled(occurrences[i])
      /\ \A i, j \in 1 .. n : i < j => Follows(occurrences[i], occurrences[j])
  BY DEF SeriesInv
<1> HIDE DEF n
<1>2. ASSUME occurrences' = occurrences, moment' \in Moments, moment' >= moment,
             raised' \subseteq raised \cup {moment}
      PROVE  SeriesInv'
  <2>1. raised' \subseteq 0 .. moment'
    BY <1>0, <1>2 DEF SeriesInv, Moments
  <2>2. \A i \in 1 .. n : Scheduled(occurrences[i])'
    BY <1>1, <1>2, KeptScheduled
  <2>3. ASSUME NEW i \in 1 .. n, NEW j \in 1 .. n, i < j PROVE Follows(occurrences[i], occurrences[j])'
    <3>1. Follows(occurrences[i], occurrences[j])
      BY <1>1, <2>3
    <3>2. occurrences[j].reference \in Int
      BY <1>0, <1>1 DEF OccurrenceType
    <3>3. moment' \in Int /\ moment <= moment'
      BY <1>0, <1>2
    <3>4. occurrences[j].reference <= moment'
      BY <1>0, <3>1, <3>2, <3>3 DEF Follows
    <3> QED
      BY <1>2, <3>1, <3>4 DEF Follows
  <2> QED
    BY <1>1, <1>2, <2>1, <2>2, <2>3 DEF SeriesInv, n
<1>3. CASE Series!Tick
  <2>1. moment' = moment + 1 /\ moment < LastMoment /\ raised' = raised /\ occurrences' = occurrences
    BY <1>3 DEF Series!Tick
  <2> QED
    BY <1>0, <1>2, <2>1 DEF Moments
<1>4. CASE Series!RaiseAlert
  BY <1>0, <1>2, <1>4 DEF Series!RaiseAlert
<1>5. CASE UNCHANGED seriesVars
  BY <1>0, <1>2, <1>5 DEF seriesVars
<1>6. ASSUME NEW period \in {"weekly", "monthly", "custom"}, NEW recurring \in BOOLEAN,
             NEW reference \in 0 .. LastMoment, NEW until \in (0 .. LastMoment) \cup {Missing},
             Series!Request(period, reference, until, recurring)
      PROVE  SeriesInv'
  <2> DEFINE r == Series!Enqueued(Series!NewReport(period, reference, until, recurring))
  <2>1. period = "custom" => until \in Moments /\ ~ recurring
    BY <1>6 DEF Series!Request, Series!ValidDates, Moments
  <2>2. r \in OccurrenceType /\ Scheduled(r) /\ r.read = Missing
    BY <1>0, <2>1, EnqueuedTyped DEF Moments
  <2>3. occurrences' = <<r>> /\ moment' = moment /\ raised' = raised
    BY <1>6 DEF Series!Request
  <2> HIDE DEF r
  <2>4. /\ occurrences' \in Seq(OccurrenceType) /\ DOMAIN occurrences' = {1} /\ occurrences'[1] = r
    BY <2>2, <2>3
  <2>5. \A i \in DOMAIN occurrences' : Scheduled(occurrences[i])'
    <3>1. moment' \in Moments /\ moment' >= moment /\ raised' \subseteq raised \cup {moment}
      BY <1>0, <2>3
    <3>2. PICK y \in OccurrenceType : y = r /\ Scheduled(y)
      BY <2>2
    <3>3. Scheduled(y)'
      BY <3>1, <3>2, KeptScheduled
    <3>4. \A i \in DOMAIN occurrences' : occurrences'[i] = y
      BY <2>4, <3>2
    <3> QED
      BY <3>3, <3>4 DEF Scheduled
  <2>6. moment' \in Moments /\ raised' \subseteq 0 .. moment'
    BY <2>3 DEF SeriesInv
  <2>7. \A i, j \in DOMAIN occurrences' : ~ (i < j)
    BY <2>4
  <2> QED
    BY <2>4, <2>5, <2>6, <2>7 DEF SeriesInv
<1> DEFINE r == occurrences[n]
<1>7. ASSUME Series!Unfinished
      PROVE  n \in 1 .. n /\ Series!Current = r /\ r \in OccurrenceType /\ Scheduled(r) /\ r.delivered = Missing
  BY <1>1, <1>7 DEF Series!Unfinished, Series!Current, n
<1>8. CASE Series!Compute
  <2> DEFINE C == Series!AlertsIn(Series!AlertWindow(r))
             s == [r EXCEPT !.counted = C, !.read = moment]
  <2>1. n \in 1 .. n /\ Series!Current = r /\ r \in OccurrenceType /\ Scheduled(r) /\ r.delivered = Missing
    BY <1>7, <1>8 DEF Series!Compute
  <2>2. /\ moment >= r.due /\ moment' = moment /\ raised' = raised
        /\ occurrences' = [occurrences EXCEPT ![n] = s]
    BY <1>8, <2>1 DEF Series!Compute, n
  <2>3. C \in SUBSET Moments /\ \A a \in C : r.reference <= a /\ a <= moment
    <3>1. Series!AlertWindow(r).from = r.reference
      BY DEF Series!AlertWindow
    <3>2. \A a \in raised : a \in Moments /\ a <= moment
      BY <1>0 DEF SeriesInv, Moments
    <3> QED
      BY <3>1, <3>2 DEF Series!AlertsIn
  <2>4. /\ s \in OccurrenceType
        /\ s.counted = C /\ s.read = moment /\ s.due = r.due /\ s.delivered = Missing
        /\ s.period = r.period /\ s.reference = r.reference /\ s.until = r.until /\ s.recurring = r.recurring
    <3> HIDE DEF C, r
    <3> QED
      BY <1>0, <2>1, <2>3 DEF OccurrenceType
  <2> HIDE DEF s
  <2>5. Series!RangeOf(s) = Series!RangeOf(r) /\ Series!AlertWindow(s) = Series!AlertWindow(r)
    BY <2>4 DEF Series!RangeOf, Series!AlertWindow
  <2>6. Scheduled(s)
    <3>1. moment <= moment /\ r.due <= moment /\ r.due \in Int
      BY <1>0, <2>1, <2>2 DEF OccurrenceType
    <3> QED
      BY <1>0, <2>1, <2>3, <2>4, <2>5, <3>1 DEF Scheduled
  <2>7. /\ occurrences' \in Seq(OccurrenceType) /\ DOMAIN occurrences' = 1 .. n
        /\ \A i \in 1 .. n : occurrences'[i] = IF i = n THEN s ELSE occurrences[i]
    BY <1>1, <2>1, <2>2, <2>4
  <2>8. \A i \in 1 .. n : Scheduled(occurrences[i])'
    <3>1. moment' >= moment
      BY <1>0, <2>2
    <3>2. ASSUME NEW i \in 1 .. n PROVE Scheduled(occurrences'[i])
      BY <1>1, <2>6, <2>7
    <3>3. ASSUME NEW i \in 1 .. n PROVE Scheduled(occurrences[i])'
      <4> DEFINE x == occurrences'[i]
      <4>1. PICK y \in OccurrenceType : y = occurrences'[i] /\ Scheduled(y)
        BY <1>1, <2>4, <2>7, <3>2
      <4>2. Scheduled(y)'
        BY <1>0, <2>2, <3>1, <4>1, KeptScheduled
      <4> QED
        BY <4>1, <4>2 DEF Scheduled
    <3> QED
      BY <3>3
  <2>9. ASSUME NEW i \in 1 .. n, NEW j \in 1 .. n, i < j PROVE Follows(occurrences[i], occurrences[j])'
    <3>0. i # n
      BY <1>1, <2>9
    <3>1. Follows(occurrences[i], occurrences[j])
      BY <1>1, <2>9
    <3>2. /\ occurrences'[i] = occurrences[i]
          /\ occurrences'[j].reference = occurrences[j].reference
          /\ occurrences'[j].period = occurrences[j].period
      BY <2>4, <2>7, <3>0
    <3> QED
      BY <2>2, <3>1, <3>2 DEF Follows
  <2> QED
    BY <1>0, <2>2, <2>7, <2>8, <2>9 DEF SeriesInv
<1>9. CASE Series!Deliver
  <2> DEFINE done == [r EXCEPT !.delivered = moment]
             before == SubSeq(occurrences, 1, n - 1)
             next == Series!Enqueued(Series!NewReport(done.period, Series!NextReference(done), Missing, TRUE))
  <2>1. n \in 1 .. n /\ Series!Current = r /\ r \in OccurrenceType /\ Scheduled(r) /\ r.delivered = Missing
    BY <1>7, <1>9 DEF Series!Deliver
  <2>2. /\ r.read # Missing /\ moment > r.read /\ moment' = moment /\ raised' = raised
        /\ occurrences' = IF r.recurring THEN before \o <<done, next>> ELSE Append(before, done)
    BY <1>9, <2>1 DEF Series!Deliver, n
  <2>3. /\ done \in OccurrenceType
        /\ done.counted = r.counted /\ done.read = r.read /\ done.due = r.due /\ done.delivered = moment
        /\ done.period = r.period /\ done.reference = r.reference /\ done.until = r.until
        /\ done.recurring = r.recurring
    <3> HIDE DEF r
    <3> QED
      BY <1>0, <2>1 DEF OccurrenceType
  <2> HIDE DEF done
  <2>4. Scheduled(done)
    <3>1. Series!RangeOf(done) = Series!RangeOf(r) /\ Series!AlertWindow(done) = Series!AlertWindow(r)
      BY <2>3 DEF Series!RangeOf, Series!AlertWindow
    <3> QED
      BY <2>1, <2>2, <2>3, <3>1 DEF Scheduled
  <2>5. /\ before \in Seq(OccurrenceType) /\ Len(before) = n - 1
        /\ \A i \in 1 .. n - 1 : before[i] = occurrences[i]
    BY <1>1, <2>1 DEF n
  <2> HIDE DEF before
  <2>6. ASSUME NEW y \in OccurrenceType, Scheduled(y) PROVE Scheduled(y)'
    BY <1>0, <2>2, <2>6, KeptScheduled DEF Moments
  <2>7. ASSUME NEW i \in 1 .. n - 1 PROVE Follows(occurrences[i], done)
    BY <1>1, <2>1, <2>3, <2>7 DEF Follows
  <2>8. CASE ~ r.recurring
    <3>1. /\ occurrences' \in Seq(OccurrenceType) /\ DOMAIN occurrences' = 1 .. n
          /\ \A i \in 1 .. n : occurrences'[i] = IF i = n THEN done ELSE occurrences[i]
      BY <2>1, <2>2, <2>3, <2>5, <2>8
    <3>2. ASSUME NEW i \in 1 .. n PROVE Scheduled(occurrences[i])'
      <4>1. PICK y \in OccurrenceType : y = occurrences'[i] /\ Scheduled(y)
        BY <1>1, <2>3, <2>4, <3>1
      <4> QED
        BY <2>6, <4>1 DEF Scheduled
    <3>3. ASSUME NEW i \in 1 .. n, NEW j \in 1 .. n, i < j PROVE Follows(occurrences[i], occurrences[j])'
      <4>1. Follows(occurrences'[i], occurrences'[j])
        BY <1>1, <2>7, <3>1, <3>3
      <4> QED
        BY <2>2, <4>1 DEF Follows
    <3> QED
      BY <1>0, <2>2, <3>1, <3>2, <3>3 DEF SeriesInv
  <2>9. CASE r.recurring
    <3>0. done.period \in {"weekly", "monthly", "custom"} /\ done.period # "custom"
      BY <2>1, <2>3, <2>9 DEF OccurrenceType, Scheduled
    <3>1. /\ next \in OccurrenceType /\ next.period = done.period /\ next.reference = moment
          /\ next.read = Missing /\ Scheduled(next)
      <4>1. next = Series!Enqueued(Series!NewReport(done.period, moment, Missing, TRUE))
        BY DEF Series!NextReference
      <4> DEFINE new == Series!Enqueued(Series!NewReport(done.period, moment, Missing, TRUE))
      <4>2. /\ new \in OccurrenceType /\ new.period = done.period /\ new.reference = moment
            /\ new.read = Missing /\ Scheduled(new)
        <5>1. PICK p \in {"weekly", "monthly", "custom"}, m \in Moments, u \in Moments \cup {Missing},
                   b \in BOOLEAN : p = done.period /\ m = moment /\ u = Missing /\ b = TRUE
          BY <1>0, <3>0
        <5>2. moment \in Moments /\ (p = "custom" => u \in Moments /\ ~ b)
          BY <1>0, <3>0, <5>1
        <5> DEFINE x == Series!Enqueued(Series!NewReport(p, m, u, b))
        <5>3. x \in OccurrenceType /\ x.period = p /\ x.reference = m /\ x.read = Missing /\ Scheduled(x)
          BY <5>2, EnqueuedTyped
        <5>4. new = x
          BY <5>1
        <5> HIDE DEF x, new
        <5> QED
          BY <5>1, <5>3, <5>4
      <4> HIDE DEF new
      <4> QED
        BY <4>1, <4>2 DEF new
    <3> HIDE DEF next
    <3>2. /\ occurrences' \in Seq(OccurrenceType) /\ DOMAIN occurrences' = 1 .. n + 1
          /\ \A i \in 1 .. n + 1 :
               occurrences'[i] = IF i = n + 1 THEN next ELSE IF i = n THEN done ELSE occurrences[i]
      <4> DEFINE last == <<done, next>>
      <4>1. last \in Seq(OccurrenceType) /\ Len(last) = 2 /\ last[1] = done /\ last[2] = next
        BY <2>3, <3>1
      <4>2. occurrences' = before \o last
        BY <2>2, <2>9
      <4> HIDE DEF last
      <4>3. /\ before \o last \in Seq(OccurrenceType) /\ Len(before \o last) = n + 1
            /\ DOMAIN (before \o last) = 1 .. n + 1
        <5>1. before \o last \in Seq(OccurrenceType)
          BY <2>5, <4>1
        <5>2. Len(before \o last) = Len(before) + Len(last)
          BY <2>5, <4>1, Joined
        <5>3. Len(before \o last) = n + 1
          BY <1>1, <2>5, <4>1, <5>2
        <5> QED
          BY <5>1, <5>3
      <4>5. \A i \in 1 .. n + 1 :
              (before \o last)[i] = IF i <= n - 1 THEN before[i] ELSE last[i - (n - 1)]
        <5>1. \A i \in 1 .. Len(before) + Len(last) :
                (before \o last)[i] = IF i <= Len(before) THEN before[i] ELSE last[i - Len(before)]
          BY <2>5, <4>1, Joined
        <5>2. Len(before) + Len(last) = n + 1
          BY <1>1, <2>5, <4>1
        <5> QED
          BY <2>5, <5>1, <5>2
      <4>4. ASSUME NEW i \in 1 .. n + 1
            PROVE  (before \o last)[i] = IF i = n + 1 THEN next ELSE IF i = n THEN done ELSE occurrences[i]
        <5>1. CASE i = n + 1
          <6>1. ~ (i <= n - 1) /\ i - (n - 1) = 2
            BY <1>1, <5>1
          <6> QED
            BY <4>1, <4>5, <5>1, <6>1
        <5>2. CASE i = n
          <6>1. ~ (i <= n - 1) /\ i - (n - 1) = 1 /\ i # n + 1
            BY <1>1, <5>2
          <6> QED
            BY <4>1, <4>5, <5>2, <6>1
        <5>3. CASE i \in 1 .. n - 1
          <6>1. i <= n - 1 /\ i # n /\ i # n + 1
            BY <1>1, <5>3
          <6> QED
            BY <2>5, <4>5, <5>3, <6>1
        <5>4. i = n + 1 \/ i = n \/ i \in 1 .. n - 1
          BY <1>1
        <5> QED
          BY <5>1, <5>2, <5>3, <5>4
      <4> QED
        BY <4>2, <4>3, <4>4
    <3>3. ASSUME NEW i \in 1 .. n + 1 PROVE Scheduled(occurrences[i])'
      <4>0. occurrences'[i] \in OccurrenceType /\ Scheduled(occurrences'[i])
        <5>1. CASE i = n + 1
          BY <3>1, <3>2, <5>1
        <5>2. CASE i = n
          BY <1>1, <2>3, <2>4, <3>2, <5>2
        <5>3. CASE i \in 1 .. n - 1
          <6>1. occurrences'[i] = occurrences[i] /\ i \in 1 .. n
            BY <1>1, <3>2, <5>3
          <6> QED
            BY <1>1, <6>1
        <5> QED
          BY <1>1, <5>1, <5>2, <5>3
      <4>1. PICK y \in OccurrenceType : y = occurrences'[i] /\ Scheduled(y)
        BY <4>0
      <4> QED
        BY <2>6, <4>1 DEF Scheduled
    <3>4. Follows(done, next)
      BY <1>0, <2>2, <2>3, <3>0, <3>1 DEF Follows
    <3>5. ASSUME NEW i \in 1 .. n - 1 PROVE Follows(occurrences[i], next)
      <4>1. Follows(occurrences[i], done) /\ occurrences[i] \in OccurrenceType
        BY <1>1, <2>7
      <4>2. done.reference \in Int /\ done.reference <= moment
        BY <2>3, <4>1 DEF OccurrenceType, Moments, Follows
      <4>3. occurrences[i].read \in Int /\ occurrences[i].read < moment
        BY <1>0, <4>1, <4>2 DEF OccurrenceType, Moments, Follows
      <4>4. occurrences[i].read # Missing /\ occurrences[i].period = next.period /\ next.period # "custom"
        BY <3>0, <3>1, <4>1 DEF Follows
      <4>5. next.reference <= moment
        BY <1>0, <3>1
      <4> QED
        BY <3>1, <4>3, <4>4, <4>5 DEF Follows
    <3>6. ASSUME NEW i \in 1 .. n + 1, NEW j \in 1 .. n + 1, i < j
          PROVE  Follows(occurrences[i], occurrences[j])'
      <4>1. Follows(occurrences'[i], occurrences'[j])
        <5>1. CASE j = n + 1 /\ i = n
          BY <1>1, <3>2, <3>4, <5>1
        <5>2. CASE j = n + 1 /\ i # n
          <6>1. i \in 1 .. n - 1 /\ occurrences'[i] = occurrences[i] /\ occurrences'[j] = next
            BY <1>1, <3>2, <3>6, <5>2
          <6> QED
            BY <3>5, <6>1
        <5>3. CASE j = n
          <6>1. i \in 1 .. n - 1 /\ occurrences'[i] = occurrences[i] /\ occurrences'[j] = done
            BY <1>1, <3>2, <3>6, <5>3
          <6> QED
            BY <2>7, <6>1
        <5>4. CASE j # n /\ j # n + 1
          <6>1. i \in 1 .. n /\ j \in 1 .. n /\ i # n /\ i # n + 1
            BY <1>1, <3>6, <5>4
          <6>2. occurrences'[i] = occurrences[i] /\ occurrences'[j] = occurrences[j]
            BY <3>2, <3>6, <5>4, <6>1
          <6> QED
            BY <1>1, <3>6, <6>1, <6>2
        <5> QED
          BY <5>1, <5>2, <5>3, <5>4
      <4> QED
        BY <2>2, <4>1 DEF Follows
    <3> QED
      BY <1>0, <2>2, <3>2, <3>3, <3>6 DEF SeriesInv
  <2> QED
    BY <2>8, <2>9
<1> QED
  BY <1>3, <1>4, <1>5, <1>6, <1>8, <1>9 DEF Series!Next, seriesVars

\* The reports of a request tell of every moment once, however late their attempts are,
\* whatever the calendar is and however many occurrences there are.
THEOREM SeriesTellsEverythingOnce == CalendarAssumption => (Series!Spec => []SeriesTellsOnce)
<1> SUFFICES ASSUME CalendarAssumption PROVE Series!Spec => []SeriesTellsOnce
  OBVIOUS
<1>1. Series!Init => SeriesInv
  <2> SUFFICES ASSUME Series!Init PROVE SeriesInv
    OBVIOUS
  <2>1. moment = 0 /\ raised = {} /\ occurrences = <<>>
    BY DEF Series!Init
  <2>2. occurrences \in Seq(OccurrenceType) /\ DOMAIN occurrences = {} /\ moment \in Moments
    BY <2>1 DEF CalendarAssumption, Moments
  <2> QED
    BY <2>1, <2>2 DEF SeriesInv
<1>2. SeriesInv /\ [Series!Next]_seriesVars => SeriesInv'
  BY SeriesStep
<1>3. SeriesInv => Series!SeriesTellsOnce
  <2> SUFFICES ASSUME SeriesInv PROVE Series!SeriesTellsOnce
    OBVIOUS
  <2>1. ASSUME NEW i \in Series!Delivered
        PROVE  LET r == occurrences[i] IN
               /\ r \in OccurrenceType /\ Scheduled(r) /\ r.read \in Moments /\ r.due <= r.read
               /\ Series!RangeOf(r).from \in Int /\ Series!RangeOf(r).to \in Int
               /\ Series!RangeOf(r).to <= r.read /\ r.reference \in Int
    <3> DEFINE r == occurrences[i]
    <3>1. i \in DOMAIN occurrences /\ r.delivered # Missing
      BY DEF Series!Delivered
    <3>2. r \in OccurrenceType /\ Scheduled(r)
      BY <3>1 DEF SeriesInv
    <3>3. r.read \in Moments /\ r.due \in Int /\ r.due <= r.read /\ r.due >= Series!RangeOf(r).to
          /\ r.reference \in Int /\ (r.period = "custom" => r.until \in Moments)
      BY <3>1, <3>2 DEF Scheduled, OccurrenceType, Moments
    <3> HIDE DEF r
    <3>4. Series!RangeOf(r).from \in Int /\ Series!RangeOf(r).to \in Int
      BY <3>2, <3>3, RangeTyped
    <3>5. Series!RangeOf(r).to <= r.read
      BY <3>3, <3>4 DEF Moments
    <3> QED
      BY <3>2, <3>3, <3>4, <3>5 DEF r
  <2>2. ASSUME NEW i \in Series!Delivered, NEW j \in Series!Delivered, i < j
        PROVE  /\ Series!RangeOf(occurrences[i]).to <= Series!RangeOf(occurrences[j]).from
               /\ occurrences[i].counted \cap occurrences[j].counted = {}
    <3> DEFINE r == occurrences[i]
               s == occurrences[j]
    <3>1. Follows(r, s)
      BY <2>2 DEF SeriesInv, Series!Delivered
    <3>2. /\ r \in OccurrenceType /\ Scheduled(r) /\ r.read \in Moments
          /\ Series!RangeOf(r).to \in Int /\ Series!RangeOf(r).to <= r.read
      BY <2>1
    <3>3. s \in OccurrenceType /\ Scheduled(s) /\ s.read \in Moments
      BY <2>1
    <3> HIDE DEF r, s
    <3>4. /\ r.period \in {"weekly", "monthly"} /\ r.reference \in Moments /\ s.reference \in Moments
          /\ s.period = r.period /\ r.read < s.reference
      BY <3>1, <3>2, <3>3 DEF Follows, OccurrenceType
    <3>5. /\ Series!RangeOf(r) = Series!PeriodRange(r.period, r.reference)
          /\ Series!RangeOf(s) = Series!PeriodRange(r.period, s.reference)
      BY <3>4 DEF Series!RangeOf
    <3>6. Series!RangeOf(r).to <= s.reference
      BY <3>2, <3>4 DEF Moments
    <3>7. Series!RangeOf(r).to <= Series!RangeOf(s).from
      BY <3>4, <3>5, <3>6, PeriodsFollow
    <3>8. ASSUME NEW a, a \in r.counted, a \in s.counted PROVE FALSE
      <4>1. a \in Moments /\ a <= r.read /\ s.reference <= a
        BY <3>2, <3>3, <3>8 DEF Scheduled, OccurrenceType, CalendarAssumption, Moments
      <4> QED
        BY <3>2, <3>4, <4>1 DEF Moments
    <3> QED
      BY <3>7, <3>8 DEF r, s
  <2>3. ASSUME NEW i \in Series!Delivered, NEW a \in raised, occurrences[i].reference <= a,
               a < Series!RangeOf(occurrences[i]).to, a \notin occurrences[i].counted
        PROVE  /\ occurrences[i].period = "monthly"
               /\ a > occurrences[i].reference + MonthSpan * DayLen
    <3> DEFINE r == occurrences[i]
    <3>1. /\ r \in OccurrenceType /\ Scheduled(r) /\ r.read \in Moments /\ r.reference \in Int
          /\ Series!RangeOf(r).to \in Int /\ Series!RangeOf(r).to <= r.read
      BY <2>1
    <3>2. a \in Int /\ r.reference <= a /\ a < Series!RangeOf(r).to /\ a \notin r.counted
      BY <2>3 DEF SeriesInv
    <3> HIDE DEF r
    <3>3. a < r.read /\ r.read # Missing
      BY <3>1, <3>2 DEF Moments, CalendarAssumption
    <3>4. ~ (a <= Series!AlertWindow(r).to)
      <4>1. a \notin Series!AlertsIn(Series!AlertWindow(r))
        BY <3>1, <3>2, <3>3 DEF Scheduled
      <4>2. Series!AlertWindow(r).from = r.reference
        BY DEF Series!AlertWindow
      <4> QED
        BY <3>2, <4>1, <4>2 DEF Series!AlertsIn
    <3>5. r.period # "custom"
      BY <3>1, <3>2, <3>4 DEF Series!AlertWindow, Series!RangeOf, Scheduled, Moments
    <3>6. r.period # "weekly"
      <4> SUFFICES ASSUME r.period = "weekly" PROVE FALSE
        OBVIOUS
      <4> DEFINE R == Series!PeriodRange("weekly", r.reference)
      <4>1. r.reference \in Moments
        BY <3>1 DEF OccurrenceType
      <4>2. R.from \in Int /\ R.from <= r.reference /\ R.to = R.from + DaysPerWeek * DayLen
        BY <4>1, WeekHolds
      <4>3. Series!RangeOf(r) = R
        BY DEF Series!RangeOf
      <4> HIDE DEF R
      <4>4. Series!AlertWindow(r).to = r.reference + DaysPerWeek * DayLen
        BY DEF Series!AlertWindow, Series!SpanDays
      <4>5. DaysPerWeek * DayLen \in Int
        BY DEF CalendarAssumption
      <4> QED
        BY <3>1, <3>2, <3>4, <4>2, <4>3, <4>4, <4>5
    <3>7. r.period = "monthly"
      BY <3>1, <3>5, <3>6 DEF OccurrenceType
    <3>8. Series!AlertWindow(r).to = r.reference + MonthSpan * DayLen
      BY <3>7 DEF Series!AlertWindow, Series!SpanDays
    <3>9. MonthSpan * DayLen \in Int
      BY DEF CalendarAssumption
    <3> QED
      BY <3>1, <3>2, <3>4, <3>7, <3>8, <3>9 DEF r
  <2>4. Series!Delivered \subseteq Nat
    BY DEF Series!Delivered, SeriesInv
  <2>5. \A i \in Series!Delivered : occurrences[i].read >= Series!RangeOf(occurrences[i]).to
    BY <2>1 DEF Moments
  <2>6. ASSUME NEW i \in Series!Delivered, NEW j \in Series!Delivered, i # j
        PROVE  occurrences[i].counted \cap occurrences[j].counted = {}
    <3>1. i < j \/ j < i
      BY <2>4, <2>6
    <3> QED
      BY <2>2, <3>1
  <2> QED
    BY <2>2, <2>3, <2>5, <2>6 DEF Series!SeriesTellsOnce
<1>4. Series!SeriesTellsOnce => SeriesTellsOnce
  BY DEF SeriesTellsOnce
<1> QED
  BY <1>1, <1>2, <1>3, <1>4, PTL DEF Series!Spec, Series!vars, seriesVars

-----------------------------------------------------------------------------
(* The grades of a reading.                                                *)

\* What users and inverters report is a number or nothing, and no panel takes power.
GradingAssumption ==
  /\ Charges \subseteq Int /\ Loads \subseteq Int /\ Suns \subseteq Nat
  /\ Capacities \subseteq Int /\ Panels \subseteq Int /\ Thresholds \subseteq Int
  /\ CriticalSoc \in Int /\ LowSoc \in Int
  /\ Missing \notin Int

Readings == [soc: Int \cup {Missing}, load: Int \cup {Missing}, solar: Nat \cup {Missing}]
Machines == [capacity: Int, panel: Int]

GradingInv ==
  /\ inverter \in MCInverters
  /\ threshold \in Thresholds \cup {Missing}
  /\ metric \in MCMetrics \cup {Missing}

LEMMA LargerOfTwo ==
  ASSUME NEW a \in Int, NEW b \in Int
  PROVE  Rules!Max({a, b}) = IF a >= b THEN a ELSE b
<1>1. /\ Rules!Max({a, b}) \in {a, b}
      /\ \A y \in {a, b} : Rules!Max({a, b}) >= y
  <2>1. \E x \in {a, b} : \A y \in {a, b} : x >= y
    <3>1. CASE a >= b
      BY <3>1
    <3>2. CASE ~ (a >= b)
      BY <3>2
    <3> QED
      BY <3>1, <3>2
  <2> QED
    BY <2>1 DEF Rules!Max
<1> QED
  BY <1>1

LEMMA SmallerOfTwo ==
  ASSUME NEW a \in Int, NEW b \in Int
  PROVE  Rules!Min({a, b}) = IF a <= b THEN a ELSE b
<1>1. /\ Rules!Min({a, b}) \in {a, b}
      /\ \A y \in {a, b} : Rules!Min({a, b}) <= y
  <2>1. \E x \in {a, b} : \A y \in {a, b} : x <= y
    <3>1. CASE a <= b
      BY <3>1
    <3>2. CASE ~ (a <= b)
      BY <3>2
    <3> QED
      BY <3>1, <3>2
  <2> QED
    BY <2>1 DEF Rules!Min
<1> QED
  BY <1>1

\* A product by a positive number tells the order of the factors.
LEMMA FactorsFollow ==
  ASSUME NEW d \in Nat \ {0}, NEW k \in Int, NEW l \in Int, d * k < d * l
  PROVE  k < l
<1>1. d * k >= d * l \/ k < l
  <2>1. CASE k >= l
    <3>1. k - l \in Nat
      BY <2>1
    <3>2. d * (k - l) \in Nat
      BY <3>1
    <3>3. d * (k - l) = d * k - d * l
      OBVIOUS
    <3>4. d * k \in Int /\ d * l \in Int
      OBVIOUS
    <3> QED
      BY <3>2, <3>3, <3>4
  <2> QED
    BY <2>1
<1>2. d * k \in Int /\ d * l \in Int
  OBVIOUS
<1> QED
  BY <1>1, <1>2

\* A product grows with one factor if the other is no less than zero.
LEMMA ProductGrows ==
  ASSUME NEW a \in Int, NEW b \in Int, NEW c \in Nat, a <= b
  PROVE  a * c \in Int /\ b * c \in Int /\ a * c <= b * c
<1>1. b - a \in Nat
  OBVIOUS
<1>2. (b - a) * c \in Nat
  BY <1>1
<1>3. (b - a) * c = b * c - a * c
  OBVIOUS
<1>4. a * c \in Int /\ b * c \in Int
  OBVIOUS
<1> QED
  BY <1>2, <1>3, <1>4

\* Math.round of a quotient.
LEMMA Rounded ==
  ASSUME NEW n \in Int, NEW d \in Nat \ {0}
  PROVE  LET q == Rules!Round(n, d) IN
         q \in Int /\ 2 * (d * q) <= 2 * n + d /\ 2 * n + d < 2 * (d * q) + 2 * d
<1> DEFINE a == 2 * n + d
           b == 2 * d
           q == a \div b
<1>1. a \in Int /\ b \in Nat \ {0}
  OBVIOUS
<1>2. Rules!Round(n, d) = q
  BY DEF Rules!Round
<1>3. q \in Int /\ b * q <= a /\ a < b * q + b
  BY <1>1, Division
<1> HIDE DEF q
<1>4. b * q = 2 * (d * q)
  BY <1>3
<1> QED
  BY <1>2, <1>3, <1>4

\* Less of it, used up at least as fast, lasts no longer.
LEMMA RoundGrows ==
  ASSUME NEW n \in Nat, NEW k \in Nat, NEW d \in Nat \ {0}, NEW e \in Nat \ {0}, n <= k, e <= d
  PROVE  Rules!Round(n, d) <= Rules!Round(k, e)
<1> DEFINE q == Rules!Round(n, d)
           p == Rules!Round(k, e)
<1>1. q \in Int /\ 2 * (d * q) <= 2 * n + d
  BY Rounded
<1>2. p \in Int /\ 2 * (e * p) <= 2 * k + e /\ 2 * k + e < 2 * (e * p) + 2 * e
  BY Rounded
<1> HIDE DEF q, p
<1>3. p >= 0
  <2>1. e * (0 - 1) < e * p
    <3>1. e * p \in Int
      BY <1>2
    <3> QED
      BY <1>2, <3>1
  <2>2. 0 - 1 < p
    BY <1>2, <2>1, FactorsFollow
  <2> QED
    BY <1>2, <2>2
<1>4. ASSUME q > p PROVE FALSE
  <2>1. p + 1 <= q /\ p + 1 \in Nat /\ d * q \in Int /\ e * p \in Int /\ d * p \in Int
    BY <1>1, <1>2, <1>3, <1>4
  <2>2. (p + 1) * d <= q * d
    BY <1>1, <2>1, ProductGrows
  <2>3. e * p <= d * p
    <3>1. e * p = p * e /\ d * p = p * d
      BY <1>2
    <3> QED
      BY <1>2, <1>3, <3>1, ProductGrows
  <2>4. d * p + d <= d * q
    BY <1>1, <1>2, <2>1, <2>2
  <2> QED
    BY <1>1, <1>2, <2>1, <2>3, <2>4
<1> QED
  BY <1>1, <1>2, <1>4 DEF q, p

\* The numbers that grading takes from a reading.
LEMMA NumbersOfReading ==
  ASSUME Missing \notin Int, NEW m \in Readings
  PROVE  LET charge == Rules!Min({Rules!Positive(m.soc), 100}) IN
         /\ Rules!OrZero(m.soc) \in Int /\ Rules!OrZero(m.load) \in Int /\ Rules!OrZero(m.solar) \in Nat
         /\ charge \in Nat
         /\ charge = IF Rules!OrZero(m.soc) <= 0 THEN 0
                     ELSE IF Rules!OrZero(m.soc) >= 100 THEN 100 ELSE Rules!OrZero(m.soc)
         /\ Rules!Net(m) \in Nat
         /\ Rules!Net(m) =
              IF Rules!OrZero(m.load) <= Rules!OrZero(m.solar) THEN 0
              ELSE Rules!OrZero(m.load) - Rules!OrZero(m.solar)
<1> DEFINE s == Rules!OrZero(m.soc)
           l == Rules!OrZero(m.load)
           u == Rules!OrZero(m.solar)
<1>1. s \in Int /\ l \in Int /\ u \in Nat
  BY DEF Rules!OrZero, Readings
<1>2. /\ Rules!Positive(m.soc) = Rules!Max({0, s}) /\ Rules!Positive(m.load) = Rules!Max({0, l})
      /\ Rules!Positive(m.solar) = Rules!Max({0, u})
  BY DEF Rules!Positive
<1> HIDE DEF s, l, u
<1>3. Rules!Max({0, s}) = IF 0 >= s THEN 0 ELSE s
  BY <1>1, LargerOfTwo
<1>4. Rules!Max({0, l}) = IF 0 >= l THEN 0 ELSE l
  BY <1>1, LargerOfTwo
<1>5. Rules!Max({0, u}) = u
  <2>1. Rules!Max({0, u}) = IF 0 >= u THEN 0 ELSE u
    BY <1>1, LargerOfTwo
  <2> QED
    BY <1>1, <2>1
<1> DEFINE t == Rules!Positive(m.soc)
           v == Rules!Positive(m.load) - Rules!Positive(m.solar)
<1>6. t \in Nat /\ v \in Int /\ t = (IF 0 >= s THEN 0 ELSE s) /\ v = (IF 0 >= l THEN 0 ELSE l) - u
  BY <1>1, <1>2, <1>3, <1>4, <1>5
<1>7. Rules!Net(m) = Rules!Max({0, v})
  BY DEF Rules!Net
<1> HIDE DEF t, v
<1>8. Rules!Max({0, v}) = IF 0 >= v THEN 0 ELSE v
  BY <1>6, LargerOfTwo
<1>9. Rules!Min({t, 100}) = IF t <= 100 THEN t ELSE 100
  BY <1>6, SmallerOfTwo
<1>10. /\ Rules!Min({t, 100}) \in Nat
       /\ Rules!Min({t, 100}) = IF s <= 0 THEN 0 ELSE IF s >= 100 THEN 100 ELSE s
  BY <1>1, <1>6, <1>9
<1>11. Rules!Net(m) \in Nat /\ Rules!Net(m) = IF l <= u THEN 0 ELSE l - u
  BY <1>1, <1>6, <1>7, <1>8
<1> QED
  BY <1>1, <1>10, <1>11 DEF s, l, u, t

\* What the battery holds, in percent; for how long that lasts, in hundredths of a minute.
Charge(m) == Rules!Min({Rules!Positive(m.soc), 100})
Spared(m, i) == Rules!Net(m) = 0 \/ i.capacity = 1
MinutesLeft(m, i, t) ==
  IF i.capacity <= 0 \/ Charge(m) <= t THEN 0
  ELSE Rules!Round((Charge(m) - t) * i.capacity * 6, Rules!Net(m))

\* The minutes that calculateDepletion computes, whatever the reading is.
LEMMA Depletes ==
  ASSUME Missing \notin Int, NEW m \in Readings, NEW i \in Machines, NEW t \in Int
  PROVE  LET d == Rules!CalculateDepletion(m, i, t) IN
         /\ Spared(m, i) => d.charging = TRUE /\ d.minutes = Missing
         /\ ~ Spared(m, i) =>
              d.charging = FALSE /\ d.minutes = MinutesLeft(m, i, t) /\ MinutesLeft(m, i, t) \in Int
<1> DEFINE d == Rules!CalculateDepletion(m, i, t)
           c == Charge(m)
           N == Rules!Net(m)
           k == i.capacity
           left == (c - t) * k * 6
<1>1. c \in Nat /\ N \in Nat /\ k \in Int /\ left \in Int
  <2>1. c \in Nat /\ N \in Nat
    BY NumbersOfReading DEF Charge
  <2> HIDE DEF c, N
  <2> QED
    BY <2>1 DEF Machines
<1>2. d = CASE N = 0 \/ k = 1 -> Rules!Charging
            [] N > 0 /\ k <= 0 -> Rules!LastsFor(0)
            [] N > 0 /\ k >= 2 -> Rules!LastsFor(IF c - t <= 0 THEN 0 ELSE Rules!Round(left, N))
  BY DEF Rules!CalculateDepletion, Charge
<1> DEFINE q == Rules!Round(left, N)
<1>3. N # 0 => q \in Int
  <2> HIDE DEF left, N
  <2> QED
    BY <1>1, Rounded
<1>4. MinutesLeft(m, i, t) = IF k <= 0 \/ c <= t THEN 0 ELSE q
  BY DEF MinutesLeft
<1>5. Spared(m, i) <=> N = 0 \/ k = 1
  BY DEF Spared
<1> HIDE DEF d, c, N, k, q
<1>6. CASE N = 0 \/ k = 1
  BY <1>1, <1>2, <1>5, <1>6 DEF Rules!Charging, d
<1>7. CASE N > 0 /\ k <= 0
  BY <1>1, <1>2, <1>4, <1>5, <1>7 DEF Rules!LastsFor, d
<1>8. CASE N > 0 /\ k >= 2
  <2>1. d = Rules!LastsFor(IF c - t <= 0 THEN 0 ELSE q)
    BY <1>1, <1>2, <1>8 DEF q
  <2>2. c - t <= 0 <=> c <= t
    BY <1>1
  <2>3. d = Rules!LastsFor(MinutesLeft(m, i, t)) /\ MinutesLeft(m, i, t) \in Int /\ ~ Spared(m, i)
    BY <1>1, <1>3, <1>4, <1>5, <1>8, <2>1, <2>2
  <2> QED
    BY <2>3 DEF Rules!LastsFor, d
<1>9. (N = 0 \/ k = 1) \/ (N > 0 /\ k <= 0) \/ (N > 0 /\ k >= 2)
  <2> HIDE DEF left
  <2> QED
    BY <1>1
<1> QED
  BY <1>6, <1>7, <1>8, <1>9

\* The grade of the battery: how soon it is down to the threshold.
LEMMA BatteryGrade ==
  ASSUME Missing \notin Int, NEW m \in Readings, NEW i \in Machines, NEW t \in Int
  PROVE  Rules!ShouldFireAlert(Rules!CalculateDepletion(m, i, t)) =
           IF Spared(m, i) THEN 0
           ELSE IF MinutesLeft(m, i, t) < 3000 THEN 2
           ELSE IF MinutesLeft(m, i, t) <= 6000 THEN 1 ELSE 0
<1> DEFINE d == Rules!CalculateDepletion(m, i, t)
<1>1. /\ Spared(m, i) => d.charging = TRUE /\ d.minutes = Missing
      /\ ~ Spared(m, i) =>
           d.charging = FALSE /\ d.minutes = MinutesLeft(m, i, t) /\ MinutesLeft(m, i, t) \in Int
  BY Depletes
<1> HIDE DEF d
<1>2. CASE Spared(m, i)
  BY <1>1, <1>2 DEF Rules!ShouldFireAlert, d
<1>3. CASE ~ Spared(m, i)
  <2>1. d.charging = FALSE /\ d.minutes = MinutesLeft(m, i, t) /\ d.minutes # Missing
    BY <1>1, <1>3
  <2> QED
    BY <1>3, <2>1 DEF Rules!ShouldFireAlert, d
<1> QED
  BY <1>2, <1>3

\* With less in the battery, more load and no more sun, it does not last longer.
LEMMA GraverLastsNoLonger ==
  ASSUME Missing \notin Int, NEW m \in Readings, NEW n \in Readings, NEW i \in Machines, NEW t \in Int,
         Rules!Graver(m, n), ~ Spared(n, i)
  PROVE  ~ Spared(m, i) /\ MinutesLeft(m, i, t) <= MinutesLeft(n, i, t)
<1> DEFINE c == Charge(m)
           e == Charge(n)
           N == Rules!Net(m)
           P == Rules!Net(n)
           k == i.capacity
<1>1. /\ c \in Nat
      /\ c = IF Rules!OrZero(m.soc) <= 0 THEN 0
             ELSE IF Rules!OrZero(m.soc) >= 100 THEN 100 ELSE Rules!OrZero(m.soc)
      /\ N \in Nat
      /\ N = IF Rules!OrZero(m.load) <= Rules!OrZero(m.solar) THEN 0
             ELSE Rules!OrZero(m.load) - Rules!OrZero(m.solar)
  BY NumbersOfReading DEF Charge
<1>2. /\ e \in Nat
      /\ e = IF Rules!OrZero(n.soc) <= 0 THEN 0
             ELSE IF Rules!OrZero(n.soc) >= 100 THEN 100 ELSE Rules!OrZero(n.soc)
      /\ P \in Nat
      /\ P = IF Rules!OrZero(n.load) <= Rules!OrZero(n.solar) THEN 0
             ELSE Rules!OrZero(n.load) - Rules!OrZero(n.solar)
  BY NumbersOfReading DEF Charge
<1>3. /\ Rules!OrZero(m.soc) \in Int /\ Rules!OrZero(m.load) \in Int /\ Rules!OrZero(m.solar) \in Nat
      /\ Rules!OrZero(n.soc) \in Int /\ Rules!OrZero(n.load) \in Int /\ Rules!OrZero(n.solar) \in Nat
  BY NumbersOfReading
<1>4. /\ Rules!OrZero(m.soc) <= Rules!OrZero(n.soc) /\ Rules!OrZero(m.load) >= Rules!OrZero(n.load)
      /\ Rules!OrZero(m.solar) <= Rules!OrZero(n.solar)
  BY DEF Rules!Graver
<1>5. k \in Int
  BY DEF Machines
<1>6. /\ Spared(m, i) <=> N = 0 \/ k = 1
      /\ Spared(n, i) <=> P = 0 \/ k = 1
      /\ MinutesLeft(m, i, t) = IF k <= 0 \/ c <= t THEN 0 ELSE Rules!Round((c - t) * k * 6, N)
      /\ MinutesLeft(n, i, t) = IF k <= 0 \/ e <= t THEN 0 ELSE Rules!Round((e - t) * k * 6, P)
  BY DEF Spared, MinutesLeft
<1> HIDE DEF c, e, N, P, k
<1>7. c <= e
  BY <1>1, <1>2, <1>3, <1>4
<1>8. P <= N /\ P # 0 /\ N # 0 /\ k # 1 /\ ~ Spared(m, i)
  BY <1>1, <1>2, <1>3, <1>4, <1>6
<1>9. CASE k <= 0
  BY <1>6, <1>8, <1>9
<1>10. ASSUME k > 0, NEW x \in Nat, NEW y \in Int, x <= y
       PROVE  x * k * 6 \in Nat /\ y * k * 6 \in Nat /\ x * k * 6 <= y * k * 6
  <2>1. k \in Nat /\ x \in Int
    BY <1>5, <1>10
  <2>2. x * k \in Nat /\ y * k \in Int /\ x * k <= y * k
    BY <1>10, <2>1, ProductGrows
  <2> QED
    BY <2>2
<1>11. CASE k > 0 /\ c > t
  <2> DEFINE u == (c - t) * k * 6
             v == (e - t) * k * 6
  <2>1. c - t \in Nat /\ e - t \in Int /\ c - t <= e - t /\ ~ (e <= t) /\ ~ (c <= t) /\ ~ (k <= 0)
    BY <1>1, <1>2, <1>5, <1>7, <1>11
  <2>2. u \in Nat /\ v \in Nat /\ u <= v
    BY <1>10, <1>11, <2>1
  <2>3. MinutesLeft(m, i, t) = Rules!Round(u, N) /\ MinutesLeft(n, i, t) = Rules!Round(v, P)
    BY <1>6, <2>1
  <2> HIDE DEF u, v
  <2>4. Rules!Round(u, N) <= Rules!Round(v, P)
    BY <1>1, <1>2, <1>8, <2>2, RoundGrows
  <2> QED
    BY <1>8, <2>3, <2>4
<1>12. CASE k > 0 /\ c <= t
  <2>1. MinutesLeft(m, i, t) = 0
    BY <1>6, <1>12
  <2>2. MinutesLeft(n, i, t) >= 0
    <3>1. CASE e <= t
      BY <1>6, <3>1
    <3>2. CASE ~ (e <= t)
      <4> DEFINE v == (e - t) * k * 6
      <4>1. 0 \in Nat /\ e - t \in Int /\ 0 <= e - t /\ ~ (k <= 0)
        BY <1>2, <1>5, <1>12, <3>2
      <4>2. 0 * k * 6 \in Nat /\ v \in Nat
        BY <1>10, <1>12, <4>1
      <4>3. MinutesLeft(n, i, t) = Rules!Round(v, P)
        BY <1>6, <3>2, <4>1
      <4> HIDE DEF v
      <4>4. Rules!Round(0, P) <= Rules!Round(v, P)
        BY <1>2, <1>8, <4>2, RoundGrows
      <4>5. Rules!Round(0, P) = 0
        BY <1>2, <1>8 DEF Rules!Round
      <4> QED
        BY <4>3, <4>4, <4>5
    <3> QED
      BY <3>1, <3>2
  <2> QED
    BY <1>8, <2>1, <2>2
<1> QED
  BY <1>1, <1>5, <1>9, <1>11, <1>12

\* The grade of the load.
LEMMA LoadGrade ==
  ASSUME Missing \notin Int, NEW m \in Readings, NEW p \in Int
  PROVE  LET l == Rules!OrZero(m.load) IN
         Rules!ShouldFireHighLoadAlert(m.load, p) =
           IF p <= 0 \/ l <= 0 THEN 0
           ELSE IF 100 * l > 95 * p THEN 2 ELSE IF 100 * l > 85 * p THEN 1 ELSE 0
BY DEF Rules!ShouldFireHighLoadAlert, Rules!OrZero, Readings

\* With a lower battery and no more sun, the colour is no better.
LEMMA GraverIsNoGreener ==
  ASSUME Missing \notin Int, CriticalSoc \in Int, LowSoc \in Int, NEW s \in Int, NEW r \in Int,
         NEW u \in Nat, NEW v \in Nat, NEW p \in Int, NEW off, NEW h, s <= r, u <= v
  PROVE  Rules!ComputeHealthStatus(s, u, p, off, h) >= Rules!ComputeHealthStatus(r, v, p, off, h)
<1> DEFINE day == Rules!Daytime(h)
<1>1. s # Missing /\ r # Missing /\ Rules!OrZero(s) = s /\ Rules!OrZero(r) = r
  BY DEF Rules!OrZero
<1> HIDE DEF day
<1> DEFINE Colour(x, y) ==
             IF off THEN 3 ELSE IF x <= CriticalSoc THEN 2
             ELSE IF x <= LowSoc /\ y = 0 /\ day THEN 2
             ELSE IF x <= LowSoc \/ (day /\ p > 0 /\ 10 * y < 3 * p) THEN 1 ELSE 0
<1>2. Rules!ComputeHealthStatus(s, u, p, off, h) = Colour(s, u)
  BY <1>1 DEF Rules!ComputeHealthStatus, day
<1>3. Rules!ComputeHealthStatus(r, v, p, off, h) = Colour(r, v)
  BY <1>1 DEF Rules!ComputeHealthStatus, day
<1>4. Colour(s, u) >= Colour(r, v)
  OBVIOUS
<1> QED
  BY <1>2, <1>3, <1>4

\* The inverter, the threshold and the reading are those of the instance.
LEMMA GradingTyped == GradingAssumption => (Rules!Spec => []GradingInv)
<1>1. Rules!Init => GradingInv
  BY DEF Rules!Init, GradingInv
<1>2. GradingInv /\ [Rules!Next]_gradingVars => GradingInv'
  <2> SUFFICES ASSUME GradingInv, [Rules!Next]_gradingVars PROVE GradingInv'
    OBVIOUS
  <2>1. ASSUME NEW m \in MCMetrics, Rules!Poll(m) PROVE GradingInv'
    BY <2>1 DEF Rules!Poll, GradingInv
  <2>2. CASE Rules!GoOffline
    BY <2>2 DEF Rules!GoOffline, GradingInv
  <2>3. ASSUME NEW t \in Thresholds, Rules!ChangeThreshold(t) PROVE GradingInv'
    BY <2>3 DEF Rules!ChangeThreshold, GradingInv
  <2>4. ASSUME NEW h \in Hours, Rules!Tick(h) PROVE GradingInv'
    BY <2>4 DEF Rules!Tick, GradingInv
  <2>5. CASE UNCHANGED gradingVars
    BY <2>5 DEF gradingVars, GradingInv
  <2> QED
    BY <2>1, <2>2, <2>3, <2>4, <2>5 DEF Rules!Next
<1> QED
  BY <1>1, <1>2, PTL DEF Rules!Spec, Rules!vars, gradingVars

\* The readings, inverters and thresholds of an instance are numbers.
LEMMA GradedAreNumbers ==
  ASSUME GradingAssumption, GradingInv
  PROVE  /\ inverter \in Machines /\ Rules!Threshold(threshold) \in Int
         /\ MCMetrics \subseteq Readings
         /\ metric # Missing => metric \in MCMetrics
<1>1. inverter \in Machines
  BY DEF GradingAssumption, GradingInv, MCInverters, Machines
<1>2. Rules!Threshold(threshold) \in Int
  BY DEF GradingAssumption, GradingInv, Rules!Threshold
<1>3. MCMetrics \subseteq Readings
  BY DEF GradingAssumption, MCMetrics, Readings
<1>4. metric # Missing => metric \in MCMetrics
  BY DEF GradingInv
<1> QED
  BY <1>1, <1>2, <1>3, <1>4

\* A graver reading is never graded milder, whatever readings, inverters and thresholds
\* there are and wherever the colours of the dashboard change.
THEOREM GraverIsNeverMilder == GradingAssumption => (Rules!Spec => []WorseNeverMilder)
<1> SUFFICES ASSUME GradingAssumption PROVE Rules!Spec => []WorseNeverMilder
  OBVIOUS
<1>1. GradingInv => WorseNeverMilder
  <2> SUFFICES ASSUME GradingInv, metric # Missing, NEW m \in MCMetrics, Rules!Graver(m, metric)
      PROVE  LET worse == Rules!Evaluate(m, inverter, threshold)
                 now == Rules!Evaluate(metric, inverter, threshold)
             IN /\ worse.battery >= now.battery
                /\ worse.load >= now.load
                /\ Rules!ComputeHealthStatus(Rules!Stored(m).soc, Rules!Stored(m).solar,
                                             inverter.panel, offline, hour) >= Rules!Health
    BY DEF WorseNeverMilder, Rules!WorseNeverMilder
  <2> DEFINE t == Rules!Threshold(threshold)
             p == inverter.panel
             worse == Rules!Evaluate(m, inverter, threshold)
             now == Rules!Evaluate(metric, inverter, threshold)
  <2>1. /\ Missing \notin Int /\ CriticalSoc \in Int /\ LowSoc \in Int
        /\ m \in Readings /\ metric \in Readings /\ inverter \in Machines /\ t \in Int /\ p \in Int
    BY GradedAreNumbers DEF GradingAssumption, Machines
  <2>2. worse.battery >= now.battery
    <3> DEFINE b == Rules!ShouldFireAlert(Rules!CalculateDepletion(m, inverter, t))
               c == Rules!ShouldFireAlert(Rules!CalculateDepletion(metric, inverter, t))
    <3>1. worse.battery = b /\ now.battery = c
      BY DEF Rules!Evaluate
    <3> HIDE DEF t
    <3>2. PICK x, y, i, z : x = m /\ y = metric /\ i = inverter /\ z = t
      OBVIOUS
    <3>3. x \in Readings /\ y \in Readings /\ i \in Machines /\ z \in Int /\ Rules!Graver(x, y)
      BY <2>1, <3>2
    <3>4. /\ b = IF Spared(x, i) THEN 0 ELSE IF MinutesLeft(x, i, z) < 3000 THEN 2
                 ELSE IF MinutesLeft(x, i, z) <= 6000 THEN 1 ELSE 0
          /\ c = IF Spared(y, i) THEN 0 ELSE IF MinutesLeft(y, i, z) < 3000 THEN 2
                 ELSE IF MinutesLeft(y, i, z) <= 6000 THEN 1 ELSE 0
      BY <2>1, <3>2, <3>3, BatteryGrade
    <3> HIDE DEF b, c
    <3>5. ~ Spared(y, i) =>
            /\ ~ Spared(x, i) /\ MinutesLeft(x, i, z) <= MinutesLeft(y, i, z)
      BY <2>1, <3>3, GraverLastsNoLonger
    <3>6. /\ ~ Spared(x, i) => MinutesLeft(x, i, z) \in Int
          /\ ~ Spared(y, i) => MinutesLeft(y, i, z) \in Int
      BY <2>1, <3>3, Depletes
    <3>7. b >= c
      BY <3>4, <3>5, <3>6
    <3> QED
      BY <3>1, <3>7
  <2>3. worse.load >= now.load
    <3>1. worse.load = Rules!ShouldFireHighLoadAlert(m.load, p)
          /\ now.load = Rules!ShouldFireHighLoadAlert(metric.load, p)
      BY DEF Rules!Evaluate
    <3> DEFINE l == Rules!OrZero(m.load)
               k == Rules!OrZero(metric.load)
    <3>2. l \in Int /\ k \in Int /\ l >= k
      BY <2>1, NumbersOfReading DEF Rules!Graver
    <3> HIDE DEF p
    <3>3. /\ Rules!ShouldFireHighLoadAlert(m.load, p) =
               IF p <= 0 \/ l <= 0 THEN 0
               ELSE IF 100 * l > 95 * p THEN 2 ELSE IF 100 * l > 85 * p THEN 1 ELSE 0
          /\ Rules!ShouldFireHighLoadAlert(metric.load, p) =
               IF p <= 0 \/ k <= 0 THEN 0
               ELSE IF 100 * k > 95 * p THEN 2 ELSE IF 100 * k > 85 * p THEN 1 ELSE 0
      BY <2>1, LoadGrade
    <3> HIDE DEF l, k
    <3>4. Rules!ShouldFireHighLoadAlert(m.load, p) >= Rules!ShouldFireHighLoadAlert(metric.load, p)
      BY <2>1, <3>2, <3>3
    <3> QED
      BY <3>1, <3>4
  <2>4. Rules!ComputeHealthStatus(Rules!Stored(m).soc, Rules!Stored(m).solar, p, offline, hour)
          >= Rules!Health
    <3>1. /\ Rules!Stored(m).soc = Rules!OrZero(m.soc) /\ Rules!Stored(m).solar = Rules!OrZero(m.solar)
          /\ Rules!Stored(metric).soc = Rules!OrZero(metric.soc)
          /\ Rules!Stored(metric).solar = Rules!OrZero(metric.solar)
      BY DEF Rules!Stored
    <3> DEFINE s == Rules!OrZero(m.soc)
               r == Rules!OrZero(metric.soc)
               u == Rules!OrZero(m.solar)
               v == Rules!OrZero(metric.solar)
    <3>2. s \in Int /\ r \in Int /\ u \in Nat /\ v \in Nat /\ s <= r /\ u <= v
      BY <2>1, NumbersOfReading DEF Rules!Graver
    <3>3. Rules!Health = Rules!ComputeHealthStatus(r, v, p, offline, hour)
      BY <3>1 DEF Rules!Health
    <3> HIDE DEF s, r, u, v, p
    <3>4. PICK a, b, c, d, e, off, h :
            a = s /\ b = r /\ c = u /\ d = v /\ e = p /\ off = offline /\ h = hour
      OBVIOUS
    <3>5. Rules!ComputeHealthStatus(a, c, e, off, h) >= Rules!ComputeHealthStatus(b, d, e, off, h)
      BY <2>1, <3>2, <3>4, GraverIsNoGreener
    <3>6. Rules!ComputeHealthStatus(s, u, p, offline, hour)
            >= Rules!ComputeHealthStatus(r, v, p, offline, hour)
      BY <3>4, <3>5
    <3> QED
      BY <3>1, <3>3, <3>6 DEF s, u
  <2> QED
    BY <2>2, <2>3, <2>4
<1> QED
  BY <1>1, GradingTyped, PTL

\* Whoever is about to reach their threshold is alerted in time and nobody an hour early,
\* whatever readings, inverters and thresholds there are.
THEOREM AlarmsAreInTime == GradingAssumption => (Rules!Spec => []AlarmInTime)
<1> SUFFICES ASSUME GradingAssumption PROVE Rules!Spec => []AlarmInTime
  OBVIOUS
<1>1. GradingInv => AlarmInTime
  <2> DEFINE grade == Rules!Evaluate(metric, inverter, threshold).battery
             u == Rules!Min({Rules!Positive(metric.soc), 100}) - Rules!Threshold(threshold)
             left == u * inverter.capacity * 6
             N == Rules!Net(metric)
  <2> SUFFICES ASSUME GradingInv, metric # Missing, inverter.capacity >= 2
      PROVE  /\ N > 0 /\ left < 2990 * N => grade = 2
             /\ left > 6010 * N => grade = 0
    BY DEF AlarmInTime, Rules!AlarmInTime
  <2>1. PICK m, i, t : m = metric /\ i = inverter /\ t = Rules!Threshold(threshold)
    OBVIOUS
  <2>2. Missing \notin Int /\ m \in Readings /\ i \in Machines /\ t \in Int
    BY <2>1, GradedAreNumbers DEF GradingAssumption
  <2>3. Charge(m) \in Nat /\ N \in Nat /\ i.capacity \in Int /\ u = Charge(m) - t
    BY <2>1, <2>2, NumbersOfReading DEF Charge, Machines
  <2>4. grade = IF Spared(m, i) THEN 0 ELSE IF MinutesLeft(m, i, t) < 3000 THEN 2
                ELSE IF MinutesLeft(m, i, t) <= 6000 THEN 1 ELSE 0
    <3>1. grade = Rules!ShouldFireAlert(Rules!CalculateDepletion(m, i, t))
      BY <2>1 DEF Rules!Evaluate
    <3> HIDE DEF grade
    <3> QED
      BY <2>2, <3>1, BatteryGrade
  <2>5. /\ Spared(m, i) <=> N = 0
        /\ MinutesLeft(m, i, t) = IF u <= 0 THEN 0 ELSE Rules!Round(left, N)
    <3>1. Spared(m, i) <=> N = 0
      BY <2>1, <2>2, <2>3 DEF Spared
    <3>2. i.capacity <= 0 \/ Charge(m) <= t <=> u <= 0
      BY <2>1, <2>2, <2>3
    <3> QED
      BY <2>1, <2>3, <3>1, <3>2 DEF MinutesLeft
  <2> DEFINE k == inverter.capacity
  <2>6. k \in Int /\ k >= 2 /\ u \in Int /\ left = u * k * 6
    BY <2>1, <2>2, <2>3
  <2> HIDE DEF grade, u, left, N, k
  <2>7. left \in Int /\ (u <= 0 => left <= 0)
    <3>1. u * k \in Int
      BY <2>6
    <3>2. u <= 0 => u * k <= 0
      <4>1. ASSUME u <= 0 PROVE u * k <= 0 * k
        BY <2>6, <4>1, ProductGrows
      <4> QED
        BY <2>6, <4>1
    <3> QED
      BY <2>6, <3>1, <3>2
  <2> DEFINE q == Rules!Round(left, N)
  <2>8. N # 0 => q \in Int /\ 2 * (N * q) <= 2 * left + N /\ 2 * left + N < 2 * (N * q) + 2 * N
    BY <2>3, <2>7, Rounded
  <2> HIDE DEF q
  <2>9. ASSUME N > 0, left < 2990 * N PROVE grade = 2
    <3>1. CASE u <= 0
      BY <2>3, <2>4, <2>5, <2>9, <3>1
    <3>2. CASE u > 0
      <4>1. q \in Int /\ N * q \in Int /\ N * 3000 = 3000 * N /\ N * q < N * 3000
        BY <2>3, <2>7, <2>8, <2>9
      <4>2. q < 3000
        BY <2>3, <2>9, <4>1, FactorsFollow
      <4>3. MinutesLeft(m, i, t) = q /\ ~ Spared(m, i)
        BY <2>3, <2>5, <2>6, <2>9, <3>2 DEF q
      <4> QED
        BY <2>4, <4>2, <4>3
    <3> QED
      BY <2>6, <3>1, <3>2
  <2>10. ASSUME left > 6010 * N PROVE grade = 0
    <3>1. CASE N = 0
      BY <2>4, <2>5, <3>1
    <3>2. CASE N > 0
      <4>1. q \in Int /\ N * q \in Int /\ N * 6000 = 6000 * N /\ N * 6000 < N * q
        BY <2>3, <2>7, <2>8, <2>10, <3>2
      <4>2. 6000 < q
        BY <2>3, <3>2, <4>1, FactorsFollow
      <4>3. u > 0
        BY <2>3, <2>6, <2>7, <2>10
      <4>4. MinutesLeft(m, i, t) = q /\ ~ Spared(m, i)
        BY <2>3, <2>5, <2>6, <3>2, <4>3 DEF q
      <4> QED
        BY <2>4, <4>1, <4>2, <4>4
    <3> QED
      BY <2>3, <3>1, <3>2
  <2> QED
    BY <2>9, <2>10
<1> QED
  BY <1>1, GradingTyped, PTL

\* An estimate that the agent gives is, to the minute, what the alerts compute for a
\* threshold of 20 %, as long as no charge is above 100 %: the agent does not cap it.
THEOREM AgentAndAlertsAgree ==
  GradingAssumption /\ (\A c \in Charges : c <= 100) => (Rules!Spec => []InsightsAgree)
<1> SUFFICES ASSUME GradingAssumption, \A c \in Charges : c <= 100
    PROVE  Rules!Spec => []InsightsAgree
  OBVIOUS
<1>1. GradingInv => InsightsAgree
  <2> DEFINE told == Rules!Insights(metric, inverter).minutes
             minutes == Rules!CalculateDepletion(metric, inverter, 20).minutes
  <2> SUFFICES ASSUME GradingInv, metric # Missing, inverter.capacity # 1, told # Missing
      PROVE  minutes # Missing /\ 100 * told \in (minutes - 51) .. (minutes + 51)
    BY DEF InsightsAgree, Rules!InsightsAgree, Rules!InsightsAvailable
  <2>1. PICK m, i : m = metric /\ i = inverter
    OBVIOUS
  <2>2. /\ Missing \notin Int /\ m \in Readings /\ i \in Machines /\ 20 \in Int
        /\ Rules!OrZero(m.soc) <= 100
    <3>1. m \in MCMetrics
      BY <2>1, GradedAreNumbers
    <3>2. Rules!OrZero(m.soc) <= 100
      <4>1. m.soc \in Charges \cup {Missing}
        BY <3>1 DEF MCMetrics
      <4>2. CASE m.soc = Missing
        BY <4>2 DEF Rules!OrZero
      <4>3. CASE m.soc # Missing
        <5>1. m.soc <= 100
          BY <4>1, <4>3
        <5> QED
          BY <4>3, <5>1 DEF Rules!OrZero
      <4> QED
        BY <4>2, <4>3
    <3> QED
      BY <2>1, <3>2, GradedAreNumbers DEF GradingAssumption
  <2> DEFINE s == Rules!OrZero(m.soc)
             l == Rules!OrZero(m.load)
             v == Rules!OrZero(m.solar)
             k == i.capacity
             N == Rules!Net(m)
             net == l - v
             u == Rules!Max({s - 20, 0})
             q == Rules!Round(u * k * 3, 50 * net)
             p == Rules!Round((Charge(m) - 20) * k * 6, N)
  <2>3. /\ s \in Int /\ l \in Int /\ v \in Nat /\ k \in Int /\ N \in Nat
        /\ N = IF l <= v THEN 0 ELSE l - v
        /\ Charge(m) = IF s <= 0 THEN 0 ELSE IF s >= 100 THEN 100 ELSE s
    BY <2>2, NumbersOfReading DEF Charge, Machines
  <2>4. told = IF net > 0 /\ u > 0 /\ k > 0 THEN q ELSE Missing
    BY <2>1 DEF Rules!Insights, Rules!Stored
  <2>5. u = IF s - 20 >= 0 THEN s - 20 ELSE 0
    <3> HIDE DEF s
    <3>1. s - 20 \in Int /\ 0 \in Int
      BY <2>3
    <3> QED
      BY <3>1, LargerOfTwo
  <2>6. /\ Spared(m, i) <=> N = 0 \/ k = 1
        /\ MinutesLeft(m, i, 20) = IF k <= 0 \/ Charge(m) <= 20 THEN 0 ELSE p
        /\ (~ Spared(m, i) => minutes = MinutesLeft(m, i, 20) /\ minutes \in Int)
    <3>1. ~ Spared(m, i) => minutes = MinutesLeft(m, i, 20) /\ minutes \in Int
      BY <2>1, <2>2, Depletes
    <3> QED
      BY <3>1 DEF Spared, MinutesLeft
  <2>7. k # 1
    BY <2>1
  <2> DEFINE a == (Charge(m) - 20) * k
  <2>8. p = Rules!Round(a * 6, N) /\ q = Rules!Round(u * k * 3, 50 * net)
    OBVIOUS
  <2> HIDE DEF told, minutes, s, l, v, k, N, u, q, p
  <2>9. net > 0 /\ u > 0 /\ k > 0 /\ told = q
    BY <2>4
  <2>10. N = net /\ net \in Nat \ {0} /\ Charge(m) = s /\ u = s - 20 /\ s > 20
    BY <2>2, <2>3, <2>5, <2>9 DEF s
  <2>11. a = u * k /\ a \in Int
    BY <2>3, <2>10
  <2>12. minutes = p /\ minutes \in Int
    BY <2>3, <2>6, <2>7, <2>9, <2>10
  <2> HIDE DEF a, net
  <2> DEFINE d == 50 * net
             n == a * 3
             g == a * 6
  <2>13. d \in Nat \ {0} /\ n \in Int /\ g \in Int /\ g = 2 * n /\ d = 50 * net
    BY <2>10, <2>11
  <2>14. q = Rules!Round(n, d) /\ p = Rules!Round(g, net)
    BY <2>8, <2>10, <2>11
  <2> HIDE DEF d, n, g
  <2>15. q \in Int /\ 2 * (d * q) <= 2 * n + d /\ 2 * n + d < 2 * (d * q) + 2 * d
    BY <2>13, <2>14, Rounded
  <2>16. p \in Int /\ 2 * (net * p) <= 2 * g + net /\ 2 * g + net < 2 * (net * p) + 2 * net
    BY <2>10, <2>13, <2>14, Rounded
  <2> DEFINE x == net * q
             y == net * p
  <2>17. x \in Int /\ y \in Int /\ d * q = 50 * x
    BY <2>10, <2>13, <2>15, <2>16
  <2>18. /\ net * (100 * q) = 100 * x
         /\ net * (p + 51) = y + 51 * net
         /\ net * (p - 51) = y - 51 * net
    BY <2>10, <2>15, <2>16
  <2>19. 100 * x <= 2 * n + 50 * net /\ 2 * n < 100 * x + 50 * net
    <3> HIDE DEF x, y
    <3> QED
      BY <2>10, <2>13, <2>15, <2>17
  <2>20. 2 * y <= 4 * n + net /\ 4 * n < 2 * y + net
    <3>1. 2 * y <= 2 * g + net /\ 2 * g + net < 2 * y + 2 * net
      BY <2>16
    <3> HIDE DEF x, y
    <3> QED
      BY <2>10, <2>13, <2>17, <3>1
  <2>21. net * (100 * q) < net * (p + 51) /\ net * (p - 51) < net * (100 * q)
    <3> HIDE DEF x, y
    <3> QED
      BY <2>10, <2>13, <2>17, <2>18, <2>19, <2>20
  <2>22. 100 * q < p + 51 /\ p - 51 < 100 * q
    <3>1. 100 * q \in Int /\ p + 51 \in Int /\ p - 51 \in Int
      BY <2>15, <2>16
    <3>2. 100 * q < p + 51
      BY <2>10, <2>21, <3>1, FactorsFollow
    <3>3. p - 51 < 100 * q
      BY <2>10, <2>21, <3>1, FactorsFollow
    <3> QED
      BY <3>2, <3>3
  <2> QED
    BY <2>2, <2>9, <2>12, <2>15, <2>22
<1> QED
  BY <1>1, GradingTyped, PTL

-----------------------------------------------------------------------------
(* Sums over finite sets.  What holds of every number or of every finite   *)
(* set follows from a least one of which it would not hold.                *)

LEMMA Least ==
  ASSUME NEW X \in SUBSET Nat, X # {}
  PROVE  \E n \in X : \A m \in X : ~ (m < n)
<1>1. IsWellFoundedOn(OpToRel(<,Nat), Nat)
  BY NatLessThanWellFounded
<1>2. \E x \in X : \A y \in X : ~ (<<y, x>> \in OpToRel(<,Nat))
  BY <1>1, WFMin
<1> QED
  BY <1>2 DEF OpToRel

\* Induction: a set of numbers that has 0, and with each the next, has all.
LEMMA AllNumbers ==
  ASSUME NEW X \in SUBSET Nat, 0 \in X, \A n \in X : n + 1 \in X
  PROVE  X = Nat
<1> SUFFICES ASSUME Nat \ X # {} PROVE FALSE
  OBVIOUS
<1>1. PICK n \in Nat \ X : \A m \in Nat \ X : ~ (m < n)
  BY Least
<1>2. n - 1 \in Nat /\ n - 1 < n
  BY <1>1
<1>3. n - 1 \in X
  BY <1>1, <1>2
<1>4. (n - 1) + 1 \in X /\ (n - 1) + 1 = n
  BY <1>1, <1>3
<1> QED
  BY <1>1, <1>4

\* Induction: a family of subsets that has each set of which it has all that lack one
\* element has the whole finite set.
LEMMA AllSubsets ==
  ASSUME NEW T, IsFiniteSet(T), NEW X \in SUBSET SUBSET T,
         \A s \in SUBSET T : (\A x \in s : s \ {x} \in X) => s \in X
  PROVE  X = SUBSET T
<1>1. \A s \in SUBSET T : IsFiniteSet(s) /\ Cardinality(s) \in Nat
  BY FS_Subset, FS_CardinalityType
<1> DEFINE P(n) == \A s \in SUBSET T : Cardinality(s) <= n => s \in X
<1>2. P(0)
  <2> SUFFICES ASSUME NEW s \in SUBSET T, Cardinality(s) <= 0 PROVE s \in X
    OBVIOUS
  <2>1. IsFiniteSet(s) /\ Cardinality(s) = 0
    BY <1>1
  <2>2. s = {}
    BY <2>1, FS_EmptySet
  <2> QED
    BY <2>2
<1>3. ASSUME NEW n \in Nat, P(n) PROVE P(n + 1)
  <2> SUFFICES ASSUME NEW s \in SUBSET T, Cardinality(s) <= n + 1 PROVE s \in X
    OBVIOUS
  <2>1. ASSUME NEW x \in s PROVE s \ {x} \in X
    <3>1. IsFiniteSet(s) /\ Cardinality(s) \in Nat
      BY <1>1
    <3>2. Cardinality(s \ {x}) = Cardinality(s) - 1
      BY <3>1, FS_RemoveElement
    <3>3. s \ {x} \in SUBSET T /\ Cardinality(s \ {x}) <= n
      BY <3>1, <3>2
    <3> QED
      BY <1>3, <3>3
  <2> QED
    BY <2>1
<1> DEFINE Y == {n \in Nat : P(n)}
<1>4. Y \in SUBSET Nat /\ 0 \in Y /\ \A n \in Y : n + 1 \in Y
  BY <1>2, <1>3
<1> HIDE DEF Y
<1>5. Y = Nat
  BY <1>4, AllNumbers
<1>6. \A n \in Nat : P(n)
  BY <1>5 DEF Y
<1>7. ASSUME NEW s \in SUBSET T PROVE s \in X
  <2>1. P(Cardinality(s)) /\ Cardinality(s) \in Nat
    BY <1>1, <1>6
  <2> QED
    BY <2>1
<1> QED
  BY <1>7

\* A sum as MapThenSumSet computes it: each set's from that of the set without the
\* element chosen.
Pick(s) == CHOOSE x \in s : TRUE
Step(g, F, s) == IF s = {} THEN 0 ELSE F[Pick(s)] + g[s \ {Pick(s)}]
IsSum(g, F, T) == g = [s \in SUBSET T |-> Step(g, F, s)]
Total(F, T) == (CHOOSE g : IsSum(g, F, T))[T]

LEMMA Picked == ASSUME NEW s, s # {} PROVE Pick(s) \in s
BY DEF Pick

LEMMA SumExists ==
  ASSUME NEW T, IsFiniteSet(T), NEW F
  PROVE  \E g : IsSum(g, F, T)
<1>1. \A s \in SUBSET T : IsFiniteSet(s) /\ Cardinality(s) \in Nat
  BY FS_Subset, FS_CardinalityType
<1> DEFINE P(n) == \E g : \A s \in SUBSET T : Cardinality(s) <= n => g[s] = Step(g, F, s)
<1>2. P(0)
  <2> DEFINE g == [s \in SUBSET T |-> 0]
  <2>1. ASSUME NEW s \in SUBSET T, Cardinality(s) <= 0 PROVE g[s] = Step(g, F, s)
    <3>1. IsFiniteSet(s) /\ Cardinality(s) = 0
      BY <1>1, <2>1
    <3>2. s = {}
      BY <3>1, FS_EmptySet
    <3> QED
      BY <3>2 DEF Step
  <2> HIDE DEF g
  <2> QED
    BY <2>1
<1>3. ASSUME NEW n \in Nat, P(n) PROVE P(n + 1)
  <2>1. PICK g : \A s \in SUBSET T : Cardinality(s) <= n => g[s] = Step(g, F, s)
    BY <1>3
  <2> DEFINE h == [s \in SUBSET T |-> Step(g, F, s)]
  <2>2. \A s \in SUBSET T : h[s] = Step(g, F, s)
    OBVIOUS
  <2> HIDE DEF h
  <2>3. ASSUME NEW s \in SUBSET T, Cardinality(s) <= n + 1 PROVE h[s] = Step(h, F, s)
    <3>1. CASE s = {}
      BY <2>2, <3>1 DEF Step
    <3>2. CASE s # {}
      <4> DEFINE u == s \ {Pick(s)}
      <4>1. Pick(s) \in s
        BY <3>2, Picked
      <4>2. IsFiniteSet(s) /\ Cardinality(s) \in Nat
        BY <1>1
      <4>3. Cardinality(u) = Cardinality(s) - 1
        BY <4>1, <4>2, FS_RemoveElement
      <4>4. u \in SUBSET T /\ Cardinality(u) <= n
        BY <2>3, <4>2, <4>3
      <4>5. h[u] = g[u]
        BY <2>1, <2>2, <4>4
      <4> QED
        BY <2>2, <3>2, <4>5 DEF Step
    <3> QED
      BY <3>1, <3>2
  <2> QED
    BY <2>3
<1> DEFINE Y == {n \in Nat : P(n)}
<1>4. Y \in SUBSET Nat /\ 0 \in Y /\ \A n \in Y : n + 1 \in Y
  BY <1>2, <1>3
<1> HIDE DEF Y
<1>5. Y = Nat
  BY <1>4, AllNumbers
<1>6. P(Cardinality(T))
  BY <1>1, <1>5 DEF Y
<1>7. PICK g : \A s \in SUBSET T : g[s] = Step(g, F, s)
  <2>1. PICK g : \A s \in SUBSET T : Cardinality(s) <= Cardinality(T) => g[s] = Step(g, F, s)
    BY <1>6
  <2>2. \A s \in SUBSET T : Cardinality(s) <= Cardinality(T)
    BY FS_Subset
  <2> QED
    BY <2>1, <2>2
<1> DEFINE h == [s \in SUBSET T |-> g[s]]
<1>8. ASSUME NEW s \in SUBSET T PROVE h[s] = Step(h, F, s)
  BY <1>7 DEF Step
<1>9. h = [s \in SUBSET T |-> Step(h, F, s)]
  BY <1>8
<1> QED
  BY <1>9 DEF IsSum

LEMMA SumStep ==
  ASSUME NEW T, NEW F, NEW g, IsSum(g, F, T), NEW s \in SUBSET T
  PROVE  g[s] = Step(g, F, s)
<1>1. g = [u \in SUBSET T |-> Step(g, F, u)]
  BY DEF IsSum
<1> DEFINE h == [u \in SUBSET T |-> Step(g, F, u)]
<1>2. h[s] = Step(g, F, s)
  OBVIOUS
<1> QED
  BY <1>1, <1>2

\* Sums do not depend on what they are sums within.
LEMMA SumIsUnique ==
  ASSUME NEW T, NEW U, T \subseteq U, IsFiniteSet(T), NEW F, NEW g, NEW h,
         IsSum(g, F, U), IsSum(h, F, T)
  PROVE  g[T] = h[T]
<1> DEFINE X == {s \in SUBSET T : g[s] = h[s]}
<1>1. ASSUME NEW s \in SUBSET T, \A x \in s : s \ {x} \in X PROVE s \in X
  <2>1. g[s] = Step(g, F, s) /\ h[s] = Step(h, F, s)
    BY SumStep
  <2>2. CASE s = {}
    BY <2>1, <2>2 DEF Step
  <2>3. CASE s # {}
    <3>1. g[s \ {Pick(s)}] = h[s \ {Pick(s)}]
      BY <1>1, <2>3, Picked
    <3> QED
      BY <2>1, <2>3, <3>1 DEF Step
  <2> QED
    BY <2>2, <2>3
<1>2. X \in SUBSET SUBSET T
  OBVIOUS
<1> HIDE DEF X
<1>3. X = SUBSET T
  BY <1>1, <1>2, AllSubsets
<1> QED
  BY <1>3 DEF X

LEMMA TotalIsSum ==
  ASSUME NEW T, IsFiniteSet(T), NEW F
  PROVE  /\ \A g : IsSum(g, F, T) => g[T] = Total(F, T)
         /\ T = {} => Total(F, T) = 0
         /\ T # {} => Total(F, T) = F[Pick(T)] + Total(F, T \ {Pick(T)})
<1> DEFINE c == CHOOSE g : IsSum(g, F, T)
<1>1. IsSum(c, F, T) /\ Total(F, T) = c[T]
  BY SumExists DEF Total
<1> HIDE DEF c
<1>2. \A g : IsSum(g, F, T) => g[T] = c[T]
  BY <1>1, SumIsUnique
<1>3. c[T] = Step(c, F, T)
  BY <1>1, SumStep
<1>4. ASSUME T # {} PROVE c[T \ {Pick(T)}] = Total(F, T \ {Pick(T)})
  <2> DEFINE U == T \ {Pick(T)}
             d == CHOOSE g : IsSum(g, F, U)
  <2>1. IsFiniteSet(U) /\ U \subseteq T
    BY FS_Subset
  <2> HIDE DEF U
  <2>2. IsSum(d, F, U) /\ Total(F, U) = d[U]
    BY <2>1, SumExists DEF Total
  <2> HIDE DEF d
  <2>3. c[U] = d[U]
    BY <1>1, <2>1, <2>2, SumIsUnique
  <2> QED
    BY <2>2, <2>3 DEF U
<1> QED
  BY <1>1, <1>2, <1>3, <1>4 DEF Step

\* Sums of integers are integers.
LEMMA TotalIsInt ==
  ASSUME NEW T, IsFiniteSet(T), NEW F, \A i \in T : F[i] \in Int
  PROVE  \A s \in SUBSET T : Total(F, s) \in Int
<1>1. \A s \in SUBSET T : IsFiniteSet(s)
  BY FS_Subset
<1> DEFINE X == {s \in SUBSET T : Total(F, s) \in Int}
<1>2. ASSUME NEW s \in SUBSET T, \A x \in s : s \ {x} \in X PROVE s \in X
  <2>1. CASE s = {}
    <3>1. Total(F, s) = 0
      BY <1>1, <2>1, TotalIsSum
    <3> QED
      BY <3>1
  <2>2. CASE s # {}
    <3>1. Pick(s) \in s /\ F[Pick(s)] \in Int /\ Total(F, s \ {Pick(s)}) \in Int
      BY <1>2, <2>2, Picked
    <3>2. Total(F, s) = F[Pick(s)] + Total(F, s \ {Pick(s)})
      BY <1>1, <2>2, TotalIsSum
    <3> QED
      BY <3>1, <3>2
  <2> QED
    BY <2>1, <2>2
<1>3. X \in SUBSET SUBSET T
  OBVIOUS
<1> HIDE DEF X
<1>4. X = SUBSET T
  BY <1>2, <1>3, AllSubsets
<1> QED
  BY <1>4 DEF X

\* A sum may be begun with any element.
LEMMA TotalSplits ==
  ASSUME NEW T, IsFiniteSet(T), NEW F, \A i \in T : F[i] \in Int
  PROVE  /\ Total(F, T) \in Int
         /\ Total(F, {}) = 0
         /\ \A x \in T : Total(F, T) = F[x] + Total(F, T \ {x}) /\ Total(F, T \ {x}) \in Int
<1>1. \A s \in SUBSET T : IsFiniteSet(s)
  BY FS_Subset
<1> DEFINE Splits(s) == /\ Total(F, s) \in Int
                        /\ \A x \in s : Total(F, s) = F[x] + Total(F, s \ {x})
           X == {s \in SUBSET T : Splits(s)}
<1>2. ASSUME NEW s \in SUBSET T, \A x \in s : s \ {x} \in X PROVE s \in X
  <2>1. CASE s = {}
    <3>1. Total(F, s) = 0
      BY <1>1, <2>1, TotalIsSum
    <3> QED
      BY <2>1, <3>1
  <2>2. CASE s # {}
    <3> DEFINE p == Pick(s)
    <3>1. p \in s /\ p \in T /\ F[p] \in Int
      BY <2>2, Picked
    <3>2. Total(F, s) = F[p] + Total(F, s \ {p})
      BY <1>1, <2>2, TotalIsSum
    <3> HIDE DEF p
    <3>3. Total(F, s \ {p}) \in Int
      BY <1>2, <3>1
    <3>4. ASSUME NEW x \in s PROVE Total(F, s) = F[x] + Total(F, s \ {x})
      <4>1. CASE x = p
        BY <3>2, <4>1
      <4>2. CASE x # p
        <5>1. x \in s \ {p} /\ p \in s \ {x} /\ F[x] \in Int /\ s \ {p} \in X /\ s \ {x} \in X
          BY <1>2, <3>1, <4>2
        <5>2. Total(F, s \ {p}) = F[x] + Total(F, (s \ {p}) \ {x})
          BY <5>1
        <5>3. Total(F, s \ {x}) = F[p] + Total(F, (s \ {x}) \ {p})
          BY <5>1
        <5>4. (s \ {p}) \ {x} = (s \ {x}) \ {p}
          OBVIOUS
        <5> DEFINE r == Total(F, (s \ {x}) \ {p})
                   u == Total(F, s \ {x})
                   v == Total(F, s \ {p})
        <5>5. u \in Int /\ v \in Int
          BY <5>1
        <5>6. v = F[x] + r /\ u = F[p] + r /\ Total(F, s) = F[p] + v
          BY <3>2, <5>2, <5>3, <5>4
        <5>7. r \in Int
          <6>1. (s \ {x}) \ {p} \in SUBSET T
            OBVIOUS
          <6> QED
            BY <6>1, TotalIsInt
        <5> QED
          BY <3>1, <5>1, <5>5, <5>6, <5>7
      <4> QED
        BY <4>1, <4>2
    <3>5. Total(F, s) \in Int
      BY <3>1, <3>2, <3>3
    <3> QED
      BY <3>4, <3>5
  <2> QED
    BY <2>1, <2>2
<1>3. X \in SUBSET SUBSET T
  OBVIOUS
<1> HIDE DEF X
<1>4. X = SUBSET T
  BY <1>2, <1>3, AllSubsets
<1>5. \A s \in SUBSET T : Splits(s)
  BY <1>4 DEF X
<1>6. Total(F, {}) = 0
  BY FS_EmptySet, TotalIsSum
<1> QED
  BY <1>5, <1>6

\* The sum over two sets without a common element.
LEMMA TotalOfBoth ==
  ASSUME NEW S, IsFiniteSet(S), NEW T, IsFiniteSet(T), S \cap T = {},
         NEW F, \A i \in S \cup T : F[i] \in Int
  PROVE  Total(F, S \cup T) = Total(F, S) + Total(F, T)
<1>1. IsFiniteSet(S \cup T)
  BY FS_Union
<1>2. \A s \in SUBSET (S \cup T) : IsFiniteSet(s) /\ Total(F, s) \in Int
  BY <1>1, TotalIsInt, FS_Subset
<1>3. \A s \in SUBSET (S \cup T) : \A x \in s : Total(F, s) = F[x] + Total(F, s \ {x})
  BY <1>2, TotalSplits
<1> DEFINE X == {t \in SUBSET T : Total(F, S \cup t) = Total(F, S) + Total(F, t)}
<1>4. ASSUME NEW t \in SUBSET T, \A x \in t : t \ {x} \in X PROVE t \in X
  <2>1. CASE t = {}
    <3>1. S \cup t = S /\ Total(F, t) = 0 /\ Total(F, S) \in Int
      BY <1>2, <2>1, TotalIsSum
    <3> QED
      BY <3>1
  <2>2. CASE t # {}
    <3>1. PICK x \in t : TRUE
      BY <2>2
    <3>2. (S \cup t) \ {x} = S \cup (t \ {x}) /\ x \in S \cup t /\ F[x] \in Int
      BY <3>1
    <3>3. Total(F, S \cup (t \ {x})) = Total(F, S) + Total(F, t \ {x})
      BY <1>4, <3>1
    <3>4. Total(F, S \cup t) = F[x] + Total(F, S \cup (t \ {x}))
      <4>1. S \cup t \in SUBSET (S \cup T)
        OBVIOUS
      <4> QED
        BY <1>3, <3>2, <4>1
    <3>5. Total(F, t) = F[x] + Total(F, t \ {x})
      BY <1>3, <3>1
    <3>6. Total(F, S) \in Int /\ Total(F, t \ {x}) \in Int
      BY <1>2
    <3> DEFINE a == Total(F, S)
               b == Total(F, t \ {x})
               c == F[x]
    <3>7. a \in Int /\ b \in Int /\ c \in Int /\ Total(F, S \cup t) = c + (a + b) /\ Total(F, t) = c + b
      BY <3>2, <3>3, <3>4, <3>5, <3>6
    <3> HIDE DEF b, c
    <3> QED
      BY <3>7
  <2> QED
    BY <2>1, <2>2
<1>5. X \in SUBSET SUBSET T
  OBVIOUS
<1> HIDE DEF X
<1>6. X = SUBSET T
  BY <1>4, <1>5, AllSubsets
<1> QED
  BY <1>6 DEF X

\* Sets without common elements, summed one by one.
LEMMA TotalOfUnion ==
  ASSUME NEW B, IsFiniteSet(B), \A b \in B : IsFiniteSet(b), \A b, c \in B : b # c => b \cap c = {},
         NEW F, \A i \in UNION B : F[i] \in Int,
         NEW N, \A b \in B : N[b] = Total(F, b)
  PROVE  Total(N, B) = Total(F, UNION B)
<1>1. \A c \in SUBSET B : IsFiniteSet(c) /\ IsFiniteSet(UNION c)
  BY FS_Subset, FS_UNION
<1>2. \A s \in SUBSET (UNION B) : Total(F, s) \in Int
  BY <1>1, TotalIsInt
<1>3. \A b \in B : N[b] \in Int
  BY <1>2
<1> DEFINE X == {c \in SUBSET B : Total(N, c) = Total(F, UNION c)}
<1>4. ASSUME NEW c \in SUBSET B, \A b \in c : c \ {b} \in X PROVE c \in X
  <2>1. CASE c = {}
    <3>1. Total(N, c) = 0 /\ UNION c = {} /\ Total(F, {}) = 0
      BY <1>1, <2>1, TotalIsSum, FS_EmptySet
    <3> QED
      BY <3>1
  <2>2. CASE c # {}
    <3>1. PICK b \in c : TRUE
      BY <2>2
    <3> DEFINE U == UNION (c \ {b})
    <3>2. UNION c = b \cup U /\ b \cap U = {} /\ IsFiniteSet(b) /\ IsFiniteSet(U)
      <4>1. UNION c = b \cup U /\ b \cap U = {}
        BY <3>1
      <4>2. c \ {b} \in SUBSET B /\ b \in B
        BY <3>1
      <4> QED
        BY <1>1, <4>1, <4>2
    <3>3. Total(N, c \ {b}) = Total(F, U)
      BY <1>4, <3>1
    <3>4. Total(N, c) = N[b] + Total(N, c \ {b})
      <4>1. IsFiniteSet(c) /\ \A a \in c : N[a] \in Int
        BY <1>1, <1>3
      <4> QED
        BY <3>1, <4>1, TotalSplits
    <3>5. \A i \in b \cup U : F[i] \in Int
      BY <3>2
    <3> HIDE DEF U
    <3>6. Total(F, b \cup U) = Total(F, b) + Total(F, U)
      BY <3>2, <3>5, TotalOfBoth
    <3> QED
      BY <3>1, <3>2, <3>3, <3>4, <3>6
  <2> QED
    BY <2>1, <2>2
<1>5. X \in SUBSET SUBSET B
  OBVIOUS
<1> HIDE DEF X
<1>6. X = SUBSET B
  BY <1>4, <1>5, AllSubsets
<1> QED
  BY <1>6 DEF X

\* What is rounded one by one is off by half a unit for each.
LEMMA TotalOfRounded ==
  ASSUME NEW B, IsFiniteSet(B), NEW N, NEW Q, NEW d \in Int, NEW k \in Int,
         \A b \in B : /\ N[b] \in Int /\ Q[b] \in Int
                      /\ 2 * (d * Q[b]) - 2 * (k * N[b]) <= d
                      /\ 2 * (k * N[b]) - 2 * (d * Q[b]) <= d
  PROVE  /\ Total(N, B) \in Int /\ Total(Q, B) \in Int /\ Cardinality(B) \in Nat
         /\ 2 * (d * Total(Q, B)) - 2 * (k * Total(N, B)) <= d * Cardinality(B)
         /\ 2 * (k * Total(N, B)) - 2 * (d * Total(Q, B)) <= d * Cardinality(B)
<1>1. \A c \in SUBSET B : /\ IsFiniteSet(c) /\ Cardinality(c) \in Nat
                          /\ Total(N, c) \in Int /\ Total(Q, c) \in Int
  BY FS_Subset, FS_CardinalityType, TotalIsInt
<1> DEFINE Close(c) ==
             /\ 2 * (d * Total(Q, c)) - 2 * (k * Total(N, c)) <= d * Cardinality(c)
             /\ 2 * (k * Total(N, c)) - 2 * (d * Total(Q, c)) <= d * Cardinality(c)
           X == {c \in SUBSET B : Close(c)}
<1>2. ASSUME NEW c \in SUBSET B, \A b \in c : c \ {b} \in X PROVE c \in X
  <2>1. CASE c = {}
    <3>1. Total(N, c) = 0 /\ Total(Q, c) = 0 /\ Cardinality(c) = 0
      BY <2>1, TotalIsSum, FS_EmptySet
    <3>2. d * 0 = 0 /\ k * 0 = 0
      OBVIOUS
    <3> QED
      BY <3>1, <3>2
  <2>2. CASE c # {}
    <3>1. PICK b \in c : TRUE
      BY <2>2
    <3> DEFINE m == Total(N, c \ {b})
               q == Total(Q, c \ {b})
               z == Cardinality(c \ {b})
               u == N[b]
               v == Q[b]
    <3>2. Total(N, c) = u + m /\ Total(Q, c) = v + q
      BY <1>1, <3>1, TotalSplits
    <3>3. Cardinality(c) = z + 1
      <4>1. IsFiniteSet(c) /\ Cardinality(c) \in Nat
        BY <1>1
      <4>2. z = Cardinality(c) - 1
        BY <3>1, <4>1, FS_RemoveElement
      <4> HIDE DEF z
      <4> QED
        BY <4>1, <4>2
    <3>4. m \in Int /\ q \in Int /\ z \in Nat /\ u \in Int /\ v \in Int
      BY <1>1, <3>1
    <3>5. /\ 2 * (d * v) - 2 * (k * u) <= d /\ 2 * (k * u) - 2 * (d * v) <= d
          /\ 2 * (d * q) - 2 * (k * m) <= d * z /\ 2 * (k * m) - 2 * (d * q) <= d * z
      BY <1>2, <3>1
    <3> HIDE DEF m, q, z, u, v
    <3>6. /\ d * (v + q) = d * v + d * q /\ k * (u + m) = k * u + k * m /\ d * (z + 1) = d * z + d
          /\ d * v \in Int /\ d * q \in Int /\ k * u \in Int /\ k * m \in Int /\ d * z \in Int
      BY <3>4
    <3>7. /\ 2 * (d * v + d * q) - 2 * (k * u + k * m) <= d * z + d
          /\ 2 * (k * u + k * m) - 2 * (d * v + d * q) <= d * z + d
      BY <3>5, <3>6
    <3> QED
      BY <3>2, <3>3, <3>6, <3>7
  <2> QED
    BY <2>1, <2>2
<1>3. X \in SUBSET SUBSET B
  OBVIOUS
<1> HIDE DEF X
<1>4. X = SUBSET B
  BY <1>2, <1>3, AllSubsets
<1>5. Close(B)
  BY <1>4 DEF X
<1> QED
  BY <1>1, <1>5

\* Elements of sets H[b] without common elements, counted set by set.
LEMMA TotalOfSizes ==
  ASSUME NEW B, IsFiniteSet(B), NEW H, \A b \in B : IsFiniteSet(H[b]),
         \A b, c \in B : b # c => H[b] \cap H[c] = {},
         NEW N, \A b \in B : N[b] = Cardinality(H[b])
  PROVE  Total(N, B) = Cardinality(UNION {H[b] : b \in B})
<1>0. \A b \in B : N[b] \in Int
  BY FS_CardinalityType
<1> DEFINE U(c) == UNION {H[b] : b \in c}
           X == {c \in SUBSET B : IsFiniteSet(U(c)) /\ Total(N, c) = Cardinality(U(c))}
<1>1. \A c \in SUBSET B : IsFiniteSet(c)
  BY FS_Subset
<1>2. ASSUME NEW c \in SUBSET B, \A b \in c : c \ {b} \in X PROVE c \in X
  <2>1. CASE c = {}
    <3>1. U(c) = {}
      BY <2>1
    <3>2. Total(N, c) = 0 /\ IsFiniteSet({}) /\ Cardinality({}) = 0
      BY <2>1, TotalIsSum, FS_EmptySet
    <3> QED
      BY <3>1, <3>2
  <2>2. CASE c # {}
    <3>1. PICK b \in c : TRUE
      BY <2>2
    <3> DEFINE V == U(c \ {b})
               h == H[b]
    <3>2. U(c) = h \cup V /\ h \cap V = {}
      BY <3>1
    <3>3. IsFiniteSet(V) /\ Total(N, c \ {b}) = Cardinality(V) /\ IsFiniteSet(h)
      BY <1>2, <3>1
    <3>4. Total(N, c) = N[b] + Total(N, c \ {b}) /\ N[b] = Cardinality(h)
      <4>1. IsFiniteSet(c) /\ \A a \in c : N[a] \in Int
        BY <1>0, <1>1
      <4> QED
        BY <3>1, <4>1, TotalSplits
    <3> HIDE DEF V, h
    <3>5. IsFiniteSet(h \cup V) /\ Cardinality(h \cup V) = Cardinality(h) + Cardinality(V) - Cardinality({})
      <4>1. h \cap V = {}
        BY <3>2 DEF h, V
      <4> QED
        BY <3>3, <4>1, FS_Union
    <3>6. Cardinality(h) \in Nat /\ Cardinality(V) \in Nat /\ Cardinality({}) = 0
      BY <3>3, FS_CardinalityType, FS_EmptySet
    <3>7. Total(N, c) = Cardinality(h \cup V)
      BY <3>3, <3>4, <3>5, <3>6
    <3>8. IsFiniteSet(U(c)) /\ Total(N, c) = Cardinality(U(c))
      BY <3>2, <3>5, <3>7
    <3> QED
      BY <3>8
  <2> QED
    BY <2>1, <2>2
<1>3. X \in SUBSET SUBSET B
  OBVIOUS
<1> HIDE DEF X
<1>4. X = SUBSET B
  BY <1>2, <1>3, AllSubsets
<1> QED
  BY <1>4 DEF X

-----------------------------------------------------------------------------
(* Savings and charts.  Rows of any number and readings of any size.       *)

\* Powers and ratings are whole tenths of a kW; a rating is at least one of them
\* (@Min(0.1), UpdateUserPersonalSettingsDto).  The process runs in Greenwich or east of
\* it: to a process in the west, `new Date' of a date names the day before.
SavingsAssumption ==
  /\ Draws \subseteq Int /\ Yields \subseteq Int /\ Prices \subseteq Int
  /\ Ratings \subseteq Nat \ {0}
  /\ DayLen \in Nat \ {0} /\ DaysPerWeek \in Nat \ {0} /\ DaysPerMonth \in Nat \ {0}
  /\ ServerOffset \in 0..(DayLen - 1)
  /\ NaN \notin Int

\* What the sums and the rounding need to know of the rows and settings.
SavingsInv ==
  /\ rows \in Seq([at: Nat, load: Int, solar: Int])
  /\ settings \in Savings!SettingsType \cup {Missing}
  /\ time \in Nat

\* The two operations of the module keep it.
LEMMA SavingsTyped == SavingsAssumption => (Savings!Spec => []SavingsInv)
<1> SUFFICES ASSUME SavingsAssumption PROVE Savings!Spec => []SavingsInv
  OBVIOUS
<1>1. Savings!Init => SavingsInv
  BY DEF Savings!Init, SavingsInv, Savings!NoSettings
<1>2. SavingsInv /\ [Savings!Next]_savingsVars => SavingsInv'
  <2> SUFFICES ASSUME SavingsInv, [Savings!Next]_savingsVars PROVE SavingsInv'
    OBVIOUS
  <2>1. ASSUME NEW r \in MCRows, Savings!Record(r) PROVE SavingsInv'
    <3>1. [at |-> time, load |-> r.load, solar |-> r.solar] \in [at: Nat, load: Int, solar: Int]
      BY <2>1 DEF MCRows, SavingsAssumption, SavingsInv
    <3> QED
      BY <2>1, <3>1 DEF Savings!Record, SavingsInv, Savings!SettingsType, Savings!Fuels
  <2>2. ASSUME NEW s \in Savings!SettingsType, Savings!ChangeSettings(s) PROVE SavingsInv'
    BY <2>2 DEF Savings!ChangeSettings, SavingsInv, Savings!SettingsType, Savings!Fuels
  <2>3. ASSUME NEW d \in {1, DayLen}, Savings!Tick(d) PROVE SavingsInv'
    BY <2>3 DEF Savings!Tick, SavingsInv, Savings!SettingsType, Savings!Fuels, SavingsAssumption
  <2>4. CASE UNCHANGED savingsVars
    BY <2>4 DEF savingsVars, SavingsInv, Savings!SettingsType, Savings!Fuels
  <2> QED
    BY <2>1, <2>2, <2>3, <2>4 DEF Savings!Next
<1> QED
  BY <1>1, <1>2, PTL DEF Savings!Spec, Savings!vars, savingsVars

\* A rounded quotient is off by half a unit at most.
LEMMA RoundedSavings ==
  ASSUME NEW n \in Int, NEW d \in Nat \ {0}
  PROVE  LET q == Savings!Round(n, d) IN
         q \in Int /\ 2 * (d * q) - 2 * n <= d /\ 2 * n - 2 * (d * q) <= d
<1>1. Savings!Round(n, d) = Rules!Round(n, d)
  BY DEF Savings!Round, Rules!Round
<1> DEFINE q == Savings!Round(n, d)
<1>2. q \in Int /\ 2 * (d * q) <= 2 * n + d /\ 2 * n + d < 2 * (d * q) + 2 * d
  BY <1>1, Rounded
<1> HIDE DEF q
<1>3. d * q \in Int
  BY <1>2
<1>4. 2 * (d * q) - 2 * n <= d /\ 2 * n - 2 * (d * q) <= d
  BY <1>2, <1>3
<1> QED
  BY <1>2, <1>4 DEF q

\* The counts of the module are those of the library's theorems.
LEMMA SameCount == ASSUME NEW S PROVE Savings!Cardinality(S) = Cardinality(S)
BY DEF Savings!Cardinality, Cardinality

\* The sum that the module asks for is the total of any function with its values.
LEMMA LoadIsTotal ==
  ASSUME NEW I, IsFiniteSet(I), NEW F, \A i \in I : F[i] = rows[i].load * Savings!PollingInterval
  PROVE  Savings!Load(I) = Total(F, I)
<1> DEFINE P(g) == g = [s \in SUBSET I |-> IF s = {} THEN 0
                          ELSE rows[CHOOSE x \in s : TRUE].load * Savings!PollingInterval
                                 + g[s \ {CHOOSE x \in s : TRUE}]]
           c == CHOOSE g : P(g)
<1>1. Savings!Load(I) = c[I]
  BY DEF Savings!Load, Savings!MapThenSumSet, Savings!MapThenFoldSet
<1>2. ASSUME NEW g PROVE P(g) <=> IsSum(g, F, I)
  <2>1. ASSUME NEW s \in SUBSET I, s # {} PROVE Pick(s) \in I
    BY <2>1, Picked
  <2>2. \A s \in SUBSET I : Step(g, F, s) = IF s = {} THEN 0
                          ELSE rows[Pick(s)].load * Savings!PollingInterval + g[s \ {Pick(s)}]
    BY <2>1 DEF Step
  <2> QED
    BY <2>2 DEF IsSum, Pick
<1>3. \E g : P(g)
  <2>1. PICK g : IsSum(g, F, I)
    BY SumExists
  <2> HIDE DEF P
  <2> QED
    BY <1>2, <2>1
<1>4. P(c)
  BY <1>3
<1> HIDE DEF P, c
<1> QED
  BY <1>1, <1>2, <1>4, TotalIsSum

\* An image of a finite set, by a function, is finite.
LEMMA FiniteImage ==
  ASSUME NEW S, IsFiniteSet(S), NEW f
  PROVE  IsFiniteSet({f[x] : x \in S})
<1> DEFINE T == {f[x] : x \in S}
           h == [x \in S |-> f[x]]
<1>1. h \in Surjection(S, T)
  BY DEF Surjection
<1> QED
  BY <1>1, FS_Surjection

\* The bars of a chart, each naming its rows, are as many as the sets of rows.
LEMMA BarForEach ==
  ASSUME NEW B, IsFiniteSet(B), NEW f, \A b \in B : f[b].rows = b, NEW C, C = {f[b] : b \in B}
  PROVE  {c.rows : c \in C} = B /\ Savings!Cardinality(C) = Cardinality(B)
<1> DEFINE g == [b \in B |-> f[b]]
<1>1. g \in Surjection(B, C)
  BY DEF Surjection
<1>2. \A b \in B : g[b].rows = b
  OBVIOUS
<1> HIDE DEF g
<1>3. \A a, b \in B : g[a] = g[b] => a = b
  BY <1>2
<1>4. g \in Injection(B, C)
  BY <1>1, <1>3 DEF Surjection, Injection, IsInjective
<1>5. Cardinality(C) = Cardinality(B)
  BY <1>1, <1>4, FS_Surjection
<1> QED
  BY <1>5, SameCount

HoursOf(b) == {rows[i].at : i \in b}

\* Grouping puts each row in one bucket, and rows of one time in one.
LEMMA BucketsSplit ==
  ASSUME NEW I, IsFiniteSet(I), NEW unit
  PROVE  LET B == Savings!Buckets(I, unit) IN
         /\ IsFiniteSet(B) /\ UNION B = I
         /\ \A b \in B : b \in SUBSET I /\ IsFiniteSet(b) /\ IsFiniteSet(HoursOf(b))
         /\ \A b, c \in B : b # c => b \cap c = {} /\ HoursOf(b) \cap HoursOf(c) = {}
<1> DEFINE B == Savings!Buckets(I, unit)
           t(i) == Savings!Trunc(unit, rows[i].at)
<1>1. B = {{i \in I : t(i) = v} : v \in {t(i) : i \in I}}
  BY DEF Savings!Buckets
<1>2. \A i, j : rows[i].at = rows[j].at => t(i) = t(j)
  OBVIOUS
<1> HIDE DEF B, t
<1>3. B \in SUBSET SUBSET I /\ UNION B = I
  <2>1. B \in SUBSET SUBSET I
    BY <1>1
  <2>2. ASSUME NEW i \in I PROVE i \in UNION B
    <3>1. {j \in I : t(j) = t(i)} \in B
      BY <1>1
    <3> QED
      BY <3>1
  <2> QED
    BY <2>1, <2>2
<1>4. IsFiniteSet(B)
  BY <1>3, FS_SUBSET, FS_Subset
<1>5. ASSUME NEW b \in B PROVE IsFiniteSet(b) /\ IsFiniteSet(HoursOf(b))
  <2>1. IsFiniteSet(b)
    BY <1>3, FS_Subset
  <2> DEFINE f == [i \in b |-> rows[i].at]
  <2>2. {f[i] : i \in b} = HoursOf(b)
    BY DEF HoursOf
  <2> HIDE DEF f
  <2> QED
    BY <2>1, <2>2, FiniteImage
<1>6. ASSUME NEW b \in B, NEW c \in B, b # c PROVE b \cap c = {} /\ HoursOf(b) \cap HoursOf(c) = {}
  <2>1. PICK v : b = {i \in I : t(i) = v}
    BY <1>1
  <2>2. PICK w : c = {i \in I : t(i) = w}
    BY <1>1
  <2>3. v # w
    BY <1>6, <2>1, <2>2
  <2>4. \A i \in b, j \in c : t(i) # t(j)
    BY <2>1, <2>2, <2>3
  <2>5. \A i \in b, j \in c : i # j /\ rows[i].at # rows[j].at
    BY <1>2, <2>4
  <2> QED
    BY <2>5 DEF HoursOf
<1> QED
  BY <1>3, <1>4, <1>5, <1>6 DEF B

\* Amounts rounded one by one add up to the rounded sum to within half a unit each.
LEMMA NearTotals ==
  ASSUME NEW B, IsFiniteSet(B), NEW N, NEW Q, NEW d \in Nat \ {0}, NEW k \in Int, NEW x \in Int,
         \A b \in B : /\ N[b] \in Int /\ Q[b] \in Int
                      /\ 2 * (d * Q[b]) - 2 * (k * N[b]) <= d
                      /\ 2 * (k * N[b]) - 2 * (d * Q[b]) <= d,
         2 * (d * x) - 2 * (k * Total(N, B)) <= d,
         2 * (k * Total(N, B)) - 2 * (d * x) <= d
  PROVE  /\ Total(Q, B) \in Int
         /\ Savings!Near(x, Total(Q, B), Cardinality(B)) /\ Savings!Near(Total(Q, B), x, Cardinality(B))
<1> DEFINE m == Total(N, B)
           q == Total(Q, B)
           n == Cardinality(B)
<1>1. /\ m \in Int /\ q \in Int /\ n \in Nat
      /\ 2 * (d * q) - 2 * (k * m) <= d * n /\ 2 * (k * m) - 2 * (d * q) <= d * n
  BY TotalOfRounded
<1> HIDE DEF m, q, n
<1>2. 2 * (d * x) - 2 * (k * m) <= d /\ 2 * (k * m) - 2 * (d * x) <= d
  BY DEF m
<1>3. /\ d * x \in Int /\ d * q \in Int /\ k * m \in Int /\ d * n \in Int
      /\ d * (2 * (x - q)) = 2 * (d * x) - 2 * (d * q) /\ d * (2 * (q - x)) = 2 * (d * q) - 2 * (d * x)
      /\ d * (n + 1) = d * n + d /\ d * ((n + 1) + 1) = d * n + 2 * d
  BY <1>1
<1>4. d * (2 * (x - q)) < d * ((n + 1) + 1) /\ d * (2 * (q - x)) < d * ((n + 1) + 1)
  BY <1>1, <1>2, <1>3
<1>5. /\ 2 * (x - q) \in Int /\ 2 * (q - x) \in Int /\ (n + 1) + 1 \in Int
  BY <1>1
<1>6. 2 * (x - q) < (n + 1) + 1 /\ 2 * (q - x) < (n + 1) + 1
  BY <1>4, <1>5, FactorsFollow
<1>7. 2 * (x - q) <= n + 1 /\ 2 * (q - x) <= n + 1
  BY <1>1, <1>6
<1> QED
  BY <1>1, <1>7 DEF Savings!Near, q, n

\* The interval, the power and the consumption that every figure is computed from.
LEMMA FuelUse ==
  ASSUME SavingsAssumption, SavingsInv
  PROVE  /\ Savings!PollingInterval \in Int
         /\ Savings!Rated \in Nat \ {0} /\ Savings!Rate \in Int
<1>1. Savings!PollingInterval \in Int
  BY DEF Savings!PollingInterval
<1>2. Savings!Rated \in Nat \ {0}
  <2>1. CASE settings = Missing \/ settings.rated = Missing
    BY <2>1 DEF Savings!Rated, Savings!NoSettings
  <2>2. CASE settings # Missing /\ settings.rated # Missing
    <3>1. settings.rated \in Ratings
      BY <2>2 DEF SavingsInv, Savings!SettingsType
    <3> QED
      BY <2>2, <3>1 DEF Savings!Rated, Savings!NoSettings, SavingsAssumption
  <2> QED
    BY <2>1, <2>2
<1>3. Savings!Fuel \in {"PMS", "DIESEL"}
  BY DEF Savings!Fuel, Savings!NoSettings, SavingsInv, Savings!SettingsType, Savings!Fuels
<1>4. ASSUME NEW fuel \in {"PMS", "DIESEL"}, NEW rated \in Nat
      PROVE  Savings!ConsumptionRate(fuel, rated) \in Int
  <2> DEFINE table == Savings!ConsumptionTable[fuel]
             holds == {i \in DOMAIN table : rated <= table[i][1]}
  <2>1. DOMAIN table = 1..6 /\ \A i \in 1..6 : table[i][2] \in Int
    <3>1. CASE fuel = "PMS"
      BY <3>1 DEF Savings!ConsumptionTable
    <3>2. CASE fuel = "DIESEL"
      BY <3>2 DEF Savings!ConsumptionTable
    <3> QED
      BY <3>1, <3>2
  <2>2. CASE holds = {}
    BY <2>2 DEF Savings!ConsumptionRate
  <2>3. CASE holds # {}
    <3>1. holds \in SUBSET Nat
      BY <2>1
    <3> HIDE DEF table
    <3>2. \E i \in holds : \A j \in holds : i <= j
      <4> HIDE DEF holds
      <4>1. PICK i \in holds : \A j \in holds : ~ (j < i)
        BY <2>3, <3>1, Least
      <4> QED
        BY <3>1, <4>1
    <3>3. Savings!Min(holds) \in holds
      BY <3>2 DEF Savings!Min
    <3>4. Savings!ConsumptionRate(fuel, rated) = table[Savings!Min(holds)][2]
      BY <2>3 DEF Savings!ConsumptionRate, table
    <3> QED
      BY <2>1, <3>3, <3>4
  <2> QED
    BY <2>2, <2>3
<1>5. Savings!Rate \in Int
  BY <1>2, <1>3, <1>4 DEF Savings!Rate
<1> QED
  BY <1>1, <1>2, <1>5

\* The module's sums over a chart's sets of rows.
LEMMA EnergySum ==
  ASSUME NEW B, IsFiniteSet(B), NEW F, \A b \in B : F[b] = Savings!Round(Savings!Load(b) * 5, 3)
  PROVE  Savings!MapThenSumSet(LAMBDA b : Savings!Round(Savings!Load(b) * 5, 3), B) = Total(F, B)
<1> DEFINE h(b) == Savings!Round(Savings!Load(b) * 5, 3)
           P(g) == g = [s \in SUBSET B |-> IF s = {} THEN 0
                          ELSE h(CHOOSE x \in s : TRUE) + g[s \ {CHOOSE x \in s : TRUE}]]
           c == CHOOSE g : P(g)
<1>1. Savings!MapThenSumSet(LAMBDA b : Savings!Round(Savings!Load(b) * 5, 3), B) = c[B]
  BY DEF Savings!MapThenSumSet, Savings!MapThenFoldSet
<1> HIDE DEF h
<1>2. ASSUME NEW g PROVE P(g) <=> IsSum(g, F, B)
  <2>1. ASSUME NEW s \in SUBSET B, s # {} PROVE F[Pick(s)] = h(Pick(s))
    BY <2>1, Picked DEF h
  <2>2. \A s \in SUBSET B : Step(g, F, s) = IF s = {} THEN 0 ELSE h(Pick(s)) + g[s \ {Pick(s)}]
    BY <2>1 DEF Step
  <2> QED
    BY <2>2 DEF IsSum, Pick
<1>3. \E g : P(g)
  <2>1. PICK g : IsSum(g, F, B)
    BY SumExists
  <2> HIDE DEF P
  <2> QED
    BY <1>2, <2>1
<1>4. P(c)
  BY <1>3
<1> HIDE DEF P, c
<1> QED
  BY <1>1, <1>2, <1>4, TotalIsSum

LEMMA LitresSum ==
  ASSUME NEW B, IsFiniteSet(B), NEW F, \A b \in B : F[b] = Savings!Litres(Savings!Load(b))
  PROVE  Savings!MapThenSumSet(LAMBDA b : Savings!Litres(Savings!Load(b)), B) = Total(F, B)
<1> DEFINE h(b) == Savings!Litres(Savings!Load(b))
           P(g) == g = [s \in SUBSET B |-> IF s = {} THEN 0
                          ELSE h(CHOOSE x \in s : TRUE) + g[s \ {CHOOSE x \in s : TRUE}]]
           c == CHOOSE g : P(g)
<1>1. Savings!MapThenSumSet(LAMBDA b : Savings!Litres(Savings!Load(b)), B) = c[B]
  BY DEF Savings!MapThenSumSet, Savings!MapThenFoldSet
<1> HIDE DEF h
<1>2. ASSUME NEW g PROVE P(g) <=> IsSum(g, F, B)
  <2>1. ASSUME NEW s \in SUBSET B, s # {} PROVE F[Pick(s)] = h(Pick(s))
    BY <2>1, Picked DEF h
  <2>2. \A s \in SUBSET B : Step(g, F, s) = IF s = {} THEN 0 ELSE h(Pick(s)) + g[s \ {Pick(s)}]
    BY <2>1 DEF Step
  <2> QED
    BY <2>2 DEF IsSum, Pick
<1>3. \E g : P(g)
  <2>1. PICK g : IsSum(g, F, B)
    BY SumExists
  <2> HIDE DEF P
  <2> QED
    BY <1>2, <2>1
<1>4. P(c)
  BY <1>3
<1> HIDE DEF P, c
<1> QED
  BY <1>1, <1>2, <1>4, TotalIsSum

LEMMA HoursSum ==
  ASSUME NEW B, IsFiniteSet(B), NEW F, \A b \in B : F[b] = Cardinality(HoursOf(b))
  PROVE  Savings!MapThenSumSet(Savings!ActiveHours, B) = Total(F, B)
<1> DEFINE h(b) == Savings!ActiveHours(b)
           P(g) == g = [s \in SUBSET B |-> IF s = {} THEN 0
                          ELSE h(CHOOSE x \in s : TRUE) + g[s \ {CHOOSE x \in s : TRUE}]]
           c == CHOOSE g : P(g)
<1>1. Savings!MapThenSumSet(Savings!ActiveHours, B) = c[B]
  BY DEF Savings!MapThenSumSet, Savings!MapThenFoldSet
<1>2. \A b \in B : F[b] = h(b)
  BY SameCount DEF Savings!ActiveHours, HoursOf
<1> HIDE DEF h
<1>3. ASSUME NEW g PROVE P(g) <=> IsSum(g, F, B)
  <2>1. ASSUME NEW s \in SUBSET B, s # {} PROVE F[Pick(s)] = h(Pick(s))
    BY <1>2, <2>1, Picked
  <2>2. \A s \in SUBSET B : Step(g, F, s) = IF s = {} THEN 0 ELSE h(Pick(s)) + g[s \ {Pick(s)}]
    BY <2>1 DEF Step
  <2> QED
    BY <2>2 DEF IsSum, Pick
<1>4. \E g : P(g)
  <2>1. PICK g : IsSum(g, F, B)
    BY SumExists
  <2> HIDE DEF P
  <2> QED
    BY <1>3, <2>1
<1>5. P(c)
  BY <1>4
<1> HIDE DEF P, c
<1> QED
  BY <1>1, <1>3, <1>5, TotalIsSum

\* The figures of a chart and those of its rows together.
LEMMA ChartFigures ==
  ASSUME SavingsAssumption, SavingsInv, NEW I \in SUBSET DOMAIN rows, NEW unit,
         NEW B, B = Savings!Buckets(I, unit)
  PROVE  /\ IsFiniteSet(B)
         /\ Savings!Near(Savings!Round(Savings!Load(I) * 5, 3),
              Savings!MapThenSumSet(LAMBDA b : Savings!Round(Savings!Load(b) * 5, 3), B), Cardinality(B))
         /\ Savings!Near(Savings!Litres(Savings!Load(I)),
              Savings!MapThenSumSet(LAMBDA b : Savings!Litres(Savings!Load(b)), B), Cardinality(B))
         /\ Savings!Near(Savings!MapThenSumSet(LAMBDA b : Savings!Litres(Savings!Load(b)), B),
              Savings!Litres(Savings!Load(I)), Cardinality(B))
         /\ Savings!MapThenSumSet(Savings!ActiveHours, B) = Cardinality(HoursOf(UNION B))
         /\ UNION B = I /\ Savings!Load(I) \in Int
<1> DEFINE p == Savings!PollingInterval
           rated == Savings!Rated
           rate == Savings!Rate
           load(b) == Savings!Load(b)
           F == [i \in I |-> rows[i].load * p]
           N == [b \in B |-> load(b)]
<1>1. p \in Int /\ rated \in Nat \ {0} /\ rate \in Int
  BY FuelUse
<1>2. IsFiniteSet(I)
  <2>1. DOMAIN rows = 1..Len(rows) /\ Len(rows) \in Nat
    BY DEF SavingsInv
  <2>2. IsFiniteSet(DOMAIN rows)
    BY <2>1, FS_Interval
  <2> QED
    BY <2>2, FS_Subset
<1>3. \A i \in I : F[i] \in Int /\ F[i] = rows[i].load * p
  <2>1. \A i \in DOMAIN rows : rows[i].load \in Int
    <3> DEFINE R == [at: Nat, load: Int, solar: Int]
    <3>1. rows \in Seq(R)
      BY DEF SavingsInv
    <3>2. \A r \in R : r.load \in Int
      OBVIOUS
    <3> HIDE DEF R
    <3>3. \A i \in DOMAIN rows : rows[i] \in R
      BY <3>1
    <3> QED
      BY <3>2, <3>3
  <2> HIDE DEF p
  <2> QED
    BY <1>1, <2>1
<1>4. /\ IsFiniteSet(B) /\ UNION B = I
      /\ \A b \in B : b \in SUBSET I /\ IsFiniteSet(b) /\ IsFiniteSet(HoursOf(b))
      /\ \A b, c \in B : b # c => b \cap c = {} /\ HoursOf(b) \cap HoursOf(c) = {}
  BY <1>2, BucketsSplit
<1>5. ASSUME NEW b \in SUBSET I PROVE load(b) = Total(F, b) /\ load(b) \in Int
  <2>1. IsFiniteSet(b)
    BY <1>2, FS_Subset
  <2>2. \A i \in b : F[i] = rows[i].load * Savings!PollingInterval
    BY <1>3
  <2> HIDE DEF F
  <2>3. load(b) = Total(F, b)
    BY <2>1, <2>2, LoadIsTotal
  <2>4. Total(F, b) \in Int
    BY <1>2, <1>3, TotalIsInt
  <2> QED
    BY <2>3, <2>4
<1> HIDE DEF p, rated, rate, load, F
<1>6. \A b \in B : N[b] = load(b) /\ N[b] = Total(F, b) /\ N[b] \in Int
  BY <1>4, <1>5
<1> HIDE DEF N
<1>7. Total(N, B) = load(I) /\ load(I) \in Int
  <2>1. Total(N, B) = Total(F, UNION B)
    BY <1>3, <1>4, <1>6, TotalOfUnion
  <2> QED
    BY <1>4, <1>5, <2>1
<1>8. ASSUME NEW e \in Int
      PROVE  LET q == Savings!Round(e * 5, 3) IN
             q \in Int /\ 2 * (3 * q) - 2 * (5 * e) <= 3 /\ 2 * (5 * e) - 2 * (3 * q) <= 3
  <2>1. e * 5 \in Int /\ e * 5 = 5 * e
    OBVIOUS
  <2> QED
    BY <2>1, RoundedSavings
<1>9. ASSUME NEW e \in Int
      PROVE  LET q == Savings!Litres(e) IN
             /\ q \in Int
             /\ 2 * ((6 * rated) * q) - 2 * (rate * e) <= 6 * rated
             /\ 2 * (rate * e) - 2 * ((6 * rated) * q) <= 6 * rated
  <2>1. e * rate \in Int /\ e * rate = rate * e /\ 6 * rated \in Nat \ {0}
    BY <1>1
  <2>2. Savings!Litres(e) = Savings!Round(e * rate, 6 * rated)
    BY DEF Savings!Litres, rate, rated
  <2> QED
    BY <2>1, <2>2, RoundedSavings
<1>10. Savings!Near(Savings!Round(load(I) * 5, 3),
         Savings!MapThenSumSet(LAMBDA b : Savings!Round(Savings!Load(b) * 5, 3), B), Cardinality(B))
  <2> DEFINE Q == [b \in B |-> Savings!Round(load(b) * 5, 3)]
             x == Savings!Round(load(I) * 5, 3)
  <2>1. \A b \in B : Q[b] = Savings!Round(Savings!Load(b) * 5, 3)
    BY DEF load
  <2>2. \A b \in B : /\ N[b] \in Int /\ Q[b] \in Int
                     /\ 2 * (3 * Q[b]) - 2 * (5 * N[b]) <= 3
                     /\ 2 * (5 * N[b]) - 2 * (3 * Q[b]) <= 3
    <3> SUFFICES ASSUME NEW b \in B
                 PROVE  /\ N[b] \in Int /\ Q[b] \in Int
                        /\ 2 * (3 * Q[b]) - 2 * (5 * N[b]) <= 3
                        /\ 2 * (5 * N[b]) - 2 * (3 * Q[b]) <= 3
      OBVIOUS
    <3>1. Q[b] = Savings!Round(N[b] * 5, 3)
      BY <1>6
    <3> HIDE DEF Q
    <3> QED
      BY <1>6, <1>8, <3>1
  <2>3. x \in Int /\ 2 * (3 * x) - 2 * (5 * load(I)) <= 3 /\ 2 * (5 * load(I)) - 2 * (3 * x) <= 3
    BY <1>7, <1>8
  <2>4. Savings!MapThenSumSet(LAMBDA b : Savings!Round(Savings!Load(b) * 5, 3), B) = Total(Q, B)
    BY <1>4, <2>1, EnergySum
  <2> HIDE DEF Q, x
  <2>5. 2 * (3 * x) - 2 * (5 * Total(N, B)) <= 3 /\ 2 * (5 * Total(N, B)) - 2 * (3 * x) <= 3
    BY <1>7, <2>3
  <2>6. 3 \in Nat \ {0} /\ 5 \in Int /\ x \in Int
    BY <2>3
  <2>7. Savings!Near(x, Total(Q, B), Cardinality(B))
    BY <1>4, <2>2, <2>5, <2>6, NearTotals
  <2> QED
    BY <2>4, <2>7 DEF x
<1>11. /\ Savings!Near(Savings!Litres(load(I)),
            Savings!MapThenSumSet(LAMBDA b : Savings!Litres(Savings!Load(b)), B), Cardinality(B))
       /\ Savings!Near(Savings!MapThenSumSet(LAMBDA b : Savings!Litres(Savings!Load(b)), B),
            Savings!Litres(load(I)), Cardinality(B))
  <2> DEFINE Q == [b \in B |-> Savings!Litres(load(b))]
             x == Savings!Litres(load(I))
             d == 6 * rated
  <2>1. \A b \in B : Q[b] = Savings!Litres(Savings!Load(b))
    BY DEF load
  <2>2. \A b \in B : /\ N[b] \in Int /\ Q[b] \in Int
                     /\ 2 * (d * Q[b]) - 2 * (rate * N[b]) <= d
                     /\ 2 * (rate * N[b]) - 2 * (d * Q[b]) <= d
    <3> SUFFICES ASSUME NEW b \in B
                 PROVE  /\ N[b] \in Int /\ Q[b] \in Int
                        /\ 2 * (d * Q[b]) - 2 * (rate * N[b]) <= d
                        /\ 2 * (rate * N[b]) - 2 * (d * Q[b]) <= d
      OBVIOUS
    <3>1. Q[b] = Savings!Litres(N[b])
      BY <1>6
    <3> HIDE DEF Q
    <3> QED
      BY <1>6, <1>9, <3>1
  <2>3. x \in Int /\ 2 * (d * x) - 2 * (rate * load(I)) <= d /\ 2 * (rate * load(I)) - 2 * (d * x) <= d
    BY <1>7, <1>9
  <2>4. Savings!MapThenSumSet(LAMBDA b : Savings!Litres(Savings!Load(b)), B) = Total(Q, B)
    BY <1>4, <2>1, LitresSum
  <2>5. d \in Nat \ {0}
    BY <1>1
  <2> HIDE DEF Q, x, d
  <2>6. 2 * (d * x) - 2 * (rate * Total(N, B)) <= d /\ 2 * (rate * Total(N, B)) - 2 * (d * x) <= d
    BY <1>7, <2>3
  <2>7. /\ Savings!Near(x, Total(Q, B), Cardinality(B))
        /\ Savings!Near(Total(Q, B), x, Cardinality(B))
    BY <1>1, <1>4, <2>2, <2>3, <2>5, <2>6, NearTotals
  <2> QED
    BY <2>4, <2>7 DEF x
<1>12. Savings!MapThenSumSet(Savings!ActiveHours, B) = Cardinality(HoursOf(UNION B))
  <2> DEFINE H == [b \in B |-> HoursOf(b)]
             Q == [b \in B |-> Cardinality(HoursOf(b))]
  <2>1. \A b \in B : Q[b] = Cardinality(HoursOf(b)) /\ Q[b] = Cardinality(H[b]) /\ H[b] = HoursOf(b)
    OBVIOUS
  <2> HIDE DEF H, Q
  <2>2. Savings!MapThenSumSet(Savings!ActiveHours, B) = Total(Q, B)
    BY <1>4, <2>1, HoursSum
  <2>3. Total(Q, B) = Cardinality(UNION {H[b] : b \in B})
    <3>1. /\ \A b \in B : IsFiniteSet(H[b]) /\ Q[b] = Cardinality(H[b])
          /\ \A b, c \in B : b # c => H[b] \cap H[c] = {}
      BY <1>4, <2>1
    <3> QED
      BY <1>4, <3>1, TotalOfSizes
  <2>4. UNION {H[b] : b \in B} = HoursOf(UNION B)
    <3>1. ASSUME NEW v \in UNION {H[b] : b \in B} PROVE v \in HoursOf(UNION B)
      <4>1. PICK b \in B : v \in HoursOf(b)
        BY <2>1
      <4> QED
        BY <4>1 DEF HoursOf
    <3>2. ASSUME NEW v \in HoursOf(UNION B) PROVE v \in UNION {H[b] : b \in B}
      <4>1. PICK b \in B : v \in HoursOf(b)
        BY DEF HoursOf
      <4> QED
        BY <2>1, <4>1
    <3> QED
      BY <3>1, <3>2
  <2> QED
    BY <2>2, <2>3, <2>4
<1> QED
  BY <1>4, <1>7, <1>10, <1>11, <1>12 DEF load

\* Every chart of an endpoint adds up, whatever its range and its price.
LEMMA AnyChartAddsUp ==
  ASSUME SavingsAssumption, SavingsInv, NEW range, NEW p
  PROVE  Savings!AddsUp(Savings!Savings(range, p))
<1> DEFINE s == Savings!Savings(range, p)
           I == Savings!InRange(range.from, range.to)
           B == Savings!Buckets(I, range.unit)
           C == {Savings!Bar(b, p) : b \in B}
<1>1. /\ s.chart = C /\ s.energy = Savings!Round(Savings!Load(I) * 5, 3)
      /\ s.litres = Savings!Litres(Savings!Load(I))
      /\ s.hours = Savings!MapThenSumSet(Savings!ActiveHours, {b.rows : b \in C})
  BY DEF Savings!Savings
<1>2. I \in SUBSET DOMAIN rows
  BY DEF Savings!InRange
<1> DEFINE unit == range.unit
<1> HIDE DEF s, I, unit
<1>3. /\ IsFiniteSet(B)
      /\ Savings!Near(Savings!Round(Savings!Load(I) * 5, 3),
           Savings!MapThenSumSet(LAMBDA b : Savings!Round(Savings!Load(b) * 5, 3), B), Cardinality(B))
      /\ Savings!Near(Savings!Litres(Savings!Load(I)),
           Savings!MapThenSumSet(LAMBDA b : Savings!Litres(Savings!Load(b)), B), Cardinality(B))
      /\ Savings!MapThenSumSet(Savings!ActiveHours, B) = Cardinality(HoursOf(UNION B))
  BY <1>2, ChartFigures
<1> HIDE DEF B
<1> DEFINE f == [b \in B |-> Savings!Bar(b, p)]
<1>4. IsFiniteSet(B) /\ C = {f[b] : b \in B} /\ \A b \in B : f[b].rows = b
  BY <1>3 DEF Savings!Bar
<1> HIDE DEF f, C
<1>5. {c.rows : c \in C} = B /\ Savings!Cardinality(C) = Cardinality(B)
  BY <1>4, BarForEach
<1>6. Savings!Cardinality(s.chart) = Cardinality(B) /\ {b.rows : b \in s.chart} = B
  BY <1>1, <1>5
<1>7. s.hours = Savings!Cardinality({rows[i].at : i \in UNION {b.rows : b \in s.chart}})
  BY <1>1, <1>3, <1>5, <1>6, SameCount DEF HoursOf
<1>8. Savings!AddsUp(s)
  BY <1>1, <1>3, <1>6, <1>7 DEF Savings!AddsUp
<1> QED
  BY <1>8 DEF s

\* Every active hour is counted in one bar, and the bars' rounded energies and litres add
\* up to the rounded totals to within half a unit each, for any readings and settings.
THEOREM ChartsTellTheTotals == SavingsAssumption => (Savings!Spec => []ChartsAddUp)
<1> SUFFICES ASSUME SavingsAssumption PROVE Savings!Spec => []ChartsAddUp
  OBVIOUS
<1>1. SavingsInv => ChartsAddUp
  BY AnyChartAddsUp DEF ChartsAddUp, Savings!ChartsAddUp, Savings!PeriodSavings
<1>2. Savings!Spec => []SavingsInv
  BY SavingsTyped
<1> QED
  BY <1>1, <1>2, PTL

\* A day's midnight is on the day, and its date names it.
LEMMA DatesNameDays ==
  ASSUME SavingsAssumption, NEW k \in Int
  PROVE  Savings!LocalDay(k * DayLen) = k /\ Savings!LocalDay(Savings!Midnight(k)) = k
<1>1. /\ DayLen \in Nat \ {0} /\ ServerOffset \in Int
      /\ 0 <= ServerOffset /\ ServerOffset < DayLen
  BY DEF SavingsAssumption
<1>2. ASSUME NEW o \in Int, 0 <= o, o < DayLen PROVE (k * DayLen + o) \div DayLen = k
  <2> DEFINE a == k * DayLen + o
             q == a \div DayLen
  <2>1. a \in Int /\ k * DayLen \in Int
    BY <1>1, <1>2
  <2>2. q \in Int /\ DayLen * q <= a /\ a < DayLen * q + DayLen
    BY <1>1, <2>1, Division
  <2> HIDE DEF q
  <2>3. /\ DayLen * q \in Int /\ k * DayLen = DayLen * k /\ DayLen * k + DayLen = DayLen * (k + 1)
        /\ DayLen * q + DayLen = DayLen * (q + 1)
    BY <1>1, <2>2
  <2>4. DayLen * q < DayLen * (k + 1) /\ DayLen * k < DayLen * (q + 1)
    BY <1>1, <1>2, <2>1, <2>2, <2>3
  <2>5. q < k + 1 /\ k < q + 1
    BY <1>1, <2>2, <2>4, FactorsFollow
  <2> QED
    BY <2>2, <2>5 DEF q
<1>3. k * DayLen - ServerOffset + ServerOffset = k * DayLen + 0
  BY <1>1
<1>4. (k * DayLen + ServerOffset) \div DayLen = k /\ (k * DayLen + 0) \div DayLen = k
  BY <1>1, <1>2
<1> QED
  BY <1>3, <1>4 DEF Savings!LocalDay, Savings!Midnight

\* A calendar period is of whole days.
LEMMA PeriodsAreDays ==
  ASSUME SavingsAssumption, NEW period \in {"daily", "weekly", "monthly"}, NEW t \in Int
  PROVE  \E a, b \in Int : /\ a < b
                           /\ Savings!PeriodRange(period, t).from = Savings!Midnight(a)
                           /\ Savings!PeriodRange(period, t).to = Savings!Midnight(b)
<1> DEFINE day == Savings!LocalDay(t)
<1>1. day \in Int
  BY Division DEF Savings!LocalDay, SavingsAssumption
<1>2. day % DaysPerWeek \in Int /\ day % DaysPerMonth \in Int
  BY <1>1 DEF SavingsAssumption
<1> HIDE DEF day
<1> DEFINE monday == day - (day % DaysPerWeek)
           first == day - (day % DaysPerMonth)
<1>3. CASE period = "daily"
  <2>1. /\ Savings!PeriodRange(period, t).from = Savings!Midnight(day)
        /\ Savings!PeriodRange(period, t).to = Savings!Midnight(day + 1)
    BY <1>3 DEF Savings!PeriodRange, day
  <2>2. day + 1 \in Int /\ day < day + 1
    BY <1>1
  <2> QED
    BY <1>1, <2>1, <2>2
<1>4. CASE period = "weekly"
  <2>1. /\ Savings!PeriodRange(period, t).from = Savings!Midnight(monday)
        /\ Savings!PeriodRange(period, t).to = Savings!Midnight(monday + DaysPerWeek)
    BY <1>4 DEF Savings!PeriodRange, day
  <2>2. monday \in Int /\ monday + DaysPerWeek \in Int /\ monday < monday + DaysPerWeek
    BY <1>1, <1>2 DEF SavingsAssumption
  <2> HIDE DEF monday
  <2> QED
    BY <2>1, <2>2
<1>5. CASE period = "monthly"
  <2>1. /\ Savings!PeriodRange(period, t).from = Savings!Midnight(first)
        /\ Savings!PeriodRange(period, t).to = Savings!Midnight(first + DaysPerMonth)
    BY <1>5 DEF Savings!PeriodRange, day
  <2>2. first \in Int /\ first + DaysPerMonth \in Int /\ first < first + DaysPerMonth
    BY <1>1, <1>2 DEF SavingsAssumption
  <2> HIDE DEF first
  <2> QED
    BY <2>1, <2>2
<1> QED
  BY <1>3, <1>4, <1>5

\* The hours of an answer are those of its range, whatever the bars.
LEMMA HoursOfRange ==
  ASSUME SavingsAssumption, SavingsInv, NEW range, NEW p
  PROVE  LET I == Savings!InRange(range.from, range.to) IN
         /\ Savings!Savings(range, p).hours = Cardinality(HoursOf(I))
         /\ Savings!CostReport(range).hours = Cardinality(HoursOf(I))
         /\ Savings!Load(I) \in Int
<1> DEFINE I == Savings!InRange(range.from, range.to)
           B == Savings!Buckets(I, range.unit)
           C == {Savings!Bar(b, p) : b \in B}
<1>1. /\ Savings!Savings(range, p).hours = Savings!MapThenSumSet(Savings!ActiveHours, {c.rows : c \in C})
      /\ Savings!CostReport(range).hours = Savings!MapThenSumSet(Savings!ActiveHours, B)
  BY DEF Savings!Savings, Savings!CostReport
<1>2. I \in SUBSET DOMAIN rows
  BY DEF Savings!InRange
<1>3. {c.rows : c \in C} = B
  <2>1. \A b \in B : Savings!Bar(b, p).rows = b
    BY DEF Savings!Bar
  <2> HIDE DEF B
  <2> QED
    BY <2>1
<1> DEFINE unit == range.unit
<1> HIDE DEF I, C, unit
<1>4. /\ Savings!MapThenSumSet(Savings!ActiveHours, B) = Cardinality(HoursOf(UNION B))
      /\ UNION B = I /\ Savings!Load(I) \in Int
  BY <1>2, ChartFigures
<1> QED
  BY <1>1, <1>3, <1>4 DEF I

\* What is asked of the same range is told the same.
LEMMA SameDaysSameTotals ==
  ASSUME SavingsAssumption, SavingsInv, NEW x, NEW y, NEW p, x.from = y.from, x.to = y.to
  PROVE  Savings!Totals(Savings!Savings(x, p)) = Savings!Totals(Savings!Savings(y, p))
<1>1. Savings!Savings(x, p).hours = Savings!Savings(y, p).hours
  BY HoursOfRange
<1>2. /\ Savings!Savings(x, p).saved = Savings!Savings(y, p).saved
      /\ Savings!Savings(x, p).litres = Savings!Savings(y, p).litres
      /\ Savings!Savings(x, p).co2 = Savings!Savings(y, p).co2
      /\ Savings!Savings(x, p).energy = Savings!Savings(y, p).energy
      /\ Savings!Savings(x, p).solar = Savings!Savings(y, p).solar
  BY DEF Savings!Savings
<1> QED
  BY <1>1, <1>2 DEF Savings!Totals

\* One digit more of an amount is within half of the digit before.
LEMMA OneDigitMore ==
  ASSUME NEW n \in Int, NEW d \in Nat \ {0}
  PROVE  Savings!Round(n, d) - 10 * Savings!Round(n, 10 * d) \in -5..5
<1> DEFINE q == Savings!Round(n, d)
           r == Savings!Round(n, 10 * d)
<1>1. q \in Int /\ 2 * (d * q) - 2 * n <= d /\ 2 * n - 2 * (d * q) <= d
  BY RoundedSavings
<1>2. r \in Int /\ 2 * ((10 * d) * r) - 2 * n <= 10 * d /\ 2 * n - 2 * ((10 * d) * r) <= 10 * d
  <2>1. 10 * d \in Nat \ {0}
    OBVIOUS
  <2> QED
    BY <2>1, RoundedSavings
<1> HIDE DEF q, r
<1>3. /\ d * q \in Int /\ (10 * d) * r \in Int
      /\ d * (2 * (q - 10 * r)) = 2 * (d * q) - 2 * ((10 * d) * r)
      /\ d * (2 * (10 * r - q)) = 2 * ((10 * d) * r) - 2 * (d * q)
      /\ d * 12 = 12 * d
  BY <1>1, <1>2
<1>4. d * (2 * (q - 10 * r)) < d * 12 /\ d * (2 * (10 * r - q)) < d * 12
  BY <1>1, <1>2, <1>3
<1>5. 2 * (q - 10 * r) \in Int /\ 2 * (10 * r - q) \in Int
  BY <1>1, <1>2
<1>6. 2 * (q - 10 * r) < 12 /\ 2 * (10 * r - q) < 12
  BY <1>4, <1>5, FactorsFollow
<1>7. q - 10 * r \in -5..5
  BY <1>1, <1>2, <1>6
<1> QED
  BY <1>7 DEF q, r

\* The endpoint, by period or by dates, the agent and the report give the same figures for
\* the same days, and a lifetime is the sum of its months, for any readings and settings.
THEOREM WhoeverAsks == SavingsAssumption => (Savings!Spec => []AnswersAgree)
<1> SUFFICES ASSUME SavingsAssumption PROVE Savings!Spec => []AnswersAgree
  OBVIOUS
<1>1. SavingsInv => AnswersAgree
  <2> SUFFICES ASSUME SavingsInv PROVE Savings!AnswersAgree
    BY DEF AnswersAgree
  <2>1. ASSUME NEW period \in {"daily", "weekly", "monthly"}, NEW t \in Int
        PROVE  LET range == Savings!PeriodRange(period, t)
                   first == Savings!LocalDay(range.from)
                   last == Savings!LocalDay(range.to) - 1
               IN /\ Savings!Totals(Savings!CustomSavings(first, last))
                       = Savings!Totals(Savings!PeriodSavings(period, t))
                  /\ Savings!Totals(Savings!AgentCustomSavings(first, last))
                       = Savings!Totals(Savings!PeriodSavings(period, t))
    <3> DEFINE range == Savings!PeriodRange(period, t)
    <3>1. PICK a \in Int, b \in Int : /\ a < b
                                    /\ range.from = Savings!Midnight(a)
                                    /\ range.to = Savings!Midnight(b)
      BY <2>1, PeriodsAreDays
    <3> DEFINE asked == Savings!DatesToRange(a, b - 1)
    <3>2. Savings!LocalDay(range.from) = a /\ Savings!LocalDay(range.to) = b
      BY <3>1, DatesNameDays
    <3>3. asked.from = Savings!Midnight(a) /\ asked.to = Savings!Midnight(b)
      <4>1. b - 1 \in Int /\ (b - 1) + 1 = b
        BY <3>1
      <4>2. Savings!LocalDay(a * DayLen) = a /\ Savings!LocalDay((b - 1) * DayLen) = b - 1
        BY <3>1, <4>1, DatesNameDays
      <4> QED
        BY <4>1, <4>2 DEF Savings!DatesToRange, Savings!CustomRange
    <3>4. ~ (asked.from >= asked.to)
      <4>1. b - a \in Nat \ {0} /\ DayLen \in Nat \ {0} /\ ServerOffset \in Int
        BY <3>1 DEF SavingsAssumption
      <4>2. (b - a) * DayLen > 0 /\ (b - a) * DayLen = b * DayLen - a * DayLen
        BY <3>1, <4>1
      <4>3. a * DayLen \in Int /\ b * DayLen \in Int
        BY <3>1, <4>1
      <4> QED
        BY <3>3, <4>1, <4>2, <4>3 DEF Savings!Midnight
    <3> HIDE DEF asked, range
    <3>5. /\ Savings!CustomSavings(a, b - 1) = Savings!Savings(asked, Savings!Price)
          /\ Savings!AgentCustomSavings(a, b - 1) = Savings!Savings(asked, Savings!Price)
      BY <3>4 DEF Savings!CustomSavings, Savings!AgentCustomSavings, asked
    <3>6. Savings!Totals(Savings!Savings(asked, Savings!Price))
            = Savings!Totals(Savings!Savings(range, Savings!Price))
      BY <3>1, <3>3, SameDaysSameTotals
    <3> QED
      BY <3>2, <3>5, <3>6 DEF Savings!PeriodSavings, range
  <2>2. ASSUME settings # Savings!NoSettings, NEW period, NEW t
        PROVE  LET answer == Savings!PeriodSavings(period, t)
                   report == Savings!PeriodCostReport(period, t)
               IN report.hours = answer.hours /\ report.saved - 10 * answer.saved \in -5..5
    <3> DEFINE range == Savings!PeriodRange(period, t)
               e == Savings!Load(Savings!InRange(range.from, range.to))
               rate == Savings!Rate
               rated == Savings!Rated
               price == Savings!Price
               money == e * rate * price
    <3>1. /\ Savings!PeriodSavings(period, t).hours = Savings!PeriodCostReport(period, t).hours
          /\ e \in Int
      BY HoursOfRange DEF Savings!PeriodSavings, Savings!PeriodCostReport
    <3>2. rated \in Nat \ {0} /\ rate \in Int
      BY FuelUse
    <3>3. Savings!ReportPrice = price /\ price \in Int
      <4>1. Savings!Fuel \in {"PMS", "DIESEL"}
        BY DEF Savings!Fuel, Savings!NoSettings, SavingsInv, Savings!SettingsType, Savings!Fuels
      <4>2. Savings!FuelPrice[Savings!Fuel] \in Int
        BY <4>1 DEF Savings!FuelPrice
      <4>3. settings.price \in Prices \cup {Missing}
        BY <2>2 DEF SavingsInv, Savings!SettingsType, Savings!NoSettings
      <4> QED
        BY <2>2, <4>2, <4>3 DEF Savings!ReportPrice, Savings!Price, SavingsAssumption
    <3>4. price # NaN
      BY <3>3 DEF SavingsAssumption
    <3>5. /\ Savings!PeriodCostReport(period, t).saved = Savings!Round(money, 6 * rated)
          /\ Savings!PeriodSavings(period, t).saved = Savings!Round(money, 60 * rated)
      BY <3>3, <3>4 DEF Savings!PeriodCostReport, Savings!CostReport, Savings!PeriodSavings,
                        Savings!Savings, Savings!Naira
    <3> HIDE DEF e, rate, rated, price
    <3>6. money \in Int /\ 6 * rated \in Nat \ {0} /\ 60 * rated = 10 * (6 * rated)
      BY <3>1, <3>2, <3>3
    <3> HIDE DEF money
    <3>7. Savings!Round(money, 6 * rated) - 10 * Savings!Round(money, 60 * rated) \in -5..5
      BY <3>6, OneDigitMore
    <3> QED
      BY <3>1, <3>5, <3>7
  <2>3. Savings!Near(Savings!CumulativeSavings.litres, Savings!Litres(Savings!Load(DOMAIN rows)),
                     Savings!Cardinality(Savings!CumulativeSavings.chart))
    <3> DEFINE p == Savings!Price
               B == Savings!Buckets(DOMAIN rows, "month")
               C == {Savings!Bar(b, p) : b \in B}
    <3>1. /\ Savings!CumulativeSavings.chart = C
          /\ Savings!CumulativeSavings.litres
               = Savings!MapThenSumSet(LAMBDA b : Savings!Litres(Savings!Load(b)), {b.rows : b \in C})
      BY DEF Savings!CumulativeSavings, Savings!Cumulative
    <3>2. /\ IsFiniteSet(B)
          /\ Savings!Near(Savings!MapThenSumSet(LAMBDA b : Savings!Litres(Savings!Load(b)), B),
               Savings!Litres(Savings!Load(DOMAIN rows)), Cardinality(B))
      BY ChartFigures
    <3> HIDE DEF B, p
    <3> DEFINE f == [b \in B |-> Savings!Bar(b, p)]
    <3>3. IsFiniteSet(B) /\ C = {f[b] : b \in B} /\ \A b \in B : f[b].rows = b
      BY <3>2 DEF Savings!Bar
    <3> HIDE DEF f, C
    <3>4. {c.rows : c \in C} = B /\ Savings!Cardinality(C) = Cardinality(B)
      BY <3>3, BarForEach
    <3> QED
      BY <3>1, <3>2, <3>4
  <2>4. Savings!Periods \ {"hourly"} = {"daily", "weekly", "monthly"}
    BY DEF Savings!Periods
  <2>5. time \in Int /\ time - DayLen \in Int
    BY DEF SavingsInv, SavingsAssumption
  <2> QED
    BY <2>1, <2>2, <2>3, <2>4, <2>5 DEF Savings!AnswersAgree
<1>2. Savings!Spec => []SavingsInv
  BY SavingsTyped
<1> QED
  BY <1>1, <1>2, PTL

-----------------------------------------------------------------------------
(* The sign-up, with the variables of the run, and the parts side by side. *)

Signup == INSTANCE OnboardingProofs WITH account <- users, request <- signup, faults <- failed

\* What the run explores is the specification that OnboardingProofs is about.
LEMMA SignupIsOnboarding == Accounts!Spec => Signup!Spec
BY PTL DEF
  Signup!vars, Accounts!vars, Signup!NoAccount, Accounts!NoAccount, Signup!Idle, Accounts!Idle,
  Signup!Init, Accounts!Init, Signup!Become, Accounts!Become, Signup!Done, Accounts!Done,
  Signup!Start, Accounts!Start, Signup!Goto, Accounts!Goto, Signup!New, Accounts!New,
  Signup!BeginRegister, Accounts!BeginRegister, Signup!CreateAccount, Accounts!CreateAccount,
  Signup!BeginLogin, Accounts!BeginLogin, Signup!BeginResend, Accounts!BeginResend,
  Signup!CountResend, Accounts!CountResend, Signup!StoreCode, Accounts!StoreCode,
  Signup!MailCode, Accounts!MailCode, Signup!BeginVerify, Accounts!BeginVerify, Signup!Admit,
  Accounts!Admit, Signup!Compare, Accounts!Compare, Signup!CountTry, Accounts!CountTry,
  Signup!Verify, Accounts!Verify, Signup!Inspect, Accounts!Inspect, Signup!Subscribe,
  Accounts!Subscribe, Signup!ForgetCode, Accounts!ForgetCode, Signup!ForgetTries,
  Accounts!ForgetTries, Signup!BeginGoogle, Accounts!BeginGoogle, Signup!Link, Accounts!Link,
  Signup!ConnectInverter, Accounts!ConnectInverter, Signup!BeginForgot, Accounts!BeginForgot,
  Signup!MailToken, Accounts!MailToken, Signup!StoreToken, Accounts!StoreToken,
  Signup!BeginReset, Accounts!BeginReset, Signup!ChangePassword, Accounts!ChangePassword,
  Signup!KeepToken, Accounts!KeepToken, Signup!ForgetToken, Accounts!ForgetToken,
  Signup!ExpireCode, Accounts!ExpireCode, Signup!ExpireTries, Accounts!ExpireTries,
  Signup!ExpireResends, Accounts!ExpireResends, Signup!ExpireToken, Accounts!ExpireToken,
  Signup!Fail, Accounts!Fail, Signup!Next, Accounts!Next, Signup!Spec, Accounts!Spec,
  Signup!redis, Accounts!redis, Signup!history, Accounts!history, Signup!Guessing,
  Accounts!Guessing, Signup!Guessers, Accounts!Guessers, Signup!Judged, Accounts!Judged

\* Whoever is verified has a subscription, or the request that verified them is about to
\* write one (see OnboardingProofs).
THEOREM SignupSubscribes == Signup!ValuesDistinct => (Accounts!Spec => []VerifiedAreSubscribed)
<1>1. Signup!VerifiedAreSubscribed => VerifiedAreSubscribed
  BY DEF VerifiedAreSubscribed, Signup!VerifiedAreSubscribed, Accounts!VerifiedAreSubscribed,
         Signup!Verifying, Accounts!Verifying
<1>2. Signup!ValuesDistinct => (Signup!Spec => []Signup!VerifiedAreSubscribed)
  BY Signup!SubscriptionFollows
<1> QED
  BY <1>1, <1>2, SignupIsOnboarding, PTL

\* A token whose reset went through opens no other one (see OnboardingProofs).
THEOREM SignupResetsOnce == Signup!ValuesDistinct => (Accounts!Spec => ResetTokenUsedUp)
<1>1. Signup!ResetTokenUsedUp => ResetTokenUsedUp
  BY PTL DEF ResetTokenUsedUp, Signup!ResetTokenUsedUp, Accounts!ResetTokenUsedUp, Signup!vars, Accounts!vars
<1>2. Signup!ValuesDistinct => (Signup!Spec => Signup!ResetTokenUsedUp)
  BY Signup!ResetTokensAreUsedUp
<1> QED
  BY <1>1, <1>2, SignupIsOnboarding, PTL

\* Whoever guesses one code at a time gets no more wrong ones judged than the limit and
\* the requests that failed half way allow (see OnboardingProofs).
THEOREM SignupGuessesEnd ==
  Signup!ValuesDistinct /\ MaxTries \in Nat => (Accounts!Spec => []PatientGuesses)
<1>1. Signup!PatientGuesses => PatientGuesses
  BY DEF PatientGuesses, Signup!PatientGuesses, Accounts!PatientGuesses
<1>2. Signup!ValuesDistinct /\ MaxTries \in Nat => (Signup!Spec => []Signup!PatientGuesses)
  BY Signup!PatientGuessesEnd
<1> QED
  BY <1>1, <1>2, SignupIsOnboarding, PTL

\* The run explores each of these systems as its own specification has it: a step of
\* SideSpec is one of their steps or leaves them alone.
THEOREM SidesAreTheirSpecs ==
  SideSpec => Spec /\ Accounts!Spec /\ Savings!Spec /\ Rules!Spec /\ Series!Spec
<1>1. SideInit => Init /\ Accounts!Init /\ Savings!Init /\ Rules!Init /\ Series!Init
  BY DEF SideInit, ReadingsInit
<1>2. [SideNext]_<<part, vars, onboardingVars, readingsVars>> =>
        /\ [Next]_vars /\ [Accounts!Next]_onboardingVars /\ [Savings!Next]_savingsVars
        /\ [Rules!Next]_gradingVars /\ [Series!Next]_seriesVars
  BY DEF SideNext, ReadingsNext, readingsVars
<1> QED
  BY <1>1, <1>2, PTL DEF SideSpec, Spec, Accounts!Spec, Accounts!vars, onboardingVars,
     Savings!Spec, Savings!vars, savingsVars, Rules!Spec, Rules!vars, gradingVars,
     Series!Spec, Series!vars, seriesVars
=============================================================================
