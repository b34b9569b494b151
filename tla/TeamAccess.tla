----------------------------- MODULE TeamAccess -----------------------------
(***************************************************************************)
(* The members of one inverter: invites, acceptance by new and by existing *)
(* users, role changes and revocation.  A request is a row of `request'    *)
(* whose pc names the statement it awaits; statements are atomic and       *)
(* nothing else is.  A person is an e-mail address.                        *)
(***************************************************************************)
EXTENDS Naturals

CONSTANTS
  People,     \* e-mail addresses that may be invited
  Owner,      \* the inverter's owner
  Rows,       \* bound: rows of inverter_members
  Roles,      \* of members; "admin" is the one that may administer
  Tokens,     \* bound: invite tokens
  Requests,   \* bound: requests under way at once
  MaxFaults,  \* bound: requests that fail half way
  None

ASSUME TeamAssumption == /\ Owner \notin People
                         /\ None \notin People \cup Roles \cup Rows \cup Tokens \cup {Owner}
                         /\ MaxFaults \in Nat

VARIABLES
  member,     \* inverter_members
  account,    \* the people who have an account
  issued,     \* invite tokens handed out so far
  request,    \* what each request is doing
  faults,
  spent       \* history: tokens with which somebody became a member

vars == <<member, account, issued, request, faults, spent>>

Absent == [status |-> "absent", email |-> None, user |-> None, role |-> None,
           token |-> None, fresh |-> FALSE]
Idle == [pc |-> "idle", email |-> None, role |-> None, row |-> None, token |-> None,
         user |-> None]

Init ==
  /\ member = [m \in Rows |-> Absent]
  /\ account = {}
  /\ issued = {}
  /\ request = [q \in Requests |-> Idle]
  /\ faults = 0
  /\ spent = {}

Become(q, r) == request' = [request EXCEPT ![q] = r]
Done(q) == Become(q, Idle)
Live(m) == member[m].status \in {"invited", "active"}

\* The unique index on inverter and e-mail, over rows that are not deactivated.
IndexAllows(m, e) == \A n \in Rows \ {m} : Live(n) => member[n].email # e

\* A token nobody has been sent yet.
Issue(t) == t \in Tokens \ issued /\ issued' = issued \cup {t}

\* InverterRoleGuard with @InverterRoles(ADMIN): the owner, or a member whose
\* rank is at least an administrator's.
MayAdminister(p) ==
  \/ p = Owner
  \/ \E m \in Rows : member[m].status = "active" /\ member[m].user = p /\ member[m].role = "admin"

-----------------------------------------------------------------------------
(* Inviting.                                                               *)

\* inviteMember past the guard; the row of the e-mail, if any, is looked up.
BeginInvite(q, by, e, role) ==
  LET known == {m \in Rows : member[m].email = e} IN
  /\ request[q].pc = "idle"
  /\ MayAdminister(by)
  /\ \/ /\ known = {}
        /\ Become(q, [Idle EXCEPT !.pc = "addressing", !.email = e, !.role = role])
     \/ \E m \in known :
          /\ member[m].status = "deactivated"
          /\ Become(q, [Idle EXCEPT !.pc = "reviving", !.row = m, !.role = role])
  /\ UNCHANGED <<member, account, issued, faults, spent>>

\* findByEmail: the row will name the account if there is one.
FindAddressee(q) ==
  LET e == request[q].email IN
  /\ request[q].pc = "addressing"
  /\ Become(q, [request[q] EXCEPT !.pc = "inserting",
                                  !.user = IF e \in account THEN e ELSE None])
  /\ UNCHANGED <<member, account, issued, faults, spent>>

\* invite: the row is inserted, unless the index knows a live one by now.
InsertInvite(q, m, t) ==
  LET r == request[q] IN
  /\ r.pc = "inserting"
  /\ member[m].status = "absent"
  /\ Issue(t)
  /\ member' = [member EXCEPT ![m] = [status |-> "invited", email |-> r.email, user |-> r.user,
                                      role |-> r.role, token |-> t, fresh |-> TRUE]]
  /\ IndexAllows(m, r.email)
  /\ Done(q)
  /\ UNCHANGED <<account, faults, spent>>

\* The index refuses the row (or the bound on rows is reached).
InsertRefused(q) ==
  /\ request[q].pc = "inserting"
  /\ \A m \in Rows : member[m].status = "absent" => ~ IndexAllows(m, request[q].email)
  /\ Done(q)
  /\ UNCHANGED <<member, account, issued, faults, spent>>

\* Mutant: the row is invited again with the token it had.
ReviveKeepingToken(q, t) ==
  LET m == request[q].row IN
  /\ request[q].pc = "reviving"
  /\ member[m].status = "deactivated"
  /\ IndexAllows(m, member[m].email)
  /\ Issue(t)
  /\ member' = [member EXCEPT ![m] = [@ EXCEPT !.status = "invited", !.fresh = TRUE,
                                               !.role = request[q].role]]
  /\ Done(q)
  /\ UNCHANGED <<account, faults, spent>>

\* Mutant: an UPDATE that names the row and not its status.
ReviveAny(q, t) ==
  LET m == request[q].row IN
  /\ request[q].pc = "reviving"
  /\ IndexAllows(m, member[m].email)
  /\ Issue(t)
  /\ member' = [member EXCEPT ![m] = [@ EXCEPT !.status = "invited", !.fresh = TRUE, !.token = t,
                                               !.role = request[q].role]]
  /\ Done(q)
  /\ UNCHANGED <<account, faults, spent>>

\* atomicReInviteExistingRecord: UPDATE ... WHERE status = 'deactivated'.
Revive(q, t) ==
  LET m == request[q].row IN
  /\ request[q].pc = "reviving"
  /\ member[m].status = "deactivated"
  /\ IndexAllows(m, member[m].email)
  /\ Issue(t)
  /\ member' = [member EXCEPT ![m] = [@ EXCEPT !.status = "invited", !.fresh = TRUE, !.token = t,
                                               !.role = request[q].role]]
  /\ Done(q)
  /\ UNCHANGED <<account, faults, spent>>

\* The UPDATE matches nothing, or the index refuses it.
ReviveRefused(q) ==
  /\ request[q].pc = "reviving"
  /\ member[request[q].row].status # "deactivated" \/ ~ IndexAllows(request[q].row, member[request[q].row].email)
  /\ Done(q)
  /\ UNCHANGED <<member, account, issued, faults, spent>>

\* refreshUserInvite: one UPDATE ... WHERE status = 'invited'.
RefreshInvite(by, m, t) ==
  /\ MayAdminister(by)
  /\ member[m].status = "invited"
  /\ Issue(t)
  /\ member' = [member EXCEPT ![m] = [@ EXCEPT !.token = t, !.fresh = TRUE]]
  /\ UNCHANGED <<account, request, faults, spent>>

-----------------------------------------------------------------------------
(* Role changes and revocation.                                            *)

\* updateMemberRole past the guard: the UPDATE names the row, not its status.
BeginRoleChange(q, by, m, role) ==
  /\ request[q].pc = "idle"
  /\ MayAdminister(by)
  /\ member[m].status # "absent"
  /\ Become(q, [Idle EXCEPT !.pc = "ranking", !.row = m, !.role = role])
  /\ UNCHANGED <<member, account, issued, faults, spent>>

ChangeRole(q) ==
  /\ request[q].pc = "ranking"
  /\ member' = [member EXCEPT ![request[q].row] = [@ EXCEPT !.role = request[q].role]]
  /\ Done(q)
  /\ UNCHANGED <<account, issued, faults, spent>>

\* revokeMemberAccess past the guard.
BeginRevoke(q, by, m) ==
  /\ request[q].pc = "idle"
  /\ MayAdminister(by)
  /\ member[m].status # "absent"
  /\ Become(q, [Idle EXCEPT !.pc = "revoking", !.row = m])
  /\ UNCHANGED <<member, account, issued, faults, spent>>

Revoke(q) ==
  /\ request[q].pc = "revoking"
  /\ member' = [member EXCEPT ![request[q].row] = [@ EXCEPT !.status = "deactivated"]]
  /\ Done(q)
  /\ UNCHANGED <<account, issued, faults, spent>>

-----------------------------------------------------------------------------
(* Accepting.                                                              *)

\* Mutant: an invite is found by its token alone.
InviteByToken(m, t, e) ==
  member[m].token = t /\ member[m].status = "invited" /\ member[m].fresh

\* findInviteByTokenAndEmail accepts the row.
InviteFor(m, t, e) ==
  /\ member[m].token = t
  /\ member[m].email = e
  /\ member[m].status = "invited"
  /\ member[m].fresh

\* registerFromInvite (no session) or existingUserAcceptInvite (logged in): the
\* person presents a token, their own or one forwarded to them.
BeginAccept(q, e, t) ==
  \E m \in Rows :
    /\ request[q].pc = "idle"
    /\ InviteFor(m, t, e)
    /\ \/ Become(q, [Idle EXCEPT !.pc = "joining", !.email = e, !.row = m, !.token = t])
       \/ /\ e \in account
          /\ Become(q, [Idle EXCEPT !.pc = "activating", !.email = e, !.row = m, !.token = t,
                                    !.user = e])
    /\ UNCHANGED <<member, account, issued, faults, spent>>

\* createTeamInvitedUser: refused if the address has an account by now.
CreateInvitedUser(q) ==
  LET e == request[q].email IN
  /\ request[q].pc = "joining"
  /\ IF e \in account
     THEN Done(q) /\ UNCHANGED account
     ELSE /\ Become(q, [request[q] EXCEPT !.pc = "activating", !.user = e])
          /\ account' = account \cup {e}
  /\ UNCHANGED <<member, issued, faults, spent>>

\* activateMembership: UPDATE ... WHERE id, whatever has become of the row.
Activate(q) ==
  LET m == request[q].row IN
  /\ request[q].pc = "activating"
  /\ IndexAllows(m, member[m].email)
  /\ member' = [member EXCEPT ![m] = [@ EXCEPT !.status = "active", !.fresh = FALSE,
                                               !.user = request[q].user]]
  /\ spent' = spent \cup {request[q].token}
  /\ Done(q)
  /\ UNCHANGED <<account, issued, faults>>

ActivateRefused(q) ==
  /\ request[q].pc = "activating"
  /\ ~ IndexAllows(request[q].row, member[request[q].row].email)
  /\ Done(q)
  /\ UNCHANGED <<member, account, issued, faults, spent>>

-----------------------------------------------------------------------------
(* The surroundings.                                                       *)

\* An ordinary sign-up.
SignUp(e) ==
  /\ e \notin account
  /\ account' = account \cup {e}
  /\ UNCHANGED <<member, issued, request, faults, spent>>

\* DELETE /users/:id.  The rows that name the account lose it and stay as they are
\* (ON DELETE SET NULL); a statement still to come that would write its id breaks
\* the foreign key, so that the requests that hold it have ended for the book.
DeleteAccount(e) ==
  /\ e \in account
  /\ account' = account \ {e}
  /\ member' = [m \in Rows |-> IF member[m].user = e THEN [member[m] EXCEPT !.user = None]
                                                      ELSE member[m]]
  /\ request' = [q \in Requests |-> IF request[q].user = e THEN Idle ELSE request[q]]
  /\ UNCHANGED <<issued, faults, spent>>

\* Seven days pass for an invite.
Expire(m) ==
  /\ member[m].status = "invited" /\ member[m].fresh
  /\ member' = [member EXCEPT ![m] = [@ EXCEPT !.fresh = FALSE]]
  /\ UNCHANGED <<account, issued, request, faults, spent>>

\* The database, the mail queue or the process fails a request.
Fail(q) ==
  /\ request[q].pc # "idle"
  /\ faults < MaxFaults
  /\ faults' = faults + 1
  /\ Done(q)
  /\ UNCHANGED <<member, account, issued, spent>>

Next ==
  \/ \E q \in Requests :
       \/ \E by \in People \cup {Owner}, e \in People, role \in Roles : BeginInvite(q, by, e, role)
       \/ \E by \in People \cup {Owner}, m \in Rows, role \in Roles :
            BeginRoleChange(q, by, m, role)
       \/ \E by \in People \cup {Owner}, m \in Rows : BeginRevoke(q, by, m)
       \/ \E e \in People, t \in Tokens : BeginAccept(q, e, t)
       \/ \E m \in Rows, t \in Tokens : InsertInvite(q, m, t)
       \/ \E t \in Tokens : Revive(q, t)
       \/ FindAddressee(q) \/ InsertRefused(q) \/ ReviveRefused(q)
       \/ ChangeRole(q) \/ Revoke(q)
       \/ CreateInvitedUser(q) \/ Activate(q) \/ ActivateRefused(q)
       \/ Fail(q)
  \/ \E by \in People \cup {Owner}, m \in Rows, t \in Tokens : RefreshInvite(by, m, t)
  \/ \E e \in People : SignUp(e) \/ DeleteAccount(e)
  \/ \E m \in Rows : Expire(m)

Spec == Init /\ [][Next]_vars

-----------------------------------------------------------------------------
MemberType == [status: {"absent", "invited", "active", "deactivated"},
               email: People \cup {None}, user: People \cup {None}, role: Roles \cup {None},
               token: Tokens \cup {None}, fresh: BOOLEAN]

RequestType == [pc: {"idle", "addressing", "inserting", "reviving", "ranking", "revoking",
                     "joining", "activating"},
                email: People \cup {None}, role: Roles \cup {None}, row: Rows \cup {None},
                token: Tokens \cup {None}, user: People \cup {None}]

TypeOK ==
  /\ member \in [Rows -> MemberType]
  /\ account \in SUBSET People
  /\ issued \in SUBSET Tokens /\ spent \in SUBSET Tokens
  /\ request \in [Requests -> RequestType]
  /\ faults \in 0..MaxFaults

\* Whoever is a member is the person the invite was addressed to, with the account
\* they have now: not somebody who presents a forwarded token, not an account that
\* a failed sign-up left behind and that was deleted since.  A row whose account
\* is deleted stays active and is nobody's (auth.service.ts, registerFromInvite
\* and existingUserAcceptInvite).
MembersWereInvited ==
  \A m \in Rows :
    member[m].status = "active" /\ member[m].user # None =>
      member[m].user = member[m].email /\ member[m].user \in account

Revoking(m) == \E q \in Requests : request[q].pc = "revoking" /\ request[q].row = m

\* Members keep their place until it is revoked or their account is deleted: no
\* invite that was begun while the row was deactivated turns it into an invite
\* again once the person has joined, and no second acceptance gives it to somebody
\* else (inverter-member.action.ts, atomicReInviteExistingRecord).
MembersKeepTheirPlace ==
  [][\A m \in Rows :
       member[m].status = "active" =>
         /\ member'[m].status = "active" \/ (member'[m].status = "deactivated" /\ Revoking(m))
         /\ member[m].user # None =>
              \/ member'[m].user = member[m].user
              \/ member'[m].user = None /\ member[m].user \notin account']_vars

Accepting(q) == request[q].pc \in {"joining", "activating"}

\* Once somebody has become a member with a token, that token is never
\* accepted again: not after a revocation, and not after a new invite.
SpentInviteAdmitsNobody ==
  [][\A q \in Requests : ~ Accepting(q) /\ Accepting(q)' => request'[q].token \notin spent]_vars

\* A revoked member stays out until invited again ("Revoke a user's access",
\* team-access.controller.ts).
RevocationLasts ==
  [][\A m \in Rows : member[m].status = "deactivated" => member'[m].status # "active"]_vars
=============================================================================
