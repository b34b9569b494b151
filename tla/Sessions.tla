------------------------------ MODULE Sessions ------------------------------
(***************************************************************************)
(* Sessions and their refresh tokens: login, refresh, an authenticated     *)
(* request and logout, interleaved at their awaits.  A session row keeps   *)
(* the hash of one refresh token; a refresh replaces it by compare and     *)
(* swap.  A refresh token and the access token signed with it are one      *)
(* element of Tokens: 32 random bytes never come twice, nor does a jti.    *)
(***************************************************************************)
EXTENDS Naturals

CONSTANTS Sessions, Tokens,
          Requests,    \* bound: requests under way at once
          Sliding,     \* 7 days
          Absolute,    \* 30 days
          AccessLife,  \* JWT_ACCESS_EXPIRES_IN
          Horizon,     \* bound: the clock stops here
          None

ASSUME TimesAssumption == /\ {Sliding, Absolute, AccessLife, Horizon} \subseteq Nat
                          /\ Sliding > 0 /\ Absolute > 0
ASSUME NoneAssumption == None \notin Sessions \cup Tokens

VARIABLES
  now,
  row,        \* user_sessions
  owner,      \* the session a token was issued for
  issuedAt,
  blacklist,  \* access tokens blacklisted in Redis
  held,       \* tokens that reached the client
  granted,    \* history: <<a, b>> when a was exchanged for b
  loggedOut,  \* history: sessions whose logout wrote the row
  request     \* what each request is doing

vars == <<now, row, owner, issuedAt, blacklist, held, granted, loggedOut, request>>
tokens == <<owner, issuedAt>>

NoRow == [active |-> FALSE, hash |-> None, created |-> 0, expires |-> 0]

\* late: the session had been logged out before the request began.
Idle == [kind |-> "none", pc |-> "idle", session |-> None, token |-> None,
         seen |-> NoRow, late |-> FALSE]

Init ==
  /\ now = 0
  /\ row = [s \in Sessions |-> NoRow]
  /\ owner = [t \in Tokens |-> None]
  /\ issuedAt = [t \in Tokens |-> 0]
  /\ blacklist = {}
  /\ held = {}
  /\ granted = {}
  /\ loggedOut = {}
  /\ request = [q \in Requests |-> Idle]

Become(q, r) == request' = [request EXCEPT ![q] = r]
Go(q, pc) == Become(q, [request[q] EXCEPT !.pc = pc])
Arrive(q, kind, t, pc, seen) ==
  Become(q, [kind |-> kind, pc |-> pc, session |-> owner[t], token |-> t,
             seen |-> seen, late |-> owner[t] \in loggedOut])

\* validateSession: past the sliding expiry or the absolute cap.
Expired(r) == now > r.created + Absolute \/ now > r.expires

\* signTokens for session s.
Sign(s, t) ==
  /\ owner[t] = None
  /\ owner' = [owner EXCEPT ![t] = s]
  /\ issuedAt' = [issuedAt EXCEPT ![t] = now]

-----------------------------------------------------------------------------
(* login (and verifyEmail, the Google logins, registerFromInvite): the row *)
(* is created, then its hash is set by id.                                 *)

Login(q, s) ==
  /\ request[q].pc = "idle"
  /\ row[s] = NoRow
  /\ row' = [row EXCEPT ![s] = [active |-> TRUE, hash |-> None,
                                created |-> now, expires |-> now + Sliding]]
  /\ Become(q, [Idle EXCEPT !.kind = "login", !.pc = "persist", !.session = s])
  /\ UNCHANGED <<now, tokens, blacklist, held, granted, loggedOut>>

PersistRefreshToken(q, t) ==
  LET s == request[q].session IN
  /\ request[q].pc = "persist"
  /\ Sign(s, t)
  /\ row' = [row EXCEPT ![s] = [@ EXCEPT !.hash = t, !.expires = now + Sliding]]
  /\ Become(q, [request[q] EXCEPT !.pc = "reply", !.token = t])
  /\ UNCHANGED <<now, blacklist, held, granted, loggedOut>>

-----------------------------------------------------------------------------
(* Reading and validating the session.                                     *)

\* Where a client may put its refresh token.
Carriers == {{"cookie"}, {"body"}, {"cookie", "body"}}

\* The controller: `!tokenParam.length || !dto.refreshToken`.
Admitted(carrier) == carrier = {"cookie", "body"}

TurnAway(q, t, carrier) ==
  /\ request[q].pc = "idle"
  /\ t \in held
  /\ ~ Admitted(carrier)
  /\ Arrive(q, "refresh", t, "refused", NoRow)
  /\ UNCHANGED <<now, row, tokens, blacklist, held, granted, loggedOut>>

\* refresh reads the row of the session the client names with its token.
PresentRefresh(q, t, carrier) ==
  /\ request[q].pc = "idle"
  /\ t \in held
  /\ Admitted(carrier)
  /\ Arrive(q, "refresh", t, "check", row[owner[t]])
  /\ UNCHANGED <<now, row, tokens, blacklist, held, granted, loggedOut>>

\* The JWT strategy: expiry and blacklist first ...
PresentAccess(q, kind, t) ==
  /\ request[q].pc = "idle"
  /\ t \in held \ blacklist
  /\ now < issuedAt[t] + AccessLife
  /\ Arrive(q, kind, t, "look", NoRow)
  /\ UNCHANGED <<now, row, tokens, blacklist, held, granted, loggedOut>>

\* ... then findSessionById.
Look(q) ==
  /\ request[q].pc = "look"
  /\ Become(q, [request[q] EXCEPT !.pc = "check", !.seen = row[request[q].session]])
  /\ UNCHANGED <<now, row, tokens, blacklist, held, granted, loggedOut>>

\* validateSession on the row as it was read; refresh then compares hashes.
Valid(r) == r.seen.active /\ ~ Expired(r.seen)
Matches(r) == r.kind = "refresh" => r.seen.hash = r.token

Pass(q) ==
  LET r == request[q] IN
  /\ r.pc = "check"
  /\ Valid(r) /\ Matches(r)
  /\ Go(q, CASE r.kind = "refresh" -> "swap"
             [] r.kind = "logout"  -> "blacklist"
             [] r.kind = "use"     -> "reply")
  /\ UNCHANGED <<now, row, tokens, blacklist, held, granted, loggedOut>>

Reject(q) ==
  LET r == request[q] IN
  /\ r.pc = "check"
  /\ ~ r.seen.active \/ (Valid(r) /\ ~ Matches(r))
  /\ Become(q, Idle)
  /\ UNCHANGED <<now, row, tokens, blacklist, held, granted, loggedOut>>

FindExpired(q) ==
  /\ request[q].pc = "check"
  /\ request[q].seen.active /\ Expired(request[q].seen)
  /\ Go(q, "expire")
  /\ UNCHANGED <<now, row, tokens, blacklist, held, granted, loggedOut>>

\* The row is made inactive by id, whatever it holds by now.
Expire(q) ==
  /\ request[q].pc = "expire"
  /\ row' = [row EXCEPT ![request[q].session] = [@ EXCEPT !.active = FALSE]]
  /\ Become(q, Idle)
  /\ UNCHANGED <<now, tokens, blacklist, held, granted, loggedOut>>

-----------------------------------------------------------------------------
(* refresh.                                                                *)

\* Mutant: the expected hash is left out of the WHERE clause.
SwappableAny(s, expected) ==
  /\ row[s].active
  /\ row[s].expires > now
  /\ now < row[s].created + Absolute

\* Mutant: the times are left to validateSession.
SwappableAnyTime(s, expected) == row[s].active /\ row[s].hash = expected

\* Mutant: UPDATE ... WHERE id.
SwappableById(s, expected) == TRUE

\* The WHERE clause of compareAndSwapRefreshTokenHash.
Swappable(s, expected) ==
  /\ row[s].hash = expected
  /\ row[s].active
  /\ row[s].expires > now
  /\ now < row[s].created + Absolute

\* The sliding window, cut at the absolute cap.
Renewed(r) == LET cap == r.created + Absolute
              IN  IF now + Sliding < cap THEN now + Sliding ELSE cap

Swap(q, t) ==
  LET s == request[q].session
      old == request[q].token IN
  /\ request[q].pc = "swap"
  /\ Swappable(s, old)
  /\ Sign(s, t)
  /\ row' = [row EXCEPT ![s] = [@ EXCEPT !.hash = t, !.expires = Renewed(row[s])]]
  /\ granted' = granted \cup {<<old, t>>}
  /\ Become(q, [request[q] EXCEPT !.pc = "reply", !.token = t])
  /\ UNCHANGED <<now, blacklist, held, loggedOut>>

SwapLost(q) ==
  /\ request[q].pc = "swap"
  /\ ~ Swappable(request[q].session, request[q].token)
  /\ Become(q, Idle)
  /\ UNCHANGED <<now, row, tokens, blacklist, held, granted, loggedOut>>

-----------------------------------------------------------------------------
(* logout.                                                                 *)

\* Redis may fail: the session is ended all the same (finally).
Blacklist(q) ==
  /\ request[q].pc = "blacklist"
  /\ blacklist' \in {blacklist, blacklist \cup {request[q].token}}
  /\ Go(q, "end")
  /\ UNCHANGED <<now, row, tokens, held, granted, loggedOut>>

\* Mutant: the hash is cleared, the session stays active.
DeactivatedHashOnly(r) == [r EXCEPT !.hash = None]

Deactivated(r) == [r EXCEPT !.active = FALSE, !.hash = None]

DeactivateSession(q) ==
  LET s == request[q].session IN
  /\ request[q].pc = "end"
  /\ row' = [row EXCEPT ![s] = Deactivated(row[s])]
  /\ loggedOut' = loggedOut \cup {s}
  /\ Become(q, Idle)
  /\ UNCHANGED <<now, tokens, blacklist, held, granted>>

-----------------------------------------------------------------------------
\* The response reaches the client.
Reply(q) ==
  /\ request[q].pc = "reply"
  /\ held' = held \cup {request[q].token}
  /\ Become(q, Idle)
  /\ UNCHANGED <<now, row, tokens, blacklist, granted, loggedOut>>

\* The response is lost, the database fails or the process dies.
Fail(q) ==
  /\ request[q].pc # "idle"
  /\ Become(q, Idle)
  /\ UNCHANGED <<now, row, tokens, blacklist, held, granted, loggedOut>>

Tick ==
  /\ now < Horizon
  /\ now' = now + 1
  /\ UNCHANGED <<row, tokens, blacklist, held, granted, loggedOut, request>>

Step(q) ==
  \/ \E s \in Sessions : Login(q, s)
  \/ \E t \in Tokens : PersistRefreshToken(q, t)
  \/ \E t \in Tokens, carrier \in Carriers :
       TurnAway(q, t, carrier) \/ PresentRefresh(q, t, carrier)
  \/ \E t \in Tokens, kind \in {"use", "logout"} : PresentAccess(q, kind, t)
  \/ Look(q)
  \/ Pass(q)
  \/ Reject(q)
  \/ FindExpired(q)
  \/ Expire(q)
  \/ \E t \in Tokens : Swap(q, t)
  \/ SwapLost(q)
  \/ Blacklist(q)
  \/ DeactivateSession(q)
  \/ Reply(q)
  \/ Fail(q)

Next == Tick \/ \E q \in Requests : Step(q)

Spec == Init /\ [][Next]_vars

-----------------------------------------------------------------------------
RowType == [active: BOOLEAN, hash: Tokens \cup {None}, created: Nat, expires: Nat]

RequestType ==
  [kind: {"none", "login", "refresh", "use", "logout"},
   pc: {"idle", "persist", "refused", "look", "check", "expire", "swap", "blacklist", "end", "reply"},
   session: Sessions \cup {None}, token: Tokens \cup {None}, seen: RowType, late: BOOLEAN]

\* The types of the rows and of the requests; a token that reached the client
\* or was exchanged belongs to a session.
TypeOK ==
  /\ now \in Nat
  /\ row \in [Sessions -> RowType]
  /\ owner \in [Tokens -> Sessions \cup {None}]
  /\ issuedAt \in [Tokens -> Nat]
  /\ blacklist \subseteq Tokens
  /\ held \subseteq {t \in Tokens : owner[t] # None}
  /\ granted \subseteq Tokens \X Tokens
  /\ loggedOut \subseteq Sessions
  /\ request \in [Requests -> RequestType]

\* "Atomic compare-and-swap: only succeeds if no concurrent request has already
\* rotated the token" (auth.service.ts, refresh): no refresh token is exchanged
\* twice, by a repeated request or by two at once.
OneSuccessor ==
  \A a, b, c \in Tokens : <<a, b>> \in granted /\ <<a, c>> \in granted => b = c

\* An exchange comes within the sliding window of the one before and within
\* the absolute cap of the login (validateSession and the WHERE clause).
NoLateExchange ==
  \A a, b \in Tokens : <<a, b>> \in granted =>
    /\ issuedAt[b] < issuedAt[a] + Sliding
    /\ issuedAt[b] < row[owner[b]].created + Absolute

\* A request that begins after a logout of its session gets nowhere, with any
\* of the access and refresh tokens the session ever had.
LogoutFinal ==
  \A q \in Requests : request[q].late => request[q].pc \in {"refused", "look", "check"}

GrantedIn(s) == {p \in granted : owner[p[1]] = s}

\* ... and a refresh that was under way when the logout wrote the row gets no
\* new token.
LogoutStopsRotation == [][\A s \in loggedOut : GrantedIn(s)' = GrantedIn(s)]_vars
=============================================================================
