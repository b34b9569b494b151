--------------------------- MODULE SessionsProofs ---------------------------
(***************************************************************************)
(* Theorems about Sessions, for every number of sessions, tokens and       *)
(* concurrent requests and every length of the three lifetimes.            *)
(***************************************************************************)
EXTENDS Sessions, TLAPS

Made(s) == row[s].expires > 0

\* A row's hash is of a token of its own, and outlives it by no more than
\* the sliding window.
Rows ==
  \A s \in Sessions : row[s].hash # None =>
    /\ owner[row[s].hash] = s
    /\ row[s].expires <= issuedAt[row[s].hash] + Sliding

Owners == \A t \in Tokens : owner[t] # None => Made(owner[t])

\* A token that was exchanged is not the current one of its session.
Spent ==
  \A a, b \in Tokens : <<a, b>> \in granted =>
    /\ owner[a] # None
    /\ owner[b] = owner[a]
    /\ row[owner[a]].hash # a

Ended ==
  \A s \in loggedOut : /\ ~ row[s].active
                       /\ row[s].hash = None
                       /\ \E t \in Tokens : owner[t] = s

\* What the code of a request relies on.
Fits(r) ==
  /\ r.pc # "idle" => r.session \in Sessions /\ Made(r.session)
  /\ r.pc \notin {"idle", "persist"} => r.token \in Tokens /\ owner[r.token] = r.session
  /\ r.pc = "persist" => \A t \in Tokens : owner[t] # r.session
  /\ r.pc \in {"look", "check"} => r.kind \in {"refresh", "use", "logout"}
  /\ r.late => r.pc \in {"refused", "look", "check"} /\ r.session \in loggedOut
  /\ r.late /\ r.pc = "check" => ~ r.seen.active

Requesting == \A q \in Requests : Fits(request[q])

\* A session is logged in to by one request.
Logins ==
  \A v, w \in Requests :
    /\ request[v].pc = "persist" /\ request[w].pc = "persist"
    /\ request[v].session = request[w].session
    => v = w

Data == Rows /\ Owners /\ Spent /\ Ended /\ OneSuccessor /\ NoLateExchange
Inv == TypeOK /\ Data /\ Requesting /\ Logins

-----------------------------------------------------------------------------
LEMMA IdleFits == Idle \in RequestType /\ Fits(Idle) /\ Idle.pc = "idle"
BY DEF Idle, RequestType, RowType, NoRow, Fits

LEMMA InitInv == Init => Inv
<1> SUFFICES ASSUME Init PROVE Inv
  OBVIOUS
<1>1. TypeOK
  BY IdleFits DEF Init, TypeOK, RowType, NoRow
<1>2. Data
  BY NoneAssumption DEF Init, Data, Rows, Owners, Spent, Ended, OneSuccessor,
                        NoLateExchange, NoRow
<1>3. Requesting /\ Logins
  BY IdleFits DEF Init, Requesting, Logins
<1> QED
  BY <1>1, <1>2, <1>3 DEF Inv

\* A record fits as long as the data it speaks of only grows.
LEMMA StillFits ==
  ASSUME TypeOK, NEW r \in RequestType, Fits(r),
         \A s \in Sessions : Made(s) => Made(s)',
         \A t \in Tokens : owner[t] # None => owner'[t] = owner[t],
         r.pc = "persist" => \A t \in Tokens : owner'[t] # r.session,
         loggedOut \subseteq loggedOut'
  PROVE  Fits(r)'
BY NoneAssumption DEF Fits, TypeOK

\* The other requests of a step.
LEMMA Others ==
  ASSUME Inv, NEW q \in Requests, NEW r \in RequestType, Become(q, r),
         Fits(r)', r.pc # "persist",
         \A s \in Sessions : Made(s) => Made(s)',
         \A t \in Tokens : owner[t] # None => owner'[t] = owner[t],
         \A w \in Requests \ {q} : request[w].pc = "persist" =>
            \A t \in Tokens : owner'[t] # request[w].session,
         loggedOut \subseteq loggedOut'
  PROVE  Requesting' /\ Logins' /\ request' \in [Requests -> RequestType]
<1>1. request' = [request EXCEPT ![q] = r] /\ request \in [Requests -> RequestType]
  BY DEF Become, Inv, TypeOK
<1>2. ASSUME NEW w \in Requests PROVE Fits(request[w])'
  <2>1. CASE w = q
    BY <1>1, <2>1
  <2>2. CASE w # q
    <3>1. PICK x \in RequestType : x = request[w] /\ x = request'[w]
      BY <1>1, <2>2
    <3>2. Fits(x)
      BY <3>1 DEF Inv, Requesting
    <3>3. x.pc = "persist" => \A t \in Tokens : owner'[t] # x.session
      BY <2>2, <3>1
    <3>4. Fits(x)'
      BY <3>2, <3>3, StillFits DEF Inv
    <3> QED
      BY <3>1, <3>4 DEF Fits
  <2> QED
    BY <2>1, <2>2
<1>3. Requesting'
  BY <1>2 DEF Requesting
<1>4. Logins'
  BY <1>1 DEF Inv, Logins
<1> QED
  BY <1>1, <1>3, <1>4

\* A step of one request that leaves rows, tokens and history alone.
LEMMA QuietStep ==
  ASSUME Inv, NEW q \in Requests, NEW r \in RequestType, Become(q, r),
         Fits(r), r.pc # "persist",
         UNCHANGED <<now, row, tokens, granted, loggedOut>>,
         blacklist' \subseteq Tokens,
         held' \subseteq {t \in Tokens : owner[t] # None}
  PROVE  Inv'
<1>1. Fits(r)'
  BY DEF Fits, Made, tokens
<1>2. Requesting' /\ Logins' /\ request' \in [Requests -> RequestType]
  <2>1. \A s \in Sessions : Made(s) => Made(s)'
    BY DEF Made
  <2>2. \A w \in Requests \ {q} : request[w].pc = "persist" =>
            \A t \in Tokens : owner'[t] # request[w].session
    BY DEF Inv, Requesting, Fits, tokens
  <2> QED
    BY <1>1, <2>1, <2>2, Others DEF tokens
<1>3. TypeOK'
  BY <1>2 DEF Inv, TypeOK, tokens
<1>4. Data'
  BY DEF Inv, Data, Rows, Owners, Spent, Ended, OneSuccessor, NoLateExchange, Made, tokens
<1> QED
  BY <1>2, <1>3, <1>4 DEF Inv

-----------------------------------------------------------------------------
\* Lemmas on records: what Arrive, Go and validateSession make of a request.

LEMMA ArriveInv ==
  ASSUME Inv, NEW q \in Requests, NEW t \in held,
         NEW kind \in {"refresh", "use", "logout"},
         NEW pc \in {"refused", "look", "check"}, NEW seen \in RowType,
         pc = "check" => seen = row[owner[t]],
         Arrive(q, kind, t, pc, seen),
         UNCHANGED <<now, row, tokens, blacklist, held, granted, loggedOut>>
  PROVE  Inv'
<1> DEFINE r == [kind |-> kind, pc |-> pc, session |-> owner[t], token |-> t,
                 seen |-> seen, late |-> owner[t] \in loggedOut]
<1>1. t \in Tokens /\ owner[t] \in Sessions /\ Made(owner[t])
  BY DEF Inv, TypeOK, Data, Owners
<1>2. r \in RequestType
  BY <1>1 DEF RequestType
<1>3. Fits(r)
  BY <1>1 DEF Fits, Inv, Data, Ended
<1>4. Become(q, r) /\ r.pc # "persist"
  BY DEF Arrive
<1> HIDE DEF r
<1> QED
  BY <1>2, <1>3, <1>4, QuietStep DEF Inv, TypeOK

LEMMA TurnAwayInv ==
  ASSUME Inv, NEW q \in Requests, NEW t \in Tokens, NEW c \in Carriers, TurnAway(q, t, c)
  PROVE  Inv'
<1>1. NoRow \in RowType
  BY DEF NoRow, RowType
<1> QED
  BY <1>1, ArriveInv DEF TurnAway

LEMMA PresentRefreshInv ==
  ASSUME Inv, NEW q \in Requests, NEW t \in Tokens, NEW c \in Carriers,
         PresentRefresh(q, t, c)
  PROVE  Inv'
<1>1. row[owner[t]] \in RowType
  BY DEF PresentRefresh, Inv, TypeOK
<1> QED
  BY <1>1, ArriveInv DEF PresentRefresh

LEMMA PresentAccessInv ==
  ASSUME Inv, NEW q \in Requests, NEW kind \in {"use", "logout"}, NEW t \in Tokens,
         PresentAccess(q, kind, t)
  PROVE  Inv'
<1>1. NoRow \in RowType
  BY DEF NoRow, RowType
<1> QED
  BY <1>1, ArriveInv DEF PresentAccess

LEMMA LookInv ==
  ASSUME Inv, NEW q \in Requests, Look(q)
  PROVE  Inv'
<1> DEFINE r == [request[q] EXCEPT !.pc = "check", !.seen = row[request[q].session]]
<1>1. request[q] \in RequestType /\ Fits(request[q]) /\ request[q].pc = "look"
  BY DEF Inv, TypeOK, Requesting, Look
<1>2. row[request[q].session] \in RowType
  BY <1>1 DEF Inv, TypeOK, Fits
<1>3. r \in RequestType /\ r.pc = "check"
  BY <1>1, <1>2 DEF RequestType
<1>4. Fits(r)
  BY <1>1 DEF Fits, RequestType, Inv, Data, Ended
<1>5. Become(q, r)
  BY DEF Look
<1> HIDE DEF r
<1> QED
  BY <1>3, <1>4, <1>5, QuietStep DEF Look, Inv, TypeOK

LEMMA PassInv ==
  ASSUME Inv, NEW q \in Requests, Pass(q)
  PROVE  Inv'
<1> DEFINE pc == CASE request[q].kind = "refresh" -> "swap"
                   [] request[q].kind = "logout"  -> "blacklist"
                   [] request[q].kind = "use"     -> "reply"
           r == [request[q] EXCEPT !.pc = pc]
<1>1. request[q] \in RequestType /\ Fits(request[q]) /\ request[q].pc = "check"
      /\ request[q].seen.active
  BY DEF Inv, TypeOK, Requesting, Pass, Valid
<1>2. pc \in {"swap", "blacklist", "reply"}
  BY <1>1 DEF Fits
<1> HIDE DEF pc
<1>3. r \in RequestType /\ r.pc = pc
  BY <1>1, <1>2 DEF RequestType
<1>4. Fits(r)
  BY <1>1, <1>2 DEF Fits, RequestType
<1>5. Become(q, r)
  BY DEF Pass, Go, pc
<1> HIDE DEF r
<1> QED
  BY <1>2, <1>3, <1>4, <1>5, QuietStep DEF Pass, Inv, TypeOK

LEMMA IdleInv ==
  ASSUME Inv, NEW q \in Requests, Become(q, Idle),
         UNCHANGED <<now, row, tokens, blacklist, held, granted, loggedOut>>
  PROVE  Inv'
BY IdleFits, QuietStep DEF Inv, TypeOK

LEMMA FindExpiredInv ==
  ASSUME Inv, NEW q \in Requests, FindExpired(q)
  PROVE  Inv'
<1> DEFINE r == [request[q] EXCEPT !.pc = "expire"]
<1>1. request[q] \in RequestType /\ Fits(request[q]) /\ request[q].pc = "check"
      /\ request[q].seen.active
  BY DEF Inv, TypeOK, Requesting, FindExpired
<1>2. r \in RequestType /\ r.pc = "expire"
  BY <1>1 DEF RequestType
<1>3. Fits(r)
  BY <1>1 DEF Fits, RequestType
<1>4. Become(q, r)
  BY DEF FindExpired, Go
<1> HIDE DEF r
<1> QED
  BY <1>2, <1>3, <1>4, QuietStep DEF FindExpired, Inv, TypeOK

LEMMA BlacklistInv ==
  ASSUME Inv, NEW q \in Requests, Blacklist(q)
  PROVE  Inv'
<1> DEFINE r == [request[q] EXCEPT !.pc = "end"]
<1>1. request[q] \in RequestType /\ Fits(request[q]) /\ request[q].pc = "blacklist"
  BY DEF Inv, TypeOK, Requesting, Blacklist
<1>2. r \in RequestType /\ r.pc = "end"
  BY <1>1 DEF RequestType
<1>3. Fits(r)
  BY <1>1 DEF Fits, RequestType
<1>4. Become(q, r)
  BY DEF Blacklist, Go
<1>5. blacklist' \subseteq Tokens
  BY <1>1 DEF Blacklist, Inv, TypeOK, Fits
<1> HIDE DEF r
<1> QED
  BY <1>2, <1>3, <1>4, <1>5, QuietStep DEF Blacklist, Inv, TypeOK

LEMMA ReplyInv ==
  ASSUME Inv, NEW q \in Requests, Reply(q)
  PROVE  Inv'
<1>1. Fits(request[q]) /\ request[q].pc = "reply"
  BY DEF Inv, Requesting, Reply
<1>2. held' \subseteq {t \in Tokens : owner[t] # None}
  BY <1>1, NoneAssumption DEF Reply, Inv, TypeOK, Fits
<1> QED
  BY <1>2, IdleFits, QuietStep DEF Reply, Inv, TypeOK

LEMMA TickInv ==
  ASSUME Inv, Tick
  PROVE  Inv'
<1>1. TypeOK'
  BY DEF Inv, TypeOK, Tick, tokens
<1>2. Data'
  BY DEF Tick, tokens, Inv, Data, Rows, Owners, Spent, Ended, OneSuccessor,
         NoLateExchange, Made
<1>3. Requesting'
  BY DEF Tick, tokens, Inv, Requesting, Fits, Made
<1>4. Logins'
  BY DEF Tick, Inv, Logins
<1> QED
  BY <1>1, <1>2, <1>3, <1>4 DEF Inv
-----------------------------------------------------------------------------
\* The steps that write a row.

LEMMA LoginInv ==
  ASSUME Inv, NEW q \in Requests, NEW s \in Sessions, Login(q, s)
  PROVE  Inv'
<1> DEFINE n == [active |-> TRUE, hash |-> None, created |-> now, expires |-> now + Sliding]
           r == [Idle EXCEPT !.kind = "login", !.pc = "persist", !.session = s]
<1>1. n \in RowType /\ n.hash = None /\ n.expires > 0 /\ n.active
  BY TimesAssumption DEF RowType, Inv, TypeOK
<1>2. r \in RequestType /\ r.pc = "persist" /\ r.session = s /\ ~ r.late
  BY IdleFits DEF RequestType, Idle
<1>3. /\ row' = [row EXCEPT ![s] = n] /\ Become(q, r)
      /\ UNCHANGED <<now, tokens, blacklist, held, granted, loggedOut>>
  BY DEF Login
<1> HIDE DEF n, r
<1>4. ~ Made(s)
  BY DEF Login, NoRow, Made
<1>5. \A t \in Tokens : owner[t] # s
  BY <1>4, NoneAssumption DEF Inv, Data, Owners
<1>6. s \notin loggedOut
  BY <1>5 DEF Inv, Data, Ended
<1>7. \A w \in Requests : request[w].pc # "idle" => request[w].session # s
  BY <1>4 DEF Inv, Requesting, Fits
<1>8. row'[s] = n /\ \A x \in Sessions \ {s} : row'[x] = row[x]
  BY <1>3 DEF Inv, TypeOK
<1>9. \A x \in Sessions : Made(x) => Made(x)'
  BY <1>4, <1>8 DEF Made
<1>10. request'[q] = r /\ \A w \in Requests \ {q} : request'[w] = request[w]
  BY <1>3 DEF Become, Inv, TypeOK
<1>11. TypeOK'
  BY <1>1, <1>2, <1>3 DEF Inv, TypeOK, tokens, Become
<1>12. Data'
  <2>1. Rows'
    BY <1>1, <1>3, <1>8 DEF Inv, Data, Rows, tokens
  <2>2. Owners'
    BY <1>3, <1>9, NoneAssumption DEF Inv, TypeOK, Data, Owners, tokens, Made
  <2>3. Spent'
    BY <1>3, <1>5, <1>8, NoneAssumption DEF Inv, TypeOK, Data, Spent, tokens
  <2>4. Ended'
    BY <1>3, <1>6, <1>8 DEF Inv, TypeOK, Data, Ended, tokens
  <2>5. OneSuccessor'
    BY <1>3 DEF Inv, Data, OneSuccessor
  <2>6. NoLateExchange'
    BY <1>3, <1>5, <1>8, NoneAssumption DEF Inv, TypeOK, Data, Spent, NoLateExchange, tokens
  <2> QED
    BY <2>1, <2>2, <2>3, <2>4, <2>5, <2>6 DEF Data
<1>13. Requesting'
  <2> SUFFICES ASSUME NEW w \in Requests PROVE Fits(request[w])'
    BY DEF Requesting
  <2>1. CASE w = q
    BY <1>1, <1>2, <1>3, <1>5, <1>8, <1>10, <2>1 DEF Fits, Made, tokens
  <2>2. CASE w # q
    <3>1. PICK x \in RequestType : x = request[w] /\ x = request'[w]
      BY <1>10, <2>2 DEF Inv, TypeOK
    <3>2. Fits(x)
      BY <3>1 DEF Inv, Requesting
    <3>3. Fits(x)'
      BY <1>3, <1>9, <3>2, StillFits DEF Inv, Fits, tokens
    <3> QED
      BY <3>1, <3>3 DEF Fits
  <2> QED
    BY <2>1, <2>2
<1>14. Logins'
  BY <1>2, <1>7, <1>10 DEF Inv, Logins
<1> QED
  BY <1>11, <1>12, <1>13, <1>14 DEF Inv

\* What PersistRefreshToken and Swap have in common: session s gets token t.
LEMMA IssueInv ==
  ASSUME Inv, NEW q \in Requests, NEW s \in Sessions, NEW t \in Tokens,
         NEW e \in Nat, request[q].session = s, request[q].pc \in {"persist", "swap"},
         Sign(s, t), 0 < e, e <= now + Sliding, s \notin loggedOut,
         row' = [row EXCEPT ![s] = [@ EXCEPT !.hash = t, !.expires = e]],
         Become(q, [request[q] EXCEPT !.pc = "reply", !.token = t]),
         UNCHANGED <<now, blacklist, held, loggedOut>>,
         \/ granted' = granted /\ \A u \in Tokens : owner[u] # s
         \/ \E old \in Tokens :
              /\ granted' = granted \cup {<<old, t>>}
              /\ old = row[s].hash
              /\ now < row[s].expires
              /\ now < row[s].created + Absolute
  PROVE  Inv'
<1> DEFINE n == [row[s] EXCEPT !.hash = t, !.expires = e]
<1>1. n \in RowType /\ n.hash = t /\ n.expires = e /\ n.created = row[s].created
  <2>1. row[s] \in RowType
    BY DEF Inv, TypeOK
  <2> QED
    BY <2>1 DEF RowType
<1>2. request[q] \in RequestType /\ Fits(request[q])
  BY DEF Inv, TypeOK, Requesting
<1>3. PICK r \in RequestType : /\ r = [request[q] EXCEPT !.pc = "reply", !.token = t]
                               /\ r.pc = "reply" /\ r.token = t /\ r.session = s /\ ~ r.late
  <2> DEFINE x == [request[q] EXCEPT !.pc = "reply", !.token = t]
  <2>1. x \in RequestType /\ x.pc = "reply" /\ x.token = t /\ x.session = s
    BY <1>2 DEF RequestType
  <2>2. ~ x.late
    BY <1>2 DEF RequestType, Fits
  <2> QED
    BY <2>1, <2>2
<1>4. row' = [row EXCEPT ![s] = n] /\ Become(q, r)
  BY <1>3 DEF Inv, TypeOK
<1> HIDE DEF n
<1>5. row'[s] = n /\ \A x \in Sessions \ {s} : row'[x] = row[x]
  BY <1>4 DEF Inv, TypeOK
<1>6. /\ owner[t] = None
      /\ owner' = [owner EXCEPT ![t] = s] /\ issuedAt' = [issuedAt EXCEPT ![t] = now]
      /\ owner'[t] = s /\ issuedAt'[t] = now
      /\ \A u \in Tokens \ {t} : owner'[u] = owner[u] /\ issuedAt'[u] = issuedAt[u]
  BY DEF Sign, Inv, TypeOK
<1>7. \A x \in Sessions : Made(x) => Made(x)'
  BY <1>1, <1>5 DEF Made
<1>8. \A u \in Tokens : owner[u] # None => owner'[u] = owner[u]
  BY <1>6
<1>9. Requesting' /\ Logins' /\ request' \in [Requests -> RequestType]
  <2>1. Fits(r)'
    BY <1>1, <1>3, <1>5, <1>6 DEF Fits, Made
  <2>2. ASSUME NEW w \in Requests \ {q}, request[w].pc = "persist", NEW u \in Tokens
        PROVE  owner'[u] # request[w].session
    <3>1. owner[u] # request[w].session
      BY <2>2 DEF Inv, Requesting, Fits
    <3>2. request[w].session # s
      <4>1. CASE request[q].pc = "persist"
        BY <4>1, <2>2 DEF Inv, Logins
      <4>2. CASE request[q].pc = "swap"
        BY <4>2, <1>2, <2>2 DEF Inv, Requesting, Fits
      <4> QED
        BY <4>1, <4>2
    <3> QED
      BY <1>6, <3>1, <3>2
  <2> QED
    BY <1>3, <1>4, <1>7, <1>8, <2>1, <2>2, Others
<1>10. TypeOK'
  <2>1. granted' \subseteq Tokens \X Tokens
    BY DEF Inv, TypeOK
  <2>2. row' \in [Sessions -> RowType]
    BY <1>1, <1>4 DEF Inv, TypeOK
  <2>3. owner' \in [Tokens -> Sessions \cup {None}] /\ issuedAt' \in [Tokens -> Nat]
    BY <1>6 DEF Inv, TypeOK
  <2>4. held' \subseteq {u \in Tokens : owner'[u] # None}
    BY <1>8 DEF Inv, TypeOK
  <2> QED
    BY <1>9, <2>1, <2>2, <2>3, <2>4 DEF Inv, TypeOK
<1>11. Rows'
  <2> SUFFICES ASSUME NEW x \in Sessions, row'[x].hash # None
               PROVE  /\ owner'[row'[x].hash] = x
                      /\ row'[x].expires <= issuedAt'[row'[x].hash] + Sliding
    BY DEF Rows
  <2>1. CASE x = s
    BY <1>1, <1>5, <1>6, <2>1
  <2>2. CASE x # s
    BY <1>5, <1>6, <2>2, NoneAssumption DEF Inv, TypeOK, RowType, Data, Rows
  <2> QED
    BY <2>1, <2>2
<1>12. Owners'
  BY <1>1, <1>5, <1>6, <1>7 DEF Inv, TypeOK, Data, Owners, Made
<1>13. Ended'
  BY <1>5, <1>8, NoneAssumption DEF Inv, TypeOK, Data, Ended
<1>14. ASSUME NEW a \in Tokens, NEW b \in Tokens, <<a, b>> \in granted
       PROVE  /\ a # t /\ b # t /\ owner[a] \in Sessions /\ owner[b] = owner[a]
              /\ row[owner[a]].hash # a
              /\ owner'[a] = owner[a] /\ owner'[b] = owner[b]
              /\ issuedAt'[a] = issuedAt[a] /\ issuedAt'[b] = issuedAt[b]
  BY <1>6, <1>14, NoneAssumption DEF Inv, TypeOK, Data, Spent
<1>15. ASSUME NEW a \in Tokens, NEW b \in Tokens, <<a, b>> \in granted', <<a, b>> \notin granted
       PROVE  /\ a = row[s].hash /\ b = t /\ a # t /\ owner[a] = s
              /\ now < row[s].expires
              /\ now < row[s].created + Absolute
              /\ row[s].expires <= issuedAt[a] + Sliding
  BY <1>6, <1>15, NoneAssumption DEF Inv, Data, Rows
<1>16. Spent'
  <2> SUFFICES ASSUME NEW a \in Tokens, NEW b \in Tokens, <<a, b>> \in granted'
               PROVE  owner'[a] # None /\ owner'[b] = owner'[a] /\ row'[owner'[a]].hash # a
    BY DEF Spent
  <2>1. CASE <<a, b>> \in granted
    BY <1>1, <1>5, <1>14, <2>1, NoneAssumption
  <2>2. CASE <<a, b>> \notin granted
    BY <1>1, <1>5, <1>6, <1>15, <2>2, NoneAssumption
  <2> QED
    BY <2>1, <2>2
<1>17. OneSuccessor'
  <2> SUFFICES ASSUME NEW a \in Tokens, NEW b \in Tokens, NEW c \in Tokens,
                      <<a, b>> \in granted', <<a, c>> \in granted'
               PROVE  b = c
    BY DEF OneSuccessor
  <2>1. CASE <<a, b>> \in granted /\ <<a, c>> \in granted
    BY <2>1 DEF Inv, Data, OneSuccessor
  <2>2. CASE <<a, b>> \notin granted /\ <<a, c>> \notin granted
    BY <1>15, <2>2
  <2>3. CASE <<a, b>> \in granted /\ <<a, c>> \notin granted
    BY <1>14, <1>15, <2>3
  <2>4. CASE <<a, b>> \notin granted /\ <<a, c>> \in granted
    BY <1>14, <1>15, <2>4
  <2> QED
    BY <2>1, <2>2, <2>3, <2>4
<1>18. NoLateExchange'
  <2> SUFFICES ASSUME NEW a \in Tokens, NEW b \in Tokens, <<a, b>> \in granted'
               PROVE  /\ issuedAt'[b] < issuedAt'[a] + Sliding
                      /\ issuedAt'[b] < row'[owner'[b]].created + Absolute
    BY DEF NoLateExchange
  <2>1. CASE <<a, b>> \in granted
    <3>1. issuedAt[b] < issuedAt[a] + Sliding /\ issuedAt[b] < row[owner[b]].created + Absolute
      BY <2>1 DEF Inv, Data, NoLateExchange
    <3>2. row'[owner[b]].created = row[owner[b]].created
      BY <1>1, <1>5, <1>14, <2>1
    <3> QED
      BY <1>14, <2>1, <3>1, <3>2
  <2>2. CASE <<a, b>> \notin granted
    <3>1. /\ b = t /\ a # t /\ now < row[s].expires /\ now < row[s].created + Absolute
          /\ row[s].expires <= issuedAt[a] + Sliding
      BY <1>15, <2>2
    <3>2. issuedAt'[a] = issuedAt[a] /\ issuedAt'[b] = now /\ owner'[b] = s
      BY <1>6, <3>1
    <3>3. row'[s].created = row[s].created
      BY <1>1, <1>5
    <3>4. now \in Nat /\ row[s].expires \in Nat /\ issuedAt[a] \in Nat
      BY DEF Inv, TypeOK, RowType
    <3> QED
      BY <3>1, <3>2, <3>3, <3>4, TimesAssumption
  <2> QED
    BY <2>1, <2>2
<1> QED
  BY <1>9, <1>10, <1>11, <1>12, <1>13, <1>16, <1>17, <1>18 DEF Inv, Data
LEMMA PersistRefreshTokenInv ==
  ASSUME Inv, NEW q \in Requests, NEW t \in Tokens, PersistRefreshToken(q, t)
  PROVE  Inv'
<1> DEFINE s == request[q].session
           e == now + Sliding
<1>1. Fits(request[q]) /\ request[q].pc = "persist"
  BY DEF Inv, Requesting, PersistRefreshToken
<1>2. s \in Sessions /\ \A u \in Tokens : owner[u] # s
  BY <1>1 DEF Fits
<1>3. s \notin loggedOut
  BY <1>2 DEF Inv, Data, Ended
<1>4. e \in Nat /\ 0 < e /\ e <= now + Sliding
  BY TimesAssumption DEF Inv, TypeOK
<1> QED
  BY <1>1, <1>2, <1>3, <1>4, IssueInv DEF PersistRefreshToken

LEMMA SwapInv ==
  ASSUME Inv, NEW q \in Requests, NEW t \in Tokens, Swap(q, t)
  PROVE  Inv'
<1> DEFINE s == request[q].session
           e == Renewed(row[s])
<1>1. Fits(request[q]) /\ request[q].pc = "swap"
  BY DEF Inv, Requesting, Swap
<1>2. s \in Sessions /\ request[q].token \in Tokens
  BY <1>1 DEF Fits
<1>3. s \notin loggedOut
  BY DEF Swap, Swappable, Inv, Data, Ended
<1>4. now \in Nat /\ row[s] \in RowType
  BY <1>2 DEF Inv, TypeOK
<1>5. e \in Nat /\ 0 < e /\ e <= now + Sliding
  BY <1>4, TimesAssumption DEF Renewed, RowType
<1> QED
  BY <1>1, <1>2, <1>3, <1>4, <1>5, IssueInv DEF Swap, Swappable, RowType

\* Ending a session by its expiry or by a logout.
LEMMA EndInv ==
  ASSUME Inv, NEW q \in Requests, NEW s \in Sessions, NEW h \in {None, row[s].hash},
         Become(q, Idle), \E u \in Tokens : owner[u] = s,
         row' = [row EXCEPT ![s] = [@ EXCEPT !.active = FALSE, !.hash = h]],
         \/ loggedOut' = loggedOut
         \/ loggedOut' = loggedOut \cup {s} /\ h = None,
         UNCHANGED <<now, tokens, blacklist, held, granted>>
  PROVE  Inv'
<1> DEFINE n == [row[s] EXCEPT !.active = FALSE, !.hash = h]
<1>0. row[s] \in RowType /\ h \in Tokens \cup {None}
  BY DEF RowType, Inv, TypeOK
<1>1. /\ n \in RowType /\ ~ n.active /\ n.hash = h
      /\ n.expires = row[s].expires /\ n.created = row[s].created
  BY <1>0 DEF RowType
<1>2. row' = [row EXCEPT ![s] = n]
  BY DEF Inv, TypeOK
<1> HIDE DEF n
<1>3. row'[s] = n /\ \A x \in Sessions \ {s} : row'[x] = row[x]
  BY <1>2 DEF Inv, TypeOK
<1>4. \A x \in Sessions : Made(x)' = Made(x)
  BY <1>1, <1>3 DEF Made
<1>5. Fits(Idle)'
  BY DEF Fits, Idle
<1>6. Requesting' /\ Logins' /\ request' \in [Requests -> RequestType]
  <2>1. \A w \in Requests \ {q} : request[w].pc = "persist" =>
            \A u \in Tokens : owner'[u] # request[w].session
    BY DEF Inv, Requesting, Fits, tokens
  <2>2. \A u \in Tokens : owner[u] # None => owner'[u] = owner[u]
    BY DEF tokens
  <2> QED
    BY <1>4, <1>5, <2>1, <2>2, IdleFits, Others
<1>7. TypeOK'
  BY <1>1, <1>2, <1>6 DEF Inv, TypeOK, tokens
<1>8. Data'
  <2>1. Rows'
    BY <1>1, <1>3 DEF Inv, Data, Rows, tokens
  <2>2. Owners'
    BY <1>4 DEF Inv, TypeOK, Data, Owners, tokens
  <2>3. Spent'
    BY <1>1, <1>3, NoneAssumption DEF Inv, TypeOK, Data, Spent, tokens
  <2>4. Ended'
    BY <1>1, <1>3 DEF Inv, TypeOK, Data, Ended, tokens
  <2>5. OneSuccessor'
    BY DEF Inv, Data, OneSuccessor
  <2>6. NoLateExchange'
    BY <1>1, <1>3 DEF Inv, TypeOK, Data, Spent, NoLateExchange, tokens
  <2> QED
    BY <2>1, <2>2, <2>3, <2>4, <2>5, <2>6 DEF Data
<1> QED
  BY <1>6, <1>7, <1>8 DEF Inv

LEMMA ExpireInv ==
  ASSUME Inv, NEW q \in Requests, Expire(q)
  PROVE  Inv'
<1> DEFINE s == request[q].session
<1>1. s \in Sessions /\ \E u \in Tokens : owner[u] = s
  BY DEF Expire, Inv, Requesting, Fits
<1>2. row[s] \in RowType
  BY <1>1 DEF Inv, TypeOK
<1>3. [row[s] EXCEPT !.active = FALSE] = [row[s] EXCEPT !.active = FALSE, !.hash = row[s].hash]
  BY <1>2 DEF RowType
<1> QED
  BY <1>1, <1>3, EndInv DEF Expire, Inv, TypeOK

LEMMA DeactivateSessionInv ==
  ASSUME Inv, NEW q \in Requests, DeactivateSession(q)
  PROVE  Inv'
<1> DEFINE s == request[q].session
<1>1. s \in Sessions /\ \E u \in Tokens : owner[u] = s
  BY DEF DeactivateSession, Inv, Requesting, Fits
<1> QED
  BY <1>1, EndInv DEF DeactivateSession, Deactivated, Inv, TypeOK

LEMMA NextInv == Inv /\ [Next]_vars => Inv'
<1> SUFFICES ASSUME Inv, [Next]_vars PROVE Inv'
  OBVIOUS
<1>1. CASE Tick
  BY <1>1, TickInv
<1>2. ASSUME NEW q \in Requests, Step(q)
      PROVE  Inv'
  <2>1. ASSUME NEW s \in Sessions, Login(q, s) PROVE Inv'
    BY <2>1, LoginInv
  <2>2. ASSUME NEW t \in Tokens, PersistRefreshToken(q, t) PROVE Inv'
    BY <2>2, PersistRefreshTokenInv
  <2>3. ASSUME NEW t \in Tokens, NEW c \in Carriers,
               TurnAway(q, t, c) \/ PresentRefresh(q, t, c)
        PROVE  Inv'
    BY <2>3, TurnAwayInv, PresentRefreshInv
  <2>4. ASSUME NEW t \in Tokens, NEW kind \in {"use", "logout"}, PresentAccess(q, kind, t)
        PROVE  Inv'
    BY <2>4, PresentAccessInv
  <2>5. ASSUME NEW t \in Tokens, Swap(q, t) PROVE Inv'
    BY <2>5, SwapInv
  <2>6. CASE Reject(q) \/ SwapLost(q) \/ Fail(q)
    BY <2>6, IdleInv DEF Reject, SwapLost, Fail
  <2> QED
    BY <1>2, <2>1, <2>2, <2>3, <2>4, <2>5, <2>6, LookInv, PassInv, FindExpiredInv, ExpireInv,
       BlacklistInv, DeactivateSessionInv, ReplyInv DEF Step
<1>3. CASE UNCHANGED vars
  <2>1. TypeOK' /\ Requesting' /\ Logins'
    BY <1>3 DEF vars, tokens, Inv, TypeOK, Requesting, Logins, Fits, Made
  <2>2. Data'
    BY <1>3 DEF vars, tokens, Inv, Data, Rows, Owners, Spent, Ended, OneSuccessor,
                NoLateExchange, Made
  <2> QED
    BY <2>1, <2>2 DEF Inv
<1> QED
  BY <1>1, <1>2, <1>3 DEF Next

LEMMA Invariance == Spec => []Inv
BY InitInv, NextInv, PTL DEF Spec

-----------------------------------------------------------------------------
\* Rows, tokens and requests are well typed, and a token that reached a
\* client was issued for a session.
THEOREM TypeCorrect == Spec => []TypeOK
BY Invariance, PTL DEF Inv

\* The compare and swap of refresh: no refresh token is exchanged twice.
THEOREM ExchangedOnce == Spec => []OneSuccessor
<1>1. Inv => OneSuccessor
  BY DEF Inv, Data
<1> QED
  BY <1>1, Invariance, PTL

\* The two lifetimes of a session bound every exchange.
THEOREM ExchangedInTime == Spec => []NoLateExchange
<1>1. Inv => NoLateExchange
  BY DEF Inv, Data
<1> QED
  BY <1>1, Invariance, PTL

\* logout: a request that begins after it is not let in.
THEOREM LogoutIsFinal == Spec => []LogoutFinal
<1>1. Inv => LogoutFinal
  BY DEF Inv, Requesting, Fits, LogoutFinal
<1> QED
  BY <1>1, Invariance, PTL

\* logout against a refresh under way: no token is granted after it.
THEOREM LogoutEndsRotation == Spec => LogoutStopsRotation
<1>1. ASSUME Inv, [Next]_vars, NEW s \in loggedOut
      PROVE  GrantedIn(s)' = GrantedIn(s)
  <2>1. CASE UNCHANGED <<granted, owner>>
    BY <2>1 DEF GrantedIn
  <2>2. ASSUME NEW x \in Sessions, NEW t \in Tokens, Sign(x, t),
               \/ granted' = granted
               \/ \E old \in Tokens : /\ granted' = granted \cup {<<old, t>>}
                                      /\ owner[old] \in Sessions \ {s}
        PROVE  GrantedIn(s)' = GrantedIn(s)
    <3>1. \A u \in Tokens : owner[u] # None => owner'[u] = owner[u]
      BY <1>1, <2>2 DEF Sign, Inv, TypeOK
    <3>2. \A p \in granted : owner'[p[1]] = owner[p[1]]
      BY <1>1, <3>1 DEF Inv, TypeOK, Data, Spent
    <3>3. CASE granted' = granted
      BY <3>2, <3>3 DEF GrantedIn
    <3>4. ASSUME NEW old \in Tokens, granted' = granted \cup {<<old, t>>},
                 owner[old] \in Sessions \ {s}
          PROVE  GrantedIn(s)' = GrantedIn(s)
      <4>1. owner'[old] # s
        BY <3>1, <3>4, NoneAssumption
      <4> QED
        BY <3>2, <3>4, <4>1 DEF GrantedIn
    <3> QED
      BY <2>2, <3>3, <3>4
  <2>3. ASSUME NEW q \in Requests, NEW t \in Tokens, PersistRefreshToken(q, t)
        PROVE  GrantedIn(s)' = GrantedIn(s)
    <3>1. request[q].session \in Sessions
      BY <1>1, <2>3 DEF PersistRefreshToken, Inv, Requesting, Fits
    <3> QED
      BY <2>2, <2>3, <3>1 DEF PersistRefreshToken
  <2>4. ASSUME NEW q \in Requests, NEW t \in Tokens, Swap(q, t)
        PROVE  GrantedIn(s)' = GrantedIn(s)
    <3>1. /\ request[q].session \in Sessions /\ request[q].token \in Tokens
          /\ owner[request[q].token] = request[q].session
      BY <1>1, <2>4 DEF Swap, Inv, Requesting, Fits
    <3>2. request[q].session # s
      BY <1>1, <2>4 DEF Swap, Swappable, Inv, Data, Ended
    <3> QED
      BY <2>2, <2>4, <3>1, <3>2 DEF Swap
  <2> QED
    BY <1>1, <2>1, <2>3, <2>4 DEF Next, Step, vars, tokens, Tick, Login, TurnAway, PresentRefresh,
       PresentAccess, Look, Pass, Reject, FindExpired, Expire, SwapLost, Blacklist,
       DeactivateSession, Reply, Fail
<1>2. Inv /\ [Next]_vars => [\A s \in loggedOut : GrantedIn(s)' = GrantedIn(s)]_vars
  BY <1>1
<1> QED
  BY <1>2, Invariance, PTL DEF Spec, LogoutStopsRotation
=============================================================================
