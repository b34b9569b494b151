-------------------------- MODULE OnboardingProofs --------------------------
(***************************************************************************)
(* Theorems about Onboarding, for any numbers of addresses, codes,         *)
(* requests under way, tries and failures.                                 *)
(***************************************************************************)
EXTENDS Onboarding, Integers, TLAPS

\* None is no code and no Google id, and failures are counted.
ValuesDistinct == None \notin Codes \cup GoogleIds /\ MaxFaults \in Nat

AccountType == [exists: BOOLEAN, google: GoogleIds \cup {None}, verified: BOOLEAN, step: {0, 1, 2, 3}]

ProgramCounters ==
  {"idle", "creating", "storing", "resending", "mailing", "admitting", "comparing", "counting",
   "verifying", "inspecting", "subscribing", "forgetting code", "forgetting tries", "linking",
   "mailing token", "storing token", "changing", "forgetting token"}

RequestType ==
  [pc: ProgramCounters, kind: {"verify", "web", "mobile", None}, email: Emails \cup {None},
   code: Codes \cup GoogleIds \cup {None}, seen: Nat]

\* The pcs at which a request holds a code of its own.
Coded == {"mailing", "storing token", "changing", "forgetting token"}

Types ==
  /\ account \in [Emails -> AccountType]
  /\ subs \in [Emails -> Nat]
  /\ otp \in [Emails -> Codes \cup {None}] /\ reset \in [Emails -> Codes \cup {None}]
  /\ tries \in [Emails -> Nat] /\ resends \in [Emails -> Nat] /\ guesses \in [Emails -> Nat]
  /\ mailed \in [Emails -> SUBSET Codes]
  /\ request \in [Requests -> RequestType]
  /\ faults \in Nat /\ crowded \in SUBSET Requests /\ used \in SUBSET Codes

\* What a request under way holds.
Holds(r) ==
  /\ r.pc # "idle" => r.email \in Emails
  /\ r.pc \in Coded => r.code \in Codes
  /\ r.pc = "linking" => r.code \in GoogleIds

TypesInv == Types /\ \A q \in Requests : Holds(request[q])

LEMMA IdleType == Idle \in RequestType /\ Holds(Idle)
BY DEF Idle, RequestType, ProgramCounters, Holds, Coded

\* One request becomes another one of its type, and the rest stays typed.
LEMMA BecomeTypes ==
  ASSUME TypesInv, NEW q \in Requests, NEW r \in RequestType, Holds(r), Become(q, r),
         account' \in [Emails -> AccountType], subs' \in [Emails -> Nat],
         otp' \in [Emails -> Codes \cup {None}], reset' \in [Emails -> Codes \cup {None}],
         tries' \in [Emails -> Nat], resends' \in [Emails -> Nat], guesses' \in [Emails -> Nat],
         mailed' \in [Emails -> SUBSET Codes], faults' \in Nat, crowded' \in SUBSET Requests,
         used' \in SUBSET Codes
  PROVE  TypesInv'
<1>1. request' \in [Requests -> RequestType]
  BY DEF TypesInv, Types, Become
<1>2. ASSUME NEW w \in Requests PROVE Holds(request'[w])
  BY DEF TypesInv, Types, Become
<1> QED
  BY <1>1, <1>2 DEF TypesInv, Types

\* A request goes on to another await, or starts at one.
LEMMA GotoTypes ==
  ASSUME TypesInv, NEW q \in Requests, NEW pc \in ProgramCounters, request[q].pc # "idle",
         pc \in Coded => request[q].code \in Codes, pc # "linking"
  PROVE  LET r == [request[q] EXCEPT !.pc = pc] IN r \in RequestType /\ Holds(r)
<1>1. request[q] \in RequestType /\ Holds(request[q])
  BY DEF TypesInv, Types
<1> QED
  BY <1>1 DEF RequestType, Holds

LEMMA StartTypes ==
  ASSUME TypesInv, NEW q \in Requests, NEW pc \in ProgramCounters \ (Coded \cup {"linking"}),
         NEW e \in Emails, Start(q, pc, e)
  PROVE  \E r \in RequestType : Holds(r) /\ Become(q, r)
<1> DEFINE r == [Idle EXCEPT !.pc = pc, !.email = e]
<1>1. r \in RequestType /\ Holds(r)
  BY DEF Idle, RequestType, Holds, ProgramCounters
<1> HIDE DEF r
<1>2. Become(q, r)
  BY DEF Start, r
<1> QED
  BY <1>1, <1>2

-----------------------------------------------------------------------------
LEMMA TypesInit == ValuesDistinct => (Init => TypesInv)
<1> SUFFICES ASSUME Init PROVE TypesInv
  OBVIOUS
<1>1. NoAccount \in AccountType
  BY DEF NoAccount, AccountType
<1> QED
  BY <1>1, IdleType DEF Init, TypesInv, Types

LEMMA SignUpTypes ==
  ASSUME TypesInv, NEW q \in Requests,
         \/ \E e \in Emails : BeginRegister(q, e) \/ BeginLogin(q, e) \/ BeginResend(q, e)
         \/ CreateAccount(q) \/ CountResend(q) \/ MailCode(q)
         \/ \E c \in Codes : StoreCode(q, c)
  PROVE  TypesInv'
<1> USE DEF redis, history
<1>1. request[q] \in RequestType /\ Holds(request[q])
  BY DEF TypesInv, Types
<1>2. ASSUME NEW e \in Emails, BeginRegister(q, e) \/ BeginLogin(q, e) PROVE TypesInv'
  <2>1. \E r \in RequestType : Holds(r) /\ Become(q, r)
    BY <1>2, StartTypes DEF BeginRegister, BeginLogin, ProgramCounters, Coded
  <2> QED
    BY <1>2, <2>1, BecomeTypes DEF BeginRegister, BeginLogin, TypesInv, Types
<1>4. ASSUME NEW e \in Emails, BeginResend(q, e) PROVE TypesInv'
  <2> DEFINE n == resends[e]
             r == [Idle EXCEPT !.pc = "resending", !.email = e, !.seen = n]
  <2>1. n \in Nat
    BY DEF TypesInv, Types
  <2>2. r \in RequestType /\ Holds(r)
    BY <2>1 DEF Idle, RequestType, Holds, ProgramCounters, Coded
  <2>3. Become(q, r) /\ UNCHANGED <<account, subs, redis, mailed, faults, history>>
    BY <1>4 DEF BeginResend
  <2> HIDE DEF r
  <2> QED
    BY <2>2, <2>3, BecomeTypes DEF TypesInv, Types
<1>5. CASE CreateAccount(q)
  <2>1. [NoAccount EXCEPT !.exists = TRUE, !.step = 1] \in AccountType
    BY DEF NoAccount, AccountType
  <2>2. account' \in [Emails -> AccountType]
    BY <1>5, <2>1 DEF CreateAccount, TypesInv, Types
  <2>3. \E r \in RequestType : Holds(r) /\ Become(q, r)
    BY <1>5, IdleType, GotoTypes DEF CreateAccount, Done, Goto, ProgramCounters, Coded
  <2> QED
    BY <1>5, <2>2, <2>3, BecomeTypes DEF CreateAccount, TypesInv, Types
<1>6. CASE CountResend(q)
  <2> DEFINE r == [request[q] EXCEPT !.pc = "storing", !.seen = 0]
  <2>1. r \in RequestType /\ Holds(r)
    BY <1>1, <1>6 DEF CountResend, RequestType, Holds, ProgramCounters, Coded
  <2>2. Become(q, r) /\ UNCHANGED <<account, subs, otp, tries, reset, mailed, faults, history>>
    BY <1>6 DEF CountResend
  <2>3. request[q].seen + 1 \in Nat
    BY <1>1 DEF RequestType
  <2>4. resends' \in [Emails -> Nat]
    BY <2>3, <1>6 DEF CountResend, TypesInv, Types
  <2> HIDE DEF r
  <2> QED
    BY <2>1, <2>2, <2>4, BecomeTypes DEF TypesInv, Types
<1>7. CASE MailCode(q)
  <2>1. request[q].code \in Codes
    BY <1>1, <1>7 DEF MailCode, Holds, Coded
  <2>2. mailed' \in [Emails -> SUBSET Codes]
    BY <1>7, <2>1 DEF MailCode, TypesInv, Types
  <2> QED
    BY <1>7, <2>2, IdleType, BecomeTypes DEF MailCode, Done, TypesInv, Types
<1>8. ASSUME NEW c \in Codes, StoreCode(q, c) PROVE TypesInv'
  <2> DEFINE r == [request[q] EXCEPT !.pc = "mailing", !.code = c]
  <2>1. r \in RequestType /\ Holds(r)
    BY <1>1, <1>8 DEF StoreCode, RequestType, Holds, ProgramCounters, Coded
  <2>2. /\ Become(q, r) /\ otp' = [otp EXCEPT ![request[q].email] = c]
        /\ UNCHANGED <<account, subs, tries, resends, reset, mailed, faults, history>>
    BY <1>8 DEF StoreCode
  <2> HIDE DEF r
  <2> QED
    BY <2>1, <2>2, BecomeTypes DEF TypesInv, Types
<1> QED
  BY <1>2, <1>4, <1>5, <1>6, <1>7, <1>8

LEMMA VerifyTypes ==
  ASSUME TypesInv, NEW q \in Requests,
         \/ \E e \in Emails, c \in Codes \cup {None} : BeginVerify(q, e, c)
         \/ Admit(q) \/ Compare(q) \/ CountTry(q) \/ Verify(q) \/ Inspect(q) \/ Subscribe(q)
         \/ ForgetCode(q) \/ ForgetTries(q)
  PROVE  TypesInv'
<1> USE DEF redis, history
<1>1. request[q] \in RequestType /\ Holds(request[q])
  BY DEF TypesInv, Types
<1>2. ASSUME NEW e \in Emails, NEW c \in Codes \cup {None}, BeginVerify(q, e, c) PROVE TypesInv'
  <2> DEFINE r == [Idle EXCEPT !.pc = "admitting", !.kind = "verify", !.email = e, !.code = c]
  <2>1. r \in RequestType /\ Holds(r)
    BY DEF Idle, RequestType, Holds, ProgramCounters, Coded
  <2>2. Become(q, r) /\ UNCHANGED <<account, subs, redis, mailed, faults, history>>
    BY <1>2 DEF BeginVerify
  <2> HIDE DEF r
  <2> QED
    BY <2>1, <2>2, BecomeTypes DEF TypesInv, Types
<1>3. CASE Admit(q)
  <2> DEFINE n == tries[request[q].email]
             r == [request[q] EXCEPT !.pc = "comparing", !.seen = n]
  <2>1. n \in Nat
    BY <1>1, <1>3 DEF Admit, Holds, TypesInv, Types
  <2>2. r \in RequestType /\ Holds(r)
    BY <1>1, <1>3, <2>1 DEF Admit, RequestType, Holds, ProgramCounters, Coded
  <2>3. Become(q, Idle) \/ Become(q, r)
    BY <1>3 DEF Admit, Done
  <2>4. crowded' \in SUBSET Requests
    BY <1>3 DEF Admit, Guessers, TypesInv, Types
  <2> HIDE DEF r
  <2> QED
    BY <1>3, <2>2, <2>3, <2>4, IdleType, BecomeTypes DEF Admit, TypesInv, Types
<1>4. CASE Compare(q)
  <2> DEFINE r == [request[q] EXCEPT !.pc = "verifying", !.code = None, !.seen = 0]
             s == [request[q] EXCEPT !.pc = "counting", !.code = None]
  <2>1. r \in RequestType /\ Holds(r) /\ s \in RequestType /\ Holds(s)
    BY <1>1, <1>4 DEF Compare, RequestType, Holds, ProgramCounters, Coded
  <2>2. Become(q, r) \/ Become(q, s)
    BY <1>4 DEF Compare
  <2>3. guesses' \in [Emails -> Nat] /\ crowded' \in SUBSET Requests
    BY <1>4 DEF Compare, Judged, TypesInv, Types
  <2> HIDE DEF r, s
  <2> QED
    BY <1>4, <2>1, <2>2, <2>3, BecomeTypes DEF Compare, TypesInv, Types
<1>5. CASE CountTry(q)
  <2>1. request[q].seen + 1 \in Nat
    BY <1>1 DEF RequestType
  <2>2. tries' \in [Emails -> Nat]
    BY <2>1, <1>5 DEF CountTry, TypesInv, Types
  <2> QED
    BY <1>5, <2>2, IdleType, BecomeTypes DEF CountTry, Done, TypesInv, Types
<1>6. CASE Verify(q)
  <2>1. account' \in [Emails -> AccountType]
    <3>1. ASSUME NEW e \in Emails
          PROVE  [account[e] EXCEPT !.verified = TRUE, !.step = 2] \in AccountType
      <4>1. account[e] \in AccountType
        BY DEF TypesInv, Types
      <4> QED
        BY <4>1 DEF AccountType
    <3> QED
      BY <1>6, <3>1 DEF Verify, TypesInv, Types
  <2>2. \E r \in RequestType : Holds(r) /\ Become(q, r)
    BY <1>6, GotoTypes DEF Verify, Goto, ProgramCounters, Coded
  <2> QED
    BY <1>6, <2>1, <2>2, BecomeTypes DEF Verify, TypesInv, Types
<1>7. CASE Inspect(q) \/ Subscribe(q) \/ ForgetCode(q)
  <2>1. \E r \in RequestType : Holds(r) /\ Become(q, r)
    BY <1>7, IdleType, GotoTypes DEF Inspect, Subscribe, ForgetCode, Done, Goto, ProgramCounters, Coded
  <2>2. otp' \in [Emails -> Codes \cup {None}]
    BY <1>7 DEF Inspect, Subscribe, ForgetCode, TypesInv, Types
  <2>3. subs' \in [Emails -> Nat]
    <3>1. CASE Subscribe(q)
      <4> DEFINE e == request[q].email
                 n == subs[e] + 1
      <4>1. e \in Emails
        BY <1>1, <3>1 DEF Subscribe, Holds
      <4>2. subs[e] \in Nat
        BY <4>1 DEF TypesInv, Types
      <4>3. n \in Nat
        BY <4>2
      <4>4. subs' = [subs EXCEPT ![e] = n]
        BY <3>1 DEF Subscribe
      <4> HIDE DEF n
      <4> QED
        BY <4>3, <4>4 DEF TypesInv, Types
    <3> QED
      BY <1>7, <3>1 DEF Inspect, ForgetCode, TypesInv, Types
  <2>4. /\ UNCHANGED <<account, tries, resends, reset, mailed, crowded, used, guesses>>
        /\ faults' \in Nat
    BY <1>7 DEF Inspect, Subscribe, ForgetCode, TypesInv, Types
  <2> QED
    BY <2>1, <2>2, <2>3, <2>4, BecomeTypes DEF TypesInv, Types
<1>8. CASE ForgetTries(q)
  BY <1>8, IdleType, BecomeTypes DEF ForgetTries, Done, TypesInv, Types
<1> QED
  BY <1>2, <1>3, <1>4, <1>5, <1>6, <1>7, <1>8

LEMMA GoogleTypes ==
  ASSUME TypesInv, NEW q \in Requests,
         \/ \E e \in Emails, g \in GoogleIds, kind \in {"web", "mobile"} : BeginGoogle(q, e, g, kind)
         \/ Link(q)
  PROVE  TypesInv'
<1> USE DEF redis, history
<1>1. request[q] \in RequestType /\ Holds(request[q])
  BY DEF TypesInv, Types
<1>2. ASSUME NEW e \in Emails, NEW g \in GoogleIds, NEW kind \in {"web", "mobile"},
             BeginGoogle(q, e, g, kind)
      PROVE  TypesInv'
  <2> DEFINE r == [Idle EXCEPT !.pc = "linking", !.kind = kind, !.email = e, !.code = g]
             s(x) == [Idle EXCEPT !.pc = "inspecting", !.email = x]
  <2>1. r \in RequestType /\ Holds(r)
    BY DEF Idle, RequestType, Holds, ProgramCounters, Coded
  <2>2. \A x \in Emails : s(x) \in RequestType /\ Holds(s(x))
    BY DEF Idle, RequestType, Holds, ProgramCounters, Coded
  <2>3. Become(q, r) \/ \E x \in Emails : Become(q, s(x))
    BY <1>2 DEF BeginGoogle, Start
  <2> HIDE DEF r, s
  <2> QED
    BY <1>2, <2>1, <2>2, <2>3, BecomeTypes DEF BeginGoogle, TypesInv, Types
<1>3. CASE Link(q)
  <2> DEFINE r == [request[q] EXCEPT !.pc = "inspecting", !.kind = None, !.code = None]
  <2>1. r \in RequestType /\ Holds(r)
    BY <1>1, <1>3 DEF Link, RequestType, Holds, ProgramCounters, Coded
  <2>2. Become(q, r) \/ Become(q, Idle)
    BY <1>3 DEF Link, Done
  <2>3. account' \in [Emails -> AccountType]
    BY <1>1, <1>3 DEF Link, Holds, TypesInv, Types, AccountType
  <2> HIDE DEF r
  <2> QED
    BY <1>3, <2>1, <2>2, <2>3, IdleType, BecomeTypes DEF Link, TypesInv, Types
<1> QED
  BY <1>2, <1>3

LEMMA ResetTypes ==
  ASSUME TypesInv, NEW q \in Requests,
         \/ \E e \in Emails : BeginForgot(q, e) \/ \E c \in Codes : BeginReset(q, e, c)
         \/ \E c \in Codes : MailToken(q, c)
         \/ StoreToken(q) \/ ChangePassword(q) \/ ForgetToken(q)
  PROVE  TypesInv'
<1> USE DEF redis, history
<1>1. request[q] \in RequestType /\ Holds(request[q])
  BY DEF TypesInv, Types
<1>2. ASSUME NEW e \in Emails, BeginForgot(q, e) PROVE TypesInv'
  <2>1. \E r \in RequestType : Holds(r) /\ Become(q, r)
    BY <1>2, StartTypes DEF BeginForgot, ProgramCounters, Coded
  <2> QED
    BY <1>2, <2>1, BecomeTypes DEF BeginForgot, TypesInv, Types
<1>3. ASSUME NEW e \in Emails, NEW c \in Codes, BeginReset(q, e, c) PROVE TypesInv'
  <2> DEFINE r == [Idle EXCEPT !.pc = "changing", !.email = e, !.code = c]
  <2>1. r \in RequestType /\ Holds(r)
    BY DEF Idle, RequestType, Holds, ProgramCounters, Coded
  <2>2. Become(q, r) /\ UNCHANGED <<account, subs, redis, mailed, faults, history>>
    BY <1>3 DEF BeginReset
  <2> HIDE DEF r
  <2> QED
    BY <2>1, <2>2, BecomeTypes DEF TypesInv, Types
<1>4. ASSUME NEW c \in Codes, MailToken(q, c) PROVE TypesInv'
  <2> DEFINE r == [request[q] EXCEPT !.pc = "storing token", !.code = c]
  <2>1. r \in RequestType /\ Holds(r)
    BY <1>1, <1>4 DEF MailToken, RequestType, Holds, ProgramCounters, Coded
  <2>2. /\ Become(q, r) /\ UNCHANGED <<account, subs, redis, faults, history>>
        /\ mailed' = [mailed EXCEPT ![request[q].email] = @ \cup {c}]
    BY <1>4 DEF MailToken
  <2> HIDE DEF r
  <2> QED
    BY <2>1, <2>2, BecomeTypes DEF TypesInv, Types
<1>5. CASE StoreToken(q) \/ ForgetToken(q)
  <2>1. request[q].code \in Codes /\ Become(q, Idle)
    BY <1>1, <1>5 DEF StoreToken, ForgetToken, Done, Holds, Coded
  <2>2. reset' \in [Emails -> Codes \cup {None}] /\ used' \in SUBSET Codes
    BY <1>5, <2>1 DEF StoreToken, ForgetToken, TypesInv, Types
  <2> QED
    BY <1>5, <2>1, <2>2, IdleType, BecomeTypes DEF StoreToken, ForgetToken, TypesInv, Types
<1>6. CASE ChangePassword(q)
  <2>1. \E r \in RequestType : Holds(r) /\ Become(q, r)
    BY <1>1, <1>6, GotoTypes DEF ChangePassword, Goto, ProgramCounters, Coded, Holds
  <2> QED
    BY <1>6, <2>1, BecomeTypes DEF ChangePassword, TypesInv, Types
<1> QED
  BY <1>2, <1>3, <1>4, <1>5, <1>6

LEMMA SurroundingsTypes ==
  ASSUME TypesInv,
         \/ \E q \in Requests : Fail(q)
         \/ \E e \in Emails :
              ConnectInverter(e) \/ ExpireCode(e) \/ ExpireTries(e) \/ ExpireResends(e) \/ ExpireToken(e)
  PROVE  TypesInv'
<1> USE DEF redis, history
<1>1. ASSUME NEW q \in Requests, Fail(q) PROVE TypesInv'
  BY <1>1, IdleType, BecomeTypes DEF Fail, Done, TypesInv, Types
<1>2. ASSUME NEW e \in Emails, ConnectInverter(e) PROVE TypesInv'
  <2>1. [account[e] EXCEPT !.step = 3] \in AccountType
    <3>1. account[e] \in AccountType
      BY DEF TypesInv, Types
    <3> QED
      BY <3>1 DEF AccountType
  <2> QED
    BY <1>2, <2>1 DEF ConnectInverter, TypesInv, Types
<1>3. ASSUME NEW e \in Emails, ExpireCode(e) \/ ExpireTries(e) \/ ExpireResends(e) \/ ExpireToken(e)
      PROVE  TypesInv'
  BY <1>3 DEF ExpireCode, ExpireTries, ExpireResends, ExpireToken, TypesInv, Types
<1> QED
  BY <1>1, <1>2, <1>3

LEMMA TypesStep == TypesInv /\ [Next]_vars => TypesInv'
<1> SUFFICES ASSUME TypesInv, [Next]_vars PROVE TypesInv'
  OBVIOUS
<1>1. CASE UNCHANGED vars
  BY <1>1 DEF vars, redis, history, TypesInv, Types
<1> QED
  BY <1>1, SignUpTypes, VerifyTypes, GoogleTypes, ResetTypes, SurroundingsTypes DEF Next

\* Rows, keys, mailboxes and requests keep their types: a request under way has
\* its address, and one that mails, stores or judges a code has that code.
THEOREM TypeCorrect == ValuesDistinct => (Spec => []TypesInv)
BY TypesInit, TypesStep, PTL DEF Spec

-----------------------------------------------------------------------------
(* Subscriptions.                                                          *)

SubscribedInv == TypesInv /\ VerifiedAreSubscribed

\* Nobody leaves the two steps that end in a subscription, and nobody becomes verified.
LEMMA NothingSubscribed ==
  ASSUME SubscribedInv, TypesInv', subs' = subs, faults' = faults \/ faults' > 0,
         \A e \in Emails : account'[e].verified /\ account'[e].google = None
                          => account[e].verified /\ account[e].google = None,
         \A q \in Requests : request[q].pc \in {"inspecting", "subscribing"} => request'[q] = request[q]
  PROVE  SubscribedInv'
BY DEF SubscribedInv, VerifiedAreSubscribed, Verifying, TypesInv, Types

LEMMA SubscribedStep == ValuesDistinct /\ SubscribedInv /\ [Next]_vars => SubscribedInv'
<1> SUFFICES ASSUME ValuesDistinct, SubscribedInv, [Next]_vars PROVE SubscribedInv'
  OBVIOUS
<1>1. TypesInv'
  BY TypesStep DEF SubscribedInv
<1>2. /\ account \in [Emails -> AccountType] /\ request \in [Requests -> RequestType]
      /\ \A q \in Requests : Holds(request[q])
  BY DEF SubscribedInv, TypesInv, Types
<1>3. ASSUME NEW q \in Requests, NEW r, request[q].pc \notin {"inspecting", "subscribing"}, Become(q, r),
             UNCHANGED <<account, subs, faults>>
      PROVE  SubscribedInv'
  <2>1. \A w \in Requests : w # q => request'[w] = request[w]
    BY <1>2, <1>3 DEF Become
  <2> QED
    BY <1>1, <1>3, <2>1, NothingSubscribed
<1>4. ASSUME NEW q \in Requests, NEW e \in Emails,
             BeginRegister(q, e) \/ BeginLogin(q, e) \/ BeginResend(q, e) \/ BeginForgot(q, e)
      PROVE  SubscribedInv'
  BY <1>3, <1>4 DEF BeginRegister, BeginLogin, BeginResend, BeginForgot, Start
<1>5. ASSUME NEW q \in Requests, NEW e \in Emails, NEW c, BeginVerify(q, e, c) \/ BeginReset(q, e, c)
      PROVE  SubscribedInv'
  BY <1>3, <1>5 DEF BeginVerify, BeginReset
<1>6. ASSUME NEW q \in Requests, NEW e \in Emails, NEW g, NEW kind, BeginGoogle(q, e, g, kind)
      PROVE  SubscribedInv'
  BY <1>3, <1>6 DEF BeginGoogle, Start
<1>7. ASSUME NEW q \in Requests, NEW c, StoreCode(q, c) \/ MailToken(q, c) PROVE SubscribedInv'
  BY <1>3, <1>7 DEF StoreCode, MailToken
<1>8. ASSUME NEW q \in Requests,
             CountResend(q) \/ MailCode(q) \/ Admit(q) \/ Compare(q) \/ CountTry(q) \/ StoreToken(q)
               \/ ChangePassword(q) \/ ForgetToken(q) \/ ForgetCode(q) \/ ForgetTries(q)
      PROVE  SubscribedInv'
  BY <1>3, <1>8 DEF CountResend, MailCode, Admit, Compare, CountTry, StoreToken, ChangePassword,
                    ForgetToken, ForgetCode, ForgetTries, Done, Goto
<1>9. ASSUME NEW q \in Requests, CreateAccount(q) \/ Link(q) PROVE SubscribedInv'
  <2>1. request[q].pc \in {"creating", "linking"} /\ UNCHANGED <<subs, faults>> /\ \E r : Become(q, r)
    BY <1>9 DEF CreateAccount, Link, Done, Goto
  <2>2. \A w \in Requests : w # q => request'[w] = request[w]
    BY <1>2, <2>1 DEF Become
  <2>3. \A e \in Emails : account'[e].verified /\ account'[e].google = None
                          => account[e].verified /\ account[e].google = None
    <3>1. CASE CreateAccount(q)
      BY <1>2, <3>1 DEF CreateAccount, NoAccount
    <3>2. CASE Link(q)
      BY <1>2, <3>2 DEF Link, Holds, ValuesDistinct
    <3> QED
      BY <1>9, <3>1, <3>2
  <2> QED
    BY <1>1, <2>1, <2>2, <2>3, NothingSubscribed
<1>10. ASSUME NEW q \in Requests, Verify(q) PROVE SubscribedInv'
  <2> DEFINE r == [request[q] EXCEPT !.pc = "inspecting"]
  <2>1. r.pc = "inspecting" /\ r.email = request[q].email
    BY <1>2 DEF RequestType
  <2> HIDE DEF r
  <2>2. request' = [request EXCEPT ![q] = r] /\ UNCHANGED <<subs, faults>> /\ request[q].pc = "verifying"
    BY <1>10 DEF Verify, Goto, Become, r
  <2>3. \A e \in Emails : e # request[q].email => account'[e] = account[e]
    BY <1>10, <1>2 DEF Verify
  <2>4. /\ request'[q].pc = "inspecting" /\ request'[q].email = request[q].email
        /\ \A w \in Requests : w # q => request'[w] = request[w]
    BY <1>2, <2>1, <2>2
  <2> QED
    BY <1>1, <2>2, <2>3, <2>4 DEF SubscribedInv, VerifiedAreSubscribed, Verifying
<1>11. ASSUME NEW q \in Requests, Inspect(q) \/ Subscribe(q) PROVE SubscribedInv'
  <2>0. PICK x \in Emails : x = request[q].email
    BY <1>2, <1>11 DEF Inspect, Subscribe, Holds
  <2>1. /\ subs[x] \in Nat /\ UNCHANGED <<account, faults>>
        /\ \A w \in Requests : w # q => request'[w] = request[w]
    BY <1>2, <1>11 DEF Inspect, Subscribe, Done, Goto, Become, SubscribedInv, TypesInv, Types
  <2>2. \A e \in Emails : e # x => subs'[e] = subs[e]
    BY <1>11, <2>0 DEF Inspect, Subscribe, SubscribedInv, TypesInv, Types
  <2>3. \/ subs'[x] > 0
        \/ request'[q].email = x /\ request'[q].pc = "subscribing"
    <3>1. CASE Subscribe(q)
      <4>1. subs'[x] = subs[x] + 1
        BY <2>0, <3>1 DEF Subscribe, SubscribedInv, TypesInv, Types
      <4> QED
        BY <2>1, <4>1
    <3>2. CASE Inspect(q)
      <4>1. CASE subs[x] > 0
        BY <2>0, <3>2, <4>1 DEF Inspect
      <4>2. CASE ~ (subs[x] > 0)
        BY <1>2, <2>0, <3>2, <4>2 DEF Inspect, Goto, Become, RequestType
      <4> QED
        BY <4>1, <4>2
    <3> QED
      BY <1>11, <3>1, <3>2
  <2>4. \A e \in Emails : e # x /\ Verifying(e) => Verifying(e)'
    BY <2>0, <2>1 DEF Verifying
  <2>5. subs'[x] > 0 \/ Verifying(x)'
    BY <2>3 DEF Verifying
  <2> QED
    BY <1>1, <2>1, <2>2, <2>4, <2>5 DEF SubscribedInv, VerifiedAreSubscribed
<1>12. ASSUME NEW q \in Requests, Fail(q) PROVE SubscribedInv'
  <2>1. faults \in Nat /\ faults' = faults + 1
    BY <1>12 DEF Fail, SubscribedInv, TypesInv, Types
  <2>2. faults' # 0
    BY <2>1
  <2> QED
    BY <1>1, <2>2 DEF SubscribedInv, VerifiedAreSubscribed
<1>13. ASSUME NEW e \in Emails,
              ConnectInverter(e) \/ ExpireCode(e) \/ ExpireTries(e) \/ ExpireResends(e) \/ ExpireToken(e)
       PROVE  SubscribedInv'
  <2>1. /\ UNCHANGED <<subs, faults, request>>
        /\ \A x \in Emails : /\ account'[x].verified <=> account[x].verified
                              /\ account'[x].google = account[x].google
    BY <1>2, <1>13 DEF ConnectInverter, ExpireCode, ExpireTries, ExpireResends, ExpireToken, AccountType
  <2> QED
    BY <1>1, <2>1, NothingSubscribed
<1>14. CASE UNCHANGED vars
  BY <1>1, <1>14, NothingSubscribed DEF vars
<1> QED
  BY <1>4, <1>5, <1>6, <1>7, <1>8, <1>9, <1>10, <1>11, <1>12, <1>13, <1>14 DEF Next

\* Only a failure between the two writes leaves a user who verified by code without a
\* subscription.
THEOREM SubscriptionFollows == ValuesDistinct => (Spec => []VerifiedAreSubscribed)
<1> SUFFICES ASSUME ValuesDistinct PROVE Spec => []VerifiedAreSubscribed
  OBVIOUS
<1>1. Init => SubscribedInv
  BY TypesInit DEF Init, SubscribedInv, VerifiedAreSubscribed, NoAccount
<1>2. SubscribedInv /\ [Next]_vars => SubscribedInv'
  BY SubscribedStep
<1>3. SubscribedInv => VerifiedAreSubscribed
  BY DEF SubscribedInv
<1> QED
  BY <1>1, <1>2, <1>3, PTL DEF Spec

-----------------------------------------------------------------------------
(* Reset tokens.  A code reaches one mailbox only; a stored token is in    *)
(* its owner's mailbox; a token about to be stored is stored nowhere yet,  *)
(* and no other request holds it.                                          *)

Spent == \A c \in used : /\ \E e \in Emails : c \in mailed[e]
                         /\ \A e \in Emails : reset[e] # c

Delivered ==
  /\ \A e \in Emails : reset[e] # None => reset[e] \in mailed[e]
  /\ \A e, x \in Emails : e # x => mailed[e] \cap mailed[x] = {}

Carried(r) ==
  /\ r.pc = "mailing" => \A e \in Emails : r.code \notin mailed[e]
  /\ r.pc \in Coded \ {"mailing"} => r.code \in mailed[r.email]
  /\ r.pc = "storing token" => r.code \notin used /\ \A e \in Emails : reset[e] # r.code

Unshared(r, s) == r.pc \in {"mailing", "storing token"} /\ s.pc \in Coded => r.code # s.code

UsedUpInv ==
  /\ TypesInv /\ Spent /\ Delivered
  /\ \A q \in Requests : Carried(request[q])
  /\ \A q, w \in Requests : q # w => Unshared(request[q], request[w])

Others(q) == \A w \in Requests : w # q => request'[w] = request[w]

\* It is enough to look at the request that moves.
LEMMA OneMoves ==
  ASSUME UsedUpInv, TypesInv', Spent', Delivered', NEW q \in Requests, Others(q),
         \A w \in Requests : Carried(request[w])',
         \A w \in Requests : w # q => Unshared(request'[q], request[w]) /\ Unshared(request[w], request'[q])
  PROVE  UsedUpInv'
<1>1. ASSUME NEW v \in Requests, NEW w \in Requests, v # w PROVE Unshared(request'[v], request'[w])
  <2>1. CASE v = q \/ w = q
    BY <1>1, <2>1 DEF Others
  <2>2. CASE v # q /\ w # q
    <3>1. request'[v] = request[v] /\ request'[w] = request[w] /\ Unshared(request[v], request[w])
      BY <1>1, <2>2 DEF Others, UsedUpInv
    <3> QED
      BY <3>1
  <2> QED
    BY <2>1, <2>2
<1> QED
  BY <1>1 DEF UsedUpInv, Unshared

\* Keys are at most deleted.
LEMMA KeysDeleted ==
  ASSUME ValuesDistinct, UsedUpInv, TypesInv', UNCHANGED <<mailed, used>>,
         \A e \in Emails : reset'[e] \in {reset[e], None}
  PROVE  /\ Spent' /\ Delivered'
         /\ \A q \in Requests : request'[q] = request[q] => Carried(request[q])'
<1>1. Spent' /\ Delivered'
  BY DEF UsedUpInv, Spent, Delivered, ValuesDistinct, TypesInv, Types
<1>2. ASSUME NEW q \in Requests, request'[q] = request[q] PROVE Carried(request[q])'
  <2>1. Carried(request[q]) /\ Holds(request[q])
    BY DEF UsedUpInv, TypesInv
  <2> QED
    BY <1>2, <2>1 DEF Carried, ValuesDistinct, Holds, Coded
<1> QED
  BY <1>1, <1>2

\* A request that holds no code of its own is left out of all this.
LEMMA NoCodeMoves ==
  ASSUME ValuesDistinct, UsedUpInv, TypesInv', NEW q \in Requests, Others(q), request'[q].pc \notin Coded,
         UNCHANGED <<mailed, used>>, \A e \in Emails : reset'[e] \in {reset[e], None}
  PROVE  UsedUpInv'
<1>1. Spent' /\ Delivered' /\ \A w \in Requests : w # q => Carried(request[w])'
  BY KeysDeleted DEF Others
<1>2. /\ Carried(request[q])'
      /\ \A w \in Requests : w # q => Unshared(request'[q], request[w]) /\ Unshared(request[w], request'[q])
  BY DEF Carried, Unshared, Coded
<1> QED
  BY <1>1, <1>2, OneMoves

LEMMA UsedUpStep == ValuesDistinct /\ UsedUpInv /\ [Next]_vars => UsedUpInv'
<1> SUFFICES ASSUME ValuesDistinct, UsedUpInv, [Next]_vars PROVE UsedUpInv'
  OBVIOUS
<1>1. TypesInv'
  BY TypesStep DEF UsedUpInv
<1>2. /\ request \in [Requests -> RequestType]
      /\ reset \in [Emails -> Codes \cup {None}] /\ mailed \in [Emails -> SUBSET Codes]
      /\ \A q \in Requests : Holds(request[q]) /\ Carried(request[q])
  BY DEF UsedUpInv, TypesInv, Types
<1>3. ASSUME NEW q \in Requests, NEW r, Become(q, r), r.pc \notin Coded, UNCHANGED <<reset, mailed, used>>
      PROVE  UsedUpInv'
  <2>1. Others(q) /\ request'[q] = r
    BY <1>2, <1>3 DEF Become, Others
  <2> QED
    BY <1>1, <1>3, <2>1, NoCodeMoves
<1>4. ASSUME NEW q \in Requests, NEW e \in Emails,
             BeginRegister(q, e) \/ BeginLogin(q, e) \/ BeginResend(q, e) \/ BeginForgot(q, e)
      PROVE  UsedUpInv'
  BY <1>3, <1>4 DEF BeginRegister, BeginLogin, BeginResend, BeginForgot, Start, Coded, Idle, redis, history
<1>5. ASSUME NEW q \in Requests, NEW e \in Emails, NEW c, BeginVerify(q, e, c) PROVE UsedUpInv'
  BY <1>3, <1>5 DEF BeginVerify, Coded, Idle, redis, history
<1>6. ASSUME NEW q \in Requests, NEW e \in Emails, NEW g, NEW kind, BeginGoogle(q, e, g, kind)
      PROVE  UsedUpInv'
  BY <1>3, <1>6 DEF BeginGoogle, Start, Coded, Idle, redis, history
<1>7. ASSUME NEW q \in Requests, NEW pc \in ProgramCounters \ Coded, Goto(q, pc),
             UNCHANGED <<reset, mailed, used>>
      PROVE  UsedUpInv'
  <2> DEFINE r == [request[q] EXCEPT !.pc = pc]
  <2>1. r.pc \notin Coded
    BY <1>2 DEF RequestType
  <2>2. Become(q, r)
    BY <1>7 DEF Goto
  <2> HIDE DEF r
  <2> QED
    BY <1>3, <1>7, <2>1, <2>2
<1>8. ASSUME NEW q \in Requests,
             CreateAccount(q) \/ CountTry(q) \/ Verify(q) \/ Inspect(q) \/ ForgetCode(q) \/ ForgetTries(q) \/ Fail(q)
      PROVE  UsedUpInv'
  <2>1. UNCHANGED <<reset, mailed, used>>
    BY <1>8 DEF CreateAccount, CountTry, Verify, Inspect, ForgetCode, ForgetTries, Fail, redis, history
  <2>2. Done(q) \/ \E pc \in ProgramCounters \ Coded : Goto(q, pc)
    BY <1>8 DEF CreateAccount, CountTry, Verify, Inspect, ForgetCode, ForgetTries, Fail, ProgramCounters, Coded
  <2>3. Idle.pc \notin Coded
    BY DEF Idle, Coded
  <2> QED
    BY <1>3, <1>7, <2>1, <2>2, <2>3 DEF Done
<1>9. ASSUME NEW q \in Requests, CountResend(q) \/ Admit(q) \/ Compare(q) \/ Subscribe(q) \/ Link(q)
      PROVE  UsedUpInv'
  <2>1. UNCHANGED <<reset, mailed, used>>
    BY <1>9 DEF CountResend, Admit, Compare, Subscribe, Link, redis, history
  <2>2. Others(q) /\ request'[q].pc \notin Coded
    <3>0. Idle.pc \notin Coded
      BY DEF Idle, Coded
    <3>1. CASE CountResend(q)
      BY <1>2, <3>1 DEF CountResend, Become, RequestType, Coded, Others
    <3>2. CASE Admit(q)
      <4>1. CASE tries[request[q].email] >= MaxTries
        BY <1>2, <3>0, <3>2, <4>1 DEF Admit, Done, Become, Others
      <4>2. CASE ~ (tries[request[q].email] >= MaxTries)
        BY <1>2, <3>2, <4>2 DEF Admit, RequestType, Become, Coded, Others
      <4> QED
        BY <4>1, <4>2
    <3>3. CASE Compare(q)
      <4>1. \/ Become(q, [request[q] EXCEPT !.pc = "verifying", !.code = None, !.seen = 0])
            \/ Become(q, [request[q] EXCEPT !.pc = "counting", !.code = None])
        BY <3>3 DEF Compare
      <4>2. request[q] \in RequestType /\ request \in [Requests -> RequestType]
        BY <1>2
      <4>3. CASE Become(q, [request[q] EXCEPT !.pc = "verifying", !.code = None, !.seen = 0])
        BY <4>2, <4>3 DEF Become, RequestType, Others, Coded
      <4>4. CASE Become(q, [request[q] EXCEPT !.pc = "counting", !.code = None])
        BY <4>2, <4>4 DEF Become, RequestType, Others, Coded
      <4> QED
        BY <4>1, <4>3, <4>4
    <3>4. CASE Subscribe(q)
      <4>1. CASE request[q].kind = "verify"
        BY <1>2, <3>4, <4>1 DEF Subscribe, Goto, RequestType, Become, Coded, Others
      <4>2. CASE ~ (request[q].kind = "verify")
        BY <1>2, <3>0, <3>4, <4>2 DEF Subscribe, Done, Become, Others
      <4> QED
        BY <4>1, <4>2
    <3>5. CASE Link(q)
      <4>1. CASE request[q].kind = "web"
        BY <1>2, <3>5, <4>1 DEF Link, RequestType, Become, Coded, Others
      <4>2. CASE ~ (request[q].kind = "web")
        BY <1>2, <3>0, <3>5, <4>2 DEF Link, Done, Become, Others
      <4> QED
        BY <4>1, <4>2
    <3> QED
      BY <1>9, <3>1, <3>2, <3>3, <3>4, <3>5
  <2> QED
    BY <1>1, <2>1, <2>2, NoCodeMoves
<1>10. ASSUME NEW q \in Requests, NEW c, StoreCode(q, c) PROVE UsedUpInv'
  <2>1. Others(q) /\ request'[q].pc = "mailing" /\ request'[q].code = c
    BY <1>2, <1>10 DEF StoreCode, Become, RequestType, Others
  <2>2. UNCHANGED <<reset, mailed, used>> /\ New(c)
    BY <1>10 DEF StoreCode, history
  <2>3. Spent' /\ Delivered'
    BY <2>2 DEF Spent, Delivered, UsedUpInv
  <2>4. /\ Carried(request[q])'
        /\ \A w \in Requests :
             w # q => Unshared(request'[q], request[w]) /\ Unshared(request[w], request'[q])
    BY <2>1, <2>2 DEF Carried, Unshared, New
  <2>5. \A w \in Requests : w # q => Carried(request[w])'
    BY <1>1, <2>1, <2>2, KeysDeleted DEF Others
  <2> QED
    BY <1>1, <2>1, <2>3, <2>4, <2>5, OneMoves
<1>11. ASSUME NEW q \in Requests, NEW c, MailToken(q, c) PROVE UsedUpInv'
  <2>0. PICK x \in Emails : x = request[q].email
    BY <1>2, <1>11 DEF MailToken, Holds
  <2>1. /\ Others(q)
        /\ request'[q].pc = "storing token" /\ request'[q].code = c /\ request'[q].email = x
    BY <1>2, <1>11, <2>0 DEF MailToken, Become, RequestType, Others
  <2>2. UNCHANGED <<reset, used>> /\ New(c)
    BY <1>11 DEF MailToken, redis, history
  <2>3. \A e \in Emails : mailed'[e] = IF e = x THEN mailed[e] \cup {c} ELSE mailed[e]
    BY <1>2, <1>11, <2>0 DEF MailToken
  <2>4. Spent' /\ Delivered'
    <3>1. Spent'
      BY <2>2, <2>3 DEF Spent, UsedUpInv
    <3>2. ASSUME NEW e \in Emails, NEW y \in Emails, e # y PROVE mailed'[e] \cap mailed'[y] = {}
      <4>1. mailed[e] \cap mailed[y] = {} /\ c \notin mailed[e] /\ c \notin mailed[y]
        BY <2>2, <3>2 DEF Delivered, UsedUpInv, New
      <4> QED
        BY <2>3, <3>2, <4>1
    <3> QED
      BY <2>2, <2>3, <3>1, <3>2 DEF Delivered, UsedUpInv
  <2>5. c \notin used
    BY <2>2 DEF New, UsedUpInv, Spent
  <2>6. /\ Carried(request[q])'
        /\ \A w \in Requests :
             w # q => Unshared(request'[q], request[w]) /\ Unshared(request[w], request'[q])
    BY <2>1, <2>2, <2>3, <2>5 DEF Carried, Unshared, New
  <2>7. ASSUME NEW w \in Requests, w # q PROVE Carried(request[w])'
    <3>1. request'[w] = request[w] /\ Carried(request[w]) /\ Holds(request[w]) /\ request[w].code # c
      BY <1>2, <2>1, <2>2, <2>7 DEF New, Others
    <3> QED
      BY <2>2, <2>3, <3>1 DEF Carried, Holds, Coded
  <2> QED
    BY <1>1, <2>1, <2>4, <2>6, <2>7, OneMoves
<1>12. ASSUME NEW q \in Requests, MailCode(q) PROVE UsedUpInv'
  <2>1. PICK c \in Codes : c = request[q].code
    BY <1>2, <1>12 DEF MailCode, Holds, Coded
  <2>2. PICK x \in Emails : x = request[q].email
    BY <1>2, <1>12 DEF MailCode, Holds
  <2>3. /\ \A e \in Emails : mailed'[e] = IF e = x THEN mailed[e] \cup {c} ELSE mailed[e]
        /\ UNCHANGED <<reset, used>> /\ Others(q) /\ request'[q] = Idle
    BY <1>2, <1>12, <2>1, <2>2 DEF MailCode, Done, Become, Others, redis, history
  <2>4. /\ \A e \in Emails : c \notin mailed[e]
        /\ \A w \in Requests : w # q /\ request[w].pc \in Coded => request[w].code # c
    BY <1>12, <2>1 DEF MailCode, UsedUpInv, Carried, Unshared
  <2>5. Spent' /\ Delivered'
    <3>1. Spent'
      BY <2>3 DEF Spent, UsedUpInv
    <3>2. ASSUME NEW e \in Emails, NEW y \in Emails, e # y PROVE mailed'[e] \cap mailed'[y] = {}
      <4>1. mailed[e] \cap mailed[y] = {} /\ c \notin mailed[e] /\ c \notin mailed[y]
        BY <2>4, <3>2 DEF Delivered, UsedUpInv
      <4> QED
        BY <2>3, <3>2, <4>1
    <3> QED
      BY <2>3, <3>1, <3>2 DEF Delivered, UsedUpInv
  <2>6. /\ Carried(request[q])'
        /\ \A w \in Requests :
             w # q => Unshared(request'[q], request[w]) /\ Unshared(request[w], request'[q])
    BY <2>3 DEF Carried, Unshared, Coded, Idle
  <2>7. ASSUME NEW w \in Requests, w # q PROVE Carried(request[w])'
    <3>1. request'[w] = request[w] /\ Carried(request[w]) /\ Holds(request[w])
      BY <1>2, <2>3, <2>7 DEF Others
    <3> QED
      BY <2>3, <2>4, <2>7, <3>1 DEF Carried, Holds, Coded
  <2> QED
    BY <1>1, <2>3, <2>5, <2>6, <2>7, OneMoves
<1>13. ASSUME NEW q \in Requests, StoreToken(q) PROVE UsedUpInv'
  <2>1. PICK c \in Codes : c = request[q].code
    BY <1>2, <1>13 DEF StoreToken, Holds, Coded
  <2>2. PICK x \in Emails : x = request[q].email
    BY <1>2, <1>13 DEF StoreToken, Holds
  <2>3. /\ \A e \in Emails : reset'[e] = IF e = x THEN c ELSE reset[e]
        /\ UNCHANGED <<mailed, used>> /\ Others(q) /\ request'[q] = Idle
    BY <1>2, <1>13, <2>1, <2>2 DEF StoreToken, Done, Become, Others, history
  <2>4. /\ c \in mailed[x] /\ c \notin used
        /\ \A w \in Requests : w # q /\ request[w].pc \in Coded => request[w].code # c
    BY <1>2, <1>13, <2>1, <2>2 DEF StoreToken, UsedUpInv, Carried, Unshared, Coded
  <2>5. Spent' /\ Delivered'
    BY <2>3, <2>4 DEF Spent, Delivered, UsedUpInv
  <2>6. /\ Carried(request[q])'
        /\ \A w \in Requests :
             w # q => Unshared(request'[q], request[w]) /\ Unshared(request[w], request'[q])
    BY <2>3 DEF Carried, Unshared, Coded, Idle
  <2>7. ASSUME NEW w \in Requests, w # q PROVE Carried(request[w])'
    <3>1. request'[w] = request[w] /\ Carried(request[w])
      BY <1>2, <2>3, <2>7 DEF Others
    <3> QED
      BY <2>3, <2>4, <2>7, <3>1 DEF Carried, Coded
  <2> QED
    BY <1>1, <2>3, <2>5, <2>6, <2>7, OneMoves
<1>14. ASSUME NEW q \in Requests, NEW e \in Emails, NEW c \in Codes, BeginReset(q, e, c) PROVE UsedUpInv'
  <2>1. /\ Others(q)
        /\ request'[q].pc = "changing" /\ request'[q].code = c /\ request'[q].email = e
    BY <1>2, <1>14 DEF BeginReset, Become, Idle, Others
  <2>2. UNCHANGED <<reset, mailed, used>> /\ c \in mailed[e] /\ reset[e] = c
    BY <1>14 DEF BeginReset, redis, history
  <2>3. Spent' /\ Delivered'
    BY <2>2 DEF Spent, Delivered, UsedUpInv
  <2>4. Carried(request[q])'
    BY <2>1, <2>2 DEF Carried, Coded
  <2>5. ASSUME NEW w \in Requests, w # q
        PROVE  Unshared(request'[q], request[w]) /\ Unshared(request[w], request'[q])
    <3>1. Unshared(request'[q], request[w])
      BY <2>1 DEF Unshared
    <3>2. Carried(request[w])
      BY DEF UsedUpInv
    <3> QED
      BY <2>1, <2>2, <3>1, <3>2 DEF Unshared, Carried
  <2>6. \A w \in Requests : w # q => Carried(request[w])'
    BY <1>1, <2>1, <2>2, KeysDeleted DEF Others
  <2> QED
    BY <1>1, <2>1, <2>3, <2>4, <2>5, <2>6, OneMoves
<1>15. ASSUME NEW q \in Requests, ChangePassword(q) PROVE UsedUpInv'
  <2>1. /\ Others(q) /\ request'[q].pc = "forgetting token"
        /\ request'[q].code = request[q].code /\ request'[q].email = request[q].email
    BY <1>2, <1>15 DEF ChangePassword, Goto, Become, RequestType, Others
  <2>2. UNCHANGED <<reset, mailed, used>> /\ request[q].pc = "changing"
    BY <1>15 DEF ChangePassword, redis, history
  <2>3. Spent' /\ Delivered'
    BY <2>2 DEF Spent, Delivered, UsedUpInv
  <2>4. /\ Carried(request[q])'
        /\ \A w \in Requests :
             w # q => Unshared(request'[q], request[w]) /\ Unshared(request[w], request'[q])
    BY <1>2, <2>1, <2>2 DEF Carried, Unshared, Coded, UsedUpInv
  <2>5. \A w \in Requests : w # q => Carried(request[w])'
    BY <1>1, <2>1, <2>2, KeysDeleted DEF Others
  <2> QED
    BY <1>1, <2>1, <2>3, <2>4, <2>5, OneMoves
<1>16. ASSUME NEW q \in Requests, ForgetToken(q) PROVE UsedUpInv'
  <2>1. PICK c \in Codes : c = request[q].code
    BY <1>2, <1>16 DEF ForgetToken, Holds, Coded
  <2>2. PICK x \in Emails : x = request[q].email
    BY <1>2, <1>16 DEF ForgetToken, Holds
  <2>3. /\ \A e \in Emails : reset'[e] = IF e = x THEN None ELSE reset[e]
        /\ used' = used \cup {c} /\ UNCHANGED mailed /\ Others(q) /\ request'[q] = Idle
    BY <1>2, <1>16, <2>1, <2>2 DEF ForgetToken, Done, Become, Others
  <2>4. /\ c \in mailed[x]
        /\ \A w \in Requests : w # q /\ request[w].pc = "storing token" => request[w].code # c
    BY <1>2, <1>16, <2>1, <2>2 DEF ForgetToken, UsedUpInv, Carried, Unshared, Coded
  <2>5. Delivered'
    BY <2>3 DEF Delivered, UsedUpInv
  <2>6. \A e \in Emails : reset'[e] # c
    BY <2>1, <2>3, <2>4 DEF UsedUpInv, Delivered, ValuesDistinct
  <2>7. Spent'
    <3>1. ASSUME NEW d \in used, NEW e \in Emails PROVE reset'[e] # d
      BY <2>3 DEF Spent, UsedUpInv, TypesInv, Types, ValuesDistinct
    <3>2. \A d \in used : \E e \in Emails : d \in mailed[e]
      BY DEF Spent, UsedUpInv
    <3> QED
      BY <2>3, <2>4, <2>6, <3>1, <3>2 DEF Spent
  <2>8. /\ Carried(request[q])'
        /\ \A w \in Requests :
             w # q => Unshared(request'[q], request[w]) /\ Unshared(request[w], request'[q])
    BY <2>3 DEF Carried, Unshared, Coded, Idle
  <2>9. ASSUME NEW w \in Requests, w # q PROVE Carried(request[w])'
    <3>1. request'[w] = request[w] /\ Carried(request[w]) /\ Holds(request[w])
      BY <1>2, <2>3, <2>9 DEF Others
    <3> QED
      BY <2>3, <2>4, <2>9, <3>1 DEF Carried, Holds, Coded, ValuesDistinct
  <2> QED
    BY <1>1, <2>3, <2>5, <2>7, <2>8, <2>9, OneMoves
<1>17. ASSUME NEW e \in Emails,
              ConnectInverter(e) \/ ExpireCode(e) \/ ExpireTries(e) \/ ExpireResends(e) \/ ExpireToken(e)
       PROVE  UsedUpInv'
  <2>1. /\ UNCHANGED <<mailed, used, request>>
        /\ \A x \in Emails : reset'[x] \in {reset[x], None}
    BY <1>2, <1>17 DEF ConnectInverter, ExpireCode, ExpireTries, ExpireResends, ExpireToken, redis, history
  <2>2. Spent' /\ Delivered'
    BY <2>1 DEF UsedUpInv, Spent, Delivered, ValuesDistinct, TypesInv, Types
  <2>3. \A q \in Requests : Carried(request[q])'
    BY <1>2, <2>1 DEF Carried, Holds, Coded, ValuesDistinct
  <2> QED
    BY <1>1, <2>1, <2>2, <2>3 DEF UsedUpInv
<1>18. CASE UNCHANGED vars
  BY <1>1, <1>18 DEF vars, redis, history, UsedUpInv, Spent, Delivered, Carried
<1> QED
  BY <1>4, <1>5, <1>6, <1>7, <1>8, <1>9, <1>10, <1>11, <1>12, <1>13, <1>14, <1>15, <1>16, <1>17, <1>18
     DEF Next

\* A change of password begins with the token that is stored.
LEMMA TheStoredTokenOpens ==
  ASSUME TypesInv, [Next]_vars, NEW q \in Requests, request[q].pc = "idle", request'[q].pc = "changing"
  PROVE  \E e \in Emails : reset[e] = request'[q].code
<1>1. request \in [Requests -> RequestType]
  BY DEF TypesInv, Types
<1>2. ASSUME NEW w \in Requests, NEW r, Become(w, r), r.pc # "changing" \/ request[w].pc # "idle"
      PROVE  FALSE
  BY <1>1, <1>2 DEF Become
<1>3. ASSUME NEW w \in Requests, NEW e \in Emails,
             BeginRegister(w, e) \/ BeginLogin(w, e) \/ BeginResend(w, e) \/ BeginForgot(w, e)
      PROVE  FALSE
  BY <1>2, <1>3 DEF BeginRegister, BeginLogin, BeginResend, BeginForgot, Start, Idle
<1>4. ASSUME NEW w \in Requests, NEW e \in Emails, NEW c, BeginVerify(w, e, c) PROVE FALSE
  BY <1>2, <1>4 DEF BeginVerify, Idle
<1>5. ASSUME NEW w \in Requests, NEW e \in Emails, NEW g, NEW kind, BeginGoogle(w, e, g, kind) PROVE FALSE
  BY <1>2, <1>5 DEF BeginGoogle, Start, Idle
<1>6. ASSUME NEW w \in Requests, NEW c, StoreCode(w, c) \/ MailToken(w, c) PROVE FALSE
  BY <1>2, <1>6 DEF StoreCode, MailToken
<1>7. ASSUME NEW w \in Requests,
             \/ CreateAccount(w) \/ CountResend(w) \/ MailCode(w) \/ Admit(w) \/ Compare(w) \/ CountTry(w)
             \/ Verify(w) \/ Inspect(w) \/ Subscribe(w) \/ ForgetCode(w) \/ ForgetTries(w) \/ Link(w)
      PROVE  FALSE
  BY <1>2, <1>7 DEF CreateAccount, CountResend, MailCode, Admit, Compare, CountTry, Verify, Inspect,
                    Subscribe, ForgetCode, ForgetTries, Link, Done, Goto
<1>8. ASSUME NEW w \in Requests, StoreToken(w) \/ ChangePassword(w) \/ ForgetToken(w) \/ Fail(w) PROVE FALSE
  BY <1>2, <1>8 DEF StoreToken, ChangePassword, ForgetToken, Fail, Done, Goto
<1>9. ASSUME NEW e \in Emails,
             ConnectInverter(e) \/ ExpireCode(e) \/ ExpireTries(e) \/ ExpireResends(e) \/ ExpireToken(e)
      PROVE  FALSE
  BY <1>9 DEF ConnectInverter, ExpireCode, ExpireTries, ExpireResends, ExpireToken
<1>10. ASSUME NEW w \in Requests, NEW e \in Emails, NEW c \in Codes, BeginReset(w, e, c)
       PROVE  reset[e] = request'[q].code
  BY <1>1, <1>10 DEF BeginReset, Become, Idle
<1>11. ~ UNCHANGED vars
  BY DEF vars
<1> QED
  BY <1>3, <1>4, <1>5, <1>6, <1>7, <1>8, <1>9, <1>10, <1>11 DEF Next

\* A token whose reset went through opens no other one: it is in one mailbox, it
\* was stored once, and no request still carries it to the key.
THEOREM ResetTokensAreUsedUp == ValuesDistinct => (Spec => ResetTokenUsedUp)
<1> SUFFICES ASSUME ValuesDistinct PROVE Spec => ResetTokenUsedUp
  OBVIOUS
<1>1. Init => UsedUpInv
  <2> SUFFICES ASSUME Init PROVE UsedUpInv
    OBVIOUS
  <2>1. TypesInv
    BY TypesInit
  <2>2. Spent /\ Delivered
    BY DEF Init, Spent, Delivered
  <2>3. \A q \in Requests : request[q] = Idle
    BY DEF Init
  <2>4. Carried(Idle) /\ Unshared(Idle, Idle)
    BY DEF Carried, Unshared, Idle, Coded
  <2> QED
    BY <2>1, <2>2, <2>3, <2>4 DEF UsedUpInv
<1>2. UsedUpInv /\ [Next]_vars => UsedUpInv'
  BY UsedUpStep
<1>3. UsedUpInv /\ [Next]_vars
      => [\A q \in Requests : request[q].pc = "idle" /\ request'[q].pc = "changing"
                              => request'[q].code \notin used]_vars
  BY TheStoredTokenOpens DEF UsedUpInv, Spent
<1> QED
  BY <1>1, <1>2, <1>3, PTL DEF Spec, ResetTokenUsedUp
-----------------------------------------------------------------------------
(* Guessing one at a time.                                                 *)

\* What holds of the wrong codes judged for one address.  The counter lags behind them
\* by the code that is about to be counted; a request that reads it meanwhile has
\* overlapped the other one, and its own code is not among them.
Patient(e) ==
  /\ guesses[e] <= MaxTries + faults
  /\ guesses[e] <= tries[e] + 1 + faults
  /\ (\A q \in Guessers(e) : request[q].pc = "comparing") => guesses[e] <= tries[e] + faults
  /\ \A q \in Guessers(e) :
       /\ request[q].seen < MaxTries
       /\ guesses[e] <= request[q].seen + 1 + faults
       /\ q \notin crowded => Guessers(e) = {q}
       /\ q \notin crowded /\ request[q].pc = "comparing" => guesses[e] <= request[q].seen + faults

GuessInv == TypesInv /\ \A e \in Emails : Patient(e)

LEMMA Numbers ==
  ASSUME TypesInv, NEW e \in Emails
  PROVE  /\ guesses[e] \in Nat /\ tries[e] \in Nat /\ faults \in Nat
         /\ \A q \in Requests : request[q].seen \in Nat
<1>1. \A q \in Requests : request[q] \in RequestType
  BY DEF TypesInv, Types
<1> QED
  BY <1>1 DEF TypesInv, Types, RequestType

LEMMA GuessersMove ==
  ASSUME NEW q \in Requests, Others(q), NEW e
  PROVE  /\ request'[q].pc \in Guessing /\ request'[q].email = e => Guessers(e)' = Guessers(e) \cup {q}
         /\ request'[q].pc \notin Guessing \/ request'[q].email # e => Guessers(e)' = Guessers(e) \ {q}
         /\ q \in Guessers(e) <=> request[q].pc \in Guessing /\ request[q].email = e
<1>1. ASSUME NEW w \in Requests, w # q PROVE w \in Guessers(e)' <=> w \in Guessers(e)
  BY <1>1 DEF Guessers, Others
<1>2. q \in Guessers(e)' <=> request'[q].pc \in Guessing /\ request'[q].email = e
  BY DEF Guessers
<1>3. Guessers(e) \subseteq Requests /\ Guessers(e)' \subseteq Requests
  BY DEF Guessers
<1>4. q \in Guessers(e) <=> request[q].pc \in Guessing /\ request[q].email = e
  BY DEF Guessers
<1> QED
  BY <1>1, <1>2, <1>3, <1>4

\* A request that is not about a code of verifyEmail before or after its step, or that gives
\* up: a failure pays for the wrong code it may have had judged.
LEMMA OtherStep ==
  ASSUME MaxTries \in Nat, GuessInv, TypesInv', NEW q \in Requests, Others(q),
         request'[q].pc \notin Guessing, UNCHANGED <<tries, guesses>>, faults' >= faults,
         crowded' \in {crowded, crowded \ {q}},
         request[q].pc = "counting" => faults' > faults
  PROVE  GuessInv'
<1> SUFFICES ASSUME NEW e \in Emails PROVE Patient(e)'
  BY DEF GuessInv
<1>1. Patient(e) /\ guesses'[e] = guesses[e] /\ tries'[e] = tries[e]
  BY DEF GuessInv
<1>2. Guessers(e)' = Guessers(e) \ {q}
  BY DEF Guessers, Others
<1>3. \A w \in Guessers(e)' : request'[w] = request[w] /\ (w \in crowded' <=> w \in crowded)
  BY <1>2 DEF Others, Guessers
<1>4. /\ guesses[e] \in Nat /\ tries[e] \in Nat /\ faults \in Nat /\ faults' \in Nat
      /\ \A w \in Requests : request[w].seen \in Nat
  BY Numbers DEF GuessInv, TypesInv, Types
<1>5. Guessers(e) \subseteq Requests
  BY DEF Guessers
<1>6. guesses[e] <= MaxTries + faults' /\ guesses[e] <= tries[e] + 1 + faults'
  BY <1>1, <1>4 DEF Patient
<1>7. ASSUME \A w \in Guessers(e)' : request'[w].pc = "comparing"
      PROVE  guesses[e] <= tries[e] + faults'
  <2>1. CASE request[q].pc = "counting"
    BY <1>1, <1>4, <2>1 DEF Patient
  <2>2. CASE request[q].pc # "counting"
    <3>1. \A w \in Guessers(e) : request[w].pc = "comparing"
      BY <1>2, <1>3, <1>7, <2>2 DEF Guessers, Guessing
    <3> QED
      BY <1>1, <1>4, <3>1 DEF Patient
  <2> QED
    BY <2>1, <2>2
<1>8. ASSUME NEW w \in Guessers(e)'
      PROVE  /\ request'[w].seen < MaxTries
             /\ guesses[e] <= request'[w].seen + 1 + faults'
             /\ w \notin crowded' => Guessers(e)' = {w}
             /\ w \notin crowded' /\ request'[w].pc = "comparing" => guesses[e] <= request'[w].seen + faults'
  <2>1. w \in Guessers(e) /\ request'[w] = request[w] /\ (w \in crowded' <=> w \in crowded)
    BY <1>2, <1>3, <1>8
  <2>2. /\ request[w].seen < MaxTries
        /\ guesses[e] <= request[w].seen + 1 + faults
        /\ w \notin crowded => Guessers(e) = {w}
        /\ w \notin crowded /\ request[w].pc = "comparing" => guesses[e] <= request[w].seen + faults
    BY <1>1, <2>1 DEF Patient
  <2>3. w \notin crowded' => Guessers(e)' = {w}
    BY <1>2, <1>8, <2>1, <2>2
  <2>4. request[w].seen \in Nat
    BY <1>4, <1>5, <2>1
  <2> QED
    BY <1>4, <2>1, <2>2, <2>3, <2>4
<1> QED
  BY <1>1, <1>6, <1>7, <1>8 DEF Patient

LEMMA GuessStep == ValuesDistinct /\ MaxTries \in Nat /\ GuessInv /\ [Next]_vars => GuessInv'
<1> SUFFICES ASSUME ValuesDistinct, MaxTries \in Nat, GuessInv, [Next]_vars PROVE GuessInv'
  OBVIOUS
<1>1. TypesInv'
  BY TypesStep DEF GuessInv
<1>2. /\ request \in [Requests -> RequestType] /\ \A q \in Requests : Holds(request[q])
      /\ tries \in [Emails -> Nat] /\ guesses \in [Emails -> Nat] /\ faults \in Nat
  BY DEF GuessInv, TypesInv, Types
<1>3. ASSUME NEW q \in Requests, NEW r, Become(q, r), r.pc \notin Guessing, UNCHANGED <<tries, guesses>>,
             faults' >= faults, request[q].pc = "counting" => faults' > faults,
             crowded' \in {crowded, crowded \ {q}}
      PROVE  GuessInv'
  <2>1. Others(q) /\ request'[q] = r
    BY <1>2, <1>3 DEF Become, Others
  <2> QED
    BY <1>1, <1>3, <2>1, OtherStep
<1>0. ASSUME NEW q \in Requests, NEW r, Become(q, r), r.pc \notin Guessing, request[q].pc # "counting",
             UNCHANGED <<tries, guesses, faults, crowded>>
      PROVE  GuessInv'
  BY <1>0, <1>2, <1>3
<1>4. ASSUME NEW q \in Requests, NEW pc, Goto(q, pc), pc \notin Guessing, request[q].pc # "counting",
             UNCHANGED <<tries, guesses, faults, crowded>>
      PROVE  GuessInv'
  <2> DEFINE r == [request[q] EXCEPT !.pc = pc]
  <2>1. r.pc = pc
    BY <1>2 DEF RequestType
  <2>2. Become(q, r)
    BY <1>4 DEF Goto
  <2> HIDE DEF r
  <2> QED
    BY <1>2, <1>3, <1>4, <2>1, <2>2
<1>5. ASSUME NEW q \in Requests, Done(q), UNCHANGED <<tries, guesses>>,
             faults' >= faults, request[q].pc = "counting" => faults' > faults,
             crowded' \in {crowded, crowded \ {q}}
      PROVE  GuessInv'
  <2>1. Idle.pc \notin Guessing
    BY DEF Idle, Guessing
  <2> QED
    BY <1>3, <1>5, <2>1 DEF Done
<1>6. ASSUME NEW q \in Requests, NEW e \in Emails,
             BeginRegister(q, e) \/ BeginLogin(q, e) \/ BeginForgot(q, e)
      PROVE  GuessInv'
  <2>1. UNCHANGED <<tries, guesses, faults, crowded>> /\ request[q].pc = "idle"
    BY <1>6 DEF BeginRegister, BeginLogin, BeginForgot, Start, redis, history
  <2>2. PICK pc \in {"creating", "storing", "mailing token"} : Become(q, [Idle EXCEPT !.pc = pc, !.email = e])
    BY <1>6 DEF BeginRegister, BeginLogin, BeginForgot, Start
  <2> DEFINE r == [Idle EXCEPT !.pc = pc, !.email = e]
  <2>3. r.pc = pc /\ Become(q, r)
    BY <2>2 DEF Idle
  <2> HIDE DEF r
  <2> QED
    BY <1>0, <2>1, <2>3 DEF Guessing
<1>7. ASSUME NEW q \in Requests, NEW e \in Emails, BeginResend(q, e) PROVE GuessInv'
  <2> DEFINE r == [Idle EXCEPT !.pc = "resending", !.email = e, !.seen = resends[e]]
  <2>1. UNCHANGED <<tries, guesses, faults, crowded>> /\ request[q].pc = "idle" /\ Become(q, r)
    BY <1>7 DEF BeginResend, redis, history
  <2>2. r.pc = "resending"
    BY DEF Idle
  <2> HIDE DEF r
  <2> QED
    BY <1>0, <2>1, <2>2 DEF Guessing
<1>8. ASSUME NEW q \in Requests, NEW e \in Emails, NEW c, BeginVerify(q, e, c) PROVE GuessInv'
  <2> DEFINE r == [Idle EXCEPT !.pc = "admitting", !.kind = "verify", !.email = e, !.code = c]
  <2>1. UNCHANGED <<tries, guesses, faults, crowded>> /\ request[q].pc = "idle" /\ Become(q, r)
    BY <1>8 DEF BeginVerify, redis, history
  <2>2. r.pc = "admitting"
    BY DEF Idle
  <2> HIDE DEF r
  <2> QED
    BY <1>0, <2>1, <2>2 DEF Guessing
<1>9. ASSUME NEW q \in Requests, NEW e \in Emails, NEW c, BeginReset(q, e, c) PROVE GuessInv'
  <2> DEFINE r == [Idle EXCEPT !.pc = "changing", !.email = e, !.code = c]
  <2>1. UNCHANGED <<tries, guesses, faults, crowded>> /\ request[q].pc = "idle" /\ Become(q, r)
    BY <1>9 DEF BeginReset, redis, history
  <2>2. r.pc = "changing"
    BY DEF Idle
  <2> HIDE DEF r
  <2> QED
    BY <1>0, <2>1, <2>2 DEF Guessing
<1>10. ASSUME NEW q \in Requests, NEW e \in Emails, NEW g, NEW kind, BeginGoogle(q, e, g, kind)
       PROVE  GuessInv'
  <2>1. UNCHANGED <<tries, guesses, faults, crowded>> /\ request[q].pc = "idle"
    BY <1>10 DEF BeginGoogle, Start, redis, history
  <2>2. CASE \E x \in Emails : Start(q, "inspecting", x)
    <3>1. PICK x \in Emails : Become(q, [Idle EXCEPT !.pc = "inspecting", !.email = x])
      BY <2>2 DEF Start
    <3> DEFINE r == [Idle EXCEPT !.pc = "inspecting", !.email = x]
    <3>2. r.pc = "inspecting" /\ Become(q, r)
      BY <3>1 DEF Idle
    <3> HIDE DEF r
    <3> QED
      BY <1>0, <2>1, <3>2 DEF Guessing
  <2>3. CASE Become(q, [Idle EXCEPT !.pc = "linking", !.kind = kind, !.email = e, !.code = g])
    <3> DEFINE r == [Idle EXCEPT !.pc = "linking", !.kind = kind, !.email = e, !.code = g]
    <3>1. r.pc = "linking" /\ Become(q, r)
      BY <2>3 DEF Idle
    <3> HIDE DEF r
    <3> QED
      BY <1>0, <2>1, <3>1 DEF Guessing
  <2> QED
    BY <1>10, <2>2, <2>3 DEF BeginGoogle
<1>11. ASSUME NEW q \in Requests,
              CreateAccount(q) \/ Verify(q) \/ Inspect(q) \/ ForgetCode(q) \/ ChangePassword(q)
       PROVE  GuessInv'
  <2>1. UNCHANGED <<tries, guesses, faults, crowded>> /\ request[q].pc # "counting"
    BY <1>11 DEF CreateAccount, Verify, Inspect, ForgetCode, ChangePassword, redis, history
  <2>2. \/ Done(q)
        \/ \E pc \in {"storing", "inspecting", "subscribing", "forgetting tries", "forgetting token"} : Goto(q, pc)
    BY <1>11 DEF CreateAccount, Verify, Inspect, ForgetCode, ChangePassword
  <2>3. CASE Done(q)
    BY <1>2, <1>5, <2>1, <2>3
  <2>4. ASSUME NEW pc \in {"storing", "inspecting", "subscribing", "forgetting tries", "forgetting token"},
               Goto(q, pc)
        PROVE  GuessInv'
    BY <1>4, <2>1, <2>4 DEF Guessing
  <2> QED
    BY <2>2, <2>3, <2>4
<1>12. ASSUME NEW q \in Requests, MailCode(q) \/ StoreToken(q) \/ ForgetToken(q) \/ Subscribe(q) \/ Fail(q)
       PROVE  GuessInv'
  <2>1. UNCHANGED <<tries, guesses>>
    BY <1>12 DEF MailCode, StoreToken, ForgetToken, Subscribe, Fail, redis, history
  <2>2. CASE Fail(q)
    BY <1>2, <1>5, <2>1, <2>2 DEF Fail
  <2>3. CASE MailCode(q) \/ StoreToken(q) \/ ForgetToken(q) \/ Subscribe(q)
    <3>1. UNCHANGED <<faults, crowded>> /\ request[q].pc # "counting"
      BY <2>3 DEF MailCode, StoreToken, ForgetToken, Subscribe, history
    <3>2. Done(q) \/ Goto(q, "forgetting code")
      BY <2>3 DEF MailCode, StoreToken, ForgetToken, Subscribe
    <3>3. CASE Done(q)
      BY <1>2, <1>5, <2>1, <3>1, <3>3
    <3>4. CASE Goto(q, "forgetting code")
      BY <1>4, <2>1, <3>1, <3>4 DEF Guessing
    <3> QED
      BY <3>2, <3>3, <3>4
  <2> QED
    BY <1>12, <2>2, <2>3
<1>13. ASSUME NEW q \in Requests, NEW c, CountResend(q) \/ StoreCode(q, c) \/ MailToken(q, c) \/ Link(q)
       PROVE  GuessInv'
  <2>1. UNCHANGED <<tries, guesses, faults, crowded>> /\ request[q].pc # "counting"
    BY <1>13 DEF CountResend, StoreCode, MailToken, Link, redis, history
  <2>2. request[q] \in RequestType
    BY <1>2
  <2> DEFINE r == [request[q] EXCEPT !.pc = "storing", !.seen = 0]
             s == [request[q] EXCEPT !.pc = "mailing", !.code = c]
             t == [request[q] EXCEPT !.pc = "storing token", !.code = c]
             u == [request[q] EXCEPT !.pc = "inspecting", !.kind = None, !.code = None]
  <2>3. r.pc = "storing" /\ s.pc = "mailing" /\ t.pc = "storing token" /\ u.pc = "inspecting"
    BY <2>2 DEF RequestType
  <2>4. Done(q) \/ Become(q, r) \/ Become(q, s) \/ Become(q, t) \/ Become(q, u)
    BY <1>13 DEF CountResend, StoreCode, MailToken, Link
  <2> HIDE DEF r, s, t, u
  <2>5. CASE Done(q)
    BY <1>2, <1>5, <2>1, <2>5
  <2>6. ASSUME NEW x \in {r, s, t, u}, Become(q, x) PROVE GuessInv'
    BY <1>0, <2>1, <2>3, <2>6 DEF Guessing
  <2> QED
    BY <2>4, <2>5, <2>6
<1>14. ASSUME NEW q \in Requests, Admit(q) PROVE GuessInv'
  <2>0. PICK e \in Emails : e = request[q].email
    BY <1>2, <1>14 DEF Admit, Holds
  <2> DEFINE r == [request[q] EXCEPT !.pc = "comparing", !.seen = tries[e]]
  <2>1. UNCHANGED <<tries, guesses, faults>> /\ request[q].pc = "admitting"
    BY <1>14 DEF Admit, redis
  <2>2. CASE Done(q) /\ UNCHANGED crowded
    BY <1>2, <1>5, <2>1, <2>2
  <2>3. CASE /\ ~ (tries[e] >= MaxTries) /\ Become(q, r)
             /\ crowded' = IF Guessers(e) = {} THEN crowded ELSE crowded \cup Guessers(e) \cup {q}
    <3>1. r.pc = "comparing" /\ r.email = e /\ r.seen = tries[e]
      BY <1>2, <2>0 DEF RequestType
    <3>2. Others(q) /\ request'[q] = r
      BY <1>2, <2>3 DEF Become, Others
    <3>3. q \notin Guessers(e) /\ Guessers(e)' = Guessers(e) \cup {q}
      <4>1. request[q].pc \notin Guessing
        BY <2>1 DEF Guessing
      <4>2. request'[q].pc \in Guessing /\ request'[q].email = e
        BY <3>1, <3>2 DEF Guessing
      <4> HIDE DEF r
      <4> QED
        BY <3>2, <4>1, <4>2, GuessersMove
    <3> HIDE DEF r
    <3>4. \A w \in Guessers(e) : request'[w] = request[w] /\ w \in crowded'
      BY <2>3, <3>2, <3>3 DEF Others, Guessers
    <3>5. /\ guesses'[e] = guesses[e] /\ tries'[e] = tries[e] /\ faults' = faults /\ Patient(e)
          /\ guesses[e] \in Nat /\ tries[e] \in Nat /\ faults \in Nat
          /\ tries[e] < MaxTries
      BY <1>2, <2>1, <2>3, <3>1 DEF GuessInv
    <3>6. Patient(e)'
      <4>1. guesses[e] <= MaxTries + faults /\ guesses[e] <= tries[e] + 1 + faults
        BY <3>5 DEF Patient
      <4>2. ASSUME \A w \in Guessers(e)' : request'[w].pc = "comparing"
            PROVE  guesses[e] <= tries[e] + faults
        <5>1. \A w \in Guessers(e) : request[w].pc = "comparing"
          BY <3>3, <3>4, <4>2
        <5> QED
          BY <3>5, <5>1 DEF Patient
      <4>3. ASSUME NEW w \in Guessers(e)
            PROVE  /\ w \in crowded' /\ request'[w].seen < MaxTries
                   /\ guesses[e] <= request'[w].seen + 1 + faults
        BY <3>4, <3>5 DEF Patient
      <4>4. /\ request'[q].seen < MaxTries
            /\ guesses[e] <= request'[q].seen + 1 + faults
        BY <3>1, <3>2, <3>5, <4>1
      <4>5. ASSUME q \notin crowded'
            PROVE  Guessers(e)' = {q} /\ guesses[e] <= request'[q].seen + faults
        <5>1. Guessers(e) = {}
          BY <2>3, <4>5
        <5> QED
          BY <3>1, <3>2, <3>3, <3>5, <5>1 DEF Patient
      <4>6. ASSUME NEW w \in Guessers(e)'
            PROVE  /\ request'[w].seen < MaxTries
                   /\ guesses[e] <= request'[w].seen + 1 + faults
                   /\ w \notin crowded' => /\ Guessers(e)' = {w}
                                          /\ guesses[e] <= request'[w].seen + faults
        BY <3>3, <4>3, <4>4, <4>5, <4>6
      <4> QED
        BY <3>5, <4>1, <4>2, <4>6 DEF Patient
    <3>7. ASSUME NEW x \in Emails, x # e PROVE Patient(x)'
      <4>1. Guessers(x)' = Guessers(x) /\ q \notin Guessers(x)
        BY <3>1, <3>2, <3>7, <2>1 DEF Guessers, Others, Guessing
      <4>2. \A w \in Guessers(x) : request'[w] = request[w] /\ (w \in crowded' <=> w \in crowded)
        BY <2>3, <3>2, <3>7, <4>1 DEF Others, Guessers
      <4>3. Patient(x)
        BY DEF GuessInv
      <4>4. guesses' = guesses /\ tries' = tries /\ faults' = faults
        BY <2>1
      <4> QED
        BY <4>1, <4>2, <4>3, <4>4 DEF Patient
    <3> QED
      <4>1. \A x \in Emails : Patient(x)'
        BY <3>6, <3>7
      <4> QED
        BY <1>1, <4>1 DEF GuessInv
  <2> QED
    BY <1>14, <2>0, <2>2, <2>3 DEF Admit
<1>15. ASSUME NEW q \in Requests, Compare(q) PROVE GuessInv'
  <2>0. PICK e \in Emails : e = request[q].email
    BY <1>2, <1>15 DEF Compare, Holds
  <2> DEFINE r == [request[q] EXCEPT !.pc = "counting", !.code = None]
             v == [request[q] EXCEPT !.pc = "verifying", !.code = None, !.seen = 0]
  <2>1. UNCHANGED <<tries, faults>> /\ request[q].pc = "comparing"
    BY <1>15 DEF Compare, redis
  <2>2. CASE Become(q, v) /\ crowded' = crowded \ {q} /\ UNCHANGED guesses
    <3>1. v.pc = "verifying"
      BY <1>2 DEF RequestType
    <3> HIDE DEF v
    <3> QED
      BY <1>2, <1>3, <2>1, <2>2, <3>1 DEF Guessing
  <2>3. CASE Become(q, r) /\ Judged(q) /\ UNCHANGED crowded
    <3>1. r.pc = "counting" /\ r.email = e /\ r.seen = request[q].seen
      BY <1>2, <2>0 DEF RequestType
    <3>2. Others(q) /\ request'[q] = r
      BY <1>2, <2>3 DEF Become, Others
    <3>3. q \in Guessers(e) /\ \A x \in Emails : Guessers(x)' = Guessers(x)
      <4>1. request[q].pc \in Guessing /\ request[q].email = e
        BY <2>0, <2>1 DEF Guessing
      <4>2. request'[q].pc \in Guessing /\ request'[q].email = e
        BY <3>1, <3>2 DEF Guessing
      <4> HIDE DEF r
      <4>3. q \in Guessers(e)
        BY <3>2, <4>1, GuessersMove
      <4>4. ASSUME NEW x \in Emails PROVE Guessers(x)' = Guessers(x)
        <5>1. CASE x = e
          <6>1. Guessers(e)' = Guessers(e) \cup {q}
            BY <3>2, <4>2, GuessersMove
          <6> QED
            BY <4>3, <5>1, <6>1
        <5>2. CASE x # e
          <6>1. Guessers(x)' = Guessers(x) \ {q} /\ q \notin Guessers(x)
            BY <3>2, <4>1, <4>2, <5>2, GuessersMove
          <6> QED
            BY <6>1
        <5> QED
          BY <5>1, <5>2
      <4> QED
        BY <4>3, <4>4
    <3>4. guesses' = IF q \in crowded THEN guesses ELSE [guesses EXCEPT ![e] = guesses[e] + 1]
      BY <2>0, <2>3 DEF Judged
    <3> HIDE DEF r
    <3>5. \A w \in Requests : request'[w].seen = request[w].seen /\ (w # q => request'[w] = request[w])
      BY <3>1, <3>2 DEF Others
    <3>6. ASSUME NEW x \in Emails, guesses'[x] = guesses[x] PROVE Patient(x)'
      <4>1. Patient(x) /\ Guessers(x)' = Guessers(x) /\ Guessers(x) \subseteq Requests
        BY <3>3 DEF GuessInv, Guessers
      <4>2. \A w \in Requests : request'[w].pc = "comparing" => request[w].pc = "comparing"
        BY <2>1, <3>5
      <4>3. UNCHANGED <<tries, faults, crowded>>
        BY <2>1, <2>3
      <4>4. (\A w \in Guessers(x)' : request'[w].pc = "comparing") => guesses[x] <= tries[x] + faults
        BY <4>1, <4>2 DEF Patient
      <4>5. ASSUME NEW w \in Guessers(x)
            PROVE  /\ request'[w].seen < MaxTries
                   /\ guesses[x] <= request'[w].seen + 1 + faults
                   /\ w \notin crowded => Guessers(x) = {w}
                   /\ w \notin crowded /\ request'[w].pc = "comparing" => guesses[x] <= request'[w].seen + faults
        <5>1. w \in Requests
          BY <4>1
        <5>2. request'[w].seen = request[w].seen
          BY <3>5, <5>1
        <5> QED
          BY <4>1, <4>2, <5>1, <5>2 DEF Patient
      <4>6. guesses[x] <= MaxTries + faults /\ guesses[x] <= tries[x] + 1 + faults
        BY <4>1 DEF Patient
      <4> QED
        BY <3>6, <4>1, <4>3, <4>4, <4>5, <4>6 DEF Patient
    <3>7. ASSUME q \notin crowded PROVE Patient(e)'
      <4>1. /\ guesses'[e] = guesses[e] + 1 /\ tries'[e] = tries[e] /\ faults' = faults
            /\ guesses[e] \in Nat /\ tries[e] \in Nat /\ faults \in Nat
        BY <1>2, <2>1, <3>4, <3>7
      <4>2. Patient(e) /\ request[q].seen \in Nat
        BY <2>1, Numbers DEF GuessInv
      <4>3. Guessers(e) = {q} /\ guesses[e] <= request[q].seen + faults /\ request[q].seen < MaxTries
        BY <2>1, <3>3, <3>7, <4>2 DEF Patient
      <4>4. guesses[e] <= tries[e] + faults
        BY <2>1, <4>2, <4>3 DEF Patient
      <4>5. Guessers(e)' = {q} /\ request'[q].pc = "counting" /\ request'[q].seen = request[q].seen
        BY <2>1, <3>1, <3>2, <3>3, <4>3
      <4>6. ~ (\A w \in Guessers(e)' : request'[w].pc = "comparing")
        BY <4>5
      <4>7. ASSUME NEW w \in Guessers(e)'
            PROVE  /\ request'[w].seen < MaxTries
                   /\ guesses[e] + 1 <= request'[w].seen + 1 + faults
                   /\ Guessers(e)' = {w}
                   /\ request'[w].pc # "comparing"
        BY <4>1, <4>2, <4>3, <4>5, <4>7
      <4>8. guesses[e] + 1 <= MaxTries + faults /\ guesses[e] + 1 <= tries[e] + 1 + faults
        BY <4>1, <4>2, <4>3, <4>4
      <4> QED
        BY <4>1, <4>6, <4>7, <4>8 DEF Patient
    <3>8. ASSUME NEW x \in Emails PROVE Patient(x)'
      <4>1. CASE q \notin crowded /\ x = e
        <5>1. Patient(e)'
          BY <3>7, <4>1
        <5> QED
          BY <4>1, <5>1
      <4>2. CASE q \in crowded \/ x # e
        <5>1. guesses'[x] = guesses[x]
          BY <1>2, <2>1, <3>4, <4>2
        <5> QED
          BY <3>6, <5>1
      <4> QED
        BY <4>1, <4>2
    <3> QED
      BY <1>1, <3>8 DEF GuessInv
  <2> QED
    BY <1>15, <2>0, <2>2, <2>3 DEF Compare
<1>16. ASSUME NEW q \in Requests, CountTry(q) PROVE GuessInv'
  <2> DEFINE e == request[q].email
             n == request[q].seen + 1
  <2>1. /\ UNCHANGED <<guesses, faults>> /\ request[q].pc = "counting" /\ Others(q) /\ request'[q] = Idle
        /\ crowded' = crowded \ {q} /\ e \in Emails /\ tries' = [tries EXCEPT ![e] = n]
    BY <1>2, <1>16 DEF CountTry, Done, Become, Others, Holds
  <2>2. request[q].seen \in Nat /\ n \in Nat
    BY <1>2 DEF RequestType
  <2>3. q \in Guessers(e)
    BY <2>1 DEF Guessers, Guessing
  <2>4. ASSUME NEW x \in Emails
        PROVE  /\ Patient(x) /\ Guessers(x)' = Guessers(x) \ {q} /\ guesses'[x] = guesses[x]
               /\ \A w \in Guessers(x)' : request'[w] = request[w] /\ (w \in crowded' <=> w \in crowded)
    <3>1. Guessers(x)' = Guessers(x) \ {q}
      BY <2>1 DEF Guessers, Others, Idle, Guessing
    <3> QED
      BY <2>1, <3>1 DEF GuessInv, Others, Guessers
  <2> HIDE DEF e, n
\* The counter catches up with what has been judged.
  <2>5. /\ guesses[e] <= n + faults /\ tries'[e] = n
        /\ guesses[e] \in Nat /\ faults \in Nat /\ tries[e] \in Nat
    <3>1. guesses[e] <= request[q].seen + 1 + faults
      BY <2>1, <2>3, <2>4 DEF Patient
    <3> QED
      BY <1>2, <2>1, <3>1 DEF n
  <2>6. ASSUME NEW x \in Emails PROVE Patient(x)'
    <3>1. /\ guesses[x] <= tries'[x] + 1 + faults
          /\ (\A w \in Guessers(x)' : request'[w].pc = "comparing") => guesses[x] <= tries'[x] + faults
      <4>1. CASE x = e
        BY <2>2, <2>5, <4>1
      <4>2. CASE x # e
        <5>1. tries'[x] = tries[x]
          BY <1>2, <2>1, <4>2
        <5>2. q \notin Guessers(x)
          BY <4>2 DEF Guessers, e
        <5> QED
          BY <2>4, <5>1, <5>2 DEF Patient
      <4> QED
        BY <4>1, <4>2
    <3>2. ASSUME NEW w \in Guessers(x)'
          PROVE  /\ request'[w].seen < MaxTries
                 /\ guesses[x] <= request'[w].seen + 1 + faults
                 /\ w \notin crowded' => Guessers(x)' = {w}
                 /\ w \notin crowded' /\ request'[w].pc = "comparing" => guesses[x] <= request'[w].seen + faults
      <4>1. w \in Guessers(x) /\ request'[w] = request[w] /\ (w \in crowded' <=> w \in crowded)
        BY <2>4, <3>2
      <4>2. w \notin crowded => Guessers(x) = {w}
        BY <2>4, <4>1 DEF Patient
      <4>3. w \notin crowded' => Guessers(x)' = {w}
        BY <2>4, <3>2, <4>1, <4>2
      <4> QED
        BY <2>4, <4>1, <4>3 DEF Patient
    <3>3. guesses[x] <= MaxTries + faults
      BY <2>4 DEF Patient
    <3> QED
      BY <2>1, <2>4, <3>1, <3>2, <3>3 DEF Patient
  <2> QED
    BY <1>1, <2>6 DEF GuessInv
<1>17. ASSUME NEW x \in Emails, tries' = [tries EXCEPT ![x] = 0], guesses' = [guesses EXCEPT ![x] = 0],
              UNCHANGED <<faults, crowded>>,
              \A e \in Emails : /\ Guessers(e)' = Guessers(e)
                                /\ \A w \in Guessers(e) : request'[w] = request[w]
       PROVE  GuessInv'
  <2> SUFFICES ASSUME NEW e \in Emails PROVE Patient(e)'
    BY <1>1 DEF GuessInv
  <2>1. Patient(e) /\ \A w \in Guessers(e) : request[w].seen \in Nat
    BY Numbers DEF GuessInv, Guessers
  <2>2. CASE e = x
    <3>1. tries'[e] = 0 /\ guesses'[e] = 0 /\ faults' = faults
      BY <1>2, <1>17, <2>2
    <3>2. faults \in Nat
      BY <1>2
    <3> QED
      BY <1>17, <2>1, <3>1, <3>2 DEF Patient
  <2>3. CASE e # x
    <3>1. tries'[e] = tries[e] /\ guesses'[e] = guesses[e] /\ faults' = faults
      BY <1>2, <1>17, <2>3
    <3> QED
      BY <1>17, <2>1, <3>1 DEF Patient
  <2> QED
    BY <2>2, <2>3
<1>18. ASSUME NEW q \in Requests, ForgetTries(q) PROVE GuessInv'
  <2>1. request[q].pc = "forgetting tries" /\ Others(q) /\ request'[q] = Idle /\ request[q].email \in Emails
    BY <1>2, <1>18 DEF ForgetTries, Done, Become, Others, Holds
  <2>2. \A e \in Emails : /\ Guessers(e)' = Guessers(e)
                          /\ \A w \in Guessers(e) : request'[w] = request[w]
    <3> SUFFICES ASSUME NEW e \in Emails
                 PROVE  Guessers(e)' = Guessers(e) /\ \A w \in Guessers(e) : request'[w] = request[w]
      OBVIOUS
    <3>1. request[q].pc \notin Guessing /\ request'[q].pc \notin Guessing
      <4>1. Idle.pc = "idle"
        BY DEF Idle
      <4> QED
        BY <2>1, <4>1 DEF Guessing
    <3>2. Guessers(e)' = Guessers(e) \ {q} /\ q \notin Guessers(e)
      BY <2>1, <3>1, GuessersMove
    <3> QED
      BY <2>1, <3>2 DEF Others, Guessers
  <2> QED
    BY <1>17, <1>18, <2>1, <2>2 DEF ForgetTries
<1>19. ASSUME UNCHANGED <<tries, guesses, faults, crowded, request>> PROVE GuessInv'
  <2> SUFFICES ASSUME NEW e \in Emails PROVE Patient(e)'
    BY <1>1 DEF GuessInv
  <2>1. Patient(e) /\ Guessers(e)' = Guessers(e)
    BY <1>19 DEF GuessInv, Guessers
  <2> QED
    BY <1>19, <2>1 DEF Patient
<1>20. ASSUME NEW e \in Emails, ConnectInverter(e) \/ ExpireCode(e) \/ ExpireResends(e) \/ ExpireToken(e)
       PROVE  GuessInv'
  BY <1>19, <1>20 DEF ConnectInverter, ExpireCode, ExpireResends, ExpireToken, redis, history
<1>21. ASSUME NEW x \in Emails, ExpireTries(x) PROVE GuessInv'
  <2>1. \A e \in Emails : /\ Guessers(e)' = Guessers(e)
                          /\ \A w \in Guessers(e) : request'[w] = request[w]
    BY <1>21 DEF ExpireTries, Guessers
  <2> QED
    BY <1>17, <1>21, <2>1 DEF ExpireTries
<1>22. CASE UNCHANGED vars
  BY <1>19, <1>22 DEF vars, redis, history
<1> QED
  BY <1>6, <1>7, <1>8, <1>9, <1>10, <1>11, <1>12, <1>13, <1>14, <1>15, <1>16, <1>18, <1>20, <1>21, <1>22
     DEF Next

\* Whoever guesses one code at a time gets no more wrong ones judged than the limit, and one
\* more for each request that fails half way, however many requests for other or the same
\* addresses are under way before and after.
THEOREM PatientGuessesEnd == ValuesDistinct /\ MaxTries \in Nat => (Spec => []PatientGuesses)
<1> SUFFICES ASSUME ValuesDistinct, MaxTries \in Nat PROVE Spec => []PatientGuesses
  OBVIOUS
<1>1. Init => GuessInv
  <2> SUFFICES ASSUME Init PROVE GuessInv
    OBVIOUS
  <2>1. TypesInv
    BY TypesInit
  <2> SUFFICES ASSUME NEW e \in Emails PROVE Patient(e)
    BY <2>1 DEF GuessInv
  <2>2. guesses[e] = 0 /\ tries[e] = 0 /\ faults = 0 /\ Guessers(e) = {}
    BY DEF Init, Guessers, Guessing, Idle
  <2> QED
    BY <2>2 DEF Patient
<1>2. GuessInv /\ [Next]_vars => GuessInv'
  BY GuessStep
<1>3. GuessInv => PatientGuesses
  BY DEF GuessInv, Patient, PatientGuesses
<1> QED
  BY <1>1, <1>2, <1>3, PTL DEF Spec
=============================================================================
