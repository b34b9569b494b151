----------------------------- MODULE Onboarding -----------------------------
(***************************************************************************)
(* Sign-up, one-time codes, password reset and Google login.  An account   *)
(* is a users row; codes and counters live in Redis.  Each request is a    *)
(* row of `request' whose pc names the statement it awaits, so that two    *)
(* requests interleave there and nowhere else.                             *)
(***************************************************************************)
EXTENDS Naturals

CONSTANTS
  Emails,
  GoogleIds,
  Codes,      \* bound: one-time codes and reset tokens ever generated
  Requests,   \* bound: requests under way at once
  MaxTries,   \* wrong codes (and resends) until further ones are refused
  MaxFaults,  \* bound: requests that fail half way
  None

VARIABLES
  account,    \* users
  subs,       \* active subscription rows of an account
  otp, tries, resends, reset,   \* the Redis keys of an e-mail address
  mailed,     \* codes in the mailbox of an address
  request,    \* what each request is doing
  faults,
  crowded,    \* history: requests whose guess overlapped another of the same address
  guesses,    \* history: other wrong codes judged since the counter was last clear
  used        \* history: reset tokens whose reset went through

vars == <<account, subs, otp, tries, resends, reset, mailed, request, faults, crowded, guesses, used>>
redis == <<otp, tries, resends, reset>>
history == <<crowded, guesses, used>>

NoAccount == [exists |-> FALSE, google |-> None, verified |-> FALSE, step |-> 0]
Idle == [pc |-> "idle", kind |-> None, email |-> None, code |-> None, seen |-> 0]

Init ==
  /\ account = [e \in Emails |-> NoAccount]
  /\ subs = [e \in Emails |-> 0]
  /\ otp = [e \in Emails |-> None]
  /\ tries = [e \in Emails |-> 0]
  /\ resends = [e \in Emails |-> 0]
  /\ reset = [e \in Emails |-> None]
  /\ mailed = [e \in Emails |-> {}]
  /\ request = [q \in Requests |-> Idle]
  /\ faults = 0
  /\ crowded = {}
  /\ guesses = [e \in Emails |-> 0]
  /\ used = {}

Become(q, r) == request' = [request EXCEPT ![q] = r]
Done(q) == Become(q, Idle)
Start(q, pc, e) == request[q].pc = "idle" /\ Become(q, [Idle EXCEPT !.pc = pc, !.email = e])
Goto(q, pc) == Become(q, [request[q] EXCEPT !.pc = pc])

\* A code nobody has been given or told yet.
New(c) ==
  /\ c \in Codes
  /\ \A e \in Emails : c \notin mailed[e] /\ otp[e] # c /\ reset[e] # c
  /\ \A q \in Requests : request[q].code # c

-----------------------------------------------------------------------------
(* Sign-up and the codes that prove an address.                            *)

\* register has found no account with this address.
BeginRegister(q, e) ==
  /\ ~ account[e].exists
  /\ Start(q, "creating", e)
  /\ UNCHANGED <<account, subs, redis, mailed, faults, history>>

\* The unique index on the address settles a race of two sign-ups.
CreateAccount(q) ==
  LET e == request[q].email IN
  /\ request[q].pc = "creating"
  /\ IF account[e].exists
     THEN Done(q) /\ UNCHANGED account
     ELSE /\ account' = [account EXCEPT ![e] = [NoAccount EXCEPT !.exists = TRUE, !.step = 1]]
          /\ Goto(q, "storing")
  /\ UNCHANGED <<subs, redis, mailed, faults, history>>

\* login with the right password before the address is verified.
BeginLogin(q, e) ==
  /\ account[e].exists /\ ~ account[e].verified
  /\ Start(q, "storing", e)
  /\ UNCHANGED <<account, subs, redis, mailed, faults, history>>

\* resendVerificationEmail, with its own counter.
BeginResend(q, e) ==
  /\ account[e].exists
  /\ resends[e] < MaxTries
  /\ request[q].pc = "idle"
  /\ Become(q, [Idle EXCEPT !.pc = "resending", !.email = e, !.seen = resends[e]])
  /\ UNCHANGED <<account, subs, redis, mailed, faults, history>>

CountResend(q) ==
  /\ request[q].pc = "resending"
  /\ resends' = [resends EXCEPT ![request[q].email] = request[q].seen + 1]
  /\ Become(q, [request[q] EXCEPT !.pc = "storing", !.seen = 0])
  /\ UNCHANGED <<account, subs, otp, tries, reset, mailed, faults, history>>

\* sendVerificationEmail.
StoreCode(q, c) ==
  /\ request[q].pc = "storing"
  /\ New(c)
  /\ otp' = [otp EXCEPT ![request[q].email] = c]
  /\ Become(q, [request[q] EXCEPT !.pc = "mailing", !.code = c])
  /\ UNCHANGED <<account, subs, tries, resends, reset, mailed, faults, history>>

MailCode(q) ==
  /\ request[q].pc = "mailing"
  /\ mailed' = [mailed EXCEPT ![request[q].email] = @ \cup {request[q].code}]
  /\ Done(q)
  /\ UNCHANGED <<account, subs, redis, faults, history>>

-----------------------------------------------------------------------------
(* verifyEmail.                                                            *)

\* Somebody presents a code from the mailbox, or a wrong one (None).
BeginVerify(q, e, c) ==
  /\ account[e].exists /\ ~ account[e].verified
  /\ c \in mailed[e] \cup {None}
  /\ request[q].pc = "idle"
  /\ Become(q, [Idle EXCEPT !.pc = "admitting", !.kind = "verify", !.email = e, !.code = c])
  /\ UNCHANGED <<account, subs, redis, mailed, faults, history>>

\* Between reading the counter of wrong codes and writing it.
Guessing == {"comparing", "counting"}
Guessers(e) == {q \in Requests : request[q].pc \in Guessing /\ request[q].email = e}

\* The counter of wrong codes is read here and written in CountTry.
Admit(q) ==
  LET e == request[q].email IN
  /\ request[q].pc = "admitting"
  /\ IF tries[e] >= MaxTries
     THEN Done(q) /\ UNCHANGED crowded
     ELSE /\ Become(q, [request[q] EXCEPT !.pc = "comparing", !.seen = tries[e]])
          /\ crowded' = IF Guessers(e) = {} THEN crowded ELSE crowded \cup Guessers(e) \cup {q}
  /\ UNCHANGED <<account, subs, redis, mailed, faults, guesses, used>>

\* What is kept of a wrong code for PatientGuesses.
Judged(q) ==
  guesses' = IF q \in crowded THEN guesses ELSE [guesses EXCEPT ![request[q].email] = @ + 1]

\* Mutant: a wrong code is not counted.
CompareUncounted(q) ==
  LET e == request[q].email IN
  /\ request[q].pc = "comparing"
  /\ IF request[q].code # None /\ request[q].code = otp[e]
     THEN Become(q, [request[q] EXCEPT !.pc = "verifying", !.code = None, !.seen = 0])
          /\ UNCHANGED guesses
     ELSE Done(q) /\ Judged(q)
  /\ crowded' = crowded \ {q}
  /\ UNCHANGED <<account, subs, redis, mailed, faults, used>>

Compare(q) ==
  LET e == request[q].email IN
  /\ request[q].pc = "comparing"
  /\ IF request[q].code # None /\ request[q].code = otp[e]
     THEN Become(q, [request[q] EXCEPT !.pc = "verifying", !.code = None, !.seen = 0])
          /\ crowded' = crowded \ {q}
          /\ UNCHANGED guesses
     ELSE /\ Become(q, [request[q] EXCEPT !.pc = "counting", !.code = None])
          /\ Judged(q)
          /\ UNCHANGED crowded
  /\ UNCHANGED <<account, subs, redis, mailed, faults, used>>

CountTry(q) ==
  /\ request[q].pc = "counting"
  /\ tries' = [tries EXCEPT ![request[q].email] = request[q].seen + 1]
  /\ Done(q)
  /\ crowded' = crowded \ {q}
  /\ UNCHANGED <<account, subs, otp, resends, reset, mailed, faults, guesses, used>>

\* setEmailVerified, whatever the onboarding step is by now.
Verify(q) ==
  LET e == request[q].email IN
  /\ request[q].pc = "verifying"
  /\ account' = [account EXCEPT ![e] = [@ EXCEPT !.verified = TRUE, !.step = 2]]
  /\ Goto(q, "inspecting")
  /\ UNCHANGED <<subs, redis, mailed, faults, history>>

\* Mutant: the check of createFreeSubscription the wrong way round.
InspectInverted(q) ==
  /\ request[q].pc = "inspecting"
  /\ IF subs[request[q].email] = 0 THEN Done(q) ELSE Goto(q, "subscribing")
  /\ UNCHANGED <<account, subs, redis, mailed, faults, history>>

\* createFreeSubscription looks for an active one: a conflict ends the request.
Inspect(q) ==
  /\ request[q].pc = "inspecting"
  /\ IF subs[request[q].email] > 0 THEN Done(q) ELSE Goto(q, "subscribing")
  /\ UNCHANGED <<account, subs, redis, mailed, faults, history>>

\* The row is inserted; Google login is done, verifyEmail has keys to delete.
Subscribe(q) ==
  /\ request[q].pc = "subscribing"
  /\ subs' = [subs EXCEPT ![request[q].email] = @ + 1]
  /\ IF request[q].kind = "verify" THEN Goto(q, "forgetting code") ELSE Done(q)
  /\ UNCHANGED <<account, redis, mailed, faults, history>>

ForgetCode(q) ==
  /\ request[q].pc = "forgetting code"
  /\ otp' = [otp EXCEPT ![request[q].email] = None]
  /\ Goto(q, "forgetting tries")
  /\ UNCHANGED <<account, subs, tries, resends, reset, mailed, faults, history>>

ForgetTries(q) ==
  LET e == request[q].email IN
  /\ request[q].pc = "forgetting tries"
  /\ tries' = [tries EXCEPT ![e] = 0]
  /\ guesses' = [guesses EXCEPT ![e] = 0]
  /\ Done(q)
  /\ UNCHANGED <<account, subs, otp, resends, reset, mailed, faults, crowded, used>>

-----------------------------------------------------------------------------
(* Google login: findOrCreateByGoogle, and for the web a subscription.     *)

BeginGoogle(q, e, g, kind) ==
  /\ \/ /\ \E x \in Emails : account[x].google = g
        /\ kind = "web"
        /\ \E x \in Emails : account[x].google = g /\ Start(q, "inspecting", x)
     \/ /\ \A x \in Emails : account[x].google # g
        /\ account[e].google = None
        /\ request[q].pc = "idle"
        /\ Become(q, [Idle EXCEPT !.pc = "linking", !.kind = kind, !.email = e, !.code = g])
  /\ UNCHANGED <<account, subs, redis, mailed, faults, history>>

\* upsertByGoogle: INSERT ... ON CONFLICT (email) sets the id and verified.
Link(q) ==
  LET e == request[q].email IN
  /\ request[q].pc = "linking"
  /\ account' = [account EXCEPT ![e] =
                   [exists |-> TRUE, google |-> request[q].code, verified |-> TRUE,
                    step |-> IF account[e].exists THEN account[e].step ELSE 2]]
  /\ IF request[q].kind = "web"
     THEN Become(q, [request[q] EXCEPT !.pc = "inspecting", !.kind = None, !.code = None])
     ELSE Done(q)
  /\ UNCHANGED <<subs, redis, mailed, faults, history>>

\* connectUserInverter sets the last step.
ConnectInverter(e) ==
  /\ account[e].verified
  /\ account' = [account EXCEPT ![e] = [@ EXCEPT !.step = 3]]
  /\ UNCHANGED <<subs, redis, mailed, request, faults, history>>

-----------------------------------------------------------------------------
(* Password reset.                                                         *)

\* forgotPassword mails the token first and stores its hash then.
BeginForgot(q, e) ==
  /\ account[e].verified
  /\ Start(q, "mailing token", e)
  /\ UNCHANGED <<account, subs, redis, mailed, faults, history>>

MailToken(q, c) ==
  LET e == request[q].email IN
  /\ request[q].pc = "mailing token"
  /\ New(c)
  /\ mailed' = [mailed EXCEPT ![e] = @ \cup {c}]
  /\ Become(q, [request[q] EXCEPT !.pc = "storing token", !.code = c])
  /\ UNCHANGED <<account, subs, redis, faults, history>>

StoreToken(q) ==
  /\ request[q].pc = "storing token"
  /\ reset' = [reset EXCEPT ![request[q].email] = request[q].code]
  /\ Done(q)
  /\ UNCHANGED <<account, subs, otp, tries, resends, mailed, faults, history>>

\* resetPassword has compared the token with the stored hash.
BeginReset(q, e, c) ==
  /\ c \in mailed[e] /\ reset[e] = c
  /\ account[e].verified
  /\ request[q].pc = "idle"
  /\ Become(q, [Idle EXCEPT !.pc = "changing", !.email = e, !.code = c])
  /\ UNCHANGED <<account, subs, redis, mailed, faults, history>>

\* The password is updated and the owner told; only then the key is deleted.
ChangePassword(q) ==
  /\ request[q].pc = "changing"
  /\ Goto(q, "forgetting token")
  /\ UNCHANGED <<account, subs, redis, mailed, faults, history>>

\* Mutant: the stored hash stays.
KeepToken(q) ==
  /\ request[q].pc = "forgetting token"
  /\ used' = used \cup {request[q].code}
  /\ Done(q)
  /\ UNCHANGED <<account, subs, redis, mailed, faults, crowded, guesses>>

\* The key is deleted, whichever token it holds by now.
ForgetToken(q) ==
  /\ request[q].pc = "forgetting token"
  /\ reset' = [reset EXCEPT ![request[q].email] = None]
  /\ used' = used \cup {request[q].code}
  /\ Done(q)
  /\ UNCHANGED <<account, subs, otp, tries, resends, mailed, faults, crowded, guesses>>

-----------------------------------------------------------------------------
(* The surroundings.                                                       *)

\* A key outlives its 5 or 15 minutes.
ExpireCode(e) ==
  /\ otp[e] # None
  /\ otp' = [otp EXCEPT ![e] = None]
  /\ UNCHANGED <<account, subs, tries, resends, reset, mailed, request, faults, history>>

ExpireTries(e) ==
  /\ tries[e] > 0
  /\ tries' = [tries EXCEPT ![e] = 0]
  /\ guesses' = [guesses EXCEPT ![e] = 0]
  /\ UNCHANGED <<account, subs, otp, resends, reset, mailed, request, faults, crowded, used>>

ExpireResends(e) ==
  /\ resends[e] > 0
  /\ resends' = [resends EXCEPT ![e] = 0]
  /\ UNCHANGED <<account, subs, otp, tries, reset, mailed, request, faults, history>>

ExpireToken(e) ==
  /\ reset[e] # None
  /\ reset' = [reset EXCEPT ![e] = None]
  /\ UNCHANGED <<account, subs, otp, tries, resends, mailed, request, faults, history>>

\* The database, Redis, the mail queue or the process fails a request.
Fail(q) ==
  /\ request[q].pc # "idle"
  /\ faults < MaxFaults
  /\ faults' = faults + 1
  /\ Done(q)
  /\ crowded' = crowded \ {q}
  /\ UNCHANGED <<account, subs, redis, mailed, guesses, used>>

Next ==
  \/ \E q \in Requests :
       \/ \E e \in Emails :
            \/ BeginRegister(q, e) \/ BeginLogin(q, e) \/ BeginResend(q, e) \/ BeginForgot(q, e)
            \/ \E c \in Codes \cup {None} : BeginVerify(q, e, c)
            \/ \E c \in Codes : BeginReset(q, e, c)
            \/ \E g \in GoogleIds, kind \in {"web", "mobile"} : BeginGoogle(q, e, g, kind)
       \/ \E c \in Codes : StoreCode(q, c) \/ MailToken(q, c)
       \/ CreateAccount(q) \/ CountResend(q) \/ MailCode(q)
       \/ Admit(q) \/ Compare(q) \/ CountTry(q) \/ Verify(q) \/ Inspect(q) \/ Subscribe(q)
       \/ ForgetCode(q) \/ ForgetTries(q)
       \/ Link(q) \/ StoreToken(q) \/ ChangePassword(q) \/ ForgetToken(q)
       \/ Fail(q)
  \/ \E e \in Emails : \/ ConnectInverter(e)
                       \/ ExpireCode(e) \/ ExpireTries(e) \/ ExpireResends(e) \/ ExpireToken(e)

Spec == Init /\ [][Next]_vars

-----------------------------------------------------------------------------
\* Whoever awaits the answer to one wrong code before sending the next gets no
\* more of them than the limit, and one for each request that dies before it has
\* counted its own: also when others verify the same address at other times, write
\* back a counter they read before, or resets and expiries come in between.
\* Requests that guess at the same time all read one counter and are not limited
\* by it: nothing in the code bounds what they get (auth.service.ts, verifyEmail).
PatientGuesses == \A e \in Emails : guesses[e] <= MaxTries + faults

Verifying(e) == \E q \in Requests : /\ request[q].email = e
                                    /\ request[q].pc \in {"inspecting", "subscribing"}

\* A user who verified by code has a subscription, unless the request failed
\* between the two writes: nothing makes up for it later, because a verified
\* user's next attempt returns at once (auth.service.ts, verifyEmail).
VerifiedAreSubscribed ==
  \A e \in Emails : /\ account[e].verified /\ account[e].google = None
                    /\ faults = 0 /\ ~ Verifying(e)
                    => subs[e] > 0

\* A reset token whose reset went through opens no other one, whatever other
\* requests for the same address are under way.
ResetTokenUsedUp ==
  [][\A q \in Requests : request[q].pc = "idle" /\ request'[q].pc = "changing"
                         => request'[q].code \notin used]_vars
=============================================================================
