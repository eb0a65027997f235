---------------------------- MODULE AuthSession ----------------------------
(* The operator's sign-in: the auth part of the dashboard store (state.js),  *)
(* the login forms that call it (login.js) and the Cognito client under it   *)
(* (cognito.js).  Every call to Cognito is a request in flight that is       *)
(* answered later, in any order: the store patches whatever the form has     *)
(* become by then.  A page load keeps only what the browser stores.          *)
EXTENDS Integers

CONSTANTS
    Account,    \* the email addresses that sign in or sign up
    None,       \* null, and the empty login email
    MaxCalls    \* bound: requests to Cognito in flight at once

VARIABLES
    page,       \* the page that is open: the landing page or the console
    storage,    \* localStorage can be written (a private window may refuse)
    session,    \* state.session: the email shown, and the account of its tokens
    stored,     \* the session in localStorage
    sdk,        \* the account whose tokens the Cognito SDK keeps
    halfDone,   \* history: they come from an enrolment that was not completed
    form,       \* authMode, loginStep, loginEmail, loginBusy and pendingUser
    calls,      \* the requests in flight
    late        \* history: an answer came after its form had been left

tokens == <<sdk, halfDone>>
authVars == <<page, storage, session, stored, tokens, form, calls, late>>

CallId == 1 .. MaxCalls
Challenges == {"mfa_totp", "mfa_setup"}
Ops == {"signIn", "signUp", "confirm", "resend", "totp", "setup", "restore"}

Person == Account \cup {None}
Session == [email : Person, of : Account]
Pending == [account : Account, challenge : Challenges]

ASSUME AuthAssumption ==
    /\ None \notin Account /\ None \notin Session /\ None \notin Pending
    /\ MaxCalls \in Nat \ {0}

Call == [op : Ops, for : Person, stale : BOOLEAN]
Form == [mode : {"signin", "signup"},
         step : {"credentials", "signup_form", "confirm_signup"} \cup Challenges,
         email : Person, busy : BOOLEAN, pending : Pending \cup {None}]

InitialForm == [mode |-> "signin", step |-> "credentials", email |-> None,
                busy |-> FALSE, pending |-> None]
NoCalls == [c \in CallId |-> None]

(***************************************************************************)
(* Requests.  A request is stale once the form it was sent from was left.   *)
(***************************************************************************)
Open(c) == calls[c] # None
Aged == [c \in CallId |-> IF Open(c) THEN [calls[c] EXCEPT !.stale = TRUE]
                                     ELSE None]

Send(op, who) ==
    \E c \in CallId :
        /\ ~Open(c)
        /\ \A d \in 1 .. c - 1 : Open(d)
        /\ calls' = [calls EXCEPT ![c] = [op |-> op, for |-> who,
                                          stale |-> FALSE]]

Asked(c, op) == Open(c) /\ calls[c].op = op
Answered(c) == calls' = [calls EXCEPT ![c] = None]
AnsweredAndLeft(c) == calls' = [Aged EXCEPT ![c] = None]
NoteLate(c) == late' = (late \/ calls[c].stale)

Persist(s) == stored' = IF storage THEN s ELSE None

(***************************************************************************)
(* What the login screen offers.  Submit buttons are disabled while busy;   *)
(* the six-digit inputs submit by themselves and the links always work.     *)
(***************************************************************************)
Console == page = "console"
LoginShown == Console /\ session = None

SwitchOffered(mode) ==
    \/ mode = "signup" /\ form.step = "credentials"
    \/ mode = "signin" /\ (form.step = "signup_form" \/ form.mode = "signup")

SetAuthMode(mode) ==
    /\ LoginShown /\ SwitchOffered(mode)
    /\ form' = [form EXCEPT !.mode = mode, !.busy = FALSE, !.pending = None,
                  !.step = IF mode = "signup" THEN "signup_form" ELSE "credentials"]
    /\ calls' = Aged
    /\ late' = FALSE
    /\ UNCHANGED <<page, storage, session, stored, tokens>>

ResetLogin ==
    /\ LoginShown /\ form.step \in Challenges
    /\ form' = InitialForm
    /\ calls' = Aged
    /\ late' = FALSE
    /\ UNCHANGED <<page, storage, session, stored, tokens>>

Busy(f) == [f EXCEPT !.busy = TRUE]
Idle(f) == [f EXCEPT !.busy = FALSE]

\* Mutant: the login email is only remembered the first time.
BeginKeepsEmail(op, step, a) ==
    /\ LoginShown /\ form.step = step /\ ~form.busy
    /\ form' = [Busy(form) EXCEPT !.email = IF @ = None THEN a ELSE @]
    /\ Send(op, a)
    /\ UNCHANGED <<page, storage, session, stored, tokens, late>>

\* Request for account a from a form with a submit button.
Begin(op, step, a) ==
    /\ LoginShown /\ form.step = step /\ ~form.busy
    /\ form' = [Busy(form) EXCEPT !.email = a]
    /\ Send(op, a)
    /\ UNCHANGED <<page, storage, session, stored, tokens, late>>

BeginSignIn(a) == Begin("signIn", "credentials", a)
BeginSignUp(a) == Begin("signUp", "signup_form", a)

ConfirmSignUp ==
    /\ LoginShown /\ form.step = "confirm_signup"
    /\ form' = Busy(form)
    /\ Send("confirm", form.email)
    /\ UNCHANGED <<page, storage, session, stored, tokens, late>>

ResendConfirmation ==
    /\ LoginShown /\ form.step = "confirm_signup" /\ form.email # None
    /\ Send("resend", form.email)
    /\ UNCHANGED <<page, storage, session, stored, tokens, form, late>>

SubmitCode(op, step) ==
    /\ LoginShown /\ form.step = step
    /\ form.pending # None
    /\ form' = Busy(form)
    /\ Send(op, form.pending.account)
    /\ UNCHANGED <<page, storage, session, stored, tokens, late>>

SubmitTotp == SubmitCode("totp", "mfa_totp")
SubmitTotpSetup == SubmitCode("setup", "mfa_setup")

(***************************************************************************)
(* The answers.                                                            *)
(***************************************************************************)

\* The tokens are cached by the SDK, and the store starts over with a session.
Grant(c, email) ==
    /\ session' = [email |-> email, of |-> calls[c].for]
    /\ Persist(session')
    /\ sdk' = calls[c].for /\ halfDone' = FALSE
    /\ form' = InitialForm
    /\ AnsweredAndLeft(c)
    /\ NoteLate(c)
    /\ UNCHANGED <<page, storage>>

SignInGranted(c) == Asked(c, "signIn") /\ Grant(c, calls[c].for)
\* The session is named after the login email at the time of the answer.
TotpAccepted(c) == Asked(c, "totp") /\ Grant(c, form.email)
SetupAccepted(c) == Asked(c, "setup") /\ Grant(c, form.email)

\* Mutant: the Cognito user that waits for the code is not kept.
SignInChallengedDropsUser(c, challenge) ==
    /\ Asked(c, "signIn")
    /\ form' = [Idle(form) EXCEPT !.step = challenge]
    /\ AnsweredAndLeft(c)
    /\ NoteLate(c)
    /\ UNCHANGED <<page, storage, session, stored, tokens>>

\* Cognito asks for a code, or for the enrolment of an authenticator.
SignInChallenged(c, challenge) ==
    /\ Asked(c, "signIn")
    /\ form' = [Idle(form) EXCEPT !.step = challenge,
                  !.pending = [account |-> calls[c].for, challenge |-> challenge]]
    /\ AnsweredAndLeft(c)
    /\ NoteLate(c)
    /\ UNCHANGED <<page, storage, session, stored, tokens>>

SignedUp(c) ==
    /\ Asked(c, "signUp")
    /\ form' = [Idle(form) EXCEPT !.step = "confirm_signup"]
    /\ AnsweredAndLeft(c)
    /\ NoteLate(c)
    /\ UNCHANGED <<page, storage, session, stored, tokens>>

SignUpConfirmed(c) ==
    /\ Asked(c, "confirm")
    /\ form' = [Idle(form) EXCEPT !.mode = "signin", !.step = "credentials"]
    /\ AnsweredAndLeft(c)
    /\ NoteLate(c)
    /\ UNCHANGED <<page, storage, session, stored, tokens>>

\* Mutant: a failure leaves the form waiting.
RefusedStaysBusy(c) ==
    /\ Open(c) /\ calls[c].op \notin {"resend", "restore"}
    /\ Answered(c)
    /\ NoteLate(c)
    /\ UNCHANGED <<page, storage, session, stored, tokens, form>>

\* A failure, or an answer the store does not expect, ends the attempt.
Refused(c) ==
    /\ Open(c) /\ calls[c].op \notin {"resend", "restore"}
    /\ form' = Idle(form)
    /\ Answered(c)
    /\ NoteLate(c)
    /\ UNCHANGED <<page, storage, session, stored, tokens>>

\* The code was right and the tokens are cached, but the second request,
\* which makes TOTP the preferred factor, failed.
SetupHalfDone(c) ==
    /\ Asked(c, "setup")
    /\ sdk' = calls[c].for /\ halfDone' = TRUE
    /\ form' = Idle(form)
    /\ Answered(c)
    /\ NoteLate(c)
    /\ UNCHANGED <<page, storage, session, stored>>

ResendAnswered(c) ==
    /\ Asked(c, "resend")
    /\ Answered(c)
    /\ UNCHANGED <<page, storage, session, stored, tokens, form, late>>

(***************************************************************************)
(* Leaving, loading and hydrating.                                         *)
(***************************************************************************)
\* Mutant: the tokens survive the sign-out.
SignOutKeepsTokens ==
    /\ Console /\ session # None
    /\ session' = None
    /\ Persist(None)
    /\ form' = InitialForm
    /\ calls' = Aged
    /\ late' = FALSE
    /\ UNCHANGED <<page, storage, tokens>>

SignOut ==
    /\ Console /\ session # None
    /\ sdk' = None /\ halfDone' = FALSE
    /\ session' = None
    /\ Persist(None)
    /\ form' = InitialForm
    /\ calls' = Aged
    /\ late' = FALSE
    /\ UNCHANGED <<page, storage>>

Own(a) == [email |-> a, of |-> a]

\* The store is built anew from localStorage, then hydrateFromCognito runs:
\* tokens still valid restore the session at once, others are refreshed.
LoadAuth ==
    /\ page' = "console"
    /\ form' = InitialForm
    /\ sdk' = IF storage THEN sdk ELSE None
    /\ \/ /\ sdk' # None
          /\ session' = Own(sdk')
          /\ stored' = session' /\ halfDone' = FALSE
          /\ calls' = NoCalls
       \/ /\ session' = stored
          /\ calls' = IF sdk' = None THEN NoCalls
                      ELSE [NoCalls EXCEPT ![1] = [op |-> "restore", for |-> sdk',
                                                   stale |-> FALSE]]
          /\ UNCHANGED <<stored, halfDone>>
    /\ late' = (late /\ session' # None)
    /\ UNCHANGED storage

\* The refreshed session is installed whatever happened since the page loaded.
Restored(c) ==
    /\ Asked(c, "restore")
    /\ session' = Own(calls[c].for)
    /\ Persist(session')
    /\ sdk' = calls[c].for /\ halfDone' = FALSE
    /\ Answered(c)
    /\ UNCHANGED <<page, storage, form, late>>

\* Refused tokens are dropped by the SDK; the stored session stays on screen.
RestoreFailed(c) ==
    /\ Asked(c, "restore")
    /\ sdk' \in {sdk, None}
    /\ Answered(c)
    /\ UNCHANGED <<page, storage, session, stored, halfDone, form, late>>

\* Another page is loaded: nothing runs, the browser's storage remains.
LeaveAuth ==
    /\ Console
    /\ page' = "landing"
    /\ session' = None
    /\ form' = InitialForm
    /\ sdk' = IF storage THEN sdk ELSE None
    /\ calls' = NoCalls
    /\ late' = (late /\ stored # None)
    /\ UNCHANGED <<storage, stored, halfDone>>

(***************************************************************************)
(* The specification of the login by itself.                               *)
(***************************************************************************)
AuthInit ==
    /\ page = "landing"
    /\ storage \in BOOLEAN
    /\ session = None /\ stored = None /\ sdk = None /\ halfDone = FALSE
    /\ form = InitialForm
    /\ calls = NoCalls
    /\ late = FALSE

Operator ==
    \/ \E mode \in {"signin", "signup"} : SetAuthMode(mode)
    \/ ResetLogin
    \/ \E a \in Account : BeginSignIn(a) \/ BeginSignUp(a)
    \/ ConfirmSignUp
    \/ SubmitTotp \/ SubmitTotpSetup

Granted(c) == SignInGranted(c) \/ TotpAccepted(c) \/ SetupAccepted(c)

NotGranted(c) ==
    \/ \E challenge \in Challenges : SignInChallenged(c, challenge)
    \/ SignedUp(c) \/ SignUpConfirmed(c)
    \/ Refused(c) \/ SetupHalfDone(c) \/ ResendAnswered(c)
    \/ Restored(c)

AuthNext ==
    \/ Operator \/ ResendConfirmation
    \/ \E c \in CallId : Granted(c) \/ NotGranted(c) \/ RestoreFailed(c)
    \/ SignOut \/ LoadAuth \/ LeaveAuth

AuthSpec == AuthInit /\ [][AuthNext]_authVars

(***************************************************************************)
(* Properties.                                                             *)
(***************************************************************************)

\* Type correctness of the store's auth part.
AuthTypeOK ==
    /\ page \in {"landing", "console"}
    /\ storage \in BOOLEAN /\ late \in BOOLEAN /\ halfDone \in BOOLEAN
    /\ session \in Session \cup {None}
    /\ stored \in Session \cup {None}
    /\ sdk \in Account \cup {None}
    /\ form \in Form
    /\ calls \in [CallId -> Call \cup {None}]

\* A form that asks for a six-digit code has the Cognito user that waits for
\* that very code, so that submitTotp and submitTotpSetup never return without
\* doing anything, and never answer the other challenge (state.js).
CodeGoesToItsChallenge ==
    form.step \in Challenges =>
        /\ form.pending # None
        /\ form.pending.challenge = form.step

\* As long as no answer came after its form was left, the step belongs to the
\* mode as the comment above the store's initial state says, the challenge is
\* the one of the email on screen, and the session is named after the account
\* it belongs to (state.js).
StepsOf(mode) == IF mode = "signin" THEN {"credentials"} \cup Challenges
                                    ELSE {"signup_form", "confirm_signup"}
CleanUnlessLate ==
    ~late => /\ form.step \in StepsOf(form.mode)
             /\ form.step \in Challenges => form.pending.account = form.email
             /\ session # None => session.email = session.of

\* What a page load will show is what is on screen, unless the browser refuses to
\* store: the stored session is the one in the store, and tokens the SDK keeps are
\* of that session's account.  So a login screen has neither behind it, and a page
\* load after a sign-out shows the login again.  The one exception is an enrolment
\* that failed half-way, whose tokens the next page load signs in with.  A request
\* still in flight at the sign-out may sign in again (persistSession and
\* hydrateFromCognito in state.js, verifyTotpSetup in cognito.js).
ReloadKeepsSession ==
    storage => /\ Console => stored = session
               /\ sdk # None /\ ~halfDone => stored # None /\ stored.of = sdk

\* A login form that waits for Cognito stops waiting.
EveryAttemptEnds == form.busy ~> ~form.busy

=============================================================================
