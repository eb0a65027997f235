------------------------- MODULE AuthSessionProofs -------------------------
(* What holds of the operator's sign-in for any number of accounts and of    *)
(* requests in flight.                                                       *)
EXTENDS AuthSession, TLAPS

USE DEF tokens

(***************************************************************************)
(* The inductive invariant.  A fresh request fits the form it was sent      *)
(* from, and only one form with a submit button is under way.               *)
(***************************************************************************)
Fresh(c) == Open(c) /\ ~calls[c].stale
FromButton(c) == calls[c].op \in {"signIn", "signUp"}

FitsForm(call) ==
    /\ call.op = "signIn" => form.step = "credentials" /\ form.busy /\ form.email = call.for
    /\ call.op = "signUp" => form.step = "signup_form" /\ form.busy
    /\ call.op = "confirm" => form.step = "confirm_signup"
    /\ call.op = "totp" => form.step = "mfa_totp" /\ form.email = call.for
    /\ call.op = "setup" => form.step = "mfa_setup" /\ form.email = call.for

\* The requests that may grant a session are sent for an account.
Owned == \A c \in CallId :
    Open(c) /\ calls[c].op \in {"signIn", "totp", "setup", "restore"}
       => calls[c].for \in Account

Named(s) == s # None => s.email = s.of

StoredWithSession ==
    /\ ~storage => stored = None
    /\ Console /\ storage => stored = session
    /\ storage /\ sdk # None /\ ~halfDone => stored # None /\ stored.of = sdk

CleanForm ==
    /\ form.step \in StepsOf(form.mode)
    /\ form.step \in Challenges => form.pending.account = form.email

FreshFit == \A c \in CallId : Fresh(c) => FitsForm(calls[c])
OneButton == \A c, d \in CallId :
    Fresh(c) /\ Fresh(d) /\ FromButton(c) /\ FromButton(d) => c = d

Clean == ~late => /\ CleanForm
                  /\ Named(session) /\ Named(stored)
                  /\ FreshFit /\ OneButton

IInv == AuthTypeOK /\ Owned /\ CodeGoesToItsChallenge /\ StoredWithSession /\ Clean

(***************************************************************************)
(* Types.                                                                  *)
(***************************************************************************)

\* Sending, ageing and answering requests (state.js, cognito.js) leaves every
\* slot with a request or empty.
LEMMA RequestTypes ==
    ASSUME AuthTypeOK
    PROVE  /\ Aged \in [CallId -> Call \cup {None}]
           /\ NoCalls \in [CallId -> Call \cup {None}]
           /\ \A c \in CallId : /\ Answered(c) => calls' \in [CallId -> Call \cup {None}]
                                /\ AnsweredAndLeft(c) => calls' \in [CallId -> Call \cup {None}]
           /\ \A op \in Ops, who \in Person :
                 Send(op, who) => calls' \in [CallId -> Call \cup {None}]
<1>1. Aged \in [CallId -> Call \cup {None}]
  BY DEF AuthTypeOK, Aged, Open, Call
<1>2. NoCalls \in [CallId -> Call \cup {None}]
  BY DEF NoCalls
<1>3. \A op \in Ops, who \in Person :
        Send(op, who) => calls' \in [CallId -> Call \cup {None}]
  BY DEF AuthTypeOK, Send, Call
<1> QED
  BY <1>1, <1>2, <1>3 DEF AuthTypeOK, Answered, AnsweredAndLeft

\* Every answer is to a request of a known account or of nobody.
LEMMA AskedTypes ==
    ASSUME AuthTypeOK, NEW c \in CallId, Open(c)
    PROVE  calls[c] \in Call /\ calls[c].for \in Person /\ calls[c].stale \in BOOLEAN
BY DEF AuthTypeOK, Open, Call

\* The form the store starts with, and every patch of loginBusy and
\* loginEmail, is a form (state.js).
LEMMA FormTypes ==
    ASSUME form \in Form
    PROVE  /\ InitialForm \in Form /\ Busy(form) \in Form /\ Idle(form) \in Form
           /\ \A a \in Person : [Busy(form) EXCEPT !.email = a] \in Form
BY DEF Form, InitialForm, Busy, Idle, Person

\* Every step keeps the types.
LEMMA TypeStep ==
    ASSUME AuthTypeOK, Owned, AuthNext
    PROVE  AuthTypeOK'
<1> USE RequestTypes, FormTypes
<1>1. ASSUME NEW mode \in {"signin", "signup"}, SetAuthMode(mode)
      PROVE  AuthTypeOK'
  <2>1. form' \in Form
    BY <1>1 DEF SetAuthMode, AuthTypeOK, Form
  <2>2. calls' \in [CallId -> Call \cup {None}]
    BY <1>1 DEF SetAuthMode
  <2> QED
    BY <1>1, <2>1, <2>2 DEF SetAuthMode, AuthTypeOK
<1>2. CASE ResetLogin
  BY <1>2 DEF ResetLogin, AuthTypeOK
<1>3. ASSUME NEW a \in Account, BeginSignIn(a) \/ BeginSignUp(a)
      PROVE  AuthTypeOK'
  BY <1>3 DEF BeginSignIn, BeginSignUp, Begin, AuthTypeOK, Person, Ops
<1>4. CASE ConfirmSignUp
  BY <1>4 DEF ConfirmSignUp, AuthTypeOK, Form, Ops
<1>5. CASE ResendConfirmation
  BY <1>5 DEF ResendConfirmation, AuthTypeOK, Form, Ops
<1>6. ASSUME NEW op \in {"totp", "setup"}, NEW step, SubmitCode(op, step)
      PROVE  AuthTypeOK'
  BY <1>6 DEF SubmitCode, AuthTypeOK, Form, Pending, Person, Ops
<1>7. ASSUME NEW c \in CallId, Granted(c)
      PROVE  AuthTypeOK'
  <2>1. calls[c].for \in Account /\ calls[c].stale \in BOOLEAN /\ form.email \in Person
    BY <1>7, AskedTypes DEF Granted, SignInGranted, TotpAccepted, SetupAccepted, Asked, Owned, AuthTypeOK, Form
  <2>2. PICK email \in Person : Grant(c, email)
    BY <1>7, <2>1 DEF Granted, SignInGranted, TotpAccepted, SetupAccepted, Person
  <2>3. session' \in Session /\ stored' \in Session \cup {None}
    BY <2>1, <2>2 DEF Grant, Session, Persist
  <2> QED
    BY <2>1, <2>2, <2>3 DEF Grant, NoteLate, AuthTypeOK
<1>8. ASSUME NEW c \in CallId, NotGranted(c)
      PROVE  AuthTypeOK'
  <2>1. ASSUME NEW challenge \in Challenges, SignInChallenged(c, challenge)
        PROVE  AuthTypeOK'
    <3>1. calls[c].for \in Account /\ calls[c].stale \in BOOLEAN
      BY <2>1, AskedTypes DEF SignInChallenged, Asked, Owned
    <3>2. form' \in Form
      BY <2>1, <3>1 DEF SignInChallenged, Idle, AuthTypeOK, Form, Pending
    <3> QED
      BY <2>1, <3>1, <3>2 DEF SignInChallenged, NoteLate, AuthTypeOK
  <2>2. CASE SignedUp(c)
    BY <2>2, AskedTypes DEF SignedUp, Asked, Idle, NoteLate, AuthTypeOK, Form
  <2>3. CASE SignUpConfirmed(c)
    BY <2>3, AskedTypes DEF SignUpConfirmed, Asked, Idle, NoteLate, AuthTypeOK, Form
  <2>4. CASE Refused(c)
    BY <2>4, AskedTypes DEF Refused, NoteLate, AuthTypeOK
  <2>5. CASE SetupHalfDone(c)
    BY <2>5, AskedTypes DEF SetupHalfDone, Asked, NoteLate, AuthTypeOK, Owned
  <2>6. CASE ResendAnswered(c)
    BY <2>6 DEF ResendAnswered, AuthTypeOK
  <2>7. CASE Restored(c)
    BY <2>7, AskedTypes DEF Restored, Asked, Own, Persist, Session, AuthTypeOK, Owned, Person
  <2> QED
    BY <1>8, <2>1, <2>2, <2>3, <2>4, <2>5, <2>6, <2>7 DEF NotGranted
<1>9. ASSUME NEW c \in CallId, RestoreFailed(c)
      PROVE  AuthTypeOK'
  BY <1>9 DEF RestoreFailed, AuthTypeOK
<1>10. CASE SignOut
  BY <1>10 DEF SignOut, Persist, AuthTypeOK
<1>11. CASE LoadAuth
  <2>1. sdk' \in Account \cup {None} /\ form' \in Form /\ late' \in BOOLEAN
    BY <1>11 DEF LoadAuth, AuthTypeOK
  <2>2. session' \in Session \cup {None} /\ stored' \in Session \cup {None}
    BY <1>11, <2>1 DEF LoadAuth, AuthTypeOK, Own, Session, Person
  <2>3. calls' \in [CallId -> Call \cup {None}]
    <3>1. sdk' # None =>
            [op |-> "restore", for |-> sdk', stale |-> FALSE] \in Call
      BY <2>1 DEF Call, Person, Ops
    <3>2. ASSUME NEW r \in Call
          PROVE  [NoCalls EXCEPT ![1] = r] \in [CallId -> Call \cup {None}]
      BY DEF NoCalls
    <3> QED
      BY <1>11, <3>1, <3>2 DEF LoadAuth
  <2> QED
    BY <1>11, <2>1, <2>2, <2>3 DEF LoadAuth, AuthTypeOK
<1>12. CASE LeaveAuth
  BY <1>12 DEF LeaveAuth, AuthTypeOK
<1> QED
  BY <1>1, <1>2, <1>3, <1>4, <1>5, <1>6, <1>7, <1>8, <1>9, <1>10, <1>11, <1>12
     DEF AuthNext, Operator, SubmitTotp, SubmitTotpSetup


(***************************************************************************)
(* The rest of the invariant.                                              *)
(***************************************************************************)

\* What Send does to every slot: one empty slot gets a fresh request.
LEMMA SendAddsFresh ==
    ASSUME AuthTypeOK, NEW op, NEW who, Send(op, who)
    PROVE  \E c \in CallId :
             /\ ~Open(c)
             /\ calls'[c] = [op |-> op, for |-> who, stale |-> FALSE]
             /\ \A d \in CallId \ {c} : calls'[d] = calls[d]
BY DEF Send, AuthTypeOK

\* After a form has been left no request is fresh.
LEMMA AgedIsStale ==
    ASSUME AuthTypeOK
    PROVE  /\ \A c \in CallId : Aged[c] # None =>
                 /\ Open(c) /\ Aged[c].stale
                 /\ Aged[c].op = calls[c].op /\ Aged[c].for = calls[c].for
           /\ \A c, d \in CallId : [Aged EXCEPT ![c] = None][d] # None =>
                 /\ Open(d) /\ [Aged EXCEPT ![c] = None][d].stale
                 /\ [Aged EXCEPT ![c] = None][d].op = calls[d].op
                 /\ [Aged EXCEPT ![c] = None][d].for = calls[d].for
<1>1. \A c \in CallId : Aged[c] # None =>
         /\ Open(c) /\ Aged[c].stale
         /\ Aged[c].op = calls[c].op /\ Aged[c].for = calls[c].for
  <2> SUFFICES ASSUME NEW c \in CallId, Aged[c] # None
               PROVE  /\ Open(c) /\ Aged[c].stale
                      /\ Aged[c].op = calls[c].op /\ Aged[c].for = calls[c].for
    OBVIOUS
  <2>1. Open(c) /\ Aged[c] = [calls[c] EXCEPT !.stale = TRUE]
    BY DEF Aged
  <2>2. calls[c] \in Call
    BY <2>1, AskedTypes
  <2> QED
    BY <2>1, <2>2 DEF Call
<1> QED
  BY <1>1 DEF Aged

\* Every step keeps the requests owned.
LEMMA OwnedStep ==
    ASSUME AuthTypeOK, Owned, CodeGoesToItsChallenge, AuthNext
    PROVE  Owned'
<1>1. ASSUME \A c \in CallId : calls'[c] # None =>
                Open(c) /\ calls'[c].op = calls[c].op /\ calls'[c].for = calls[c].for
      PROVE  Owned'
  BY <1>1 DEF Owned, Open
<1>2. ASSUME NEW op, NEW who, Send(op, who), who \in Account \/ op \in {"signUp", "confirm", "resend"}
      PROVE  Owned'
  <2>1. PICK c \in CallId :
             /\ calls'[c] = [op |-> op, for |-> who, stale |-> FALSE]
             /\ \A d \in CallId \ {c} : calls'[d] = calls[d]
    BY <1>2, SendAddsFresh
  <2> QED
    BY <1>2, <2>1 DEF Owned, Open
<1>3. ASSUME UNCHANGED calls \/ calls' = Aged
      PROVE  Owned'
  BY <1>1, <1>3, AgedIsStale DEF Open
<1>4. ASSUME NEW c \in CallId, Answered(c) \/ AnsweredAndLeft(c)
      PROVE  Owned'
  <2>1. CASE Answered(c)
    BY <1>1, <2>1 DEF Answered, AuthTypeOK, Open
  <2>2. CASE AnsweredAndLeft(c)
    BY <1>1, <2>2, AgedIsStale DEF AnsweredAndLeft
  <2> QED
    BY <1>4, <2>1, <2>2
<1>5. CASE Operator
  <2>1. ASSUME NEW op \in {"totp", "setup"}, NEW step, SubmitCode(op, step)
        PROVE  Owned'
    BY <1>2, <2>1 DEF SubmitCode, AuthTypeOK, Form, Pending
  <2> QED
    BY <1>2, <1>3, <1>5, <2>1
       DEF Operator, SetAuthMode, ResetLogin, BeginSignIn, BeginSignUp, Begin,
           ConfirmSignUp, SubmitTotp, SubmitTotpSetup
<1>6. CASE ResendConfirmation
  BY <1>2, <1>6 DEF ResendConfirmation
<1>7. ASSUME NEW c \in CallId, Granted(c) \/ NotGranted(c) \/ RestoreFailed(c)
      PROVE  Owned'
  BY <1>4, <1>7
     DEF Granted, SignInGranted, TotpAccepted, SetupAccepted, Grant, NotGranted,
         SignInChallenged, SignedUp, SignUpConfirmed, Refused, SetupHalfDone,
         ResendAnswered, Restored, RestoreFailed
<1>8. CASE SignOut
  BY <1>3, <1>8 DEF SignOut
<1>9. CASE LoadAuth
  <2>1. \A c \in CallId : calls'[c] # None => calls'[c].for = sdk' /\ sdk' # None
    BY <1>9 DEF LoadAuth, NoCalls
  <2>2. sdk' \in Account \cup {None}
    BY <1>9 DEF LoadAuth, AuthTypeOK
  <2> QED
    BY <2>1, <2>2 DEF Owned, Open
<1>10. CASE LeaveAuth
  BY <1>10 DEF LeaveAuth, NoCalls, Owned, Open
<1> QED
  BY <1>5, <1>6, <1>7, <1>8, <1>9, <1>10 DEF AuthNext

\* Every step keeps the code's challenge with its form.
LEMMA CodeStep ==
    ASSUME AuthTypeOK, Owned, CodeGoesToItsChallenge, AuthNext
    PROVE  CodeGoesToItsChallenge'
<1> USE DEF CodeGoesToItsChallenge, Challenges
<1>1. CASE Operator
  <2>1. ASSUME NEW mode \in {"signin", "signup"}, SetAuthMode(mode)
        PROVE  CodeGoesToItsChallenge'
    BY <2>1 DEF SetAuthMode, AuthTypeOK, Form
  <2>2. CASE ResetLogin
    BY <2>2 DEF ResetLogin, InitialForm
  <2>3. ASSUME form' = Busy(form) \/ \E a \in Account : form' = [Busy(form) EXCEPT !.email = a]
        PROVE  CodeGoesToItsChallenge'
    BY <2>3 DEF Busy, AuthTypeOK, Form
  <2> QED
    BY <1>1, <2>1, <2>2, <2>3
       DEF Operator, BeginSignIn, BeginSignUp, Begin, ConfirmSignUp, SubmitTotp,
           SubmitTotpSetup, SubmitCode
<1>2. ASSUME NEW c \in CallId, Granted(c)
      PROVE  CodeGoesToItsChallenge'
  BY <1>2 DEF Granted, SignInGranted, TotpAccepted, SetupAccepted, Grant, InitialForm
<1>3. ASSUME NEW c \in CallId, NotGranted(c)
      PROVE  CodeGoesToItsChallenge'
  <2>1. ASSUME NEW challenge \in Challenges, SignInChallenged(c, challenge)
        PROVE  CodeGoesToItsChallenge'
    <3>1. [account |-> calls[c].for, challenge |-> challenge] \in Pending
      BY <2>1, AskedTypes DEF SignInChallenged, Asked, Owned, Pending
    <3> QED
      BY <2>1, <3>1, AuthAssumption DEF SignInChallenged, Idle, AuthTypeOK, Form
  <2>2. CASE SignedUp(c) \/ SignUpConfirmed(c)
    BY <2>2 DEF SignedUp, SignUpConfirmed, Idle, AuthTypeOK, Form
  <2>3. CASE Refused(c) \/ SetupHalfDone(c)
    BY <2>3 DEF Refused, SetupHalfDone, Idle, AuthTypeOK, Form
  <2>4. CASE ResendAnswered(c) \/ Restored(c)
    BY <2>4 DEF ResendAnswered, Restored
  <2> QED
    BY <1>3, <2>1, <2>2, <2>3, <2>4 DEF NotGranted
<1> QED
  BY <1>1, <1>2, <1>3 DEF AuthNext, ResendConfirmation, RestoreFailed, SignOut, LoadAuth,
     LeaveAuth, InitialForm


\* Every step keeps what is stored with what is shown.
LEMMA StoredStep ==
    ASSUME AuthTypeOK, Owned, StoredWithSession, AuthNext
    PROVE  StoredWithSession'
<1> USE DEF StoredWithSession, Console
<1>a. None \notin Session /\ None \notin Account
  BY AuthAssumption
<1>1. CASE Operator
  BY <1>1 DEF Operator, SetAuthMode, ResetLogin, BeginSignIn, BeginSignUp,
              Begin, ConfirmSignUp, SubmitTotp, SubmitTotpSetup, SubmitCode
<1>2. ASSUME NEW c \in CallId, Granted(c)
      PROVE  StoredWithSession'
  <2>1. PICK email \in Person : Grant(c, email)
    BY <1>2 DEF Granted, SignInGranted, TotpAccepted, SetupAccepted, Asked, Owned, AuthTypeOK,
                Form, Person
  <2>2. session'.of = sdk' /\ sdk' \in Account /\ stored' = IF storage THEN session' ELSE None
    BY <1>2, <2>1 DEF Granted, SignInGranted, TotpAccepted, SetupAccepted, Asked, Owned,
                      Grant, Persist
  <2>3. session' # None
    BY <1>a, <2>1, <2>2 DEF Grant, Session
  <2> QED
    BY <2>1, <2>2, <2>3 DEF Grant
<1>3. ASSUME NEW c \in CallId, NotGranted(c)
      PROVE  StoredWithSession'
  <2>1. CASE Restored(c)
    <3>1. session' \in Session /\ session'.of = sdk'
      BY <2>1 DEF Restored, Asked, Owned, Own, Session, Person
    <3> QED
      BY <1>a, <2>1, <3>1 DEF Restored, Persist
  <2>2. CASE /\ UNCHANGED <<page, storage, session, stored>>
             /\ halfDone' \/ UNCHANGED tokens
    BY <2>2
  <2> QED
    BY <1>3, <2>1, <2>2
       DEF NotGranted, SignInChallenged, SignedUp, SignUpConfirmed, Refused,
           SetupHalfDone, ResendAnswered
<1>4. CASE SignOut
  BY <1>4 DEF SignOut, Persist, AuthTypeOK
<1>5. CASE LoadAuth
  <2>1. CASE sdk' # None /\ session' = Own(sdk') /\ stored' = session' /\ halfDone' = FALSE
    <3>1. sdk' \in Account /\ page' = "console" /\ UNCHANGED storage
      BY <1>5, <2>1 DEF LoadAuth, AuthTypeOK
    <3>2. session' \in Session /\ session'.of = sdk'
      BY <2>1, <3>1 DEF Own, Session, Person
    <3>3. storage
      BY <1>5, <2>1 DEF LoadAuth
    <3> QED
      BY <1>a, <2>1, <3>1, <3>2, <3>3
  <2>2. CASE session' = stored /\ UNCHANGED <<stored, halfDone>>
    BY <1>5, <2>2 DEF LoadAuth, AuthTypeOK
  <2> QED
    BY <1>5, <2>1, <2>2 DEF LoadAuth
<1>6. CASE LeaveAuth
  BY <1>6 DEF LeaveAuth
<1> QED
  BY <1>1, <1>2, <1>3, <1>4, <1>5, <1>6 DEF AuthNext, ResendConfirmation, RestoreFailed

\* Leaving a form makes every request stale.
LEMMA NoneFresh ==
    ASSUME AuthTypeOK, calls' = Aged \/ \E c \in CallId : AnsweredAndLeft(c)
    PROVE  (FreshFit /\ OneButton)'
<1>1. \A d \in CallId : calls'[d] # None => calls'[d].stale
  <2>1. CASE calls' = Aged
    BY <2>1, AgedIsStale
  <2>2. ASSUME NEW c \in CallId, AnsweredAndLeft(c)
        PROVE  \A d \in CallId : calls'[d] # None => calls'[d].stale
    BY <2>2, AgedIsStale DEF AnsweredAndLeft
  <2> QED
    BY <2>1, <2>2
<1>2. \A d \in CallId : ~Fresh(d)'
  BY <1>1 DEF Fresh, Open
<1> QED
  BY <1>2 DEF FreshFit, OneButton

\* A request taken away, or answered in place, leaves the others as they fit.
LEMMA FewerFresh ==
    ASSUME AuthTypeOK, FreshFit, OneButton, NEW c \in CallId, Answered(c),
           \/ UNCHANGED form
           \/ /\ form' = Idle(form)
              /\ Fresh(c) /\ calls[c].op \in Ops \ {"resend", "restore"}
    PROVE  (FreshFit /\ OneButton)'
<1>1. \A d \in CallId : Fresh(d)' => d # c /\ Fresh(d) /\ calls'[d] = calls[d]
  <2>1. \A d \in CallId : calls'[d] = IF d = c THEN None ELSE calls[d]
    BY DEF Answered, AuthTypeOK
  <2> QED
    BY <2>1 DEF Fresh, Open
<1>2. OneButton'
  BY <1>1 DEF OneButton, FromButton
<1>3. CASE UNCHANGED form
  BY <1>1, <1>2, <1>3 DEF FreshFit, FitsForm
<1>4. CASE /\ form' = Idle(form)
           /\ Fresh(c) /\ calls[c].op \in Ops \ {"resend", "restore"}
  <2>1. form'.step = form.step /\ form'.email = form.email
    BY <1>4 DEF Idle, AuthTypeOK, Form
  <2>2. ASSUME NEW d \in CallId, d # c, Fresh(d)
        PROVE  ~FromButton(d)
    BY <1>4, <2>2 DEF FreshFit, FitsForm, OneButton, FromButton, Ops
  <2>3. ASSUME NEW d \in CallId, Fresh(d)'
        PROVE  FitsForm(calls[d])'
    BY <1>1, <2>1, <2>2, <2>3 DEF FreshFit, FitsForm, FromButton
  <2> QED
    BY <1>2, <2>3 DEF FreshFit
<1> QED
  BY <1>3, <1>4

\* A new request that fits the form as it is from now on.
LEMMA OneMoreFresh ==
    ASSUME AuthTypeOK, FreshFit, OneButton, NEW op \in Ops, NEW who, Send(op, who),
           \/ UNCHANGED form
           \/ form' = Busy(form)
           \/ ~form.busy /\ \E a \in Account : form' = [Busy(form) EXCEPT !.email = a],
           FitsForm([op |-> op, for |-> who, stale |-> FALSE])',
           form'.email = form.email \/ form.step \in {"credentials", "signup_form"},
           op \in {"signIn", "signUp"} => ~form.busy
    PROVE  (FreshFit /\ OneButton)'
<1>1. PICK c \in CallId :
             /\ calls'[c] = [op |-> op, for |-> who, stale |-> FALSE]
             /\ \A d \in CallId \ {c} : calls'[d] = calls[d]
  BY SendAddsFresh
<1>2. \A d \in CallId : d # c /\ Fresh(d)' => Fresh(d) /\ calls'[d] = calls[d]
  BY <1>1 DEF Fresh, Open
<1>3. form'.step = form.step /\ (form.busy => form'.busy)
  BY DEF Busy, AuthTypeOK, Form
<1>4. form.busy => form'.email = form.email
  BY DEF Busy, AuthTypeOK, Form
<1>5. ASSUME NEW d \in CallId, Fresh(d)'
      PROVE  FitsForm(calls[d])'
  <2>1. CASE d = c
    BY <1>1, <2>1
  <2>2. CASE d # c
    BY <1>2, <1>3, <1>4, <1>5, <2>2 DEF FreshFit, FitsForm
  <2> QED
    BY <2>1, <2>2
<1>6. OneButton'
  <2>1. SUFFICES ASSUME NEW d \in CallId, NEW e \in CallId,
                        Fresh(d)', Fresh(e)', FromButton(d)', FromButton(e)', d # e
                 PROVE  FALSE
    BY DEF OneButton
  <2>2. CASE d # c /\ e # c
    BY <1>2, <2>1, <2>2 DEF OneButton, FromButton
  <2>3. ASSUME NEW f \in CallId, f # c, Fresh(f)', FromButton(f)', FromButton(c)'
        PROVE  FALSE
    <3>1. op \in {"signIn", "signUp"}
      BY <1>1, <2>3 DEF FromButton
    <3>2. Fresh(f) /\ FromButton(f)
      BY <1>2, <2>3 DEF FromButton
    <3> QED
      BY <3>1, <3>2 DEF FreshFit, FitsForm, FromButton
  <2> QED
    BY <2>1, <2>2, <2>3
<1> QED
  BY <1>5, <1>6 DEF FreshFit


\* Every step keeps the login clean, or notes that an answer was late.
LEMMA CleanStep ==
    ASSUME IInv, AuthNext
    PROVE  Clean'
<1> USE DEF IInv
<1>a. ASSUME CleanForm', Named(session)', Named(stored)', (FreshFit /\ OneButton)'
      PROVE  Clean'
  BY <1>a DEF Clean
<1>1. ASSUME NEW mode \in {"signin", "signup"}, SetAuthMode(mode)
      PROVE  Clean'
  <2>1. CleanForm'
    BY <1>1 DEF SetAuthMode, CleanForm, StepsOf, Challenges, AuthTypeOK, Form
  <2>2. Named(session)' /\ Named(stored)'
    BY <1>1 DEF SetAuthMode, LoginShown, StoredWithSession, Named, AuthTypeOK
  <2> QED
    BY <1>1, <1>a, <2>1, <2>2, NoneFresh DEF SetAuthMode
<1>2. CASE ResetLogin
  <2>1. CleanForm'
    BY <1>2 DEF ResetLogin, InitialForm, CleanForm, StepsOf, Challenges
  <2>2. Named(session)' /\ Named(stored)'
    BY <1>2 DEF ResetLogin, LoginShown, StoredWithSession, Named, AuthTypeOK
  <2> QED
    BY <1>2, <1>a, <2>1, <2>2, NoneFresh DEF ResetLogin
<1>3. ASSUME NEW op \in {"signIn", "signUp"}, NEW a \in Account,
             Begin(op, IF op = "signIn" THEN "credentials" ELSE "signup_form", a), ~late
      PROVE  Clean'
  <2>1. /\ form'.step = form.step /\ form'.mode = form.mode /\ form'.busy /\ form'.email = a
        /\ form.step = IF op = "signIn" THEN "credentials" ELSE "signup_form"
    BY <1>3 DEF Begin, Busy, AuthTypeOK, Form
  <2>2. CleanForm' /\ Named(session)' /\ Named(stored)'
    BY <1>3, <2>1 DEF Begin, Clean, CleanForm, StepsOf, Challenges, Named
  <2>3. FitsForm([op |-> op, for |-> a, stale |-> FALSE])'
    BY <2>1 DEF FitsForm
  <2>4. (FreshFit /\ OneButton)'
    BY <1>3, <2>1, <2>3, OneMoreFresh DEF Begin, Clean, Ops
  <2> QED
    BY <1>a, <2>2, <2>4
<1>4. ASSUME ConfirmSignUp \/ ResendConfirmation, ~late
      PROVE  Clean'
  <2>1. PICK op \in {"confirm", "resend"} :
          /\ Send(op, form.email)
          /\ form' = Busy(form) \/ UNCHANGED form
          /\ form.step = "confirm_signup"
          /\ UNCHANGED <<session, stored>>
    BY <1>4 DEF ConfirmSignUp, ResendConfirmation
  <2>2. form'.step = form.step /\ form'.mode = form.mode /\ form'.email = form.email
    BY <2>1 DEF Busy, AuthTypeOK, Form
  <2>3. CleanForm' /\ Named(session)' /\ Named(stored)'
    BY <1>4, <2>1, <2>2 DEF Clean, CleanForm, StepsOf, Challenges, Named
  <2>4. FitsForm([op |-> op, for |-> form.email, stale |-> FALSE])'
    BY <2>1, <2>2 DEF FitsForm
  <2>5. (FreshFit /\ OneButton)'
    BY <1>4, <2>1, <2>2, <2>4, OneMoreFresh DEF Clean, Ops
  <2> QED
    BY <1>a, <2>3, <2>5
<1>5. ASSUME NEW op \in {"totp", "setup"},
             SubmitCode(op, IF op = "totp" THEN "mfa_totp" ELSE "mfa_setup"), ~late
      PROVE  Clean'
  <2>1. /\ form'.step = form.step /\ form'.mode = form.mode /\ form'.email = form.email
        /\ form'.pending = form.pending
        /\ form.step = IF op = "totp" THEN "mfa_totp" ELSE "mfa_setup"
        /\ UNCHANGED <<session, stored>>
    BY <1>5 DEF SubmitCode, Busy, AuthTypeOK, Form
  <2>2. form.pending.account = form.email
    BY <1>5, <2>1 DEF Clean, CleanForm, Challenges
  <2>3. CleanForm' /\ Named(session)' /\ Named(stored)'
    BY <1>5, <2>1 DEF Clean, CleanForm, StepsOf, Challenges, Named
  <2>4. FitsForm([op |-> op, for |-> form.pending.account, stale |-> FALSE])'
    BY <2>1, <2>2 DEF FitsForm
  <2>5. Send(op, form.pending.account) /\ form' = Busy(form)
    BY <1>5 DEF SubmitCode
  <2>6. (FreshFit /\ OneButton)'
    BY <1>5, <2>1, <2>4, <2>5, OneMoreFresh DEF Clean, Ops
  <2> QED
    BY <1>a, <2>3, <2>6
<1>6. ASSUME NEW c \in CallId, Granted(c), ~late'
      PROVE  Clean'
  <2>1. Fresh(c) /\ ~late
    BY <1>6 DEF Granted, SignInGranted, TotpAccepted, SetupAccepted, Asked, Grant,
                NoteLate, Fresh
  <2>2. Grant(c, calls[c].for)
    BY <1>6, <2>1 DEF Granted, SignInGranted, TotpAccepted, SetupAccepted, Asked,
                      Clean, FreshFit, FitsForm
  <2>3. Named(session)' /\ Named(stored)'
    BY <2>2 DEF Grant, Persist, Named
  <2>4. CleanForm'
    BY <2>2 DEF Grant, InitialForm, CleanForm, StepsOf, Challenges
  <2>5. (FreshFit /\ OneButton)'
    BY <2>2, NoneFresh DEF Grant
  <2> QED
    BY <1>a, <2>3, <2>4, <2>5
<1>7. ASSUME NEW c \in CallId, NotGranted(c) \/ RestoreFailed(c), ~late'
      PROVE  Clean'
  <2>1. ASSUME NEW challenge \in Challenges, SignInChallenged(c, challenge)
        PROVE  Clean'
    <3>1. Fresh(c) /\ ~late /\ calls[c].op = "signIn"
      BY <1>7, <2>1 DEF SignInChallenged, Asked, NoteLate, Fresh
    <3>2. form.step = "credentials" /\ form.email = calls[c].for
      BY <3>1 DEF Clean, FreshFit, FitsForm
    <3>3. form.mode = "signin"
      BY <3>1, <3>2 DEF Clean, CleanForm, StepsOf, Challenges
    <3>4. /\ form'.step = challenge /\ form'.mode = form.mode /\ form'.email = form.email
          /\ form'.pending.account = calls[c].for
      BY <2>1 DEF SignInChallenged, Idle, AuthTypeOK, Form
    <3>5. CleanForm' /\ Named(session)' /\ Named(stored)'
      BY <2>1, <3>1, <3>2, <3>3, <3>4 DEF SignInChallenged, Clean, CleanForm, StepsOf, Named
    <3> QED
      BY <1>a, <2>1, <3>5, NoneFresh DEF SignInChallenged
  <2>2. CASE SignedUp(c)
    <3>1. Fresh(c) /\ ~late /\ calls[c].op = "signUp"
      BY <1>7, <2>2 DEF SignedUp, Asked, NoteLate, Fresh
    <3>2. form.mode = "signup"
      BY <3>1 DEF Clean, FreshFit, FitsForm, CleanForm, StepsOf, Challenges, AuthTypeOK, Form
    <3>3. form'.step = "confirm_signup" /\ form'.mode = form.mode
      BY <2>2 DEF SignedUp, Idle, AuthTypeOK, Form
    <3>4. CleanForm' /\ Named(session)' /\ Named(stored)'
      BY <2>2, <3>1, <3>2, <3>3 DEF SignedUp, Clean, CleanForm, StepsOf, Challenges, Named
    <3> QED
      BY <1>a, <2>2, <3>4, NoneFresh DEF SignedUp
  <2>3. CASE SignUpConfirmed(c)
    <3>1. ~late
      BY <1>7, <2>3 DEF SignUpConfirmed, NoteLate
    <3>2. form'.step = "credentials" /\ form'.mode = "signin"
      BY <2>3 DEF SignUpConfirmed, Idle, AuthTypeOK, Form
    <3>3. CleanForm' /\ Named(session)' /\ Named(stored)'
      BY <2>3, <3>1, <3>2 DEF SignUpConfirmed, Clean, CleanForm, StepsOf, Challenges, Named
    <3> QED
      BY <1>a, <2>3, <3>3, NoneFresh DEF SignUpConfirmed
  <2>4. CASE Refused(c) \/ SetupHalfDone(c)
    <3>1. /\ Fresh(c) /\ ~late /\ calls[c].op \in Ops \ {"resend", "restore"}
          /\ form' = Idle(form) /\ Answered(c) /\ UNCHANGED <<session, stored>>
      BY <1>7, <2>4, AskedTypes DEF Refused, SetupHalfDone, Asked, NoteLate, Fresh, Call, Ops
    <3>2. /\ form'.step = form.step /\ form'.mode = form.mode
          /\ form'.email = form.email /\ form'.pending = form.pending
      BY <3>1 DEF Idle, AuthTypeOK, Form
    <3>3. CleanForm' /\ Named(session)' /\ Named(stored)'
      BY <3>1, <3>2 DEF Clean, CleanForm, StepsOf, Named
    <3> QED
      BY <1>a, <3>1, <3>3, FewerFresh DEF Clean
  <2>5. CASE ResendAnswered(c) \/ Restored(c) \/ RestoreFailed(c)
    <3>1. ~late /\ Answered(c) /\ UNCHANGED form
      BY <1>7, <2>5 DEF ResendAnswered, Restored, RestoreFailed
    <3>2. Named(session)' /\ Named(stored)'
      BY <2>5, <3>1 DEF ResendAnswered, Restored, RestoreFailed, Own, Persist, Clean, Named
    <3>3. CleanForm'
      BY <3>1 DEF Clean, CleanForm
    <3> QED
      BY <1>a, <3>1, <3>2, <3>3, FewerFresh DEF Clean
  <2> QED
    BY <1>7, <2>1, <2>2, <2>3, <2>4, <2>5 DEF NotGranted
<1>8. CASE SignOut
  <2>1. CleanForm' /\ Named(session)' /\ Named(stored)'
    BY <1>8 DEF SignOut, InitialForm, CleanForm, StepsOf, Challenges, Persist, Named
  <2> QED
    BY <1>8, <1>a, <2>1, NoneFresh DEF SignOut
<1>9. ASSUME LoadAuth, ~late'
      PROVE  Clean'
  <2>1. CleanForm'
    BY <1>9 DEF LoadAuth, InitialForm, CleanForm, StepsOf, Challenges
  <2>2. Named(session)' /\ Named(stored)'
    <3>1. CASE session' = Own(sdk') /\ stored' = session'
      BY <3>1 DEF Own, Named
    <3>2. CASE session' = stored /\ UNCHANGED stored
      <4>1. ~late \/ session' = None
        BY <1>9 DEF LoadAuth, AuthTypeOK
      <4> QED
        BY <3>2, <4>1 DEF Clean, Named
    <3> QED
      BY <1>9, <3>1, <3>2 DEF LoadAuth
  <2>3. \A d \in CallId : calls'[d] # None => calls'[d].op = "restore"
    BY <1>9 DEF LoadAuth, NoCalls
  <2>4. (FreshFit /\ OneButton)'
    BY <2>3 DEF FreshFit, OneButton, Fresh, Open, FitsForm, FromButton
  <2> QED
    BY <1>a, <2>1, <2>2, <2>4
<1>10. ASSUME LeaveAuth, ~late'
       PROVE  Clean'
  <2>1. CleanForm' /\ Named(session)' /\ Named(stored)'
    BY <1>10 DEF LeaveAuth, InitialForm, CleanForm, StepsOf, Challenges, Clean, Named
  <2>2. (FreshFit /\ OneButton)'
    BY <1>10 DEF LeaveAuth, NoCalls, FreshFit, OneButton, Fresh, Open
  <2> QED
    BY <1>a, <2>1, <2>2
<1>11. CASE Operator
  <2>1. CASE late /\ UNCHANGED late
    BY <2>1 DEF Clean
  <2> QED
    BY <1>1, <1>2, <1>3, <1>4, <1>5, <1>11, <2>1
       DEF Operator, BeginSignIn, BeginSignUp, Begin, ConfirmSignUp, SubmitTotp,
           SubmitTotpSetup, SubmitCode, AuthTypeOK
<1>12. CASE ResendConfirmation
  BY <1>4, <1>12 DEF ResendConfirmation, Clean
<1> QED
  BY <1>6, <1>7, <1>8, <1>9, <1>10, <1>11, <1>12 DEF AuthNext, Clean


(***************************************************************************)
(* The theorems.                                                           *)
(***************************************************************************)
\* The first page load satisfies the invariant.
LEMMA InitInv == AuthInit => IInv
<1> SUFFICES ASSUME AuthInit PROVE IInv
  OBVIOUS
<1>1. AuthTypeOK
  <2>1. InitialForm \in Form
    BY DEF InitialForm, Form, Person
  <2> QED
    BY <2>1 DEF AuthInit, AuthTypeOK, NoCalls
<1>2. Owned /\ FreshFit /\ OneButton
  BY DEF AuthInit, NoCalls, Owned, FreshFit, OneButton, Fresh, Open
<1>3. CodeGoesToItsChallenge /\ StoredWithSession /\ CleanForm
  BY DEF AuthInit, InitialForm, CodeGoesToItsChallenge, StoredWithSession, Console,
         CleanForm, StepsOf, Challenges
<1> QED
  BY <1>1, <1>2, <1>3 DEF AuthInit, IInv, Clean, Named

\* Every step keeps the invariant.
LEMMA NextInv == IInv /\ [AuthNext]_authVars => IInv'
<1> SUFFICES ASSUME IInv, [AuthNext]_authVars PROVE IInv'
  OBVIOUS
<1>1. CASE AuthNext
  BY <1>1, TypeStep, OwnedStep, CodeStep, StoredStep, CleanStep DEF IInv
<1>2. CASE UNCHANGED authVars
  BY <1>2 DEF authVars, IInv, AuthTypeOK, Owned, CodeGoesToItsChallenge, StoredWithSession,
     Console, Clean, CleanForm, Named, FreshFit, OneButton, Fresh, Open, FromButton, FitsForm
<1> QED
  BY <1>1, <1>2

\* The invariant above holds of every behaviour of the sign-in (state.js).
THEOREM AuthInvariant == AuthSpec => []IInv
BY InitInv, NextInv, PTL DEF AuthSpec

\* Whatever the operator does and however Cognito's answers come, the store's
\* sign-in is type correct (state.js).
THEOREM AuthTypes == AuthSpec => []AuthTypeOK
<1>1. IInv => AuthTypeOK
  BY DEF IInv
<1> QED
  BY <1>1, AuthInvariant, PTL

\* A form that asks for a code always has the user whose code it is, so that
\* submitTotp and submitTotpSetup answer the challenge that was set (state.js).
THEOREM CodesAnswerTheirChallenge == AuthSpec => []CodeGoesToItsChallenge
<1>1. IInv => CodeGoesToItsChallenge
  BY DEF IInv
<1> QED
  BY <1>1, AuthInvariant, PTL

\* Without an answer that comes after its form was left, mode and step agree,
\* the challenge is the one of the email on screen, and the session is named
\* after its account (state.js).
THEOREM OnlyLateAnswersConfuse == AuthSpec => []CleanUnlessLate
<1>1. IInv => CleanUnlessLate
  BY DEF IInv, Clean, CleanForm, Named, CleanUnlessLate
<1> QED
  BY <1>1, AuthInvariant, PTL

\* The stored session is the one on screen, and tokens the SDK keeps are of its
\* account, a half-done enrolment's excepted: a page load shows what is on screen,
\* the login after a sign-out (persistSession, hydrateFromCognito in state.js).
THEOREM SessionsSurviveReloads == AuthSpec => []ReloadKeepsSession
<1>1. IInv => ReloadKeepsSession
  BY DEF IInv, StoredWithSession, ReloadKeepsSession
<1> QED
  BY <1>1, AuthInvariant, PTL

=============================================================================
