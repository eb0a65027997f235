----------------------------- MODULE ToastTimer -----------------------------
(* The toast of the console and its timer (dashboard.js, state.js), in       *)
(* discrete time.  Every emission of the store runs the toast's subscriber,  *)
(* and on the overview the stream emits with every verdict.  Time jumps to   *)
(* the timer that is due next; the frame that starts or stops the stream     *)
(* after a change of view is taken to come at once, and the polls' emissions *)
(* are left out.                                                             *)
EXTENDS Integers

CONSTANTS
    ToastDelay,     \* 3500 ms
    TickDelay,      \* 3200 ms
    PoolLength,     \* length of the verdict pool
    MaxMoves        \* bound: what the operator does

VARIABLES
    overview,   \* the view on screen streams verdicts
    toast,      \* state.toast is set
    toastLeft,  \* time left on toastTimer, Off when it is not armed
    tickLeft,   \* time left on the interval of the stream, Off when stopped
    cursor,     \* poolCursor, modulo the length of the pool
    moves       \* what the operator has done so far

vars == <<overview, toast, toastLeft, tickLeft, cursor, moves>>

Off == -1
Armed(left) == left # Off
Later(left, d) == IF Armed(left) THEN left - d ELSE Off

\* The subscriber: a toast on screen gets its timer anew.
ToastSubscriber(shown, left) == IF shown THEN ToastDelay ELSE left

Init ==
    /\ overview \in BOOLEAN
    /\ toast = FALSE /\ toastLeft = Off
    /\ tickLeft = IF overview THEN TickDelay ELSE Off
    /\ cursor = 0 /\ moves = 0

Moves == moves < MaxMoves /\ moves' = moves + 1

RaiseToast ==
    /\ Moves
    /\ toast' = TRUE
    /\ toastLeft' = ToastSubscriber(TRUE, toastLeft)
    /\ UNCHANGED <<overview, tickLeft, cursor>>

\* The toast's own button; its timer is left to run.
CloseToast ==
    /\ toast /\ Moves
    /\ toast' = FALSE
    /\ UNCHANGED <<overview, toastLeft, tickLeft, cursor>>

ChangeView ==
    /\ Moves
    /\ overview' = ~overview
    /\ tickLeft' = IF overview' THEN TickDelay ELSE Off
    /\ toastLeft' = ToastSubscriber(toast, toastLeft)
    /\ UNCHANGED <<toast, cursor>>

ToastDue ==
    /\ Armed(toastLeft) /\ (Armed(tickLeft) => toastLeft <= tickLeft)
    /\ toast' = FALSE
    /\ toastLeft' = Off
    /\ tickLeft' = Later(tickLeft, toastLeft)
    /\ UNCHANGED <<overview, cursor, moves>>

TickDue ==
    /\ Armed(tickLeft) /\ (Armed(toastLeft) => tickLeft <= toastLeft)
    /\ tickLeft' = TickDelay
    /\ cursor' = (cursor + 1) % PoolLength
    /\ toastLeft' = ToastSubscriber(toast, Later(toastLeft, tickLeft))
    /\ UNCHANGED <<overview, toast, moves>>

Time == ToastDue \/ TickDue

Next == RaiseToast \/ CloseToast \/ ChangeView \/ Time

\* Time passes.
Spec == Init /\ [][Next]_vars /\ WF_vars(Time)

\* "Auto-dismiss toasts." (dashboard.js): a toast goes away by itself once the
\* operator does nothing more.
ToastIsDismissed == toast ~> ~toast

=============================================================================
