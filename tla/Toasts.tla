------------------------------- MODULE Toasts -------------------------------
(***************************************************************************)
(* The web application's ToastQueue: one toast on screen, the few that     *)
(* wait behind it, and the clock that hovering stops.                      *)
(*                                                                         *)
(* Time is counted in ticks, `window` of them a toast's full time.         *)
(***************************************************************************)
EXTENDS Naturals, Sequences

CONSTANTS Toasts,      \* ids of the notifications pushed
          NoToast,
          Window,      \* TOAST_DISMISS_MS, in ticks
          MaxQueued,   \* MAX_QUEUED
          MaxTicks     \* bound: ticks

ASSUME ToastAssumption == Window \in Nat /\ NoToast \notin Toasts

VARIABLES
    current,    \* the toast on screen
    pending,    \* those that wait
    timer,      \* when the running timeout fires; 0 while none runs
    startedAt,  \* when it was armed
    remaining,  \* ticks the toast on screen had left then
    clock,
    offered,    \* history: the last notification enqueued
    seen        \* history: ticks the toast on screen had its clock running

toastVars == <<current, pending, timer, startedAt, remaining, clock, offered, seen>>

ToastInit ==
    /\ current = NoToast /\ pending = <<>> /\ timer = 0 /\ startedAt = 0 /\ remaining = Window
    /\ clock = 1 /\ offered = NoToast /\ seen = 0

Arm(left) == startedAt' = clock /\ timer' = clock + left /\ remaining' = left
Show(n) == current' = n /\ seen' = 0 /\ Arm(Window)

\* The oldest that waits makes room.
Bounded(queue) == IF Len(queue) > MaxQueued THEN Tail(queue) ELSE queue

\* A frame: a notification that shows or waits already is ignored.
Enqueue(n) ==
    /\ n # current /\ \A i \in DOMAIN pending : pending[i] # n
    /\ offered' = n
    /\ \/ current = NoToast /\ Show(n) /\ UNCHANGED pending
       \/ current # NoToast /\ pending' = Bounded(Append(pending, n))
          /\ UNCHANGED <<current, timer, startedAt, remaining, seen>>
    /\ UNCHANGED clock

NextToast ==
    /\ \/ /\ pending = <<>> /\ current' = NoToast /\ timer' = 0 /\ remaining' = Window
          /\ UNCHANGED <<pending, startedAt, seen>>
       \/ pending # <<>> /\ Show(Head(pending)) /\ pending' = Tail(pending)
    /\ UNCHANGED <<clock, offered>>

TimedOut == timer # 0 /\ timer <= clock /\ NextToast
Dismiss  == current # NoToast /\ NextToast

\* Mutant: what is left is not banked.
FreshWindow == Window
Banked == remaining - (clock - startedAt)

\* The pointer enters the toast, and leaves it.
Pause ==
    /\ timer # 0 /\ timer' = 0 /\ remaining' = Banked
    /\ UNCHANGED <<current, pending, startedAt, clock, offered, seen>>

Continue ==
    /\ timer = 0 /\ current # NoToast /\ Arm(remaining)
    /\ UNCHANGED <<current, pending, clock, offered, seen>>

\* A due timeout fires before time goes on.
Tick ==
    /\ clock < MaxTicks /\ (timer = 0 \/ timer > clock) /\ clock' = clock + 1
    /\ seen' = IF timer # 0 THEN seen + 1 ELSE seen
    /\ UNCHANGED <<current, pending, timer, startedAt, remaining, offered>>

ToastNext ==
    \/ \E n \in Toasts : Enqueue(n)
    \/ TimedOut \/ Dismiss \/ Pause \/ Continue \/ Tick

ToastSpec == ToastInit /\ [][ToastNext]_toastVars

-----------------------------------------------------------------------------
\* The bar does not lie: however often the pointer stopped the clock, a toast whose
\* timeout is due has run for its full window, and none runs for longer.
ToastLasts == seen <= Window /\ (timer # 0 /\ timer <= clock => seen = Window)

\* A backlog drops the oldest: while toasts wait, the last one pushed, which carries
\* the order's current state, is the last of them.
NewestKept == pending # <<>> => pending[Len(pending)] = offered

\* Every toast has its time, and what is dropped is what is stale (pause, enqueue).
ToastsServe == ToastLasts /\ NewestKept
=============================================================================
