----------------------------- MODULE TokioNotify -----------------------------
(***************************************************************************)
(* tokio::sync::Notify, as EvalX uses it: notify_one and notified().await. *)
(* Waiters queue first come, first served.  A notification that finds no   *)
(* waiter is stored, but never more than one.  A future that is not in     *)
(* `waiting' any more has been woken and goes on when it is polled.        *)
(***************************************************************************)
EXTENDS Sequences

NewNotify == [permit |-> FALSE, waiting |-> <<>>]

Enlisted(n, w) == \E i \in DOMAIN n.waiting : n.waiting[i] = w

\* Mutant of NotifyOne: notify_waiters, which stores nothing.
NotifyWaiters(n) == [n EXCEPT !.waiting = <<>>]

NotifyOne(n) ==
  IF n.waiting = <<>> THEN [n EXCEPT !.permit = TRUE]
                      ELSE [n EXCEPT !.waiting = Tail(@)]

\* The first poll of notified(): take the stored permit, or wait.
Enlist(n, w) ==
  IF n.permit THEN [n EXCEPT !.permit = FALSE]
              ELSE [n EXCEPT !.waiting = Append(@, w)]
=============================================================================
