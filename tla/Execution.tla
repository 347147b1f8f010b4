------------------------------ MODULE Execution ------------------------------
(***************************************************************************)
(* What CodeExecutor promises to the rest of the service: a call of        *)
(* execute or execute_batch holds one permit from its first container to   *)
(* its end; while it holds it, it leases containers of the pool and        *)
(* returns them; it ends with the return of its last one, or it loses      *)
(* whatever it still has.  Nothing else moves a permit or a container.     *)
(***************************************************************************)
EXTENDS Naturals, FiniteSets

CONSTANTS Calls, Containers, Idle, Lost, MaxPermits

VARIABLES owner,   \* as in ContainerLease
          holders  \* the calls that hold a permit

Leases == INSTANCE ContainerLease

Init == Leases!Init /\ holders = {}

Enter(x) ==
  /\ x \notin holders
  /\ Cardinality(holders) < MaxPermits
  /\ holders' = holders \cup {x}
  /\ UNCHANGED owner

Take(x, c) == x \in holders /\ Leases!Take(x, c) /\ UNCHANGED holders

Return(x, c) == x \in holders /\ Leases!Return(x, c) /\ UNCHANGED holders

\* The last container goes back and the call returns.
Finish(x, c) ==
  /\ x \in holders
  /\ \A d \in Containers : owner[d] = x => d = c
  /\ Leases!Return(x, c)
  /\ holders' = holders \ {x}

\* An early "?", a panic or a dropped future, perhaps with a container taken
\* since the last step.
Abort(x, S) ==
  /\ x \in holders
  /\ Leases!Abandon(x, S)
  /\ holders' = holders \ {x}

Next ==
  \E x \in Calls :
    \/ Enter(x)
    \/ \E c \in Containers : Take(x, c) \/ Return(x, c) \/ Finish(x, c)
    \/ \E S \in {{}} \cup {{c} : c \in Containers} : Abort(x, S)

Spec == Init /\ [][Next]_<<owner, holders>>
=============================================================================
