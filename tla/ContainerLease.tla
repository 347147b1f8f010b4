--------------------------- MODULE ContainerLease ----------------------------
(***************************************************************************)
(* What the container pool promises, without saying how: every container   *)
(* has one owner.  It is idle, or leased to one call, or lost.  A lease    *)
(* starts from idle and ends in idle or in lost, never with another call,  *)
(* and a lost container never comes back.                                  *)
(***************************************************************************)
CONSTANTS Calls, Containers,
          Idle, Lost  \* two owners that are not calls

VARIABLE owner

Init == owner \in [Containers -> {Idle, Lost}]

Take(x, c) ==
  /\ owner[c] = Idle
  /\ owner' = [owner EXCEPT ![c] = x]

Return(x, c) ==
  /\ owner[c] = x
  /\ owner' = [owner EXCEPT ![c] = Idle]

\* A call ends with its leases open: all of them are lost together, and so is
\* a container that it took in the same step.
Abandon(x, S) ==
  /\ \A c \in S : owner[c] \in {Idle, x}
  /\ owner' = [c \in Containers |-> IF owner[c] = x \/ c \in S THEN Lost
                                                              ELSE owner[c]]

Next ==
  \E x \in Calls :
    \/ \E c \in Containers : Take(x, c) \/ Return(x, c)
    \/ \E S \in {{}} \cup {{c} : c \in Containers} : Abandon(x, S)

Spec == Init /\ [][Next]_owner
=============================================================================
