---------------------------- MODULE Notifications ----------------------------
(***************************************************************************)
(* The broadcast channel of ExecutionNotification and the WebSockets that  *)
(* forward it.  The channel keeps the last Capacity notifications; `log'   *)
(* remembers them all.                                                     *)
(***************************************************************************)
EXTENDS ServiceState

unheard == <<lifeVars, owner, pc, task, tnotify, queueVars, pushed>>

Send(r, status) == log' = Append(log, [id |-> r, status |-> status])

Lagged(s) == Len(log) - pos[s] > Capacity

\* A WebSocket is opened: it receives what is sent from now on.
Open(s) ==
  /\ phase \in {"serving", "cleaning"} /\ socket[s] = "none"
  /\ socket' = [socket EXCEPT ![s] = "open"]
  /\ pos' = [pos EXCEPT ![s] = Len(log)]
  /\ seen' = [seen EXCEPT ![s] = log]
  /\ UNCHANGED <<unheard, log>>

\* Mutant of Forward: an error of recv is passed over.
ForwardOnwards(s) ==
  /\ socket[s] = "open" /\ pos[s] < Len(log)
  /\ LET next == IF Lagged(s) THEN Len(log) - Capacity + 1 ELSE pos[s] + 1
     IN  /\ seen' = [seen EXCEPT ![s] = Append(@, log[next])]
         /\ pos' = [pos EXCEPT ![s] = next]
  /\ UNCHANGED <<unheard, log, socket>>

\* The forwarding task: recv and send, until recv says that it lagged.
Forward(s) ==
  /\ socket[s] = "open" /\ pos[s] < Len(log)
  /\ IF Lagged(s)
       THEN /\ socket' = [socket EXCEPT ![s] = "ended"]
            /\ UNCHANGED <<pos, seen>>
       ELSE /\ seen' = [seen EXCEPT ![s] = Append(@, log[pos[s] + 1])]
            /\ pos' = [pos EXCEPT ![s] = @ + 1]
            /\ UNCHANGED socket
  /\ UNCHANGED <<unheard, log>>

\* The client is gone: the next send fails.
Close(s) ==
  /\ socket[s] = "open" /\ pos[s] < Len(log) /\ ~Lagged(s)
  /\ socket' = [socket EXCEPT ![s] = "ended"]
  /\ pos' = [pos EXCEPT ![s] = @ + 1]
  /\ UNCHANGED <<unheard, log, seen>>
=============================================================================
