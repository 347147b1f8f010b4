------------------------------- MODULE Handlers -------------------------------
(***************************************************************************)
(* handle_execute, handle_execute_parallel and handle_execute_batch, with  *)
(* the layers of the batch route: at most BatchLimit at once, each dropped *)
(* after 60 seconds.                                                       *)
(***************************************************************************)
EXTENDS QueueManager, Notifications

unserviced == <<lifeVars, owner, task, socketVars>>

Ended == {"answered", "gone"}
Batches == {r \in Requests : Kind[r] = "batch"}
Parallel == {r \in Requests : Kind[r] = "parallel"}
BatchesUnderWay == {r \in Batches : pc[r] \notin Ended \cup {"idle"}}

\* A request arrives, is checked, and is announced as queued.  Cleanup ends the
\* accept loop only: a connection that is open still brings requests.
Receive(r) ==
  /\ pc[r] = "idle" /\ phase \in {"serving", "cleaning"}
  /\ r \in Batches => Cardinality(BatchesUnderWay) < BatchLimit
  /\ IF r \in Refused
       THEN Goto(r, "answered") /\ UNCHANGED log
       ELSE /\ Send(r, "queued")
            /\ Goto(r, CASE Kind[r] = "single"   -> "lookup"
                         [] Kind[r] = "batch"    -> "decide"
                         [] Kind[r] = "parallel" -> "push")
  /\ UNCHANGED <<unserviced, tnotify, queueVars, pushed, pos>>

\* handle_execute asks Redis itself, which outlives this process.
Lookup(r) ==
  /\ pc[r] = "lookup"
  /\ \E l \in {"answered", "decide"} : Goto(r, l)
  /\ UNCHANGED <<unserviced, tnotify, queueVars, pushed, channelVars>>

\* handle_execute_parallel hands its task to executor.task_queue.
PushParallel(r) ==
  /\ pc[r] = "push"
  /\ pushed' = pushed \cup {r}
  /\ tnotify' = NotifyOne(tnotify)
  /\ Goto(r, "listen")
  /\ UNCHANGED <<unserviced, queueVars, channelVars>>

\* tx.subscribe(): only what is sent from now on is received.
Listen(r) ==
  /\ pc[r] = "listen"
  /\ pos' = [pos EXCEPT ![r] = Len(log)]
  /\ Goto(r, "waiting")
  /\ UNCHANGED <<unserviced, tnotify, queueVars, pushed, log>>

\* recv: what is about another request, or not final, is passed over, and so
\* is the error of a receiver that lagged.
Hear(r) ==
  /\ pc[r] = "waiting" /\ pos[r] < Len(log)
  /\ LET next == IF Lagged(r) THEN Len(log) - Capacity + 1 ELSE pos[r] + 1
         final == log[next].id = r /\ log[next].status \in {"completed", "failed"}
     IN  /\ pos' = [pos EXCEPT ![r] = next]
         /\ Goto(r, IF final THEN "answered" ELSE "waiting")
  /\ UNCHANGED <<unserviced, tnotify, queueVars, pushed, log>>

\* The awaits of a handler, where its future can be dropped.
Awaits == Executing \cup {"decide", "insert", "enqueue", "push", "waiting"}

\* Dropped: a call of the executor loses its containers, a task that is queued
\* stays queued.
Drop(r) ==
  /\ pc[r] \in Awaits
  /\ Goto(r, "gone")
  /\ IF r \in Running THEN Exec!Abort(r, {}) ELSE UNCHANGED owner
  /\ UNCHANGED <<lifeVars, task, tnotify, queueVars, pushed, channelVars, socketVars>>

\* The client hangs up.
HangUp(r) == r \in Impatient /\ Drop(r)

\* Mutant of Expire: the timeout does not cover the wait for an answer.
ExpireBusy(r) == r \in Batches /\ pc[r] # "waiting" /\ Drop(r)

\* TimeoutLayer of the batch route.
Expire(r) == r \in Batches /\ Drop(r)

HandlerStep(r) ==
  Lookup(r) \/ AddTaskStep(r) \/ PushParallel(r) \/ Listen(r) \/ Hear(r)
=============================================================================
