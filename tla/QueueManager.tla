----------------------------- MODULE QueueManager -----------------------------
(***************************************************************************)
(* QueueManager and ExecutionQueue: add_task executes a request at once if *)
(* the pool has enough containers, or queues it; the workers of each key   *)
(* take what is queued.  Every task has priority 1, so a queue pops any.   *)
(***************************************************************************)
EXTENDS ExecutorCalls

rest == <<lifeVars, owner, pushed, channelVars, socketVars>>

-----------------------------------------------------------------------------
\* add_task, called by the handler of request r.

\* available_containers is read, and believed until the containers are taken.
Decide(r) ==
  /\ pc[r] = "decide" /\ PoolFree
  /\ Goto(r, IF Cardinality(Pooled(KeyOf[r])) >= Size[r] THEN "acquire" ELSE "insert")
  /\ UNCHANGED <<rest, task, tnotify, queueVars>>

\* Mutant of Insert: the task is only queued.
SkipInsert(r) ==
  /\ pc[r] = "insert"
  /\ Goto(r, "enqueue")
  /\ UNCHANGED <<rest, task, tnotify, queueVars>>

Insert(r) ==
  /\ pc[r] = "insert"
  /\ tasks' = tasks \cup {r}
  /\ Goto(r, "enqueue")
  /\ UNCHANGED <<rest, task, tnotify, queue, qnotify>>

Enqueue(r) ==
  /\ pc[r] = "enqueue"
  /\ queue' = [queue EXCEPT ![KeyOf[r]] = @ \cup {r}]
  /\ qnotify' = NotifyOne(qnotify)
  /\ Goto(r, "listen")
  /\ UNCHANGED <<rest, task, tnotify, tasks>>

AddTaskStep(r) == Decide(r) \/ Insert(r) \/ Enqueue(r)

-----------------------------------------------------------------------------
\* A worker.

Asleep(w) == Enlisted(qnotify, w) \/ Enlisted(tnotify, w)

\* Mutant of Dequeue: the task stays in the queue.
DequeueByPeeking(w) ==
  /\ pc[w] = "dequeue" /\ ~Asleep(w)
  /\ IF queue[KeyOf[w]] = {}
       THEN Goto(w, "park") /\ UNCHANGED <<queue, task>>
       ELSE \E r \in queue[KeyOf[w]] : /\ UNCHANGED queue
                                       /\ task' = [task EXCEPT ![w] = r]
                                       /\ Goto(w, "fetch")
  /\ UNCHANGED <<rest, tnotify, qnotify, tasks>>

\* The first half of dequeue, under the lock of the queues: pop, or let go of
\* the lock and wait.
Dequeue(w) ==
  /\ pc[w] = "dequeue" /\ ~Asleep(w)
  /\ IF queue[KeyOf[w]] = {}
       THEN Goto(w, "park") /\ UNCHANGED <<queue, task>>
       ELSE \E r \in queue[KeyOf[w]] :
              /\ queue' = [queue EXCEPT ![KeyOf[w]] = @ \ {r}]
              /\ task' = [task EXCEPT ![w] = r]
              /\ Goto(w, "fetch")
  /\ UNCHANGED <<rest, tnotify, qnotify, tasks>>

\* The second half: queue.notify.notified(), then the loop again.
Park(w) ==
  /\ pc[w] = "park"
  /\ qnotify' = Enlist(qnotify, w)
  /\ Goto(w, "dequeue")
  /\ UNCHANGED <<rest, task, tnotify, queue, tasks>>

\* A task that is not in the map is an error.
Fetch(w) ==
  /\ pc[w] = "fetch"
  /\ Goto(w, IF task[w] \in tasks THEN "acquire" ELSE "renew")
  /\ UNCHANGED <<rest, task, tnotify, queueVars>>

\* Mutant of Complete: the entry stays in the map.
CompleteKeeping(w) ==
  /\ pc[w] = "done"
  /\ Goto(w, "renew")
  /\ UNCHANGED <<rest, task, tnotify, queueVars>>

\* The results are dropped, the entry is removed.
Complete(w) ==
  /\ pc[w] = "done"
  /\ tasks' = tasks \ {task[w]}
  /\ Goto(w, "renew")
  /\ UNCHANGED <<rest, task, tnotify, queue, qnotify>>

\* Before the next task the worker waits for task_notify.
Renew(w) ==
  /\ pc[w] = "renew"
  /\ tnotify' = Enlist(tnotify, w)
  /\ task' = [task EXCEPT ![w] = NoTask]
  /\ Goto(w, "dequeue")
  /\ UNCHANGED <<rest, queueVars>>

WorkerStep(w) == Dequeue(w) \/ Park(w) \/ Fetch(w) \/ Complete(w) \/ Renew(w)
=============================================================================
