------------------------------- MODULE Service -------------------------------
(***************************************************************************)
(* The EvalX process: lifecycle, handlers, queue, workers, executor calls  *)
(* and notifications together.                                             *)
(***************************************************************************)
EXTENDS Handlers

Next ==
  \/ LifecycleStep \/ Die \/ CtrlC
  \/ \E x \in Calls : Acquire(x) \/ ExecuteStep(x)
  \/ \E w \in Workers : WorkerStep(w)
  \/ \E r \in Requests : Receive(r) \/ HandlerStep(r) \/ HangUp(r) \/ Expire(r)
  \/ \E s \in Sockets : Open(s) \/ Forward(s) \/ Close(s)

Spec == Init /\ [][Next]_vars

\* tokio polls what can go on and its timers fire; a batch that is not done in
\* 60 seconds is dropped; tokio's semaphore serves its waiters in order.
\* Requests, clients that hang up, faults and signals need not come.
Fairness ==
  /\ WF_vars(LifecycleStep)
  /\ \A x \in Calls : SF_vars(Acquire(x))
  /\ \A w \in Workers : WF_vars(ExecuteStep(w) \/ WorkerStep(w))
  /\ \A r \in Requests : WF_vars(ExecuteStep(r) \/ HandlerStep(r))
  /\ \A r \in Batches : WF_vars(Expire(r))

FairSpec == Spec /\ Fairness

-----------------------------------------------------------------------------
HandlerPlaces == {"idle", "lookup", "decide", "insert", "enqueue", "push", "listen",
                  "waiting"} \cup Executing \cup Ended
WorkerPlaces == {"dequeue", "park", "fetch", "done", "renew", "dead"} \cup Executing

Notes == [id : Requests, status : {"queued", "completed", "failed"}]
NotifyType == [permit : BOOLEAN, waiting : Seq(Workers)]

\* Every variable has its type (the fields of CodeExecutor, QueueManager and
\* ExecutionQueue, and the places of handlers and workers).
ServiceTypeOK ==
  /\ phase \in {"starting", "serving", "cleaning", "exited"}
  /\ docker \in [Containers -> {"untried", "unpooled", "running", "removed"}]
  /\ owner \in [Containers -> Calls \cup {Idle, Lost}]
  /\ pc \in [Calls -> HandlerPlaces \cup WorkerPlaces]
  /\ \A r \in Requests : pc[r] \in HandlerPlaces
  /\ \A w \in Workers : pc[w] \in WorkerPlaces
  /\ task \in [Workers -> Requests \cup {NoTask}]
  /\ queue \in [Keys -> SUBSET Requests]
  /\ tasks \in SUBSET Requests /\ pushed \in SUBSET Requests
  /\ tnotify \in NotifyType /\ qnotify \in NotifyType
  /\ log \in Seq(Notes)
  /\ pos \in [Sockets \cup Requests -> Nat]
  /\ socket \in [Sockets -> {"none", "open", "ended"}]
  /\ seen \in [Sockets -> Seq(Notes)]

Queued(r) == r \in queue[KeyOf[r]]
TakenBy(r, w) == task[w] = r /\ pc[w] \notin {"renew", "dead"}

\* Whatever a worker may find in a queue, and whatever it has taken, is in the
\* tasks map until its run is over (add_task inserts before it enqueues,
\* process_next reads the map after its dequeue and removes after the run).
TaskKnown ==
  /\ \A k \in Keys : queue[k] \subseteq tasks
  /\ \A w \in Workers : pc[w] \in Executing \cup {"fetch", "done"} => task[w] \in tasks

\* A request is run by one caller at most: by its handler, or, from its
\* enqueue on, by one worker of its language, and it is not queued any more
\* when that worker has it.
OneRunner ==
  /\ \A k \in Keys : \A r \in queue[k] : KeyOf[r] = k
  /\ \A r \in Requests, w \in Workers : TakenBy(r, w) =>
       /\ KeyOf[w] = KeyOf[r] /\ ~Queued(r)
       /\ \A v \in Workers : TakenBy(r, v) => v = w
  /\ \A r \in Requests :
       pc[r] \in Executing \cup {"idle", "lookup", "decide", "insert", "enqueue", "push"} =>
         ~Queued(r) /\ \A w \in Workers : ~TakenBy(r, w)

\* No call holds a container that cleanup has removed: the pool is locked, so
\* nothing is taken from it or returned to it.
RemovedNotInUse == \A c \in Containers : docker[c] = "removed" => owner[c] \notin Calls

\* A WebSocket client gets everything that is sent from the moment it connected
\* to the moment forwarding ends, in order: a gap ends it.
ForwardedInOrder ==
  \A s \in Sockets :
    /\ Len(seen[s]) <= Len(log)
    /\ seen[s] = SubSeq(log, 1, Len(seen[s]))
    /\ socket[s] = "open" => pos[s] = Len(seen[s])

\* Every entry of the tasks map is queued, about to be queued, or with a worker,
\* unless the run of its task failed ("?" of process_next) or its handler was
\* dropped between the insert and the enqueue of add_task.  In no other way a
\* task is forgotten, or left in the map when it is done.
Accounted(r) ==
  r \in tasks => pc[r] = "enqueue" \/ Queued(r) \/ \E w \in Workers : TakenBy(r, w)
TasksAccounted ==
  [][\A r \in Requests : Accounted(r) =>
       \/ Accounted(r)'
       \/ pc[r] = "enqueue" /\ pc'[r] = "gone"
       \/ \E w \in Workers : TakenBy(r, w) /\ pc[w] \in Executing]_vars

\* A worker that looks at its queue again without being told to.
Awake(w) == pc[w] \notin {"park", "dead"} /\ ~Asleep(w)

\* Somebody will look at the queue of language k, or the next who would wait
\* for it finds a wake-up.
Attended(k) ==
  queue[k] # {} =>
    qnotify.permit \/ \E w \in Workers : KeyOf[w] = k /\ Awake(w)

TakesWakeup(w) ==
  \/ Enlisted(qnotify, w) /\ ~Enlisted(qnotify, w)'
  \/ pc[w] = "park" /\ pc'[w] = "dequeue" /\ ~Enlisted(qnotify, w)'

LiesDown(w) ==
  \/ pc[w] = "renew" /\ Enlisted(tnotify, w)'
  \/ pc[w] # "dead" /\ pc'[w] = "dead"

\* With workers of any languages: a queued task loses the last worker that
\* would look for it only when a worker of another language takes the wake-up,
\* or when one of its own lies down on task_notify, or dies of a panic.  No
\* enqueue, and no order of the look at the queue and notified(), does it.
WakeupsAccounted ==
  [][\A k \in Keys : Attended(k) =>
       \/ Attended(k)'
       \/ \E w \in Workers : IF KeyOf[w] = k THEN LiesDown(w) ELSE TakesWakeup(w)]_vars

\* A queued task is taken by a worker (or is gone with the process).
TaskTaken == \A r \in Requests \ Parallel : Queued(r) ~> ~Queued(r)

\* A batch does not keep its slot of the four for ever.
BatchEnds == \A r \in Batches : r \in BatchesUnderWay ~> r \notin BatchesUnderWay

\* A client that waits for a queued request is answered when it has been run.
CompletionReported ==
  \A r \in Requests, w \in Workers :
    pc[r] = "waiting" /\ TakenBy(r, w) /\ pc[w] = "done" ~> pc[r] = "answered" \/ phase = "exited"
=============================================================================
