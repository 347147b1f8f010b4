---------------------------- MODULE ServiceProofs ----------------------------
(***************************************************************************)
(* Invariants of the whole process, for any requests, workers, containers, *)
(* languages and WebSockets.                                               *)
(***************************************************************************)
EXTENDS Service, SequenceTheorems, TLAPS

\* add_task enqueues a task only after it has inserted it.
Inserted == \A r \in Requests : pc[r] = "enqueue" => r \in tasks

\* Containers are removed by cleanup only, and nothing of the pool outlives the
\* process.
Shut ==
  /\ \A c \in Containers : docker[c] = "removed" => phase \in {"cleaning", "exited"}
  /\ phase = "exited" => \A c \in Containers : owner[c] = Lost

\* TaskKnown and OneRunner rest on each other: an entry may be removed because
\* its task is with nobody else, and it is with nobody else because it was
\* popped, and pushed once.  RemovedNotInUse rests on Shut.
IInv ==
  /\ ServiceTypeOK /\ TaskKnown /\ OneRunner /\ Inserted
  /\ RemovedNotInUse /\ Shut /\ ForwardedInOrder

-----------------------------------------------------------------------------
\* The pieces a step is made of.

\* A Notify stays one.
LEMMA NotifyKeeps ==
  ASSUME NEW n \in NotifyType
  PROVE  /\ NotifyOne(n) \in NotifyType
         /\ \A w \in Workers : Enlist(n, w) \in NotifyType
<1>1. n.permit \in BOOLEAN /\ n.waiting \in Seq(Workers)
  BY DEF NotifyType
<1>2. n.waiting # <<>> => Tail(n.waiting) \in Seq(Workers)
  BY <1>1
<1>3. \A w \in Workers : Append(n.waiting, w) \in Seq(Workers)
  BY <1>1
<1>4. NotifyOne(n) \in NotifyType
  BY <1>1, <1>2 DEF NotifyOne, NotifyType
<1>5. \A w \in Workers : Enlist(n, w) \in NotifyType
  BY <1>1, <1>3 DEF Enlist, NotifyType
<1> QED
  BY <1>4, <1>5

LEMMA NewNotifyType == NewNotify \in NotifyType
BY DEF NewNotify, NotifyType

\* x goes nowhere else than to one of L.
Moves(x, L) == pc' = pc \/ \E l \in L : Goto(x, l)

\* Where a call of the executor is next.
NextPlaces(x) == Executing \cup (IF x \in Requests THEN Ended ELSE {"done", "renew", "dead"})

\* The containers go from the pool to calls only while the pool is free, and
\* nobody finds one after the process has ended.
OwnersMove ==
  /\ owner' \in [Containers -> Calls \cup {Idle, Lost}]
  /\ \A c \in Containers : owner'[c] \in Calls =>
        owner[c] \in Calls \/ (owner[c] = Idle /\ PoolFree)
  /\ \A c \in Containers : owner[c] = Lost => owner'[c] = Lost

\* What a step of a call of the executor does.
ExecutorMoves(x) ==
  /\ pc[x] \in Executing /\ Moves(x, NextPlaces(x))
  /\ OwnersMove
  /\ tnotify' \in {tnotify, NotifyOne(tnotify)}
  /\ UNCHANGED others

\* The owners after one step of Execution.
LEMMA OwnersSteps ==
  ASSUME IInv, NEW x \in Calls
  PROVE  /\ UNCHANGED owner => OwnersMove
         /\ Exec!Enter(x) => OwnersMove
         /\ Exec!Abort(x, {}) => OwnersMove
         /\ \A c \in Containers : Exec!Take(x, c) /\ PoolFree => OwnersMove
         /\ \A c \in Containers : Exec!Return(x, c) \/ Exec!Finish(x, c) => OwnersMove
<1>1. /\ owner \in [Containers -> Calls \cup {Idle, Lost}]
      /\ Idle \notin Calls /\ Lost \notin Calls /\ Idle # Lost
  BY ServiceAssumption DEF ServiceAssumption, IInv, ServiceTypeOK
<1>2. UNCHANGED owner => OwnersMove
  BY <1>1 DEF OwnersMove
<1>3. Exec!Enter(x) => OwnersMove
  BY <1>2 DEF Exec!Enter
<1>4. Exec!Abort(x, {}) => OwnersMove
  BY <1>1 DEF OwnersMove, Exec!Abort, Exec!Leases!Abandon
<1>5. \A c \in Containers : Exec!Take(x, c) /\ PoolFree => OwnersMove
  BY <1>1 DEF OwnersMove, Exec!Take, Exec!Leases!Take
<1>6. \A c \in Containers : Exec!Return(x, c) \/ Exec!Finish(x, c) => OwnersMove
  BY <1>1 DEF OwnersMove, Exec!Return, Exec!Finish, Exec!Leases!Return
<1> QED
  BY <1>2, <1>3, <1>4, <1>5, <1>6

\* Where Ok, Err and a panic lead.
LEMMA ThenPlaces ==
  ASSUME NEW x \in Calls, NEW r \in {"ok", "err", "panic"}
  PROVE  Then(x, r) \in NextPlaces(x)
BY DEF Then, NextPlaces, Ended

LEMMA ExecutorSteps ==
  ASSUME IInv, NEW x \in Calls, Acquire(x) \/ ExecuteStep(x)
  PROVE  ExecutorMoves(x)
<1>p. {"get", "work", "giveback"} \subseteq Executing /\ Executing \subseteq NextPlaces(x)
  BY DEF Executing, Inside, NextPlaces
<1>0. ASSUME Reject(x) PROVE ExecutorMoves(x)
  <2>1. OwnersMove
    BY <1>0, OwnersSteps DEF Reject
  <2>2. Moves(x, NextPlaces(x)) /\ pc[x] \in Executing
    BY <1>0, ThenPlaces DEF Reject, Moves, Executing, Inside
  <2> QED
    BY <1>0, <2>1, <2>2 DEF Reject, ExecutorMoves
<1>1. ASSUME Acquire(x) PROVE ExecutorMoves(x)
  <2>1. OwnersMove
    BY <1>1, OwnersSteps DEF Acquire
  <2>2. Moves(x, NextPlaces(x)) /\ pc[x] \in Executing
    BY <1>1, <1>p DEF Acquire, Moves, Executing
  <2> QED
    BY <1>1, <2>1, <2>2 DEF Acquire, ExecutorMoves
<1>2. ASSUME Get(x) PROVE ExecutorMoves(x)
  <2>1. OwnersMove
    BY <1>2, OwnersSteps DEF Get, Pooled
  <2>2. Moves(x, NextPlaces(x)) /\ pc[x] \in Executing
    BY <1>2, <1>p, ThenPlaces DEF Get, Moves, Executing, Inside
  <2> QED
    BY <1>2, <2>1, <2>2 DEF Get, ExecutorMoves
<1>3. ASSUME More(x) PROVE ExecutorMoves(x)
  <2>1. OwnersMove
    BY <1>3, OwnersSteps DEF More, Pooled
  <2> QED
    BY <1>3, <2>1 DEF More, ExecutorMoves, Moves, Executing, Inside
<1>4. ASSUME Drain(x) PROVE ExecutorMoves(x)
  <2>1. OwnersMove
    BY <1>4, OwnersSteps DEF Drain, Owned
  <2> QED
    BY <1>4, <2>1 DEF Drain, ExecutorMoves, Moves, Executing, Inside
<1>5. ASSUME Run(x) PROVE ExecutorMoves(x)
  <2>1. OwnersMove
    BY <1>5, OwnersSteps DEF Run
  <2> QED
    BY <1>5, <1>p, <2>1 DEF Run, ExecutorMoves, Moves
<1>6. ASSUME Break(x) PROVE ExecutorMoves(x)
  <2>1. OwnersMove
    BY <1>6, OwnersSteps DEF Break
  <2>2. Moves(x, NextPlaces(x)) /\ pc[x] \in Executing
    BY <1>6, ThenPlaces DEF Break, Moves, Executing, Inside
  <2> QED
    BY <1>6, <2>1, <2>2 DEF Break, ExecutorMoves
<1>7. ASSUME GiveBack(x) PROVE ExecutorMoves(x)
  <2>1. OwnersMove
    BY <1>7, OwnersSteps DEF GiveBack, Owned
  <2>2. Moves(x, NextPlaces(x)) /\ pc[x] \in Executing
    BY <1>7, ThenPlaces DEF GiveBack, Moves, Executing, Inside
  <2> QED
    BY <1>7, <2>1, <2>2 DEF GiveBack, ExecutorMoves
<1> QED
  BY <1>0, <1>1, <1>2, <1>3, <1>4, <1>5, <1>6, <1>7 DEF ExecuteStep

-----------------------------------------------------------------------------
\* What each part of IInv needs to know of a step.

TasksOK == TaskKnown /\ OneRunner /\ Inserted
RoomsOK == RemovedNotInUse /\ Shut

LEMMA Parts == IInv <=> ServiceTypeOK /\ TasksOK /\ RoomsOK /\ ForwardedInOrder
BY DEF IInv, TasksOK, RoomsOK

LEMMA PartsNext ==
  IInv' <=> ServiceTypeOK' /\ TasksOK' /\ RoomsOK' /\ ForwardedInOrder'
BY DEF IInv, TasksOK, RoomsOK

\* Before a task is queued.
Early == Executing \cup {"idle", "lookup", "decide", "insert", "enqueue", "push"}

\* While a worker has a task of the map.
Having == Executing \cup {"fetch", "done"}

\* The queue, the map and the tasks of the workers stay; nobody goes back.
LEMMA TasksKeep ==
  ASSUME IInv, UNCHANGED <<queue, tasks, task>>,
         \A w \in Workers : /\ pc'[w] \in Having => pc[w] \in Having
                            /\ pc[w] \in {"renew", "dead"} => pc'[w] \in {"renew", "dead"},
         \A r \in Requests : /\ pc'[r] \in Early => pc[r] \in Early
                             /\ pc'[r] = "enqueue" => pc[r] = "enqueue"
  PROVE  TasksOK'
<1>1. TaskKnown'
  BY DEF IInv, TaskKnown, Having
<1>2. \A r \in Requests, w \in Workers : TakenBy(r, w)' => TakenBy(r, w)
  BY DEF TakenBy
<1>3. \A r \in Requests : Queued(r)' <=> Queued(r)
  BY DEF Queued
<1>4. OneRunner'
  BY <1>2, <1>3 DEF IInv, OneRunner, Early
<1>5. Inserted'
  BY DEF IInv, Inserted
<1> QED
  BY <1>1, <1>4, <1>5 DEF TasksOK

\* Cleanup does not begin or go on, and containers move as calls move them.
LEMMA RoomsKeep ==
  ASSUME IInv, UNCHANGED lifeVars, OwnersMove
  PROVE  RoomsOK'
<1>1. phase' = phase /\ docker' = docker
  BY DEF lifeVars
<1>2. Shut'
  BY <1>1 DEF IInv, Shut, OwnersMove
<1>3. RemovedNotInUse'
  BY <1>1, ServiceAssumption
     DEF ServiceAssumption, IInv, RemovedNotInUse, Shut, OwnersMove, PoolFree
<1> QED
  BY <1>2, <1>3 DEF RoomsOK

\* Nothing is sent or forwarded.
LEMMA ForwardKeeps ==
  ASSUME IInv, UNCHANGED <<log, socket, seen>>, \A s \in Sockets : pos'[s] = pos[s]
  PROVE  ForwardedInOrder'
BY DEF IInv, ForwardedInOrder

\* Something is sent.
LEMMA SendKeeps ==
  ASSUME IInv, NEW n \in Notes, log' = Append(log, n), UNCHANGED <<pos, socket, seen>>
  PROVE  ForwardedInOrder'
<1> SUFFICES ASSUME NEW s \in Sockets
             PROVE  /\ Len(seen[s]) <= Len(log')
                    /\ seen[s] = SubSeq(log', 1, Len(seen[s]))
                    /\ socket[s] = "open" => pos[s] = Len(seen[s])
  BY DEF ForwardedInOrder
<1>1. log \in Seq(Notes) /\ seen[s] \in Seq(Notes)
  BY DEF IInv, ServiceTypeOK
<1>2. /\ Len(seen[s]) <= Len(log) /\ Len(seen[s]) \in Nat /\ Len(log) \in Nat
      /\ seen[s] = SubSeq(log, 1, Len(seen[s]))
      /\ socket[s] = "open" => pos[s] = Len(seen[s])
  BY <1>1, LenProperties DEF IInv, ForwardedInOrder
<1>3. Len(log') = Len(log) + 1 /\ log' \in Seq(Notes)
  BY <1>1, AppendProperties
<1>4. SubSeq(log', 1, Len(seen[s])) = SubSeq(log, 1, Len(seen[s]))
  <2>1. \A i \in 1 .. Len(seen[s]) : log'[i] = log[i]
    BY <1>1, <1>2, AppendProperties
  <2> DEFINE a == SubSeq(log', 1, Len(seen[s]))
             b == SubSeq(log, 1, Len(seen[s]))
  <2>2. \A i \in 1 .. Len(seen[s]) : log[i] \in Notes /\ log'[i] \in Notes
    BY <1>1, <1>2, <1>3, ElementOfSeq
  <2>3. /\ a \in Seq(Notes) /\ Len(a) = Len(seen[s])
        /\ b \in Seq(Notes) /\ Len(b) = Len(seen[s])
        /\ \A i \in 1 .. Len(seen[s]) : a[i] = log'[i] /\ b[i] = log[i]
    BY <1>2, <2>2, SubSeqProperties
  <2> HIDE DEF a, b
  <2>4. a = b
    BY <2>1, <2>3, SeqEqual
  <2> QED
    BY <2>4 DEF a, b
<1> QED
  BY <1>2, <1>3, <1>4

\* Where everybody is.
PlacesOK ==
  /\ pc \in [Calls -> HandlerPlaces \cup WorkerPlaces]
  /\ \A r \in Requests : pc[r] \in HandlerPlaces
  /\ \A w \in Workers : pc[w] \in WorkerPlaces

\* One call moves, the others stay where they are.
LEMMA MovesTo ==
  ASSUME IInv, NEW x \in Calls, NEW L, Moves(x, L)
  PROVE  /\ pc'[x] \in L \cup {pc[x]}
         /\ \A y \in Calls \ {x} : pc'[y] = pc[y]
         /\ /\ x \in Requests => L \subseteq HandlerPlaces
            /\ x \in Workers => L \subseteq WorkerPlaces
            => PlacesOK'
<1>1. PlacesOK
  BY DEF IInv, ServiceTypeOK, PlacesOK
<1>2. /\ pc'[x] \in L \cup {pc[x]}
      /\ \A y \in Calls \ {x} : pc'[y] = pc[y]
      /\ DOMAIN pc' = Calls /\ pc' = [y \in Calls |-> pc'[y]]
  BY <1>1 DEF Moves, Goto, PlacesOK
<1>3. ASSUME x \in Requests => L \subseteq HandlerPlaces,
             x \in Workers => L \subseteq WorkerPlaces
      PROVE  PlacesOK'
  <2>1. \A y \in Requests : pc'[y] \in HandlerPlaces
    BY <1>1, <1>2, <1>3 DEF PlacesOK, Calls
  <2>2. \A y \in Workers : pc'[y] \in WorkerPlaces
    BY <1>1, <1>2, <1>3 DEF PlacesOK, Calls
  <2> QED
    BY <1>2, <2>1, <2>2 DEF PlacesOK, Calls
<1> QED
  BY <1>2, <1>3

\* A request is not a worker, nor a WebSocket.
LEMMA Apart ==
  /\ \A x \in Requests : x \in Calls /\ x \notin Workers /\ x \notin Sockets
  /\ \A x \in Workers : x \in Calls /\ x \notin Requests
BY ServiceAssumption DEF ServiceAssumption, Calls

-----------------------------------------------------------------------------
\* A call of the executor.
LEMMA ExecutorKeeps ==
  ASSUME IInv, NEW x \in Calls, ExecutorMoves(x)
  PROVE  IInv'
<1>1. /\ pc[x] \in Executing /\ pc'[x] \in NextPlaces(x) \cup {pc[x]}
      /\ \A y \in Calls \ {x} : pc'[y] = pc[y]
  BY MovesTo DEF ExecutorMoves
<1>2. PlacesOK'
  <2>1. /\ x \in Requests => NextPlaces(x) \subseteq HandlerPlaces
        /\ x \in Workers => NextPlaces(x) \subseteq WorkerPlaces
    BY Apart DEF NextPlaces, HandlerPlaces, WorkerPlaces
  <2> QED
    BY <2>1, MovesTo DEF ExecutorMoves
<1>3. ServiceTypeOK'
  <2>1. tnotify' \in NotifyType
    BY NotifyKeeps DEF ExecutorMoves, IInv, ServiceTypeOK
  <2> QED
    BY <1>2, <2>1
       DEF PlacesOK, ExecutorMoves, OwnersMove, others, lifeVars, queueVars, channelVars,
           socketVars, IInv, ServiceTypeOK
<1>4. TasksOK'
  <2>1. UNCHANGED <<queue, tasks, task>>
    BY DEF ExecutorMoves, others, queueVars
  <2>2. x \in Workers => /\ pc[x] \in Having
                         /\ pc[x] \notin {"renew", "dead"}
    BY <1>1 DEF Having, Executing, Inside
  <2>3. x \in Requests => /\ pc[x] \in Early
                          /\ pc'[x] # "enqueue"
    BY <1>1 DEF Early, Executing, Inside, NextPlaces, Ended
  <2> QED
    BY <1>1, <2>1, <2>2, <2>3, TasksKeep, Apart
<1>5. RoomsOK'
  BY RoomsKeep DEF ExecutorMoves, others
<1>6. ForwardedInOrder'
  BY ForwardKeeps DEF ExecutorMoves, others, channelVars, socketVars
<1> QED
  BY <1>3, <1>4, <1>5, <1>6, PartsNext

-----------------------------------------------------------------------------
\* The workers and add_task.

\* What they leave alone keeps its invariants.
LEMMA RestKeeps ==
  ASSUME IInv, UNCHANGED rest
  PROVE  RoomsOK' /\ ForwardedInOrder'
<1>1. RoomsOK'
  BY RoomsKeep, OwnersSteps DEF rest, OwnersMove, IInv, ServiceTypeOK
<1>2. ForwardedInOrder'
  BY ForwardKeeps DEF rest, channelVars, socketVars
<1> QED
  BY <1>1, <1>2

\* And its type.
LEMMA RestType ==
  ASSUME IInv, UNCHANGED rest, PlacesOK',
         task' \in [Workers -> Requests \cup {NoTask}],
         queue' \in [Keys -> SUBSET Requests], tasks' \in SUBSET Requests,
         tnotify' \in NotifyType, qnotify' \in NotifyType
  PROVE  ServiceTypeOK'
BY DEF PlacesOK, rest, lifeVars, channelVars, socketVars, IInv, ServiceTypeOK

\* Steps that touch neither the queues, nor the map, nor what workers have.
LEMMA WaitKeeps ==
  ASSUME IInv, NEW x \in Calls, NEW L, Moves(x, L), UNCHANGED <<rest, queue, tasks, task>>,
         tnotify' \in NotifyType, qnotify' \in NotifyType,
         x \in Workers => /\ L \subseteq WorkerPlaces
                          /\ pc'[x] \in Having => pc[x] \in Having
                          /\ pc[x] \notin {"renew", "dead"},
         x \in Requests => /\ L \subseteq HandlerPlaces \ {"enqueue"}
                           /\ pc[x] \in Early
  PROVE  IInv'
<1>1. /\ pc'[x] \in L \cup {pc[x]}
      /\ \A y \in Calls \ {x} : pc'[y] = pc[y]
      /\ PlacesOK'
  BY MovesTo
<1>2. ServiceTypeOK'
  BY <1>1, RestType DEF IInv, ServiceTypeOK
<1>3. TasksOK'
  BY <1>1, TasksKeep, Apart
<1> QED
  BY <1>2, <1>3, RestKeeps, PartsNext

LEMMA ParkKeeps == ASSUME IInv, NEW w \in Workers, Park(w) PROVE IInv'
<1>1. w \in Calls /\ w \notin Requests
  BY Apart
<1>2. Moves(w, {"dequeue"}) /\ pc'[w] = "dequeue"
  BY <1>1 DEF Park, Moves, Goto, IInv, ServiceTypeOK
<1>3. tnotify' \in NotifyType /\ qnotify' \in NotifyType
  BY NotifyKeeps DEF Park, IInv, ServiceTypeOK
<1> QED
  BY <1>1, <1>2, <1>3, WaitKeeps DEF Park, Having, Executing, Inside, WorkerPlaces

LEMMA FetchKeeps == ASSUME IInv, NEW w \in Workers, Fetch(w) PROVE IInv'
<1>1. w \in Calls /\ w \notin Requests
  BY Apart
<1>2. Moves(w, {"acquire", "renew"}) /\ pc[w] = "fetch"
  BY <1>1 DEF Fetch, Moves
<1>3. tnotify' \in NotifyType /\ qnotify' \in NotifyType
  BY DEF Fetch, IInv, ServiceTypeOK, queueVars
<1> QED
  BY <1>1, <1>2, <1>3, WaitKeeps DEF Fetch, queueVars, Having, Executing, WorkerPlaces

\* A worker that starts over has no task.
LEMMA RenewKeeps == ASSUME IInv, NEW w \in Workers, Renew(w) PROVE IInv'
<1>1. /\ w \in Calls /\ w \notin Requests
      /\ pc[w] = "renew" /\ pc'[w] = "dequeue"
      /\ \A y \in Calls \ {w} : pc'[y] = pc[y]
      /\ task'[w] = NoTask
      /\ \A v \in Workers \ {w} : task'[v] = task[v]
      /\ UNCHANGED <<queue, tasks>>
  BY Apart DEF Renew, Goto, queueVars, IInv, ServiceTypeOK
<1>2. PlacesOK'
  BY <1>1, MovesTo DEF Renew, Moves, WorkerPlaces
<1>3. ServiceTypeOK'
  <2>1. tnotify' \in NotifyType /\ qnotify' \in NotifyType
    BY NotifyKeeps DEF Renew, queueVars, IInv, ServiceTypeOK
  <2>2. task' \in [Workers -> Requests \cup {NoTask}]
    BY DEF Renew, IInv, ServiceTypeOK
  <2> QED
    BY <1>1, <1>2, <2>1, <2>2, RestType DEF Renew, IInv, ServiceTypeOK
<1>4. \A r \in Requests, v \in Workers : TakenBy(r, v)' => TakenBy(r, v)
  BY <1>1, Apart, ServiceAssumption DEF TakenBy, ServiceAssumption
<1>5. TasksOK'
  <2>1. TaskKnown'
    BY <1>1, Apart DEF IInv, TaskKnown, Executing, Inside
  <2>2. OneRunner'
    BY <1>1, <1>4, Apart DEF IInv, OneRunner, Queued
  <2>3. Inserted'
    BY <1>1, Apart DEF IInv, Inserted
  <2> QED
    BY <2>1, <2>2, <2>3 DEF TasksOK
<1> QED
  BY <1>3, <1>5, RestKeeps, PartsNext DEF Renew

\* A task is popped: it was queued once, and it is with this worker now.
LEMMA DequeueKeeps == ASSUME IInv, NEW w \in Workers, Dequeue(w) PROVE IInv'
<1> DEFINE k == KeyOf[w]
<1>1. /\ w \in Calls /\ w \notin Requests /\ k \in Keys
      /\ pc[w] = "dequeue"
  BY Apart, ServiceAssumption DEF Dequeue, ServiceAssumption
<1>2. tnotify' \in NotifyType /\ qnotify' \in NotifyType /\ UNCHANGED <<rest, tasks>>
  BY DEF Dequeue, IInv, ServiceTypeOK
<1>3. CASE queue[k] = {}
  <2>1. Moves(w, {"park"}) /\ UNCHANGED <<queue, task>>
    BY <1>3 DEF Dequeue, Moves
  <2>2. pc'[w] \notin Having
    BY <1>1, <2>1, MovesTo DEF Having, Executing, Inside
  <2> QED
    BY <1>1, <1>2, <2>1, <2>2, WaitKeeps DEF WorkerPlaces
<1>4. CASE queue[k] # {}
  <2>1. PICK r \in queue[k] : /\ queue' = [queue EXCEPT ![k] = @ \ {r}]
                              /\ task' = [task EXCEPT ![w] = r]
                              /\ Goto(w, "fetch")
    BY <1>4 DEF Dequeue
  <2>2. /\ r \in Requests /\ KeyOf[r] = k /\ r \in tasks
        /\ queue'[k] = queue[k] \ {r}
        /\ \A l \in Keys \ {k} : queue'[l] = queue[l]
        /\ task'[w] = r
        /\ \A v \in Workers \ {w} : task'[v] = task[v]
        /\ pc'[w] = "fetch"
        /\ \A y \in Calls \ {w} : pc'[y] = pc[y]
    BY <1>1, <2>1 DEF Goto, IInv, ServiceTypeOK, OneRunner, TaskKnown
  <2>3. PlacesOK'
    BY <1>1, <2>1, MovesTo DEF Moves, WorkerPlaces
  <2>4. ServiceTypeOK'
    <3>1. /\ task' \in [Workers -> Requests \cup {NoTask}]
          /\ queue' \in [Keys -> SUBSET Requests]
      BY <2>1, <2>2 DEF IInv, ServiceTypeOK
    <3> QED
      BY <1>2, <2>3, <3>1, RestType DEF IInv, ServiceTypeOK
  <2>5. TaskKnown'
    BY <1>2, <2>2, Apart DEF IInv, TaskKnown
  <2>6. /\ Queued(r) /\ ~Queued(r)' /\ TakenBy(r, w)'
        /\ \A q \in Requests : Queued(q)' => Queued(q)
        /\ \A q \in Requests \ {r} : ~TakenBy(q, w)'
        /\ \A q \in Requests, v \in Workers \ {w} : TakenBy(q, v)' => TakenBy(q, v)
    BY <1>1, <2>2, Apart, ServiceAssumption DEF ServiceAssumption, Queued, TakenBy
  <2>7. OneRunner'
    <3>1. \A l \in Keys : \A q \in queue'[l] : KeyOf[q] = l
      BY <2>2 DEF IInv, OneRunner
    <3>2. ASSUME NEW q \in Requests, NEW v \in Workers, TakenBy(q, v)'
          PROVE  /\ KeyOf[v] = KeyOf[q] /\ ~Queued(q)'
                 /\ \A u \in Workers : TakenBy(q, u)' => u = v
      <4>1. CASE v = w
        BY <2>2, <2>6, <3>2, <4>1 DEF IInv, OneRunner
      <4>2. CASE v # w
        BY <2>6, <3>2, <4>2 DEF IInv, OneRunner
      <4> QED
        BY <4>1, <4>2
    <3>3. ASSUME NEW q \in Requests, pc'[q] \in Early
          PROVE  ~Queued(q)' /\ \A v \in Workers : ~TakenBy(q, v)'
      <4>1. pc[q] \in Early
        BY <2>2, <3>3, Apart
      <4> QED
        BY <2>6, <4>1 DEF IInv, OneRunner, Early
    <3> QED
      BY <3>1, <3>2, <3>3 DEF OneRunner, Early
  <2>8. Inserted'
    BY <1>2, <2>2, Apart DEF IInv, Inserted
  <2> QED
    BY <1>2, <2>4, <2>5, <2>7, <2>8, RestKeeps, PartsNext DEF TasksOK
<1> QED
  BY <1>3, <1>4

\* The entry of a task that is done goes: the task is nowhere else.
LEMMA CompleteKeeps == ASSUME IInv, NEW w \in Workers, Complete(w) PROVE IInv'
<1>1. /\ w \in Calls /\ w \notin Requests
      /\ pc[w] = "done" /\ pc'[w] = "renew"
      /\ \A y \in Calls \ {w} : pc'[y] = pc[y]
      /\ tasks' = tasks \ {task[w]}
      /\ UNCHANGED <<rest, task, tnotify, queue, qnotify>>
  BY Apart DEF Complete, Goto, IInv, ServiceTypeOK
<1>2. task[w] \in tasks /\ task[w] \in Requests /\ TakenBy(task[w], w)
  BY <1>1 DEF IInv, ServiceTypeOK, TaskKnown, TakenBy
<1>3. PlacesOK'
  BY <1>1, MovesTo DEF Complete, Moves, WorkerPlaces
<1>4. ServiceTypeOK'
  BY <1>1, <1>3, RestType DEF IInv, ServiceTypeOK
<1>5. \A r \in Requests, v \in Workers : TakenBy(r, v)' => TakenBy(r, v)
  BY <1>1, Apart DEF TakenBy
<1>6. TaskKnown'
  <2>1. \A k \in Keys : queue[k] \subseteq tasks'
    <3>1. ASSUME NEW k \in Keys, task[w] \in queue[k] PROVE FALSE
      BY <1>2, <3>1 DEF IInv, OneRunner, Queued
    <3> QED
      BY <1>1, <3>1 DEF IInv, TaskKnown
  <2>2. ASSUME NEW v \in Workers, pc'[v] \in Having PROVE task[v] \in tasks'
    <3>1. v # w /\ pc[v] \in Having
      BY <1>1, <2>2, Apart DEF Having, Executing, Inside
    <3>2. task[v] \in tasks /\ task[v] \in Requests /\ TakenBy(task[v], v)
      BY <3>1 DEF IInv, ServiceTypeOK, TaskKnown, TakenBy, Having, Executing, Inside
    <3>3. task[v] # task[w]
      BY <1>2, <3>1, <3>2 DEF IInv, OneRunner
    <3> QED
      BY <1>1, <3>2, <3>3
  <2> QED
    BY <1>1, <2>1, <2>2 DEF TaskKnown, Having
<1>7. OneRunner'
  BY <1>1, <1>5, Apart DEF IInv, OneRunner, Queued
<1>8. Inserted'
  <2>1. ASSUME NEW r \in Requests, pc[r] = "enqueue" PROVE r # task[w]
    BY <1>2, <2>1 DEF IInv, OneRunner
  <2> QED
    BY <1>1, <2>1, Apart DEF IInv, Inserted
<1> QED
  BY <1>1, <1>4, <1>6, <1>7, <1>8, RestKeeps, PartsNext DEF TasksOK

LEMMA WorkerKeeps == ASSUME IInv, NEW w \in Workers, WorkerStep(w) PROVE IInv'
BY DequeueKeeps, ParkKeeps, FetchKeeps, CompleteKeeps, RenewKeeps DEF WorkerStep

LEMMA DecideKeeps == ASSUME IInv, NEW r \in Requests, Decide(r) PROVE IInv'
<1>1. r \in Calls /\ r \notin Workers
  BY Apart
<1>2. Moves(r, {"acquire", "insert"}) /\ pc[r] = "decide"
  BY DEF Decide, Moves
<1>3. tnotify' \in NotifyType /\ qnotify' \in NotifyType
  BY DEF Decide, IInv, ServiceTypeOK, queueVars
<1> QED
  BY <1>1, <1>2, <1>3, WaitKeeps DEF Decide, queueVars, Early, Executing, HandlerPlaces

\* The map grows before the queue does.
LEMMA InsertKeeps == ASSUME IInv, NEW r \in Requests, Insert(r) PROVE IInv'
<1>1. /\ r \in Calls /\ r \notin Workers
      /\ pc[r] = "insert" /\ pc'[r] = "enqueue"
      /\ \A y \in Calls \ {r} : pc'[y] = pc[y]
      /\ tasks' = tasks \cup {r}
      /\ UNCHANGED <<rest, task, tnotify, queue, qnotify>>
  BY Apart DEF Insert, Goto, IInv, ServiceTypeOK
<1>2. PlacesOK'
  BY <1>1, MovesTo DEF Insert, Moves, HandlerPlaces
<1>3. ServiceTypeOK'
  BY <1>1, <1>2, RestType DEF IInv, ServiceTypeOK
<1>4. TaskKnown'
  BY <1>1, Apart DEF IInv, TaskKnown
<1>5. OneRunner'
  <2>1. \A q \in Requests, w \in Workers : TakenBy(q, w)' => TakenBy(q, w)
    BY <1>1, Apart DEF TakenBy
  <2>2. \A q \in Requests : /\ Queued(q)' <=> Queued(q)
                            /\ pc'[q] \in Early => pc[q] \in Early
    BY <1>1, Apart DEF Queued, Early
  <2> QED
    BY <1>1, <2>1, <2>2 DEF IInv, OneRunner, Early
<1>6. Inserted'
  BY <1>1, Apart DEF IInv, Inserted
<1> QED
  BY <1>1, <1>3, <1>4, <1>5, <1>6, RestKeeps, PartsNext DEF TasksOK

\* A task is pushed once, when it is in the map and no worker has it.
LEMMA EnqueueKeeps == ASSUME IInv, NEW r \in Requests, Enqueue(r) PROVE IInv'
<1> DEFINE k == KeyOf[r]
<1>1. /\ r \in Calls /\ r \notin Workers /\ k \in Keys
      /\ pc[r] = "enqueue" /\ pc'[r] = "listen"
      /\ \A y \in Calls \ {r} : pc'[y] = pc[y]
      /\ queue' = [queue EXCEPT ![k] = @ \cup {r}]
      /\ queue'[k] = queue[k] \cup {r}
      /\ \A l \in Keys \ {k} : queue'[l] = queue[l]
      /\ UNCHANGED <<rest, task, tnotify, tasks>>
  BY Apart, ServiceAssumption DEF Enqueue, Goto, IInv, ServiceTypeOK, ServiceAssumption
<1>2. PlacesOK'
  BY <1>1, MovesTo DEF Enqueue, Moves, HandlerPlaces
<1>3. ServiceTypeOK'
  <2>1. queue' \in [Keys -> SUBSET Requests]
    BY <1>1 DEF IInv, ServiceTypeOK
  <2>2. qnotify' \in NotifyType
    BY NotifyKeeps DEF Enqueue, IInv, ServiceTypeOK
  <2> QED
    BY <1>1, <1>2, <2>1, <2>2, RestType DEF IInv, ServiceTypeOK
<1>4. r \in tasks /\ \A w \in Workers : ~TakenBy(r, w)
  BY <1>1 DEF IInv, Inserted, OneRunner
<1>5. TaskKnown'
  <2>1. \A l \in Keys : queue'[l] \subseteq tasks'
    BY <1>1, <1>4 DEF IInv, TaskKnown
  <2> QED
    BY <1>1, <2>1, Apart DEF IInv, TaskKnown
<1>6. /\ \A q \in Requests, w \in Workers : TakenBy(q, w)' => TakenBy(q, w) /\ q # r
      /\ \A q \in Requests \ {r} : Queued(q)' => Queued(q)
  BY <1>1, <1>4, Apart, ServiceAssumption DEF ServiceAssumption, TakenBy, Queued
<1>7. OneRunner'
  <2>1. \A l \in Keys : \A q \in queue'[l] : KeyOf[q] = l
    BY <1>1 DEF IInv, OneRunner
  <2>2. \A q \in Requests : pc'[q] \in Early => pc[q] \in Early /\ q # r
    BY <1>1, Apart DEF Early, Executing, Inside
  <2> QED
    BY <1>6, <2>1, <2>2 DEF IInv, OneRunner, Early
<1>8. Inserted'
  BY <1>1, Apart DEF IInv, Inserted
<1> QED
  BY <1>1, <1>3, <1>5, <1>7, <1>8, RestKeeps, PartsNext DEF TasksOK

-----------------------------------------------------------------------------
\* The handlers.  None of their own steps touches the queue, the map, or what
\* the workers have.
LEMMA HandlerKeeps ==
  ASSUME IInv, NEW r \in Requests, NEW L, Moves(r, L),
         L \subseteq HandlerPlaces \ {"enqueue"},
         L \subseteq HandlerPlaces \ Early \/ pc[r] \in Early,
         UNCHANGED <<lifeVars, task, queueVars, socket, seen>>,
         OwnersMove, tnotify' \in NotifyType, pushed' \in SUBSET Requests,
         log' = log \/ \E n \in Notes : log' = Append(log, n),
         pos' = pos \/ (log' = log /\ \E i \in Nat : pos' = [pos EXCEPT ![r] = i])
  PROVE  IInv'
<1>1. /\ r \in Calls /\ r \notin Workers
      /\ pc'[r] \in L \cup {pc[r]}
      /\ \A y \in Calls \ {r} : pc'[y] = pc[y]
      /\ PlacesOK'
  BY Apart, MovesTo
<1>2. ServiceTypeOK'
  <2>1. log' \in Seq(Notes)
    <3>1. log \in Seq(Notes)
      BY DEF IInv, ServiceTypeOK
    <3>2. \A n \in Notes : Append(log, n) \in Seq(Notes)
      BY <3>1, AppendProperties
    <3> QED
      BY <3>1, <3>2
  <2>2. pos' \in [Sockets \cup Requests -> Nat]
    BY DEF IInv, ServiceTypeOK
  <2> QED
    BY <1>1, <2>1, <2>2 DEF PlacesOK, OwnersMove, lifeVars, queueVars, IInv, ServiceTypeOK
<1>3. TasksOK'
  <2>1. pc'[r] \in Early => pc[r] \in Early
    BY <1>1
  <2>2. pc'[r] = "enqueue" => pc[r] = "enqueue"
    BY <1>1
  <2> QED
    BY <1>1, <2>1, <2>2, TasksKeep, Apart DEF queueVars
<1>4. RoomsOK'
  BY RoomsKeep
<1>5. ForwardedInOrder'
  <2>1. \A s \in Sockets : pos'[s] = pos[s]
    BY <1>1, Apart DEF IInv, ServiceTypeOK
  <2>2. CASE log' = log
    BY <2>1, <2>2, ForwardKeeps
  <2>3. CASE \E n \in Notes : log' = Append(log, n) /\ pos' = pos
    BY <2>3, SendKeeps
  <2>4. ASSUME log' # log PROVE pos' = pos
    BY <2>4
  <2> QED
    BY <2>2, <2>3, <2>4
<1> QED
  BY <1>2, <1>3, <1>4, <1>5, PartsNext

LEMMA ReceiveKeeps == ASSUME IInv, NEW r \in Requests, Receive(r) PROVE IInv'
<1> DEFINE L == {"answered", "lookup", "decide", "push"}
<1>1. Kind[r] \in {"single", "batch", "parallel"}
  BY ServiceAssumption DEF ServiceAssumption
<1>2. Moves(r, L) /\ pc[r] \in Early
  BY <1>1 DEF Receive, Moves, Early
<1>3. log' = log \/ \E n \in Notes : log' = Append(log, n)
  BY DEF Receive, Send, Notes
<1>4. OwnersMove /\ tnotify' \in NotifyType /\ pushed' \in SUBSET Requests
  BY OwnersSteps, Apart DEF Receive, unserviced, IInv, ServiceTypeOK
<1>5. L \subseteq HandlerPlaces \ {"enqueue"}
  BY DEF HandlerPlaces, Ended
<1> QED
  BY <1>2, <1>3, <1>4, <1>5, HandlerKeeps DEF Receive, unserviced, socketVars

LEMMA LookupKeeps == ASSUME IInv, NEW r \in Requests, Lookup(r) PROVE IInv'
<1> DEFINE L == {"answered", "decide"}
<1>1. Moves(r, L) /\ pc[r] \in Early
  BY DEF Lookup, Moves, Early
<1>2. OwnersMove /\ tnotify' \in NotifyType /\ pushed' \in SUBSET Requests
  BY OwnersSteps, Apart DEF Lookup, unserviced, IInv, ServiceTypeOK
<1>3. L \subseteq HandlerPlaces \ {"enqueue"}
  BY DEF HandlerPlaces, Ended
<1> QED
  BY <1>1, <1>2, <1>3, HandlerKeeps DEF Lookup, unserviced, socketVars, channelVars

LEMMA PushParallelKeeps == ASSUME IInv, NEW r \in Requests, PushParallel(r) PROVE IInv'
<1> DEFINE L == {"listen"}
<1>1. Moves(r, L) /\ pc[r] \in Early
  BY DEF PushParallel, Moves, Early
<1>2. OwnersMove /\ tnotify' \in NotifyType /\ pushed' \in SUBSET Requests
  BY OwnersSteps, NotifyKeeps, Apart DEF PushParallel, unserviced, IInv, ServiceTypeOK
<1>3. L \subseteq HandlerPlaces \ {"enqueue"}
  BY DEF HandlerPlaces
<1> QED
  BY <1>1, <1>2, <1>3, HandlerKeeps DEF PushParallel, unserviced, socketVars, channelVars

LEMMA ListenKeeps == ASSUME IInv, NEW r \in Requests, Listen(r) PROVE IInv'
<1> DEFINE L == {"waiting"}
<1>1. Moves(r, L)
  BY DEF Listen, Moves
<1>2. OwnersMove /\ tnotify' \in NotifyType /\ pushed' \in SUBSET Requests
  BY OwnersSteps, Apart DEF Listen, unserviced, IInv, ServiceTypeOK
<1>3. L \subseteq HandlerPlaces \ Early /\ L \subseteq HandlerPlaces \ {"enqueue"}
  BY DEF HandlerPlaces, Early, Executing, Inside
<1>4. log' = log /\ \E i \in Nat : pos' = [pos EXCEPT ![r] = i]
  <2>1. log \in Seq(Notes)
    BY DEF IInv, ServiceTypeOK
  <2>2. Len(log) \in Nat
    BY <2>1, LenProperties
  <2> DEFINE n == Len(log)
  <2>3. log' = log /\ pos' = [pos EXCEPT ![r] = n]
    BY DEF Listen
  <2>4. n \in Nat
    BY <2>2
  <2> HIDE DEF n
  <2> QED
    BY <2>3, <2>4
<1> QED
  BY <1>1, <1>2, <1>3, <1>4, HandlerKeeps DEF Listen, unserviced, socketVars

LEMMA HearKeeps == ASSUME IInv, NEW r \in Requests, Hear(r) PROVE IInv'
<1> DEFINE L == {"waiting", "answered"}
<1>1. Moves(r, L)
  BY DEF Hear, Moves
<1>2. OwnersMove /\ tnotify' \in NotifyType /\ pushed' \in SUBSET Requests
  BY OwnersSteps, Apart DEF Hear, unserviced, IInv, ServiceTypeOK
<1>3. L \subseteq HandlerPlaces \ Early /\ L \subseteq HandlerPlaces \ {"enqueue"}
  BY DEF HandlerPlaces, Early, Executing, Inside, Ended
<1>4. log' = log /\ \E i \in Nat : pos' = [pos EXCEPT ![r] = i]
  <2>1. log \in Seq(Notes) /\ pos[r] \in Nat
    BY DEF IInv, ServiceTypeOK
  <2>2. Len(log) \in Nat /\ Capacity \in Nat
    BY <2>1, LenProperties, ServiceAssumption DEF ServiceAssumption
  <2>3. Lagged(r) => Len(log) - Capacity + 1 \in Nat
    BY <2>1, <2>2 DEF Lagged
  <2> DEFINE next == IF Lagged(r) THEN Len(log) - Capacity + 1 ELSE pos[r] + 1
  <2>4. log' = log /\ pos' = [pos EXCEPT ![r] = next]
    BY DEF Hear
  <2>5. next \in Nat
    BY <2>1, <2>3
  <2> HIDE DEF next
  <2> QED
    BY <2>4, <2>5
<1> QED
  BY <1>1, <1>2, <1>3, <1>4, HandlerKeeps DEF Hear, unserviced, socketVars

\* A dropped handler loses what it holds, and goes where nothing is queued.
LEMMA DropKeeps == ASSUME IInv, NEW r \in Requests, Drop(r) PROVE IInv'
<1> DEFINE L == {"gone"}
<1>1. Moves(r, L)
  BY DEF Drop, Moves
<1>2. OwnersMove /\ tnotify' \in NotifyType /\ pushed' \in SUBSET Requests
  <2>1. OwnersMove
    BY OwnersSteps, Apart DEF Drop
  <2> QED
    BY <2>1 DEF Drop, IInv, ServiceTypeOK
<1>3. L \subseteq HandlerPlaces \ Early /\ L \subseteq HandlerPlaces \ {"enqueue"}
  BY DEF HandlerPlaces, Early, Executing, Inside, Ended
<1> QED
  BY <1>1, <1>2, <1>3, HandlerKeeps DEF Drop, socketVars, channelVars

-----------------------------------------------------------------------------
\* main, and the WebSockets.

\* Only containers and the phase change.
LEMMA LifeKeeps ==
  ASSUME IInv, UNCHANGED <<pc, task, tnotify, queueVars, pushed, channelVars, socketVars>>,
         phase' \in {"starting", "serving", "cleaning", "exited"},
         docker' \in [Containers -> {"untried", "unpooled", "running", "removed"}],
         owner' \in [Containers -> Calls \cup {Idle, Lost}],
         RoomsOK'
  PROVE  IInv'
<1>1. ServiceTypeOK'
  BY DEF queueVars, channelVars, socketVars, IInv, ServiceTypeOK
<1>2. TasksOK'
  BY DEF queueVars, TasksOK, IInv, TaskKnown, OneRunner, Inserted, Queued, TakenBy
<1>3. ForwardedInOrder'
  BY ForwardKeeps DEF channelVars, socketVars
<1> QED
  BY <1>1, <1>2, <1>3, PartsNext

LEMMA CreateKeeps == ASSUME IInv, NEW c \in Containers, Create(c) PROVE IInv'
<1>1. /\ docker' \in [Containers -> {"untried", "unpooled", "running", "removed"}]
      /\ owner' \in [Containers -> Calls \cup {Idle, Lost}]
      /\ phase = "starting" /\ phase' = phase
  BY DEF Create, IInv, ServiceTypeOK
<1>2. \A d \in Containers : docker'[d] # "removed"
  BY <1>1 DEF Create, IInv, ServiceTypeOK, Shut
<1>3. RoomsOK'
  BY <1>1, <1>2 DEF RoomsOK, RemovedNotInUse, Shut
<1> QED
  BY <1>1, <1>3, LifeKeeps DEF Create

LEMMA BecomeKeeps ==
  ASSUME IInv, NEW p, NEW q, Become(p, q),
         <<p, q>> \in {<<"starting", "serving">>, <<"serving", "cleaning">>}
  PROVE  IInv'
<1>1. /\ phase \in {"starting", "serving"} /\ phase' \in {"serving", "cleaning"}
      /\ UNCHANGED <<docker, owner>>
  BY DEF Become
<1>2. RoomsOK'
  BY <1>1 DEF RoomsOK, IInv, RemovedNotInUse, Shut
<1> QED
  BY <1>1, <1>2, LifeKeeps DEF Become, IInv, ServiceTypeOK

\* Only what is in the pool is removed.
LEMMA RemoveKeeps == ASSUME IInv, NEW c \in Containers, Remove(c) PROVE IInv'
<1>1. /\ docker' \in [Containers -> {"untried", "unpooled", "running", "removed"}]
      /\ \A d \in Containers : docker'[d] = "removed" => d = c \/ docker[d] = "removed"
      /\ phase = "cleaning" /\ phase' = phase /\ owner' = owner
      /\ owner[c] \notin Calls
  BY ServiceAssumption DEF ServiceAssumption, Remove, IInv, ServiceTypeOK
<1>2. RoomsOK'
  BY <1>1 DEF RoomsOK, IInv, RemovedNotInUse, Shut
<1> QED
  BY <1>1, <1>2, LifeKeeps DEF Remove, IInv, ServiceTypeOK

\* The memory is gone.
LEMMA VanishKeeps == ASSUME IInv, Vanish PROVE IInv'
<1>1. PlacesOK'
  BY Apart DEF Vanish, PlacesOK, HandlerPlaces, WorkerPlaces, Ended, Calls
<1>2. ServiceTypeOK'
  <2>1. /\ owner' \in [Containers -> Calls \cup {Idle, Lost}]
        /\ docker' \in [Containers -> {"untried", "unpooled", "running", "removed"}]
        /\ task' \in [Workers -> Requests \cup {NoTask}]
        /\ queue' \in [Keys -> SUBSET Requests]
        /\ phase' \in {"starting", "serving", "cleaning", "exited"}
        /\ tasks' \in SUBSET Requests /\ pushed' \in SUBSET Requests
        /\ tnotify' \in NotifyType /\ qnotify' \in NotifyType
    BY NewNotifyType DEF Vanish, IInv, ServiceTypeOK
  <2>2. /\ log' \in Seq(Notes)
        /\ pos' \in [Sockets \cup Requests -> Nat]
        /\ socket' \in [Sockets -> {"none", "open", "ended"}]
        /\ seen' \in [Sockets -> Seq(Notes)]
    BY DEF Vanish
  <2> QED
    BY <1>1, <2>1, <2>2 DEF ServiceTypeOK, PlacesOK
<1>3. TasksOK'
  <2>1. /\ \A w \in Workers : pc'[w] = "dead"
        /\ \A r \in Requests : pc'[r] = "gone"
        /\ \A k \in Keys : queue'[k] = {}
    BY Apart DEF Vanish
  <2>2. \A r \in Requests, w \in Workers : ~TakenBy(r, w)'
    BY <2>1 DEF TakenBy
  <2>3. TaskKnown'
    BY <2>1 DEF TaskKnown, Executing, Inside
  <2>4. OneRunner'
    BY <2>1, <2>2 DEF OneRunner, Executing, Inside
  <2>5. Inserted'
    BY <2>1 DEF Inserted
  <2> QED
    BY <2>3, <2>4, <2>5 DEF TasksOK
<1>4. RoomsOK'
  BY ServiceAssumption DEF ServiceAssumption, Vanish, RoomsOK, RemovedNotInUse, Shut
<1>5. ForwardedInOrder'
  <2>1. /\ log' = <<>>
        /\ \A s \in Sockets : seen'[s] = <<>> /\ socket'[s] = "ended"
    BY DEF Vanish
  <2>2. Len(log') = 0 /\ SubSeq(log', 1, 0) = <<>>
    BY <2>1
  <2>3. \A s \in Sockets : Len(seen'[s]) = 0
    BY <2>1
  <2>4. ASSUME NEW s \in Sockets
        PROVE  /\ Len(seen'[s]) <= Len(log')
               /\ seen'[s] = SubSeq(log', 1, Len(seen'[s]))
               /\ socket'[s] # "open"
    <3>1. Len(seen'[s]) <= Len(log')
      BY <2>2, <2>3
    <3>2. seen'[s] = SubSeq(log', 1, Len(seen'[s]))
      BY <2>1, <2>2, <2>3
    <3> QED
      BY <2>1, <3>1, <3>2
  <2> QED
    BY <2>4 DEF ForwardedInOrder
<1> QED
  BY <1>2, <1>3, <1>4, <1>5, PartsNext

\* One WebSocket moves, and what it has seen is still a prefix of log.
LEMMA SocketKeeps ==
  ASSUME IInv, UNCHANGED <<unheard, log>>, NEW s \in Sockets,
         socket' \in [Sockets -> {"none", "open", "ended"}],
         pos' \in [Sockets \cup Requests -> Nat],
         seen' \in [Sockets -> Seq(Notes)],
         \A t \in Sockets \ {s} :
           socket'[t] = socket[t] /\ pos'[t] = pos[t] /\ seen'[t] = seen[t],
         Len(seen'[s]) <= Len(log), seen'[s] = SubSeq(log, 1, Len(seen'[s])),
         socket'[s] = "open" => pos'[s] = Len(seen'[s])
  PROVE  IInv'
<1>1. ServiceTypeOK'
  BY DEF unheard, lifeVars, queueVars, IInv, ServiceTypeOK
<1>2. TasksOK'
  BY TasksKeep DEF unheard, queueVars
<1>3. RoomsOK'
  BY RoomsKeep, OwnersSteps DEF unheard, OwnersMove, IInv, ServiceTypeOK
<1>4. ForwardedInOrder'
  <2>1. log' = log
    OBVIOUS
  <2> QED
    BY <2>1 DEF IInv, ForwardedInOrder
<1> QED
  BY <1>1, <1>2, <1>3, <1>4, PartsNext

\* What is known of a WebSocket before its step.
LEMMA SocketBefore ==
  ASSUME IInv, NEW s \in Sockets
  PROVE  /\ log \in Seq(Notes) /\ Len(log) \in Nat
         /\ seen[s] \in Seq(Notes) /\ Len(seen[s]) <= Len(log) /\ pos[s] \in Nat
         /\ seen[s] = SubSeq(log, 1, Len(seen[s]))
         /\ socket[s] = "open" => pos[s] = Len(seen[s])
<1>1. log \in Seq(Notes) /\ seen[s] \in Seq(Notes) /\ pos[s] \in Nat
  BY DEF IInv, ServiceTypeOK
<1>2. Len(log) \in Nat
  BY <1>1, LenProperties
<1> QED
  BY <1>1, <1>2 DEF IInv, ForwardedInOrder

LEMMA OpenKeeps == ASSUME IInv, NEW s \in Sockets, Open(s) PROVE IInv'
<1>1. /\ log \in Seq(Notes) /\ Len(log) \in Nat
      /\ SubSeq(log, 1, Len(log)) = log
  BY SocketBefore, SubSeqFull
<1>2. UNCHANGED <<unheard, log>>
  BY DEF Open
<1>3. /\ socket' \in [Sockets -> {"none", "open", "ended"}] /\ socket'[s] = "open"
      /\ pos' \in [Sockets \cup Requests -> Nat] /\ pos'[s] = Len(log)
      /\ seen' \in [Sockets -> Seq(Notes)] /\ seen'[s] = log
      /\ \A t \in Sockets \ {s} :
           socket'[t] = socket[t] /\ pos'[t] = pos[t] /\ seen'[t] = seen[t]
  BY <1>1 DEF Open, IInv, ServiceTypeOK
<1>4. Len(seen'[s]) <= Len(log) /\ seen'[s] = SubSeq(log, 1, Len(seen'[s]))
  BY <1>1, <1>3
<1>5. pos'[s] = Len(seen'[s])
  BY <1>3
<1> QED
  BY <1>2, <1>3, <1>4, <1>5, SocketKeeps

LEMMA CloseKeeps == ASSUME IInv, NEW s \in Sockets, Close(s) PROVE IInv'
<1>1. UNCHANGED <<unheard, log, seen>>
  BY DEF Close
<1>2. /\ socket' \in [Sockets -> {"none", "open", "ended"}] /\ socket'[s] = "ended"
      /\ pos' \in [Sockets \cup Requests -> Nat]
      /\ seen' \in [Sockets -> Seq(Notes)] /\ seen'[s] = seen[s]
      /\ \A t \in Sockets \ {s} :
           socket'[t] = socket[t] /\ pos'[t] = pos[t] /\ seen'[t] = seen[t]
  BY DEF Close, IInv, ServiceTypeOK
<1>3. Len(seen'[s]) <= Len(log) /\ seen'[s] = SubSeq(log, 1, Len(seen'[s]))
  BY <1>2, SocketBefore
<1> QED
  BY <1>1, <1>2, <1>3, SocketKeeps

\* One more of a prefix is a prefix.
LEMMA PrefixGrows ==
  ASSUME NEW l \in Seq(Notes), NEW p \in Nat, p < Len(l),
         NEW q \in Seq(Notes), Len(q) = p, q = SubSeq(l, 1, p)
  PROVE  /\ Append(q, l[p + 1]) \in Seq(Notes)
         /\ Len(Append(q, l[p + 1])) = p + 1
         /\ Append(q, l[p + 1]) = SubSeq(l, 1, p + 1)
<1> DEFINE n == Append(q, l[p + 1])
           m == SubSeq(l, 1, p + 1)
<1>1. Len(l) \in Nat /\ \A i \in 1 .. p + 1 : l[i] \in Notes
  BY LenProperties, ElementOfSeq
<1>2. \A i \in 1 .. p : l[i] \in Notes
  BY <1>1
<1>3. \A i \in 1 .. p : q[i] = l[i]
  BY <1>2, SubSeqProperties
<1>4. l[p + 1] \in Notes
  BY <1>1
<1>5. /\ n \in Seq(Notes) /\ Len(n) = p + 1 /\ n[p + 1] = l[p + 1]
      /\ \A i \in 1 .. p : n[i] = q[i]
  BY <1>4, AppendProperties
<1>6. m \in Seq(Notes) /\ Len(m) = p + 1 /\ \A i \in 1 .. p + 1 : m[i] = l[i]
  BY <1>1, SubSeqProperties
<1> HIDE DEF n, m
<1>7. ASSUME NEW i \in 1 .. p + 1 PROVE n[i] = l[i]
  <2>1. CASE i = p + 1
    BY <1>5, <2>1
  <2>2. CASE i \in 1 .. p
    BY <1>3, <1>5, <2>2
  <2> QED
    BY <2>1, <2>2
<1>8. m = n
  BY <1>5, <1>6, <1>7, SeqEqual
<1> QED
  BY <1>5, <1>8 DEF n, m

\* One more of log, or the end.
LEMMA ForwardStepKeeps == ASSUME IInv, NEW s \in Sockets, Forward(s) PROVE IInv'
<1> DEFINE p == pos[s]
           n == Append(seen[s], log[p + 1])
<1>1. /\ p \in Nat /\ p < Len(log) /\ log \in Seq(Notes) /\ seen[s] \in Seq(Notes)
      /\ Len(seen[s]) = p /\ seen[s] = SubSeq(log, 1, p)
  BY SocketBefore DEF Forward
<1>2. UNCHANGED <<unheard, log>>
  BY DEF Forward
<1>3. CASE Lagged(s)
  <2>1. UNCHANGED seen
    BY <1>3 DEF Forward
  <2>2. /\ socket' \in [Sockets -> {"none", "open", "ended"}] /\ socket'[s] = "ended"
        /\ pos' \in [Sockets \cup Requests -> Nat]
        /\ seen' \in [Sockets -> Seq(Notes)] /\ seen'[s] = seen[s]
        /\ \A t \in Sockets \ {s} :
             socket'[t] = socket[t] /\ pos'[t] = pos[t] /\ seen'[t] = seen[t]
    BY <1>3 DEF Forward, IInv, ServiceTypeOK
  <2>3. Len(seen'[s]) <= Len(log) /\ seen'[s] = SubSeq(log, 1, Len(seen'[s]))
    BY <2>2, SocketBefore
  <2> QED
    BY <1>2, <2>2, <2>3, SocketKeeps
<1>4. CASE ~Lagged(s)
  <2>1. n \in Seq(Notes) /\ Len(n) = p + 1 /\ n = SubSeq(log, 1, p + 1)
    BY <1>1, PrefixGrows
  <2>2. Len(log) \in Nat
    BY SocketBefore
  <2> HIDE DEF n
  <2>3. socket' = socket /\ pos' = [pos EXCEPT ![s] = p + 1] /\ seen' = [seen EXCEPT ![s] = n]
    BY <1>4 DEF Forward, n, IInv, ServiceTypeOK
  <2>4. /\ socket' \in [Sockets -> {"none", "open", "ended"}]
        /\ pos' \in [Sockets \cup Requests -> Nat] /\ pos'[s] = p + 1
        /\ seen' \in [Sockets -> Seq(Notes)] /\ seen'[s] = n
        /\ \A t \in Sockets \ {s} :
             socket'[t] = socket[t] /\ pos'[t] = pos[t] /\ seen'[t] = seen[t]
    BY <1>1, <2>1, <2>3 DEF IInv, ServiceTypeOK
  <2>5. /\ Len(seen'[s]) <= Len(log) /\ seen'[s] = SubSeq(log, 1, Len(seen'[s]))
        /\ pos'[s] = Len(seen'[s])
    BY <1>1, <2>1, <2>2, <2>4
  <2> QED
    BY <1>2, <2>4, <2>5, SocketKeeps
<1> QED
  BY <1>3, <1>4

-----------------------------------------------------------------------------
\* All of it.

LEMMA InitIInv == ASSUME Init PROVE IInv
<1>1. \A x \in Workers : x \notin Requests
  BY Apart
<1>2. ServiceTypeOK
  <2>1. /\ \A r \in Requests : pc[r] = "idle"
        /\ \A w \in Workers : pc[w] = "dequeue"
        /\ pc \in [Calls -> HandlerPlaces \cup WorkerPlaces]
    BY <1>1, Apart DEF Init, Calls, HandlerPlaces, WorkerPlaces
  <2>2. /\ log \in Seq(Notes) /\ pos \in [Sockets \cup Requests -> Nat]
        /\ socket \in [Sockets -> {"none", "open", "ended"}]
        /\ seen \in [Sockets -> Seq(Notes)]
    BY DEF Init
  <2>3. /\ tnotify \in NotifyType /\ qnotify \in NotifyType
        /\ queue \in [Keys -> SUBSET Requests]
        /\ task \in [Workers -> Requests \cup {NoTask}]
        /\ owner \in [Containers -> Calls \cup {Idle, Lost}]
        /\ docker \in [Containers -> {"untried", "unpooled", "running", "removed"}]
        /\ phase = "starting" /\ tasks = {} /\ pushed = {}
    BY NewNotifyType DEF Init
  <2> QED
    BY <2>1, <2>2, <2>3 DEF ServiceTypeOK, HandlerPlaces, WorkerPlaces
<1>3. /\ \A k \in Keys : queue[k] = {}
      /\ \A w \in Workers : pc[w] = "dequeue" /\ task[w] = NoTask
      /\ \A r \in Requests : pc[r] = "idle"
  BY <1>1, Apart DEF Init, Calls
<1>4. TaskKnown
  BY <1>3 DEF TaskKnown, Executing, Inside
<1>5. OneRunner
  <2>1. \A r \in Requests : ~Queued(r)
    BY <1>3, Apart, ServiceAssumption DEF ServiceAssumption, Queued
  <2>2. \A r \in Requests, w \in Workers : ~TakenBy(r, w)
    BY <1>3, ServiceAssumption DEF ServiceAssumption, TakenBy
  <2> QED
    BY <1>3, <2>1, <2>2 DEF OneRunner
<1>6. Inserted
  BY <1>3 DEF Inserted
<1>7. RemovedNotInUse /\ Shut
  BY DEF Init, RemovedNotInUse, Shut
<1>8. ForwardedInOrder
  <2>1. Len(<<>>) = 0 /\ SubSeq(<<>>, 1, 0) = <<>>
    OBVIOUS
  <2> QED
    BY <2>1 DEF Init, ForwardedInOrder
<1> QED
  BY <1>2, <1>4, <1>5, <1>6, <1>7, <1>8 DEF IInv

LEMMA NextIInv == ASSUME IInv, [Next]_vars PROVE IInv'
<1>1. CASE LifecycleStep \/ Die \/ CtrlC
  <2>1. CASE \E c \in Containers : Create(c) \/ Remove(c)
    BY <2>1, CreateKeeps, RemoveKeeps
  <2>2. CASE Serve \/ CtrlC
    BY <2>2, BecomeKeeps DEF Serve, CtrlC
  <2>3. CASE Exit \/ Die
    BY <2>3, VanishKeeps DEF Exit, Die
  <2> QED
    BY <1>1, <2>1, <2>2, <2>3 DEF LifecycleStep
<1>2. CASE \E x \in Calls : Acquire(x) \/ ExecuteStep(x)
  BY <1>2, ExecutorSteps, ExecutorKeeps
<1>3. CASE \E w \in Workers : WorkerStep(w)
  BY <1>3, WorkerKeeps
<1>4. CASE \E r \in Requests : Receive(r) \/ HandlerStep(r) \/ HangUp(r) \/ Expire(r)
  <2>1. PICK r \in Requests : Receive(r) \/ HandlerStep(r) \/ HangUp(r) \/ Expire(r)
    BY <1>4
  <2>2. CASE HandlerStep(r)
    BY <2>2, LookupKeeps, DecideKeeps, InsertKeeps, EnqueueKeeps, PushParallelKeeps,
       ListenKeeps, HearKeeps DEF HandlerStep, AddTaskStep
  <2>3. CASE Receive(r) \/ HangUp(r) \/ Expire(r)
    BY <2>3, ReceiveKeeps, DropKeeps DEF HangUp, Expire
  <2> QED
    BY <2>1, <2>2, <2>3
<1>5. CASE \E s \in Sockets : Open(s) \/ Forward(s) \/ Close(s)
  BY <1>5, OpenKeeps, ForwardStepKeeps, CloseKeeps
<1>6. CASE UNCHANGED vars
  BY <1>6 DEF vars, lifeVars, queueVars, channelVars, socketVars, IInv, ServiceTypeOK,
     TaskKnown, OneRunner, Inserted, Queued, TakenBy, RemovedNotInUse, Shut, ForwardedInOrder
<1> QED
  BY <1>1, <1>2, <1>3, <1>4, <1>5, <1>6 DEF Next

LEMMA InvariantIInv == Spec => []IInv
<1>1. Init => IInv
  BY InitIInv
<1>2. IInv /\ [Next]_vars => IInv'
  BY NextIInv
<1> QED
  BY <1>1, <1>2, PTL DEF Spec

\* Every variable of the process keeps its type, and handlers and workers are
\* always at one of their own places.
THEOREM ServiceTypeCorrect == Spec => []ServiceTypeOK
BY InvariantIInv, PTL DEF IInv

\* A worker always finds the task it has popped in the tasks map, and still
\* does so when it removes the entry after the run.
THEOREM TasksAreKnown == Spec => []TaskKnown
BY InvariantIInv, PTL DEF IInv

\* However handlers and workers interleave, no task is run by two of them, nor
\* by a worker of another language, nor while it is still queued.
THEOREM RunByOne == Spec => []OneRunner
BY InvariantIInv, PTL DEF IInv

\* Cleanup never removes a container that a call has leased, whenever the
\* signal comes.
THEOREM CleanupSparesCalls == Spec => []RemovedNotInUse
BY InvariantIInv, PTL DEF IInv

\* What a WebSocket has forwarded is what was sent, without gap or repetition,
\* whatever the capacity of the channel.
THEOREM SocketsFollowTheLog == Spec => []ForwardedInOrder
BY InvariantIInv, PTL DEF IInv

-----------------------------------------------------------------------------
\* No task is forgotten.

\* A worker that waits for a task has none.
Rested == \A w \in Workers : pc[w] \in {"dequeue", "park"} => task[w] = NoTask

\* Where a worker is after a step that leaves its task alone.
LEMMA RestedKeeps ==
  ASSUME Rested, UNCHANGED task,
         \A w \in Workers : pc'[w] \in {"dequeue", "park"} => pc[w] \in {"dequeue", "park"}
  PROVE  Rested'
BY DEF Rested

LEMMA NextRested == ASSUME IInv, Rested, [Next]_vars PROVE Rested'
<1> USE DEF IInv, ServiceTypeOK
<1>1. CASE LifecycleStep \/ Die \/ CtrlC
  <2>1. CASE Exit \/ Die
    BY <2>1, Apart DEF Exit, Die, Vanish, Rested
  <2>2. CASE UNCHANGED <<pc, task>>
    BY <2>2, RestedKeeps
  <2> QED
    BY <1>1, <2>1, <2>2 DEF LifecycleStep, Create, Remove, Serve, CtrlC, Become
<1>2. CASE \E x \in Calls : Acquire(x) \/ ExecuteStep(x)
  <2>1. PICK x \in Calls : ExecutorMoves(x)
    BY <1>2, ExecutorSteps
  <2>2. /\ pc'[x] \in NextPlaces(x) \cup {pc[x]} /\ pc[x] \in Executing /\ UNCHANGED task
        /\ \A y \in Calls \ {x} : pc'[y] = pc[y]
    BY <2>1, MovesTo DEF ExecutorMoves, others
  <2> QED
    BY <2>2, Apart, RestedKeeps DEF NextPlaces, Executing, Inside, Ended
<1>3. CASE \E w \in Workers : WorkerStep(w)
  <2>1. PICK w \in Workers : WorkerStep(w)
    BY <1>3
  <2>2. w \in Calls
    BY Apart
  <2>3. CASE Dequeue(w)
    BY <2>2, <2>3, Apart DEF Dequeue, Goto, Rested
  <2>4. CASE Renew(w)
    BY <2>2, <2>4, Apart DEF Renew, Goto, Rested
  <2>5. CASE Park(w) \/ Fetch(w) \/ Complete(w)
    BY <2>2, <2>5, Apart DEF Park, Fetch, Complete, Goto, Rested
  <2> QED
    BY <2>1, <2>3, <2>4, <2>5 DEF WorkerStep
<1>4. CASE \E r \in Requests : Receive(r) \/ HandlerStep(r) \/ HangUp(r) \/ Expire(r)
  <2>1. PICK r \in Requests : Receive(r) \/ HandlerStep(r) \/ HangUp(r) \/ Expire(r)
    BY <1>4
  <2>2. UNCHANGED task /\ \E l : Goto(r, l)
    BY <2>1 DEF Receive, HandlerStep, AddTaskStep, Lookup, Decide, Insert, Enqueue,
       PushParallel, Listen, Hear, HangUp, Expire, Drop, unserviced
  <2>3. \A w \in Workers : pc'[w] = pc[w]
    BY <2>2, Apart DEF Goto
  <2> QED
    BY <2>2, <2>3, RestedKeeps
<1>5. CASE \E s \in Sockets : Open(s) \/ Forward(s) \/ Close(s)
  BY <1>5, RestedKeeps DEF Open, Forward, Close, unheard
<1>6. CASE UNCHANGED vars
  BY <1>6, RestedKeeps DEF vars
<1> QED
  BY <1>1, <1>2, <1>3, <1>4, <1>5, <1>6 DEF Next

\* What TasksAccounted allows a step to do to the task of r.
Pardoned(r) ==
  \/ Accounted(r)'
  \/ pc[r] = "enqueue" /\ pc'[r] = "gone"
  \/ \E w \in Workers : TakenBy(r, w) /\ pc[w] \in Executing

\* A task stays where it is, unless its worker was executing it.
LEMMA StaysAccounted ==
  ASSUME NEW r \in Requests, Accounted(r), r \in tasks' => r \in tasks,
         Queued(r) => Queued(r)',
         pc[r] = "enqueue" => pc'[r] = "enqueue" \/ Queued(r)' \/ pc'[r] = "gone",
         \A w \in Workers : TakenBy(r, w) => TakenBy(r, w)' \/ pc[w] \in Executing
  PROVE  Pardoned(r)
BY DEF Accounted, Pardoned

LEMMA WorkerAccounts ==
  ASSUME IInv, Rested, NEW w \in Workers, WorkerStep(w), NEW r \in Requests, Accounted(r)
  PROVE  Pardoned(r)
<1> USE DEF IInv, ServiceTypeOK
<1>1. w \in Calls /\ r # w /\ r \in Calls /\ r # NoTask /\ KeyOf[r] \in Keys
  BY Apart, ServiceAssumption DEF ServiceAssumption
<1>2. CASE Dequeue(w)
  <2>1. CASE queue[KeyOf[w]] = {}
    <3>1. /\ UNCHANGED <<queue, task, tasks>> /\ pc'[w] = "park"
          /\ \A y \in Calls \ {w} : pc'[y] = pc[y]
      BY <1>1, <1>2, <2>1 DEF Dequeue, Goto
    <3> QED
      BY <1>1, <3>1, StaysAccounted, Apart DEF Queued, TakenBy
  <2>2. CASE queue[KeyOf[w]] # {}
    <3>1. PICK q \in queue[KeyOf[w]] : /\ queue' = [queue EXCEPT ![KeyOf[w]] = @ \ {q}]
                                       /\ task' = [task EXCEPT ![w] = q]
                                       /\ Goto(w, "fetch")
      BY <1>2, <2>2 DEF Dequeue
    <3>2. /\ tasks' = tasks /\ task[w] = NoTask
          /\ pc'[w] = "fetch" /\ task'[w] = q
          /\ \A y \in Calls \ {w} : pc'[y] = pc[y]
          /\ \A v \in Workers \ {w} : task'[v] = task[v]
      BY <1>1, <1>2, <3>1 DEF Dequeue, Goto, Rested
    <3>3. CASE q = r
      BY <3>2, <3>3 DEF Pardoned, Accounted, TakenBy
    <3>4. CASE q # r
      <4>1. Queued(r) => Queued(r)'
        BY <1>1, <3>1, <3>4 DEF Queued
      <4>2. \A v \in Workers : TakenBy(r, v) => TakenBy(r, v)'
        BY <1>1, <3>2, Apart DEF TakenBy
      <4> QED
        BY <1>1, <3>2, <4>1, <4>2, StaysAccounted
    <3> QED
      BY <3>3, <3>4
  <2> QED
    BY <2>1, <2>2
<1>3. CASE Park(w)
  BY <1>1, <1>3, StaysAccounted, Apart DEF Park, Goto, Queued, TakenBy
<1>4. CASE Fetch(w)
  <2>1. /\ task[w] \in tasks /\ pc'[w] = "acquire" /\ UNCHANGED <<queue, tasks, task>>
        /\ \A y \in Calls \ {w} : pc'[y] = pc[y]
    BY <1>1, <1>4 DEF Fetch, Goto, TaskKnown, queueVars
  <2> QED
    BY <1>1, <2>1, StaysAccounted, Apart DEF Queued, TakenBy
<1>5. CASE Complete(w)
  <2>1. /\ tasks' = tasks \ {task[w]} /\ UNCHANGED <<queue, task>>
        /\ \A y \in Calls \ {w} : pc'[y] = pc[y]
    BY <1>1, <1>5 DEF Complete, Goto
  <2>2. CASE r = task[w]
    BY <2>1, <2>2 DEF Pardoned, Accounted
  <2>3. CASE r # task[w]
    BY <1>1, <2>1, <2>3, StaysAccounted, Apart DEF Queued, TakenBy
  <2> QED
    BY <2>2, <2>3
<1>6. CASE Renew(w)
  <2>1. /\ pc[w] = "renew" /\ UNCHANGED <<queue, tasks>>
        /\ \A y \in Calls \ {w} : pc'[y] = pc[y]
        /\ \A v \in Workers \ {w} : task'[v] = task[v]
    BY <1>1, <1>6 DEF Renew, Goto, queueVars
  <2> QED
    BY <1>1, <2>1, StaysAccounted, Apart DEF Queued, TakenBy
<1> QED
  BY <1>2, <1>3, <1>4, <1>5, <1>6 DEF WorkerStep

LEMMA HandlerAccounts ==
  ASSUME IInv, NEW x \in Requests, NEW r \in Requests, Accounted(r),
         Receive(x) \/ HandlerStep(x) \/ HangUp(x) \/ Expire(x)
  PROVE  Pardoned(r)
<1> USE DEF IInv, ServiceTypeOK
<1>1. /\ x \in Calls /\ r \in Calls /\ r # NoTask /\ KeyOf[r] \in Keys /\ KeyOf[x] \in Keys
      /\ \A w \in Workers : w # x
  BY Apart, ServiceAssumption DEF ServiceAssumption
<1>2. CASE Insert(x)
  <2>1. /\ pc'[x] = "enqueue" /\ tasks' = tasks \cup {x} /\ UNCHANGED <<queue, task>>
        /\ \A y \in Calls \ {x} : pc'[y] = pc[y]
    BY <1>1, <1>2 DEF Insert, Goto
  <2>2. CASE r = x
    BY <2>1, <2>2 DEF Pardoned, Accounted
  <2>3. CASE r # x
    BY <1>1, <2>1, <2>3, StaysAccounted, Apart DEF Queued, TakenBy
  <2> QED
    BY <2>2, <2>3
<1>3. CASE Enqueue(x)
  <2>1. /\ queue' = [queue EXCEPT ![KeyOf[x]] = @ \cup {x}] /\ UNCHANGED <<tasks, task>>
        /\ \A y \in Calls \ {x} : pc'[y] = pc[y]
    BY <1>1, <1>3 DEF Enqueue, Goto
  <2>2. /\ Queued(r) => Queued(r)'
        /\ r = x => Queued(r)'
    BY <1>1, <2>1 DEF Queued
  <2> QED
    BY <1>1, <2>1, <2>2, StaysAccounted, Apart DEF TakenBy
<1>4. CASE Lookup(x) \/ Decide(x) \/ PushParallel(x) \/ Listen(x) \/ Hear(x) \/ Receive(x)
  <2>1. /\ pc[x] # "enqueue" /\ UNCHANGED <<queue, tasks, task>> /\ \E l : Goto(x, l)
    BY <1>4 DEF Lookup, Decide, PushParallel, Listen, Hear, Receive, unserviced, queueVars
  <2>2. \A y \in Calls \ {x} : pc'[y] = pc[y]
    BY <2>1 DEF Goto
  <2> QED
    BY <1>1, <2>1, <2>2, StaysAccounted, Apart DEF Queued, TakenBy
<1>5. CASE Drop(x)
  <2>1. /\ pc'[x] = "gone" /\ UNCHANGED <<queue, tasks, task>>
        /\ \A y \in Calls \ {x} : pc'[y] = pc[y]
    BY <1>1, <1>5 DEF Drop, Goto, queueVars
  <2> QED
    BY <1>1, <2>1, StaysAccounted, Apart DEF Queued, TakenBy
<1> QED
  BY <1>2, <1>3, <1>4, <1>5 DEF HandlerStep, AddTaskStep, HangUp, Expire

LEMMA NextAccounts ==
  ASSUME IInv, Rested, [Next]_vars, NEW r \in Requests, Accounted(r)
  PROVE  Pardoned(r)
<1>1. CASE UNCHANGED <<pc, queue, tasks, task>>
  BY <1>1, StaysAccounted DEF Queued, TakenBy
<1>2. CASE LifecycleStep \/ Die \/ CtrlC
  <2>1. CASE Exit \/ Die
    BY <2>1 DEF Exit, Die, Vanish, Pardoned, Accounted
  <2> QED
    BY <1>1, <1>2, <2>1
       DEF LifecycleStep, Create, Remove, Serve, CtrlC, Become, queueVars
<1>3. CASE \E x \in Calls : Acquire(x) \/ ExecuteStep(x)
  <2>1. PICK x \in Calls : ExecutorMoves(x)
    BY <1>3, ExecutorSteps
  <2>2. /\ pc[x] \in Executing /\ UNCHANGED <<queue, tasks, task>>
        /\ \A y \in Calls \ {x} : pc'[y] = pc[y]
    BY <2>1, MovesTo DEF ExecutorMoves, others, queueVars
  <2> QED
    BY <2>2, StaysAccounted, Apart DEF Queued, TakenBy, Executing, Inside
<1>4. CASE \E w \in Workers : WorkerStep(w)
  BY <1>4, WorkerAccounts
<1>5. CASE \E x \in Requests : Receive(x) \/ HandlerStep(x) \/ HangUp(x) \/ Expire(x)
  BY <1>5, HandlerAccounts
<1>6. CASE \E s \in Sockets : Open(s) \/ Forward(s) \/ Close(s)
  BY <1>1, <1>6 DEF Open, Forward, Close, unheard, queueVars
<1>7. CASE UNCHANGED vars
  BY <1>1, <1>7 DEF vars, queueVars
<1> QED
  BY <1>2, <1>3, <1>4, <1>5, <1>6, <1>7 DEF Next

\* An entry of the tasks map never loses its task: only a run that failed, or a
\* handler dropped between the insert and the enqueue, leaves one behind.
THEOREM TasksNeverForgotten == Spec => TasksAccounted
<1>1. Init => Rested
  BY Apart DEF Init, Rested, Calls
<1>2. IInv /\ Rested /\ [Next]_vars => Rested'
  BY NextRested
<1>3. IInv /\ Rested /\ [Next]_vars =>
        [\A r \in Requests : Accounted(r) => Pardoned(r)]_vars
  BY NextAccounts
<1>4. Spec => [][\A r \in Requests : Accounted(r) => Pardoned(r)]_vars
  BY <1>1, <1>2, <1>3, InvariantIInv, PTL DEF Spec
<1> QED
  BY <1>4 DEF TasksAccounted, Pardoned
=============================================================================
