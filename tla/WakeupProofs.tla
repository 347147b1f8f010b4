----------------------------- MODULE WakeupProofs -----------------------------
(***************************************************************************)
(* Notify and dequeue: who may lose the wake-up of a queued task, for any  *)
(* number of languages, workers and requests.  A wake-up that a worker of  *)
(* another language takes is lost (run Starved); so is the help of a       *)
(* worker that waits for task_notify or is dead.  Nothing else loses one.  *)
(***************************************************************************)
EXTENDS ServiceProofs

\* Nobody waits twice.
Distinct(n) == \A i, j \in DOMAIN n.waiting : n.waiting[i] = n.waiting[j] => i = j

\* Who waits is inside one notified(): that of dequeue, or that of the loop of
\* start_worker, after which it looks at its queue again.
WInv ==
  /\ Distinct(qnotify)
  /\ \A w \in Workers :
       /\ Asleep(w) => pc[w] = "dequeue"
       /\ Enlisted(qnotify, w) => ~Enlisted(tnotify, w)

\* What WakeupsAccounted allows a step to do to the workers of language k.
Watched(k) ==
  Attended(k) =>
    \/ Attended(k)'
    \/ \E w \in Workers : IF KeyOf[w] = k THEN LiesDown(w) ELSE TakesWakeup(w)

-----------------------------------------------------------------------------
\* notify_one stores a permit, or wakes the first of those that wait and nobody
\* else; who did not wait does not begin to.
LEMMA NotifyOneWakes ==
  ASSUME NEW n \in NotifyType
  PROVE  /\ \A w : Enlisted(NotifyOne(n), w) => Enlisted(n, w)
         /\ n.waiting = <<>> => NotifyOne(n).permit
         /\ Distinct(n) =>
              /\ Distinct(NotifyOne(n))
              /\ n.waiting # <<>> =>
                   \E w \in Workers : Enlisted(n, w) /\ ~Enlisted(NotifyOne(n), w)
<1> DEFINE q == n.waiting
<1>1. q \in Seq(Workers)
  BY DEF NotifyType
<1>2. CASE q = <<>>
  <2>1. NotifyOne(n).waiting = q /\ NotifyOne(n).permit
    BY <1>2 DEF NotifyOne, NotifyType
  <2> QED
    BY <1>2, <2>1 DEF Distinct, Enlisted
<1>3. CASE q # <<>>
  <2> DEFINE t == Tail(q)
  <2>1. NotifyOne(n).waiting = t
    BY <1>3 DEF NotifyOne, NotifyType
  <2>2. /\ t \in Seq(Workers) /\ Len(t) = Len(q) - 1
        /\ \A i \in 1 .. Len(t) : t[i] = q[i + 1]
    BY <1>1, <1>3, HeadTailProperties
  <2>3. Len(q) \in Nat \ {0} /\ DOMAIN q = 1 .. Len(q) /\ DOMAIN t = 1 .. Len(t)
    BY <1>1, <1>3, <2>2, EmptySeq, LenProperties
  <2>4. q[1] \in Workers
    BY <1>1, <2>3, ElementOfSeq
  <2> HIDE DEF t
  <2>5. \A i \in DOMAIN t : i + 1 \in DOMAIN q /\ t[i] = q[i + 1] /\ i + 1 # 1
    BY <2>2, <2>3
  <2>6. \A w : Enlisted(NotifyOne(n), w) => Enlisted(n, w)
    BY <2>1, <2>5 DEF Enlisted
  <2>7. ASSUME Distinct(n) PROVE Distinct(NotifyOne(n))
    <3> SUFFICES ASSUME NEW i \in DOMAIN t, NEW j \in DOMAIN t, t[i] = t[j]
                 PROVE  i = j
      BY <2>1 DEF Distinct
    <3>1. i + 1 = j + 1
      BY <2>5, <2>7 DEF Distinct
    <3> QED
      BY <2>2, <2>3, <3>1
  <2>8. ASSUME Distinct(n) PROVE Enlisted(n, q[1]) /\ ~Enlisted(NotifyOne(n), q[1])
    <3>1. 1 \in DOMAIN q /\ Enlisted(n, q[1])
      BY <2>3 DEF Enlisted
    <3>2. \A i \in DOMAIN t : t[i] # q[1]
      BY <2>5, <2>8, <3>1 DEF Distinct
    <3> QED
      BY <2>1, <3>1, <3>2 DEF Enlisted
  <2> QED
    BY <1>3, <2>4, <2>6, <2>7, <2>8
<1> QED
  BY <1>2, <1>3

\* notified() takes a stored permit, or waits behind the others.
LEMMA EnlistWaits ==
  ASSUME NEW n \in NotifyType, NEW w \in Workers, ~Enlisted(n, w)
  PROVE  /\ Distinct(n) => Distinct(Enlist(n, w))
         /\ \A v : v # w => (Enlisted(Enlist(n, w), v) <=> Enlisted(n, v))
         /\ n.permit => ~Enlisted(Enlist(n, w), w)
         /\ ~n.permit => Enlisted(Enlist(n, w), w) /\ ~Enlist(n, w).permit
<1> DEFINE q == n.waiting
           a == Append(q, w)
<1>1. q \in Seq(Workers) /\ n.permit \in BOOLEAN
  BY DEF NotifyType
<1>2. /\ Len(q) \in Nat /\ DOMAIN q = 1 .. Len(q)
      /\ DOMAIN a = 1 .. Len(q) + 1 /\ a[Len(q) + 1] = w
      /\ \A i \in 1 .. Len(q) : a[i] = q[i]
  <2>1. a \in Seq(Workers) /\ Len(a) = Len(q) + 1
    BY <1>1, AppendProperties
  <2> QED
    BY <1>1, <2>1, AppendProperties, LenProperties
<1> HIDE DEF a
<1>3. CASE n.permit
  <2>1. Enlist(n, w).waiting = q
    BY <1>3 DEF Enlist, NotifyType
  <2> QED
    BY <1>3, <2>1 DEF Distinct, Enlisted
<1>4. CASE ~n.permit
  <2>1. Enlist(n, w).waiting = a /\ ~Enlist(n, w).permit
    BY <1>4 DEF Enlist, NotifyType, a
  <2>2. \A i \in DOMAIN a : (i \in DOMAIN q /\ a[i] = q[i]) \/ (i = Len(q) + 1 /\ a[i] = w)
    BY <1>2
  <2>3. /\ \A i \in DOMAIN q : i \in DOMAIN a /\ q[i] # w /\ q[i] = a[i]
        /\ Len(q) + 1 \in DOMAIN a /\ a[Len(q) + 1] = w
    BY <1>2 DEF Enlisted
  <2>4. Distinct(n) => Distinct(Enlist(n, w))
    BY <2>1, <2>2, <2>3 DEF Distinct
  <2>5. Enlisted(Enlist(n, w), w)
    BY <2>1, <2>3 DEF Enlisted
  <2>6. \A v : v # w => (Enlisted(Enlist(n, w), v) <=> Enlisted(n, v))
    BY <2>1, <2>2, <2>3 DEF Enlisted
  <2> QED
    BY <1>4, <2>1, <2>4, <2>5, <2>6
<1> QED
  BY <1>3, <1>4

-----------------------------------------------------------------------------
\* The queue and its Notify stay, no worker moves, and none begins to wait.
LEMMA StaysWatched ==
  ASSUME IInv, WInv, UNCHANGED <<queue, qnotify>>,
         \A w \in Workers : pc'[w] = pc[w] /\ (Enlisted(tnotify, w)' => Enlisted(tnotify, w))
  PROVE  WInv' /\ \A k \in Keys : Watched(k)
<1>1. \A w \in Workers : Enlisted(qnotify, w)' <=> Enlisted(qnotify, w)
  BY DEF Enlisted
<1>2. \A w \in Workers : Awake(w) => Awake(w)'
  BY <1>1 DEF Awake, Asleep
<1>3. WInv'
  BY <1>1 DEF WInv, Distinct, Asleep
<1> QED
  BY <1>2, <1>3 DEF Watched, Attended

\* One worker that does not wait moves, and looks again, lies down, or dies.
LEMMA MovesWatched ==
  ASSUME IInv, WInv, UNCHANGED <<queue, qnotify>>, NEW w \in Workers,
         pc[w] # "dequeue", pc[w] # "dead", pc'[w] # "park",
         \A v \in Workers \ {w} : pc'[v] = pc[v] /\ (Enlisted(tnotify, v)' => Enlisted(tnotify, v)),
         Enlisted(tnotify, w)' => pc[w] = "renew" /\ pc'[w] = "dequeue"
  PROVE  WInv' /\ \A k \in Keys : Watched(k)
<1>1. \A v \in Workers : Enlisted(qnotify, v)' <=> Enlisted(qnotify, v)
  BY DEF Enlisted
<1>2. ~Enlisted(qnotify, w)
  BY DEF WInv, Asleep
<1>3. \A v \in Workers \ {w} : Awake(v) => Awake(v)'
  BY <1>1 DEF Awake, Asleep
<1>4. WInv'
  BY <1>1, <1>2 DEF WInv, Distinct, Asleep
<1>5. Awake(w)' \/ LiesDown(w)
  BY <1>1, <1>2 DEF Awake, Asleep, LiesDown
<1> QED
  BY <1>3, <1>4, <1>5 DEF Watched, Attended

\* A look at the queue: what is left of it has the worker that looked.
LEMMA DequeueWatched ==
  ASSUME IInv, WInv, NEW w \in Workers, Dequeue(w)
  PROVE  WInv' /\ \A k \in Keys : Watched(k)
<1>1. /\ w \in Calls /\ KeyOf[w] \in Keys /\ ~Asleep(w)
      /\ UNCHANGED <<qnotify, tnotify>>
  BY Apart, ServiceAssumption DEF Dequeue, rest, ServiceAssumption
<1>2. /\ \A v \in Workers \ {w} : pc'[v] = pc[v]
      /\ queue[KeyOf[w]] # {} => pc'[w] = "fetch"
      /\ queue[KeyOf[w]] = {} => queue' = queue
      /\ \A k \in Keys \ {KeyOf[w]} : queue'[k] = queue[k]
  BY <1>1, Apart DEF Dequeue, Goto, IInv, ServiceTypeOK
<1>3. \A v \in Workers : Asleep(v)' <=> Asleep(v)
  BY <1>1 DEF Asleep, Enlisted
<1>4. WInv'
  BY <1>1, <1>2, <1>3 DEF WInv, Distinct, Enlisted
<1>5. \A v \in Workers \ {w} : Awake(v) => Awake(v)'
  BY <1>2, <1>3 DEF Awake
<1>6. ASSUME NEW k \in Keys, Attended(k) PROVE Attended(k)'
  <2>1. CASE queue[KeyOf[w]] = {}
    BY <1>1, <1>2, <1>5, <1>6, <2>1 DEF Attended
  <2>2. CASE queue[KeyOf[w]] # {}
    <3>1. Awake(w)'
      BY <1>1, <1>2, <1>3, <2>2 DEF Awake
    <3> QED
      BY <1>1, <1>2, <1>5, <1>6, <3>1 DEF Attended
  <2> QED
    BY <2>1, <2>2
<1> QED
  BY <1>4, <1>6 DEF Watched

\* The wait for it: a stored permit sends the worker back to its queue.
LEMMA ParkWatched ==
  ASSUME IInv, WInv, NEW w \in Workers, Park(w)
  PROVE  WInv' /\ \A k \in Keys : Watched(k)
<1>1. /\ qnotify \in NotifyType /\ qnotify' = Enlist(qnotify, w)
      /\ UNCHANGED <<queue, tnotify>>
      /\ pc[w] = "park" /\ pc'[w] = "dequeue"
      /\ \A v \in Workers \ {w} : pc'[v] = pc[v]
  BY Apart DEF Park, Goto, rest, IInv, ServiceTypeOK
<1>2. ~Enlisted(qnotify, w) /\ ~Enlisted(tnotify, w)
  BY <1>1 DEF WInv, Asleep
<1>3. /\ Distinct(qnotify')
      /\ \A v : v # w => (Enlisted(qnotify', v) <=> Enlisted(qnotify, v))
      /\ qnotify.permit => ~Enlisted(qnotify', w)
      /\ ~qnotify.permit => Enlisted(qnotify', w) /\ ~(qnotify'.permit)
  BY <1>1, <1>2, EnlistWaits DEF WInv
<1>4. /\ \A v : Enlisted(qnotify, v)' <=> Enlisted(qnotify', v)
      /\ \A v : Enlisted(tnotify, v)' <=> Enlisted(tnotify, v)
      /\ Distinct(qnotify)' <=> Distinct(qnotify')
  BY <1>1 DEF Enlisted, Distinct
<1>5. WInv'
  BY <1>1, <1>2, <1>3, <1>4 DEF WInv, Asleep
<1>6. \A v \in Workers : Awake(v) => Awake(v)'
  BY <1>1, <1>3, <1>4 DEF Awake, Asleep
<1>7. CASE qnotify.permit
  <2>1. TakesWakeup(w) /\ Awake(w)'
    BY <1>1, <1>2, <1>3, <1>4, <1>7 DEF TakesWakeup, Awake, Asleep
  <2> QED
    BY <1>5, <2>1 DEF Watched, Attended
<1>8. CASE ~qnotify.permit
  BY <1>1, <1>5, <1>6, <1>8 DEF Watched, Attended
<1> QED
  BY <1>7, <1>8

\* A task is queued and one worker is told, or the next one will be.
LEMMA EnqueueWatched ==
  ASSUME IInv, WInv, NEW r \in Requests, Enqueue(r)
  PROVE  WInv' /\ \A k \in Keys : Watched(k)
<1>1. /\ qnotify \in NotifyType /\ qnotify' = NotifyOne(qnotify) /\ tnotify' = tnotify
      /\ \A w \in Workers : pc'[w] = pc[w]
  BY Apart DEF Enqueue, Goto, IInv, ServiceTypeOK
<1>2. /\ Distinct(qnotify')
      /\ \A w : Enlisted(qnotify', w) => Enlisted(qnotify, w)
      /\ qnotify.waiting = <<>> => qnotify'.permit
      /\ qnotify.waiting # <<>> =>
           \E w \in Workers : Enlisted(qnotify, w) /\ ~Enlisted(qnotify', w)
  BY <1>1, NotifyOneWakes DEF WInv
<1>3. /\ \A w : Enlisted(qnotify, w)' <=> Enlisted(qnotify', w)
      /\ \A w : Enlisted(tnotify, w)' <=> Enlisted(tnotify, w)
      /\ Distinct(qnotify)' <=> Distinct(qnotify')
  BY <1>1 DEF Enlisted, Distinct
<1>4. WInv'
  BY <1>1, <1>2, <1>3 DEF WInv, Asleep
<1>5. CASE qnotify.waiting = <<>>
  BY <1>2, <1>4, <1>5 DEF Watched, Attended
<1>6. CASE qnotify.waiting # <<>>
  <2>1. PICK w \in Workers : Enlisted(qnotify, w) /\ ~Enlisted(qnotify', w)
    BY <1>2, <1>6
  <2>2. pc[w] = "dequeue" /\ ~Enlisted(tnotify, w)
    BY <2>1 DEF WInv, Asleep
  <2>3. Awake(w)' /\ TakesWakeup(w)
    BY <1>1, <1>3, <2>1, <2>2 DEF Awake, Asleep, TakesWakeup
  <2> QED
    BY <1>4, <2>3 DEF Watched, Attended
<1> QED
  BY <1>5, <1>6

\* The loop of start_worker: after a task the worker waits for task_notify.
LEMMA RenewWatched ==
  ASSUME IInv, WInv, NEW w \in Workers, Renew(w)
  PROVE  WInv' /\ \A k \in Keys : Watched(k)
<1>1. /\ tnotify \in NotifyType /\ tnotify' = Enlist(tnotify, w)
      /\ UNCHANGED <<queue, qnotify>> /\ pc[w] = "renew" /\ pc'[w] = "dequeue"
      /\ \A v \in Workers \ {w} : pc'[v] = pc[v]
  BY Apart DEF Renew, Goto, queueVars, IInv, ServiceTypeOK
<1>2. ~Enlisted(tnotify, w)
  BY <1>1 DEF WInv, Asleep
<1>3. \A v \in Workers \ {w} : Enlisted(tnotify, v)' => Enlisted(tnotify, v)
  <2>1. \A v : v # w => (Enlisted(tnotify', v) <=> Enlisted(tnotify, v))
    BY <1>1, <1>2, EnlistWaits
  <2>2. \A v : Enlisted(tnotify, v)' <=> Enlisted(tnotify', v)
    BY DEF Enlisted
  <2> QED
    BY <2>1, <2>2
<1> QED
  BY <1>1, <1>3, MovesWatched

LEMMA InitWInv == ASSUME Init PROVE WInv
<1>1. DOMAIN qnotify.waiting = {} /\ DOMAIN tnotify.waiting = {}
  BY DEF Init, NewNotify
<1> QED
  BY <1>1 DEF WInv, Distinct, Asleep, Enlisted

LEMMA NextWatched ==
  ASSUME IInv, WInv, [Next]_vars
  PROVE  WInv' /\ \A k \in Keys : Watched(k)
<1>n. tnotify \in NotifyType
  BY DEF IInv, ServiceTypeOK
<1>o. ASSUME tnotify' \in {tnotify, NotifyOne(tnotify)}
      PROVE  \A w : Enlisted(tnotify, w)' => Enlisted(tnotify, w)
  <2>1. \A w : Enlisted(tnotify, w)' <=> Enlisted(tnotify', w)
    BY DEF Enlisted
  <2> QED
    BY <1>n, <1>o, <2>1, NotifyOneWakes
<1>1. CASE UNCHANGED <<pc, queue, qnotify, tnotify>>
  BY <1>o, <1>1, StaysWatched
<1>2. CASE LifecycleStep \/ Die \/ CtrlC
  <2>1. CASE Exit \/ Die
    <3>1. /\ DOMAIN (qnotify'.waiting) = {} /\ DOMAIN (tnotify'.waiting) = {}
          /\ \A k \in Keys : queue'[k] = {}
      BY <2>1 DEF Exit, Die, Vanish, NewNotify
    <3> QED
      BY <3>1 DEF WInv, Distinct, Asleep, Enlisted, Watched, Attended
  <2> QED
    BY <1>1, <1>2, <2>1 DEF LifecycleStep, Create, Remove, Serve, CtrlC, Become, queueVars
<1>3. CASE \E x \in Calls : Acquire(x) \/ ExecuteStep(x)
  <2>1. PICK x \in Calls : ExecutorMoves(x)
    BY <1>3, ExecutorSteps
  <2>2. /\ pc[x] \in Executing /\ pc'[x] \in NextPlaces(x) \cup {pc[x]}
        /\ UNCHANGED <<queue, qnotify>>
        /\ \A y \in Calls \ {x} : pc'[y] = pc[y]
    BY <2>1, MovesTo DEF ExecutorMoves, others, queueVars
  <2>3. \A w : Enlisted(tnotify, w)' => Enlisted(tnotify, w)
    BY <1>o, <2>1 DEF ExecutorMoves
  <2>4. CASE x \in Requests
    BY <2>2, <2>3, <2>4, Apart, StaysWatched
  <2>5. CASE x \in Workers
    <3>1. pc'[x] # "park" /\ pc[x] # "dequeue" /\ pc[x] # "dead"
      BY <2>2 DEF NextPlaces, Executing, Inside, Ended
    <3>2. ~Enlisted(tnotify, x)'
      BY <2>3, <2>5, <3>1 DEF WInv, Asleep
    <3> QED
      BY <2>2, <2>3, <2>5, <3>1, <3>2, Apart, MovesWatched
  <2> QED
    BY <2>4, <2>5 DEF Calls
<1>4. CASE \E w \in Workers : WorkerStep(w)
  <2>1. PICK w \in Workers : WorkerStep(w)
    BY <1>4
  <2>2. CASE Fetch(w) \/ Complete(w)
    <3>1. /\ UNCHANGED <<queue, qnotify, tnotify>>
          /\ pc[w] # "dequeue" /\ pc[w] # "dead" /\ pc'[w] # "park"
          /\ \A v \in Workers \ {w} : pc'[v] = pc[v]
      BY <2>2, Apart DEF Fetch, Complete, Goto, queueVars, IInv, ServiceTypeOK
    <3>2. \A v : Enlisted(tnotify, v)' => Enlisted(tnotify, v)
      BY <1>o, <3>1
    <3>3. ~Enlisted(tnotify, w)'
      BY <3>1, <3>2 DEF WInv, Asleep
    <3> QED
      BY <3>1, <3>2, <3>3, MovesWatched
  <2> QED
    BY <2>1, <2>2, DequeueWatched, ParkWatched, RenewWatched DEF WorkerStep
<1>5. CASE \E r \in Requests : Receive(r) \/ HandlerStep(r) \/ HangUp(r) \/ Expire(r)
  <2>1. PICK r \in Requests : Receive(r) \/ HandlerStep(r) \/ HangUp(r) \/ Expire(r)
    BY <1>5
  <2>2. CASE Enqueue(r)
    BY <2>2, EnqueueWatched
  <2>3. CASE ~Enqueue(r)
    <3>1. /\ UNCHANGED <<queue, qnotify>> /\ \E l : Goto(r, l)
          /\ tnotify' \in {tnotify, NotifyOne(tnotify)}
      BY <2>1, <2>3
         DEF Receive, HandlerStep, AddTaskStep, Lookup, Decide, Insert, PushParallel,
             Listen, Hear, HangUp, Expire, Drop, unserviced, queueVars
    <3>2. \A w \in Workers : pc'[w] = pc[w]
      BY <3>1, Apart DEF Goto, IInv, ServiceTypeOK
    <3> QED
      BY <1>o, <3>1, <3>2, StaysWatched
  <2> QED
    BY <2>2, <2>3
<1>6. CASE \E s \in Sockets : Open(s) \/ Forward(s) \/ Close(s)
  BY <1>1, <1>6 DEF Open, Forward, Close, unheard, queueVars
<1>7. CASE UNCHANGED vars
  BY <1>1, <1>7 DEF vars, queueVars
<1> QED
  BY <1>2, <1>3, <1>4, <1>5, <1>6, <1>7 DEF Next

\* However enqueues, pops and the gap between the look at the queue and
\* notified() interleave, a queued task loses the last worker that would look
\* for it in three ways only: a worker of another language takes the wake-up,
\* or one of its own lies down on task_notify or dies.  For any languages, as
\* many workers as there are, and with one Notify for all of them.
THEOREM WakeupsAreAccounted == Spec => WakeupsAccounted
<1>1. Init => WInv
  BY InitWInv
<1>2. IInv /\ WInv /\ [Next]_vars => WInv'
  BY NextWatched
<1>3. IInv /\ WInv /\ [Next]_vars => [\A k \in Keys : Watched(k)]_vars
  BY NextWatched
<1>4. Spec => [][\A k \in Keys : Watched(k)]_vars
  BY <1>1, <1>2, <1>3, InvariantIInv, PTL DEF Spec
<1> QED
  BY <1>4 DEF WakeupsAccounted, Watched
=============================================================================
