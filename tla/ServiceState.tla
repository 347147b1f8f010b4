----------------------------- MODULE ServiceState -----------------------------
(***************************************************************************)
(* The state of the EvalX process outside its executor: its phase, the     *)
(* containers it made, the queue, the notifications, and where every HTTP  *)
(* request and every worker is.  Both are calls of the executor when they  *)
(* execute; the executor itself appears as the abstraction Execution,      *)
(* which module Executor implements.  Each request arrives at most once.   *)
(***************************************************************************)
EXTENDS Integers, Sequences, FiniteSets, TokioNotify

CONSTANTS
  Requests,    \* HTTP requests that may arrive
  Workers,     \* tasks spawned by start_worker
  Sockets,     \* WebSocket connections that may be opened
  Containers,  \* containers init_container_pool tries to create
  Keys,        \* "language:version"
  KeyOf,       \* the key of each request, worker and container
  Kind,        \* the route of a request: "single", "batch", "parallel"
  Size,        \* how many programs a request asks to run
  Refused,     \* requests the handler's own checks turn down
  Unserved,    \* requests the executor's checks may turn down, or panic on
  Unbuilt,     \* requests that may have neither an executable nor a message
  Impatient,   \* requests whose client may hang up
  NoTask, Idle, Lost,
  MaxPermits,  \* max_containers.min(5)
  BatchLimit,  \* ConcurrencyLimitLayer::new(4)
  Capacity,    \* of the broadcast channel
  DockerFails, \* may a call to the Docker daemon fail?
  Stops        \* may the process be stopped?

Calls == Requests \cup Workers

ASSUME ServiceAssumption ==
  /\ Requests \cap Workers = {} /\ NoTask \notin Requests
  /\ Sockets \cap Calls = {}
  /\ IsFiniteSet(Calls)
  /\ Idle \notin Calls /\ Lost \notin Calls /\ Idle # Lost
  /\ KeyOf \in [Calls \cup Containers -> Keys]
  /\ Kind \in [Requests -> {"single", "batch", "parallel"}]
  /\ Size \in [Requests -> Nat \ {0}]
  /\ \A r \in Requests : Kind[r] = "single" => Size[r] = 1
  /\ Refused \subseteq Requests /\ Unserved \subseteq Requests
  /\ Unbuilt \subseteq Requests
  /\ Impatient \subseteq Requests
  /\ MaxPermits \in Nat \ {0} /\ BatchLimit \in Nat \ {0}
  /\ Capacity \in Nat \ {0} /\ DockerFails \in BOOLEAN /\ Stops \in BOOLEAN

VARIABLES
  phase,    \* of main: starting, serving, cleaning (the pool is locked), exited
  docker,   \* what became of each container in the Docker daemon
  owner,    \* who has each container: the pool (Idle), a call, or nobody (Lost)
  pc,       \* where each request and each worker is
  task,     \* the task a worker has dequeued
  tnotify,  \* executor.task_notify
  queue,    \* ExecutionQueue.inner: the queued tasks of each key
  qnotify,  \* ExecutionQueue.notify, one for all keys
  tasks,    \* QueueManager.tasks
  pushed,   \* executor.task_queue
  log,      \* every notification sent on the broadcast channel
  pos,      \* how far each receiver has read it
  socket,   \* the forwarding task of each WebSocket: none, open, ended
  seen      \* what it has forwarded, after what was sent before it was opened

lifeVars == <<phase, docker>>
queueVars == <<queue, qnotify, tasks>>
channelVars == <<log, pos>>
socketVars == <<socket, seen>>
vars == <<lifeVars, owner, pc, task, tnotify, queueVars, pushed, channelVars,
          socketVars>>

\* Where a call holds a permit; where it is in the executor at all.
Inside == {"get", "work", "giveback"}
Executing == Inside \cup {"acquire"}

Init ==
  /\ phase = "starting"
  /\ docker = [c \in Containers |-> "untried"]
  /\ owner = [c \in Containers |-> Lost]
  /\ pc = [x \in Calls |-> IF x \in Workers THEN "dequeue" ELSE "idle"]
  /\ task = [w \in Workers |-> NoTask]
  /\ tnotify = NewNotify
  /\ queue = [k \in Keys |-> {}]
  /\ qnotify = NewNotify
  /\ tasks = {}
  /\ pushed = {}
  /\ log = <<>>
  /\ pos = [s \in Sockets \cup Requests |-> 0]
  /\ socket = [s \in Sockets |-> "none"]
  /\ seen = [s \in Sockets |-> <<>>]

Goto(x, l) == pc' = [pc EXCEPT ![x] = l]

Running == {x \in Calls : pc[x] \in Inside}

Exec == INSTANCE Execution WITH holders <- Running
=============================================================================
