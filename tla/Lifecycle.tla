------------------------------ MODULE Lifecycle ------------------------------
(***************************************************************************)
(* main, initialize_executor and cleanup: containers are created, then the *)
(* server starts; ctrl-c removes what is in the pool and ends the process. *)
(***************************************************************************)
EXTENDS ServiceState

\* create_idle_container, and the insertion into the pool, which nobody reads
\* before the server runs.  Any error is dropped: the container was not created,
\* or it was not started, and then nobody knows it.
Create(c) ==
  /\ phase = "starting" /\ docker[c] = "untried"
  /\ \/ /\ docker' = [docker EXCEPT ![c] = "running"]
        /\ owner' = [owner EXCEPT ![c] = Idle]
     \/ /\ DockerFails
        /\ docker' = [docker EXCEPT ![c] = "unpooled"]
        /\ UNCHANGED owner
  /\ UNCHANGED <<phase, pc, task, tnotify, queueVars, pushed, channelVars, socketVars>>

Become(p, q) ==
  /\ phase = p
  /\ phase' = q
  /\ UNCHANGED <<docker, owner, pc, task, tnotify, queueVars, pushed, channelVars,
                 socketVars>>

\* The pool is as full as it gets, and the server starts.
Serve == (\A c \in Containers : docker[c] # "untried") /\ Become("starting", "serving")

\* The process ends: every future is dropped and the memory is gone; containers
\* that calls held are nobody's.
Vanish ==
  /\ phase' = "exited"
  /\ owner' = [c \in Containers |-> Lost]
  /\ pc' = [x \in Calls |-> IF x \in Workers THEN "dead" ELSE "gone"]
  /\ task' = [w \in Workers |-> NoTask]
  /\ queue' = [k \in Keys |-> {}]
  /\ tasks' = {} /\ pushed' = {} /\ log' = <<>>
  /\ tnotify' = NewNotify /\ qnotify' = NewNotify
  /\ pos' = [s \in Sockets \cup Requests |-> 0]
  /\ socket' = [s \in Sockets |-> "ended"]
  /\ seen' = [s \in Sockets |-> <<>>]
  /\ UNCHANGED docker

\* ctrl-c has no handler yet, or the port is taken.
Die == Stops /\ phase = "starting" /\ Vanish

\* cleanup locks the pool for as long as it takes.
CtrlC == Stops /\ Become("serving", "cleaning")

Pooled(k) == {c \in Containers : owner[c] = Idle /\ KeyOf[c] = k}

\* Mutant of PoolFree: a cleanup that takes the ids and lets go of the lock.
PoolNeverLocked == TRUE

\* The pool's lock can be taken.
PoolFree == phase # "cleaning"

Remove(c) ==
  /\ phase = "cleaning" /\ owner[c] = Idle /\ docker[c] = "running"
  /\ docker' = [docker EXCEPT ![c] = "removed"]
  /\ UNCHANGED <<phase, owner, pc, task, tnotify, queueVars, pushed, channelVars,
                 socketVars>>

\* A removal that fails is passed over.  After the last one main returns.
Exit ==
  /\ phase = "cleaning"
  /\ DockerFails \/ \A c \in Containers : owner[c] = Idle => docker[c] = "removed"
  /\ Vanish

LifecycleStep ==
  \/ \E c \in Containers : Create(c) \/ Remove(c)
  \/ Serve \/ Exit
=============================================================================
