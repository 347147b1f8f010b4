---------------------------- MODULE ExecutorCalls ----------------------------
(***************************************************************************)
(* A call of the executor as the service sees it: the steps of Execution,  *)
(* what the caller does next, and the task_notify of return_container.     *)
(***************************************************************************)
EXTENDS Lifecycle

Request(x) == IF x \in Requests THEN x ELSE task[x]
Key(x) == KeyOf[Request(x)]
Owned(x) == {c \in Containers : owner[c] = x}

\* Only a batch of three or more takes a second container, or runs a second
\* chunk, for which it returns all its containers and takes others.
Chunked(x) == Kind[Request(x)] = "batch" /\ Size[Request(x)] >= 3

\* Mutant of Then: process_next's error ends the worker's loop, which returns.
ThenReturns(x, r) == IF r = "panic" THEN "gone" ELSE "answered"

\* What the caller does with Ok, Err or a panic.  A handler replies, or its
\* connection dies with it; a worker removes its task only after an Ok, rests
\* after an Err, and never runs again after a panic.
Then(x, r) ==
  IF x \in Requests THEN IF r = "panic" THEN "gone" ELSE "answered"
  ELSE CASE r = "ok" -> "done" [] r = "err" -> "renew" [] r = "panic" -> "dead"

others == <<lifeVars, task, queueVars, pushed, channelVars, socketVars>>

\* A permit.
Acquire(x) ==
  /\ pc[x] = "acquire"
  /\ Goto(x, "get")
  /\ Exec!Enter(x)
  /\ UNCHANGED <<others, tnotify>>

\* The executor's own checks of the request, before it asks for the pool.
Reject(x) ==
  /\ pc[x] = "get" /\ Request(x) \in Unserved
  /\ \E r \in {"err", "panic"} : Goto(x, Then(x, r))
  /\ Exec!Abort(x, {})
  /\ UNCHANGED <<others, tnotify>>

Get(x) ==
  /\ pc[x] = "get" /\ PoolFree
  /\ \/ \E c \in Pooled(Key(x)) : Goto(x, "work") /\ Exec!Take(x, c)
     \/ /\ Pooled(Key(x)) = {}
        /\ Goto(x, Then(x, "err"))
        /\ Exec!Abort(x, {})
  /\ UNCHANGED <<others, tnotify>>

\* One more container for a batch, or again one after a chunk.
More(x) ==
  /\ pc[x] = "work" /\ PoolFree
  /\ Chunked(x) /\ Cardinality(Owned(x)) < Size[Request(x)] - 1
  /\ UNCHANGED <<others, pc, tnotify>>
  /\ \E c \in Pooled(Key(x)) : Exec!Take(x, c)

\* Between two chunks every container goes back.
Drain(x) ==
  /\ pc[x] = "work" /\ PoolFree /\ Chunked(x)
  /\ UNCHANGED <<others, pc>>
  /\ \E c \in Owned(x) : Exec!Return(x, c)
  /\ tnotify' = NotifyOne(tnotify)

\* Everything is compiled, run, looked up and cached.
Run(x) ==
  /\ pc[x] = "work" /\ Owned(x) # {}
  /\ Goto(x, "giveback")
  /\ UNCHANGED <<others, owner, tnotify>>

\* The executor gives up its containers where Docker fails, where the command
\* of a batch that did not compile is empty, and where the executable of a java
\* program cannot be fetched; or a batch finds none between chunks and panics.
Break(x) ==
  /\ pc[x] = "work"
  /\ \/ /\ DockerFails \/ Request(x) \in Unbuilt
        /\ Goto(x, Then(x, "err"))
     \/ /\ Owned(x) = {}
        /\ Goto(x, Then(x, "panic"))
  /\ Exec!Abort(x, {})
  /\ UNCHANGED <<others, tnotify>>

\* Mutant of GiveBack: a return that tells nobody.
GiveBackQuietly(x) ==
  /\ pc[x] = "giveback" /\ PoolFree
  /\ \E c \in Owned(x) :
       IF Owned(x) = {c} THEN Goto(x, Then(x, "ok")) /\ Exec!Finish(x, c)
                         ELSE UNCHANGED pc /\ Exec!Return(x, c)
  /\ UNCHANGED <<others, tnotify>>

\* return_container, as often as it takes; an error of Docker that the
\* executor does handle ends here too.
GiveBack(x) ==
  /\ pc[x] = "giveback" /\ PoolFree
  /\ \E c \in Owned(x) :
       IF Owned(x) = {c}
         THEN /\ \/ Goto(x, Then(x, "ok"))
                 \/ /\ DockerFails
                    /\ Goto(x, Then(x, "err"))
              /\ Exec!Finish(x, c)
         ELSE UNCHANGED pc /\ Exec!Return(x, c)
  /\ tnotify' = NotifyOne(tnotify)
  /\ UNCHANGED others

ExecuteStep(x) ==
  Reject(x) \/ Get(x) \/ More(x) \/ Drain(x) \/ Run(x) \/ Break(x) \/ GiveBack(x)
=============================================================================
