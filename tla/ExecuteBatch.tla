---------------------------- MODULE ExecuteBatch -----------------------------
(***************************************************************************)
(* CodeExecutor::execute_batch: one program, many stdins.  The first       *)
(* request runs alone in the first container; if it succeeds, the others   *)
(* run in chunks, each request of a chunk in a container of its own as     *)
(* long as there are enough.  Between two chunks all containers go back to *)
(* the pool and as many as possible are taken again.                       *)
(***************************************************************************)
EXTENDS Compilers

Batch(x) == job[x] # NoJob /\ job[x].kind = "batch"

Lesser(m, n) == IF m < n THEN m ELSE n

\* One permit and one container, initial_container_id, to begin with.
AcquireBatch(x) == Batch(x) /\ Enter(x)
GetInitial(x) == Batch(x) /\ TakeFirst(x)

-----------------------------------------------------------------------------
\* The first request.

\* The result cache is asked first, even after a failed compilation, and a hit
\* skips the write of the program.
LookupFirst(x) ==
  /\ pc[x] = "built" /\ Batch(x)
  /\ \/ /\ Serve(x, 1)
        /\ Goto(x, "check")
     \/ /\ ResultMiss(x, 1)
        /\ Goto(x, IF Key(x) \in Compiled THEN "run" ELSE "write")
        /\ UNCHANGED out
  /\ UNCHANGED <<poolVars, fileVars, cacheVars, job, held, reply, loc>>

WriteFirst(x) == Batch(x) /\ WriteFile(x)

RunFirst(x) ==
  /\ pc[x] = "run" /\ Batch(x)
  /\ \/ /\ RunRequest(x, 1, held[x][1])
        /\ Goto(x, "check")
        /\ UNCHANGED <<permits, held, job, loc, reply>>
     \/ /\ DockerFails
        /\ Leave(x, "err")
        /\ UNCHANGED <<permits, held, job, loc, out, rcache>>
     \/ /\ DockerFails \/ EmptyCommand(x, 1)
        /\ Fail(x)
        /\ UNCHANGED rcache
  /\ UNCHANGED <<pool, fileVars, acache>>

\* A request that is never run gets an empty result with exit code 0.
Skipped(x, i) == [prog |-> NoCode, stdin |-> Stdin(x, i), end |-> "skipped"]

\* Mutant of Answers: the fillers are forgotten.
FirstAnswerOnly(x, first) == <<first>>

\* The answers of a batch whose first request failed.
Answers(x, first) ==
  [i \in DOMAIN out[x] |-> IF i = 1 THEN first ELSE Skipped(x, i)]

\* Mutants of Iterations: the subtraction does not stop at zero; the container
\* the batch has already is not counted.
IterationsBelowZero(max) == max - 1
IterationsInclusive(max) == max

\* for _ in 1..max_parallel
Iterations(max) == IF max = 0 THEN 0 ELSE max - 1

\* If the compiler or the first request failed, the batch ends here.
\* Otherwise max_parallel is what the semaphore has left at this moment.
CheckFirst(x) ==
  /\ pc[x] = "check"
  /\ LET broken == loc[x].build = "stderr"
         first == IF broken THEN [prog |-> Code(x), stdin |-> Stdin(x, 1),
                                  end |-> "compile_error"]
                            ELSE out[x][1]
         max == Lesser(permits, NumRequests(x) - 1)
     IN  IF broken \/ out[x][1].end \notin ExitZero
           THEN /\ out' = [out EXCEPT ![x] = Answers(x, first)]
                /\ Leave(x, "ok")
                /\ UNCHANGED loc
           ELSE /\ loc' = [loc EXCEPT ![x].maxPar = max,
                             ![x].left = Iterations(max)]
                /\ Goto(x, "extend")
                /\ UNCHANGED <<out, reply>>
  /\ UNCHANGED <<poolVars, fileVars, cacheVars, job, held>>

-----------------------------------------------------------------------------
\* The other requests.

\* Mutant of Load: the container stays as its last owner left it.
LoadNothing(x, c) == UNCHANGED fileVars

\* Load the program into a container just taken.  No artifact any more, and an
\* interpreted program that could not be written, are both passed over.
Load(x, c) ==
  \/ /\ Key(x) \in Compiled
     /\ ArtifactHit(x)
     /\ bin' = [bin EXCEPT ![c] = acache[Artifact(x)]]
     /\ UNCHANGED <<src, inflight>>
  \/ /\ Key(x) \in Compiled
     /\ ArtifactMiss(x)
     /\ UNCHANGED fileVars
  \/ /\ Key(x) \notin Compiled
     /\ WriteSource(c, Code(x)) \/ (DockerFails /\ UNCHANGED <<src, inflight>>)
     /\ UNCHANGED bin

\* One iteration of the container loop: take one if there is one, load the
\* program, keep it.  An upload or a create_exec that fails ends the batch.
Extend(x) ==
  /\ pc[x] = "extend" /\ loc[x].left > 0
  /\ \/ /\ \E c \in Containers :
             /\ Pop(Key(x), c)
             /\ Load(x, c)
             /\ held' = [held EXCEPT ![x] = Append(@, c)]
        /\ loc' = [loc EXCEPT ![x].left = @ - 1]
        /\ UNCHANGED <<permits, pc, job, out, reply>>
     \/ /\ DockerFails
        /\ Key(x) \in Compiled => ArtifactHit(x)
        /\ \E c \in Containers : Pop(Key(x), c)
        /\ Fail(x)
        /\ UNCHANGED fileVars
     \/ /\ Available(Key(x)) = 0
        /\ loc' = [loc EXCEPT ![x].left = @ - 1]
        /\ UNCHANGED <<pool, permits, fileVars, pc, job, held, out, reply>>
  /\ UNCHANGED cacheVars

\* The requests of the current chunk.  The size of all chunks is the number of
\* containers before the first one.
Chunk(x, size) == loc[x].from .. Lesser(loc[x].from + size - 1, NumRequests(x))

\* containers[i % containers.len()] for every request of the chunk: a panic
\* when no container could be taken again.
StartChunk(x) ==
  /\ pc[x] = "extend" /\ loc[x].left = 0
  /\ LET size == IF loc[x].size = 0 THEN Len(held[x]) ELSE loc[x].size
     IN  \/ /\ loc[x].from > NumRequests(x)
            /\ Leave(x, "ok")
            /\ UNCHANGED <<permits, job, held, out, loc>>
         \/ /\ loc[x].from <= NumRequests(x) /\ held[x] # <<>>
            /\ loc' = [loc EXCEPT ![x].size = size, ![x].todo = Chunk(x, size)]
            /\ Goto(x, "runchunk")
            /\ UNCHANGED <<permits, job, held, out, reply>>
         \/ /\ loc[x].from <= NumRequests(x) /\ held[x] = <<>>
            /\ Abort(x, "panic")
  /\ UNCHANGED <<pool, fileVars, cacheVars>>

\* join_all polls every future once, in order: each asks the cache before its
\* first await.
LookupNext(x) ==
  /\ pc[x] = "runchunk"
  /\ \E i \in loc[x].todo :
       /\ \A k \in loc[x].todo : i <= k
       /\ \/ /\ Serve(x, i)
             /\ loc' = [loc EXCEPT ![x].todo = @ \ {i}]
          \/ /\ ResultMiss(x, i)
             /\ loc' = [loc EXCEPT ![x].todo = @ \ {i}, ![x].running = @ \cup {i}]
             /\ UNCHANGED out
  /\ UNCHANGED <<poolVars, fileVars, cacheVars, pc, job, held, reply>>

ContainerOf(x, i) == held[x][((i - loc[x].from) % Len(held[x])) + 1]

\* Mutant of RunNext: results are kept in the order in which the runs end
\* (FuturesUnordered in the place of join_all).
RunNextUnordered(x) ==
  /\ pc[x] = "runchunk" /\ loc[x].todo = {}
  /\ \E i \in loc[x].running, k \in DOMAIN out[x] :
       /\ out[x][k] = Missing /\ \A l \in 1 .. k - 1 : out[x][l] # Missing
       /\ \E o \in RunResults(x, i, ContainerOf(x, i)) :
            /\ out' = [out EXCEPT ![x] = [@ EXCEPT ![k] = o]]
            /\ StoreResult(x, i, o)
       /\ loc' = [loc EXCEPT ![x].running = @ \ {i}]
  /\ UNCHANGED <<poolVars, fileVars, acache, pc, job, held, reply>>

\* One request of the chunk runs, in any order.  An error is kept until all
\* of them are done.
RunNext(x) ==
  /\ pc[x] = "runchunk" /\ loc[x].todo = {}
  /\ \E i \in loc[x].running :
       \/ /\ RunRequest(x, i, ContainerOf(x, i))
          /\ loc' = [loc EXCEPT ![x].running = @ \ {i}]
       \/ /\ DockerFails \/ EmptyCommand(x, i)
          /\ loc' = [loc EXCEPT ![x].running = @ \ {i}, ![x].failed = TRUE]
          /\ UNCHANGED <<out, rcache>>
  /\ UNCHANGED <<poolVars, fileVars, acache, pc, job, held, reply>>

\* Mutant of LastChunk: one request too many is expected.
LastChunkLate(x) == loc[x].from + loc[x].size > NumRequests(x) + 1

LastChunk(x) == loc[x].from + loc[x].size > NumRequests(x)

\* Mutant of Joined: the futures are spawned, and nobody waits for them.
Spawned(x) == loc[x].todo = {}

\* join_all is done.
Joined(x) == loc[x].todo = {} /\ loc[x].running = {}

\* The first error of the chunk leaves through "?" with all containers.
EndChunk(x) ==
  /\ pc[x] = "runchunk" /\ Joined(x)
  /\ \/ /\ loc[x].failed
        /\ Fail(x)
     \/ /\ ~loc[x].failed
        /\ LastChunk(x)
        /\ Leave(x, "ok")
        /\ UNCHANGED <<permits, job, held, out, loc>>
     \/ /\ ~loc[x].failed
        /\ ~LastChunk(x)
        /\ Goto(x, "drain")
        /\ UNCHANGED <<permits, job, held, out, reply, loc>>
  /\ UNCHANGED <<pool, fileVars, cacheVars>>

\* containers.drain(..): one is returned at a time; after the last one the
\* loop that takes containers runs max_parallel times for the next chunk.
Drain(x) ==
  /\ pc[x] = "drain"
  /\ Push(x)
  /\ IF Len(held[x]) = 1
       THEN /\ loc' = [loc EXCEPT ![x].left = loc[x].maxPar,
                                  ![x].from = @ + loc[x].size]
            /\ Goto(x, "extend")
       ELSE UNCHANGED <<pc, loc>>
  /\ UNCHANGED <<permits, fileVars, cacheVars, job, out, reply>>

BatchStep(x) ==
  \/ GetInitial(x) \/ LookupFirst(x) \/ WriteFirst(x) \/ RunFirst(x)
  \/ CheckFirst(x) \/ Extend(x) \/ StartChunk(x) \/ LookupNext(x)
  \/ RunNext(x) \/ EndChunk(x) \/ Drain(x)
=============================================================================
