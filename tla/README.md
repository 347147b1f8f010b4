# EvalX in TLA+

A verification development of the code execution engine in `src/`: TLA+ modules
that model its executor and the process around it (handlers, queue, workers,
notifications, startup and shutdown), TLC configurations that check them on small
instances, and TLAPS proofs of the safety properties for every instance. EvalX's own
README describes an architecture (Isolate, distributed workers, Prometheus)
that the code at this commit does not have; everything here follows the code.

## 1. The system

A client posts a program to an axum server. A handler looks for a cached result,
asks the queue manager, which either runs the request at once or queues it for a
worker, and `CodeExecutor` runs it in a pre-warmed Docker container.

```
 HTTP handlers --add_task--> QueueManager --execute / execute_batch--> CodeExecutor
      |  ^                    |   ^ 32 workers per language            |    |    |
      |  +-- broadcast channel|   +-- queue Notify, task_notify <--+   |    |    |
      |       (WebSocket too) +-- tasks map, priority queues       |   |    |    |
      +-- result cache (Redis) <-----------------------------------+---+    |    |
                            container pool, semaphore (shared) <------------+    |
                            Docker: files of the containers, compilers <---------+
```

| Component | Source | State | Operations | What makes it correct | Module |
|---|---|---|---|---|---|
| `execute` | `executor.rs` 22-212 | a container id, a run command, the permit | one request, ~12 awaits, each of which can fail or never be polled again | answers for its own program; container and permit given back on every intended path | `ExecuteSingle` |
| `execute_batch` | `executor.rs` 214-692 | its containers, chunk position, results | first request, container loop, chunks under `join_all`, drain, loop | results in request order; no container used after its return; no panic | `ExecuteBatch` |
| Container pool | `container_pool.rs` | `HashMap<key, Vec<id>>` behind a lock | `get_container`, `return_container`, `init_container_pool` | a container is pooled once or owned once, under the key it was made for | `Sandbox`, `ContainerLease`, `Lifecycle` |
| Semaphore | `init.rs` 96-103 | permits, `max_containers.min(5)` | acquire; release by destructor | permits conserved however a call ends; every waiter gets one | `Sandbox`, `Executor`, `Execution` |
| Compilers, artifact handlers | `compilers.rs`, `artifact_handlers.rs` | files under `/app` in a container | write, compile, fetch, cache, upload | the executable in the container is that of the call | `Compilers` |
| Redis caches | `redis_client.rs` | result entries (3600 s), artifacts (120 s), `allkeys-lru` | get, set_ex | an entry belongs to its key | `Sandbox` |
| Queue | `queue_management/` | priority queue per key, one `Notify`, tasks map, 32 workers per key | `add_task`, `enqueue`, `dequeue`, `process_next` | every task is known, run once and not forgotten; one that waits is taken | `QueueManager`, `TokioNotify` |
| Handlers | `executionControllers.rs` | cache key, subscription | validate, look up, `add_task`, wait for a notification | an accepted request is run by one caller; a batch does not keep its slot | `Handlers` |
| Notifications | `notificationControllers.rs` | broadcast channel of 1024 | subscribe, forward | a subscriber sees everything in order, up to the gap that ends it | `Notifications` |
| Startup, shutdown | `setup.rs`, `main.rs`, `init.rs` | the phase of `main`, the Docker daemon's containers | create containers; serve; `cleanup` | no container in use is removed | `Lifecycle` |
| `execute_parallel` | `executor.rs` | | | dead: no handler hands the queue an `ExecutionType::Parallel` | not modelled |

The behaviours that are hard to get right: calls interleave at every await on one
pool, one semaphore and one Redis; a Docker call can fail after any other one;
axum drops the future of a client that hangs up, at any await, and
`/execute/batch` has a timeout layer that does the same; containers keep the
files of earlier programs; caches expire between two reads; a batch gives its
containers away between two chunks and counts on getting some back; the number of
free containers is read long before one is taken; one `Notify` wakes the workers
of all languages, and a worker sleeps on a second one after each task; a handler
can be dropped between the two halves of `add_task`; ctrl-c comes at any time.

`PROJECT.json` lists these hazards at their lines, with the properties that
would catch them.

## 2. The modules

| Module | What it models |
|---|---|
| `Sandbox` | the shared state of the executor (pool, permits, files, caches) and per-call locals, with the steps both kinds of call use: `Enter`, `TakeFirst`, `WriteFile`, `RunRequest`, `GiveBack`, `Abort` |
| `Compilers` | how a call of a compiled language gets its executable: `UseArtifact`, `WriteProgram`, `Compile` |
| `ExecuteSingle` | `CodeExecutor::execute`, one action per stretch between two awaits that matter |
| `ExecuteBatch` | `CodeExecutor::execute_batch`, the same way |
| `Executor` | any number of both at once, their callers, cancellation, expiry; `Spec`, `FairSpec`, the properties |
| `ContainerLease` | the abstract promise of the pool: each container is idle, leased to one call, or lost for good |
| `Execution` | the abstract promise of the executor: a call holds one permit from its first container to its end, and leases containers only while it does |
| `TokioNotify` | `tokio::sync::Notify`: FIFO waiters, at most one stored permit |
| `ServiceState` | the state of the process around the executor |
| `Lifecycle` | `init_container_pool`, the start of the server, ctrl-c, `cleanup`, the end of the process |
| `ExecutorCalls` | a call of the executor as a handler or a worker sees it, on the steps of `Execution` |
| `QueueManager` | `add_task`, `enqueue`, `dequeue`, `process_next`, the worker loop |
| `Notifications` | the broadcast channel and the WebSocket forwarder |
| `Handlers` | the three routes, the drop of their futures, the layers of the batch route |
| `Service` | all of these together; `Spec`, `FairSpec`, the properties |
| `MCExecutor`, `MCService` | instances for TLC |
| `ExecutorProofs`, `PermitProofs`, `ExecutionProofs`, `AnswerProofs`, `IsolationProofs`, `SufficiencyProofs` | theorems about `Executor` |
| `ServiceProofs`, `WakeupProofs` | theorems about `Service` |

There are two compositions, and an abstraction that ties them together.

* `Executor` EXTENDS `ExecuteSingle` and `ExecuteBatch`, which both EXTEND
  `Compilers`, which EXTENDS `Sandbox`. It instantiates `ContainerLease` under the
  mapping `Owner`, and `Execution` under `Owner` and the set of permit holders.
* `Service` EXTENDS `Handlers`, which EXTENDS `QueueManager` (over `ExecutorCalls`,
  `Lifecycle`, `ServiceState` and `TokioNotify`) and `Notifications`.
* In `Service` the executor appears as `Execution`: every step of a call in
  `ExecutorCalls` is `Exec!Enter`, `Exec!Take`, `Exec!Return`, `Exec!Finish` or
  `Exec!Abort`, with what the caller does next. That `Executor` implements
  `Execution` is checked (`BatchPool`) and proved (`ImplementsExecution`), so that
  the queue is checked without the interior of the executor.

### The executor: state and actions against the code

* `pool` is `container_pool`; `Pop` takes from the end of the Vec and `Push` adds
  at the end, as the Rust `pop`/`push` do. `permits` is the semaphore.
* `src`, `bin` are the source file and the executable under `/app` of each
  container. `start_exec` resolves when the shell is attached, so a write may
  still be under way when the call goes on: `inflight` holds such writes, and
  `WriteLands` completes them, whoever owns the container by then.
* `rcache`, `acache` are Redis entries. `Evict` covers the TTL and the LRU.
* `pc[x]` says where call `x` is suspended. The places inside `Inside` are those
  at which it holds the permit. `held[x]` is the Vec of its container ids,
  `out[x]` its results, `loc[x]` its other locals (`max_parallel`, the position in
  the chunk iterator, the futures of `join_all` not yet done).
* `Enter` is the permit, which comes before anything of the request is looked at;
  `TakeFirst` is the checks up to `get_container` and that call, so that a refused
  request has held a permit, and others may act in between.
* `Abort` is what a `?`, a panic or a drop does: destructors run, which frees the
  permit; the container ids are plain strings, so those containers are lost.
  `Leave` then `GiveBack` is the intended path, one `return_container` per step.
* In `execute_batch`, `CheckFirst` reads `available_permits()`; `Extend` is one
  iteration of the loop that takes further containers; `StartChunk` computes
  `containers[i % containers.len()]` (and panics on an empty Vec); `LookupNext`
  and `RunNext` are the futures of a chunk, the runs in any order; `EndChunk` is
  the end of `join_all`; `Drain` returns the containers between two chunks.
* `Begin` and `Collect` are the callers: a handler (`Clients`) or a queue worker.
  Only a handler's future can be dropped (`Cancel`).

### The service: state and actions against the code

* `phase` is where `main` is; `docker` what the Docker daemon knows of each
  container; `owner` who has it, as in `ContainerLease`.
* `pc` is where the handler of each request and each of the workers is;
  `task[w]` is the task a worker has popped.
* `queue`, `qnotify` and `tasks` are `ExecutionQueue.inner`, its `notify`, and
  `QueueManager.tasks`; `tnotify` and `pushed` are `task_notify` and `task_queue` of
  the executor.
* `log` is every notification ever sent, `pos` how far each receiver has read. The
  channel itself is the last `Capacity` entries. `socket`, `seen` are the
  forwarding task of a WebSocket and what it has forwarded.
* `add_task` is `Decide` (the read of `available_containers`), then the call of the
  executor, or `Insert` (the map, under its lock) and `Enqueue` (the queue, and
  `notify_one`). Between any two of them the handler can be dropped.
* A worker is `Dequeue` (the look under the lock), `Park` (the first poll of
  `notified()`, after the lock is released), `Fetch` (the tasks map), the call,
  `Complete` (the removal), `Renew` (the wait for `task_notify`, and the 150 ms
  sleep). It does not go on while it is in the list of either `Notify`.
* A call is `Acquire`, then `Reject` on a request that fails the executor's checks,
  or `Get`, then `More` and `Drain` for a batch with several chunks, `Run`,
  `GiveBack`, or `Break` on an error that loses the containers. `Then` says what an Ok, an Err
  or a panic does to a handler and to a worker.
* `Create` is one container of `init_container_pool`, `Serve` the start of the
  server, `CtrlC`, `Remove` and `Exit` are `cleanup`, `Die` an end before the server
  runs. `Vanish` is the end of the process: every future is dropped, memory is
  gone, containers that calls hold go on running for nobody.
* `Receive`, `Lookup`, `PushParallel`, `Listen` and `Hear` are the handlers;
  `HangUp` and `Expire` drop one at an await: the client left, or the batch
  route's 60 seconds are over. `Open`, `Forward` and `Close` are a WebSocket.

### What is abstracted

* A program, a stdin, a container and a language key are model values; a result
  records which program really ran, on which stdin, and how it ended (exit code
  zero or not, stderr empty or not). These are all that the code branches on.
* c, cpp, java and java11 have one control flow; the one difference that matters,
  that javac names the class file after the class, is `Output` and `Nameless`.
  Only `Main.class` is cached, so a program of several classes is not represented.
* The checks of a request that need no container (language, timeout, emptiness)
  are the verdict `valid` in the executor. In the service `Refused` are the requests
  the handler turns down, `Unserved` those the executor may turn down or panic on,
  and `Unbuilt` those whose compilation may leave neither an executable nor an
  answer (`executor.rs` 380, `compilers.rs` 124), which loses a container without
  any fault of Docker.
  The timeout in the result key is one value. An empty batch, which returns
  before the semaphore, is left out.
* A run of a program is atomic, a timed out one is a crash. The process a timeout
  leaves behind in the container is not modelled: it shares no state with others
  here. Memory limits are reported by the code, never enforced.
* The files of a container nobody owns any more are irrelevant and kept.
* pypy has containers, but `execute_batch` refuses it, and `execute` writes its
  program to `/app/main`, which its command does not read: no instance has its key.
* In the service, a request arrives once. Every task gets priority 1, so the
  binary heap may pop any of the queued ones and is a set. The handler's own
  look-up in Redis may hit or miss, whatever was stored: its key and the
  executor's are not built alike, so nothing may rely on it.
* `cleanup` holds the pool's lock from its first to its last removal: `PoolFree`.
  `tokio::select!` drops the accept loop when it starts, but the tasks of open
  connections run on, so requests still arrive while it cleans.
* A container in use, or lost, is not removed by `cleanup`; nothing in the code
  claims it is.

## 3. The runs

| Run | Instance | Shows |
|---|---|---|
| `Single` | 2 clients, one compiled and one interpreted container, 2 permits, requests that are refused, Docker fails, Redis loses entries | `AtHome`, `PermitsConserved`, `RanOwnCode`, `CacheSound` for single requests under every fault but a late write |
| `BatchPool` | 2 clients, 2 containers, 3 permits, Docker fails; batches of 4 with three stdins, of 1, refused ones, singles | the control of batches: `TypeOK`, `Engaged`, `HoldsWhatItUses`, `ChunkInRange`, `OnePlace`, `PermitsConserved`, and the refinements `LeaseSpec` and `ExecutionSpec`, while requests of a chunk run, fail, and are dropped in flight |
| `Batch` | 2 workers, 3 compiled containers, 3 permits, batches of 3 and of 2 with distinct stdins and singles, three programs of which one does not compile, no faults | the data of batches: `RanOwnCode` and `CacheSound` in containers loaded from the artifact, `Aligned` in whatever order the runs of a chunk end; `NoneLost`: the early returns give everything back; `FewHoldMany`; and `AlwaysAnswered`: with permits and containers to spare nothing goes unanswered |
| `Live` | 2 calls, 1 container, 1 permit, one client hangs up, Docker fails, writes are late | `EveryCallEnds` under `FairSpec`; `Aligned`, where the cache keys tell the stdins apart |
| `Service` | a batch of 3 and a single, 3 workers of 2 languages, 2 containers, 2 permits, Docker fails, the batch may stay unbuilt, the single may be refused and its client hangs up, batches time out, the process stops at any time | the queue under every fault: `ServiceTypeOK`, `TaskKnown`, `OneRunner`, `RemovedNotInUse`, `TasksAccounted`, `WakeupsAccounted` |
| `ServiceLive` | two batches and a parallel request, 1 worker, 1 container, 1 permit, a WebSocket, a channel of 1, no faults | `ForwardedInOrder`; `TaskTaken` and `BatchEnds` under `FairSpec` |
| `Poisoned` | 2 calls, 1 container, a batch of 2 and singles; violates `CacheSound` | see findings |
| `Panicked` | 2 calls, 2 containers, 3 permits, batches of 3; violates `BatchNeverPanics` | see findings |
| `CompileLost` | 1 call, 1 container, a batch that does not compile; violates `CompileErrorReported` | see findings |
| `OverMaximum` | 3 calls, 4 containers, 3 permits, batches of 3; violates `WithinMaximum` | see findings |
| `Starved` | 2 languages with a worker and a container each, 1 permit; violates `TaskTaken` | see findings |
| `Unanswered` | 1 worker, 1 container, two singles; violates `CompletionReported` | see findings |

The calls of an executor instance are re-usable: a call that has replied may
begin again with any job, so histories are unbounded although two are active at
a time. Two active calls are enough for every conflict the code has (both on the
pool, the permits or a cache entry), a third one is only needed where permits are
counted several times (`OverMaximum`). Two containers let a batch keep, lose and
regain a second container; four requests give it two chunks and a short last one.
Three permits let a batch ask for two containers, which needs `max_parallel` of 2.
In `Batch` the other call then reads at most one permit, so that a batch of 3 runs
two chunks while containers change hands, and the third container is the one that
makes `AlwaysAnswered` hold: with two, `Panicked` is what happens. The stdins of a
batch of 3 differ, so that after its first request the others are not in Redis and
run, each in a container of the batch; the batch of 4 in `BatchPool` has one stdin
twice, so that both a run and a result from Redis occur in one batch, and in `Batch`
a call that comes later finds some results stored. Calls are interchangeable, and
so are containers where the pool holds all of them under one key, apart from the
order of the Vec they start in; safety runs use this symmetry (the refinements of
`BatchPool` are an initial predicate and an action each, no liveness), `Live` does
not. Nothing in the modules is a counter that needs a cap: results, permits and
chunks are bounded by the jobs.

A service instance is bounded by its requests, since each arrives once: `log` has
at most one entry per request. Two requests that contend for one container make
one of them queue, whichever is first; a batch of 3 with 2 containers always
queues and is the smallest that has a second chunk; `BatchLimit` 1 makes the
limit of 4 bite with two batches (`ServiceLive`), `Capacity` 1 makes a channel lag
with two notifications. Two workers of one language are enough to pop one queue at
once, and a third of another language to take their wake-up (`Service`). One worker
and one container are what it takes to make the second task of `ServiceLive` need
the wake-up that `return_container` gives `task_notify`: the only worker lies on it
after the first. Deadlock is checked in the runs of `Executor` and not in those of
`Service`, which really stops: the process ends, or waits when no request is left.

The properties, in one line each. Of the executor: no permit is lost or made up
(`PermitsConserved`); a container is in one Vec or with one call, never twice
(`OnePlace`), under its own language (`AtHome`), and never comes back once lost
(`LeaseSpec`); without faults none is lost (`NoneLost`); a call holds a container
wherever it uses one (`HoldsWhatItUses`); no request of a chunk is in flight when
its containers are returned (`ChunkInRange`); there is one result per request
(`Engaged`), and it is for that request's stdin (`Aligned`); it comes from the
right program (`RanOwnCode`), and so does what the caches hold (`CacheSound`);
the more containers a number is, the fewer calls hold as many (`FewHoldMany`); where
nothing fails and there are permits and containers to spare, every call is answered
(`AlwaysAnswered`).
Of the service: a worker finds what it has popped in the map, and still does when
it removes it (`TaskKnown`); no task is run twice, by its handler and a worker, or
by a worker of another language (`OneRunner`); a task is forgotten or left behind
in the two ways the code has and no other (`TasksAccounted`); no call holds a
container that `cleanup` has removed (`RemovedNotInUse`); a WebSocket forwards
without a gap (`ForwardedInOrder`); with any languages a queued task loses the last
worker that would look for it to a worker of another language that takes the
wake-up, to `task_notify` or to a panic, and in no other way (`WakeupsAccounted`),
and with one language it is taken (`TaskTaken`); a batch gives its slot
of the four back (`BatchEnds`).

### Fairness

*Executor.* `Fairness` is weak for the steps of a call and strong for `Acquire`.
Weak: tokio polls a future again once its await is ready; Docker calls are under
timeouts or fail; Redis answers or fails; that a *compiler* ends is an assumption,
because `execute_command` ignores its timeout argument. Strong: tokio's semaphore
queues its waiters first come, first served, so a waiter that sees permits
released again and again gets one. Nothing is fair about callers, hang-ups,
faults, late writes and expiry: they may happen or not.

*Service.* Weak for the steps of `main`, of each worker and of each handler, for
the same reason; strong for `Acquire`; weak for `Expire`, because the timer of the
batch route fires. A step counts as possible only when the `Notify` its future
waits for has woken it. Nothing is fair about `Receive`, `HangUp`, `Die`, `CtrlC`
and the sockets. `TaskTaken` needs an instance without faults: a Docker error or a
panic takes the last container of a language away for good.

## 4. Findings

* `Poisoned`: a batch of an interpreted language whose first result is cached
  skips the write of the program (`executor.rs` 340-365), keeps its first
  container and runs later requests in it, on whatever an earlier call left in
  `/app`; the results are cached under the batch's program.
* `Panicked`: between two chunks a batch returns all its containers and takes
  what is left. If other calls were faster, `i % containers.len()` divides by zero.
  The run has permits for both calls to read one more, so that this race is the
  only way to it. With `MaxPermits = 2` the panic needs no race for a container: if
  the semaphore was empty when the first request ended, `max_parallel` is 0 (462)
  and the loop after the first chunk takes none (638), so that every batch of three
  or more panics.
  `EnoughForAll` gives conditions under which neither happens, and
  `ShortBatchesNeverPanic` that a batch of two is safe.
* `CompileLost`: after a failed compilation a batch still runs its first request,
  with an empty command; without stdin Docker refuses, the answer is that error
  instead of the compiler's message, and the container is lost. One call and one
  container are enough: nothing else can fail in that run.
* `OverMaximum`: `available_permits()` is read and not reserved: concurrent
  batches count on the same permits and hold more containers than the maximum.
  How many more is what `FewHoldMany` bounds: with 5 permits at most three calls hold
  two containers or more, two hold three or more, one holds four, none five,
  which makes 11 containers at most.
* `Starved`: `enqueue` wakes one waiter of the one `Notify` all languages share
  (`mod.rs` 31). A worker of another language takes the wake-up, finds its own
  queue empty and parks; the task stays queued, its worker asleep and its
  container in the pool. That this is one of three ways a task can come to wait
  unseen, and that there is no fourth, is `WakeupsAccounted`.
* `Unanswered`: the worker loop drops the results of `process_next`
  (`manager.rs` 149) and nobody sends a notification that is final: the client
  of a queued request waits for ever, or 60 seconds on the batch route.

Three more assumptions of the passing runs are there because the property fails
without them, which is easily seen by changing the constant in the `.cfg`:
`RanOwnCode` fails for batches with `CacheLossy = TRUE` (the artifact expires while
a batch takes containers, `executor.rs` 470, and a container is used with an older
binary), with `LateWrites = TRUE` (the run overtakes the write, `executor.rs` 128),
and for a java program without a class `Main` (an older `Main.class` is fetched and
cached, `compilers.rs` 124), which both data properties therefore exclude.

## 5. The proofs

The theorems about `Executor` hold for any sets of calls, containers, keys,
programs and jobs that satisfy `SandboxAssumption`, `PoolAssumption` and
`OwnerAssumption`: finitely many calls, jobs of at least one request, a pool
without duplicates at startup, and two owner names that are not calls. Those
about `Service` hold for any requests, workers, containers and languages that
satisfy `ServiceAssumption`: requests and workers are distinct and finitely many,
a single asks for one run, limits are positive. TLC evaluates these on every run.

Of the executor:

* `IInv == TypeOK /\ Engaged /\ HoldsWhatItUses /\ ChunkInRange` is inductive
  (`InvariantIInv`). `TypeOK` alone is not: that `held[x][1]`, `Head(held[x])` and
  `held[x][(i - from) % Len(held[x]) + 1]` exist needs `HoldsWhatItUses`; that the
  index of a result is in range needs `ChunkInRange`; that there is a result to
  replace needs `Engaged`. `HoldsWhatItUses` in turn needs its clauses on `"extend"`
  and `"drain"`: a batch without containers still has requests to run, hence
  panics rather than reaching the final return. There is one lemma per action; the ones
  about `MoveKeeps`, `AbortKeeps`, `AnswerKeeps`, `PushKeeps`, `PopKeeps` and
  `ChunkKeeps` hold what many actions share. Theorems `TypeCorrect`,
  `NeverWithoutContainer`, `OneResultEach`, `ChunksComplete`.
* `ContainerSteps` classifies every step by what it does to containers: one is
  taken, one is returned, those of a call are dropped (perhaps with one just
  taken), or nothing moves. `OnePlace` and `AtHome` are then inductive relative
  to `IInv`, by cases on the class: `ContainersExclusive`, `ContainersStayHome`.
* `PermitProofs`: every step is a `Passage` (one call enters and takes a permit,
  one leaves and frees it, or neither); the set of holders is finite, so its
  cardinality moves with `permits`: `PermitsNeverLost`. `RInv` then bounds what a
  call holds: one container up to its first result, after it `max_parallel` of
  them (`Room`), the iterations its container loop still has included, and
  `max_parallel` is less than the number of requests. `SInv` counts the calls that
  read `m` permits or more: whoever reads `m` leaves at most `MaxPermits - m` calls
  inside, itself and all earlier readers among them, and later ones read less.
  `FewHoldMany` follows: `FewCallsHoldMany`. With at most two requests per batch
  `Room` is 1, a call has one container, and containers in use are at most the
  permits taken: `SmallBatchesWithinMaximum`, the other side of `OverMaximum`.
* `ExecutionProofs`: under `Owner` the classes of `ContainerSteps` are `Take`,
  `Return`, `Abandon` and stuttering of `ContainerLease`; `OnePlace` makes the owner
  of a container unique: `ImplementsLeases == Spec => LeaseSpec`. With the
  classification of `PermitProofs`, jointly: a step that takes a container is by a
  call inside, one that leaves gives back its last container or drops all:
  `ImplementsExecution == Spec => ExecutionSpec`.
* `AnswerProofs`: `AInv` says how far the results of each call have got
  (`Progress`): all those below the position of the chunk iterator are there,
  and those of the current chunk are there, still to look up, or running. It
  needs that Redis holds under a stdin only results of that stdin
  (`EntriesMatch`), and is inductive relative to `IInv`: `AnswersAligned`.
* `IsolationProofs` assumes `Careful`: no late writes, and where batches of several
  requests arrive, they are of a compiled language and Redis keeps artifacts. Each
  half is necessary, as the findings show; Docker may fail and clients hang up.
  `OInv` is inductive relative to `IInv`, `RInv` and `OnePlace`: artifacts and entries
  are their own program's; *every* container a batch holds has its program
  (`Executable`), because the first one was built or loaded, each later one is
  loaded from an artifact that is still there, and nobody else writes to a
  container that is held. That the first container is the only one until the
  first result, and that only a batch of several requests takes others, is `RInv`.
  Between two chunks nothing is held and the artifact is all that is left of the
  invariant. `RunsOwnCode`, `KeepsCachesSound`; instances with single requests only
  satisfy `Careful` whatever Redis loses.
* `SufficiencyProofs`: under `FaultFree` (no Docker failure, no late write, no client
  to hang up, no java program without `Main`, and a stdin for what does not
  compile) `HInv` says that only a program that does not compile lacks a command,
  so that no call ever reaches an error that drops its containers: `NothingLost`.
  Under `Roomy` in addition (fewer calls than permits, and more containers of each
  language than all calls but one can hold) a call without a container always
  finds one: by `NoneLost` and `AtHome` the containers of its language are in its
  Vec or with the others, by `FewHoldMany` each of those has fewer than
  `MaxPermits`, and the map from containers to their places is injective
  (`PoolHasMore`). `NInv` adds that a batch between two chunks has an iteration of
  its container loop to go, since `max_parallel` was read while a permit was left:
  `EnoughForAll`. As deployed (5 permits, 20 containers per language) that covers up
  to four calls at a time. `ShortBatchesNeverPanic` needs no such assumption: a
  batch of two has one chunk, which starts with the first container (`BInv`).

Of the service:

* `ServiceProofs`: the inductive invariant is `IInv == ServiceTypeOK /\ TaskKnown /\
  OneRunner /\ Inserted /\ RemovedNotInUse /\ Shut /\ ForwardedInOrder`. `TaskKnown`
  and `OneRunner` rest on each other: an entry may be removed because its task is
  with nobody else, and it is with nobody else because it was pushed once and
  popped once. `Inserted` puts a handler that is about to enqueue in the map;
  `Shut` says that nothing was removed before `cleanup` began. Theorems
  `ServiceTypeCorrect`, `TasksAreKnown`, `RunByOne`, `CleanupSparesCalls`,
  `SocketsFollowTheLog`, and, as an action property from the same invariant with
  the idle workers' `Rested`, `TasksNeverForgotten`.
* `WakeupProofs`: a queued task of any language is `Attended` while the `Notify` holds
  a permit or one of its own workers will look again. `WInv` says that nobody waits
  twice in the queue's `Notify`, and that who waits in either is between `Park` or
  `Renew` and the next look, so that no worker waits in both: without it a wake-up
  could go to a worker that sleeps on. `notify_one` stores a permit exactly when nobody
  waits (`NotifyOneWakes`), and `notified()` takes the stored permit or waits
  (`EnlistWaits`): so an enqueue attends every queue or wakes a worker that is of
  the task's language or, as the property says, is not. There is one lemma for each
  action that touches the queue or a `Notify`: `WakeupsAreAccounted`, for any languages.
  That no wake-up is lost at all is false with two languages (`Starved`).

The assumptions of the conditional theorems are met by runs: `Single` and `Batch`
satisfy `Careful`, `Batch` satisfies `FaultFree` and `Roomy`, `CompileLost` has batches
of two.

Every safety property of the passing runs is thus proved, under these conditions
where it needs them. The two properties of `Executor` that runs violate and that
are about numbers, `WithinMaximum` and `BatchNeverPanics`, are proved for batches of
at most two requests. Only model-checked: `EveryCallEnds`, `TaskTaken` and
`BatchEnds`, since liveness under fairness is out of the prover's reach.

## 6. Not modelled

* `execute_parallel`, the Parallel branches of the queue, the python and
  javascript artifact handlers, `get_binary`, `set_binary`, `ExecutionQueue::remove`,
  `remove_container`: no code reaches them.
* `parse_memory_limit`: its value is only reported. That it may panic is part of
  the verdict on a request.
* The Docker images, the compose file, the environment, the load test: no logic.
* Processes inside a container, output sizes, HTTP framing, logging, metrics.
* The hazards of `PROJECT.json` that no property covers have a note that says why.

## 7. What could follow

1. A bound on `ContainersInUse` in one number, the sum of `FewHoldMany` over all `m`,
   which needs an induction on sums; with it `Roomy` could ask for fewer containers.
2. For `Service`: under which conditions a panic or an error leaves every worker
   alive, from the same kind of argument as `EnoughForAll`.
3. The chunk plan of `execute_batch` as a pure operator against a reference
   partition of the requests; `ChunkInRange` and `AnswersAligned` already say that
   no request is left out or answered twice.
