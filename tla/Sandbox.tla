------------------------------- MODULE Sandbox -------------------------------
(***************************************************************************)
(* What every execution of EvalX shares: the pool of pre-warmed containers *)
(* (container_pool.rs), the semaphore of CodeExecutor, the files of each   *)
(* container, and the two Redis caches.  A *call* is one activation of     *)
(* CodeExecutor::execute or ::execute_batch, driven by an HTTP handler (a  *)
(* client, which may hang up at any await) or by a queue worker.           *)
(*                                                                         *)
(* A request is reduced to its pool key ("language:version"), its program, *)
(* and its stdin.  A result records which program really ran, on which     *)
(* stdin, and how it ended: what the correctness of the caches depends on. *)
(***************************************************************************)
EXTENDS Integers, Sequences, FiniteSets

CONSTANTS
  Calls,        \* activations of execute and execute_batch
  Clients,      \* the calls driven by an HTTP handler, cancelled when dropped
  Keys,         \* "language:version" keys of the container pool
  Compiled,     \* the keys of compiled languages: c, cpp, java, java11
  Containers,   \* container ids
  InitialPool,  \* what init_container_pool left in the pool
  Codes,        \* programs, trimmed
  Broken,       \* the programs that do not compile
  Nameless,     \* java programs whose class is not called Main
  Stdins,       \* stdin values, NoStdin among them
  NoStdin,      \* request.stdin is None
  NoCode,       \* no program in a container yet
  Missing,      \* no entry in a cache, no result yet
  NoJob,        \* the job of an idle call
  Jobs,         \* the calls that may arrive
  Endings,      \* how programs of this model may end, a subset of AllEndings
  MaxPermits,   \* max_containers.min(5)
  DockerFails,  \* may a call to the Docker daemon fail or time out?
  CacheLossy,   \* may Redis fail, expire or evict an entry?
  LateWrites    \* may a shell that writes a file outlive start_exec?

\* How a program ends: exit code zero or not, stderr empty or not.  A timeout
\* (exit 124 with a message on stderr) is a "crash" to the code that follows.
AllEndings == {"ok", "quiet", "noisy", "crash"}
CleanStderr == {"ok", "quiet", "skipped"}
ExitZero == {"ok", "noisy", "skipped"}

Programs == Codes \cup {NoCode}

Outcomes == [prog : Programs, stdin : Stdins,
             end : AllEndings \cup {"compile_error", "skipped"}]

JobType == [kind : {"single", "batch"}, key : Keys, code : Codes,
            stdins : Seq(Stdins), valid : BOOLEAN]

Entries == [key : Keys, code : Codes, stdin : Stdins]
Artifacts == [key : Keys, code : Codes]

\* Where a call is suspended, or about to read shared state: outside the
\* semaphore, or inside it.
Outside == {"idle", "acquire", "replied"}
Inside == {"get", "artifact", "compile", "built", "write", "run", "check",
           "extend", "runchunk", "drain", "giveback"}

ASSUME SandboxAssumption ==
  /\ Clients \subseteq Calls /\ IsFiniteSet(Calls)
  /\ Compiled \subseteq Keys
  /\ Broken \subseteq Codes /\ Nameless \subseteq Codes
  /\ NoStdin \in Stdins /\ NoCode \notin Codes /\ Missing \notin Outcomes
  /\ Missing \notin Programs
  /\ Jobs \subseteq JobType /\ NoJob \notin JobType
  /\ \A j \in Jobs : Len(j.stdins) > 0 /\ (j.kind = "single" => Len(j.stdins) = 1)
  /\ Endings \subseteq AllEndings
  /\ MaxPermits \in Nat \ {0}
  /\ DockerFails \in BOOLEAN /\ CacheLossy \in BOOLEAN /\ LateWrites \in BOOLEAN

\* init_container_pool puts each container it created in one Vec, once.
ASSUME PoolAssumption ==
  /\ InitialPool \in [Keys -> Seq(Containers)]
  /\ \A k, l \in Keys : \A i \in DOMAIN InitialPool[k], j \in DOMAIN InitialPool[l] :
       InitialPool[k][i] = InitialPool[l][j] => k = l /\ i = j

-----------------------------------------------------------------------------
VARIABLES
  pool,      \* executor.container_pool: a Vec of idle containers per key
  permits,   \* executor.semaphore: permits nobody holds
  src, bin,  \* the source file and the executable in each container's /app
  inflight,  \* programs a shell in the container is still writing to src
  rcache,    \* Redis: results, under language, version, code and stdin
  acache,    \* Redis: compiled artifacts, under language, version and code
  pc,        \* where each call is
  job,       \* the arguments of each call
  held,      \* the containers a call owns, in the order it got them
  out,       \* its results, one per request
  reply,     \* what it returns: Ok, Err or a panic
  loc        \* its other local variables

poolVars == <<pool, permits>>
fileVars == <<src, bin, inflight>>
cacheVars == <<rcache, acache>>
callVars == <<pc, job, held, out, reply, loc>>
vars == <<poolVars, fileVars, cacheVars, callVars>>

\* build: what the compiler handed back.  maxPar: max_parallel.  left: the
\* iterations of the container loop to go.  from, size: the current chunk.
\* todo, running: its requests before their cache lookup, and after a miss.
Locals == [build : {"ok", "stderr", "nocmd"}, maxPar : Nat, left : Nat,
           from : Nat \ {0, 1}, size : Nat, todo : SUBSET Nat, running : SUBSET Nat,
           failed : BOOLEAN]

NoLocals == [build |-> "ok", maxPar |-> 0, left |-> 0, from |-> 2, size |-> 0,
             todo |-> {}, running |-> {}, failed |-> FALSE]

Init ==
  /\ pool = InitialPool
  /\ permits = MaxPermits
  /\ src = [c \in Containers |-> NoCode]
  /\ bin = [c \in Containers |-> NoCode]
  /\ inflight = [c \in Containers |-> {}]
  /\ rcache = [e \in Entries |-> Missing]
  /\ acache = [a \in Artifacts |-> Missing]
  /\ pc = [x \in Calls |-> "idle"]
  /\ job = [x \in Calls |-> NoJob]
  /\ held = [x \in Calls |-> <<>>]
  /\ out = [x \in Calls |-> <<>>]
  /\ reply = [x \in Calls |-> "none"]
  /\ loc = [x \in Calls |-> NoLocals]

HoldsPermit(x) == pc[x] \in Inside

-----------------------------------------------------------------------------
\* Steps of a call.

Goto(x, l) == pc' = [pc EXCEPT ![x] = l]

Key(x) == job[x].key
Code(x) == job[x].code
Stdin(x, i) == job[x].stdins[i]
NumRequests(x) == Len(job[x].stdins)

\* Mutant of Abort: the permit stays taken.
AbortHoldingPermit(x, r) ==
  /\ Goto(x, "replied")
  /\ reply' = [reply EXCEPT ![x] = r]
  /\ held' = [held EXCEPT ![x] = <<>>]
  /\ out' = [out EXCEPT ![x] = <<>>]
  /\ loc' = [loc EXCEPT ![x] = NoLocals]
  /\ UNCHANGED <<permits, job>>

\* The function returns Err (or unwinds from a panic) while it still owns its
\* containers: the permit is released by its destructor, the containers are
\* plain strings and nobody returns them to the pool.
Abort(x, r) ==
  /\ Goto(x, "replied")
  /\ reply' = [reply EXCEPT ![x] = r]
  /\ held' = [held EXCEPT ![x] = <<>>]
  /\ out' = [out EXCEPT ![x] = <<>>]
  /\ loc' = [loc EXCEPT ![x] = NoLocals]
  /\ permits' = permits + 1
  /\ UNCHANGED job

Fail(x) == Abort(x, "err")

\* Mutant of Leave: an early return that gives nothing back.
LeaveAtOnce(x, r) ==
  /\ Goto(x, "replied")
  /\ reply' = [reply EXCEPT ![x] = r]

\* The outcome is settled; what is left is to return the containers.
Leave(x, r) ==
  /\ Goto(x, "giveback")
  /\ reply' = [reply EXCEPT ![x] = r]

\* The permit, before anything of the request is looked at.
Enter(x) ==
  /\ pc[x] = "acquire"
  /\ permits > 0
  /\ permits' = permits - 1
  /\ Goto(x, "get")
  /\ UNCHANGED <<pool, fileVars, cacheVars, job, held, out, reply, loc>>

-----------------------------------------------------------------------------
\* container_pool.rs.  A key the pool does not know behaves as an empty Vec.

Available(k) == Len(pool[k])

\* Mutant of Pop: the container is looked at and not removed.
PopNothing(k, c) ==
  /\ pool[k] # <<>>
  /\ c = pool[k][Len(pool[k])]
  /\ UNCHANGED pool

\* get_container: pop the Vec.  c is the container the caller owns from now on.
Pop(k, c) ==
  /\ pool[k] # <<>>
  /\ c = pool[k][Len(pool[k])]
  /\ pool' = [pool EXCEPT ![k] = SubSeq(@, 1, Len(@) - 1)]

\* The checks that need no container, then the first container of the call, or
\* "No available container".  A request that cannot be served is an error, a
\* timeout that no Duration can hold a panic, and both unwind with the permit.
TakeFirst(x) ==
  /\ pc[x] = "get"
  /\ \/ \E c \in Containers :
          /\ job[x].valid
          /\ Pop(Key(x), c)
          /\ held' = [held EXCEPT ![x] = <<c>>]
          /\ Goto(x, IF Key(x) \in Compiled THEN "artifact" ELSE "built")
          /\ UNCHANGED <<permits, job, out, reply, loc>>
     \/ /\ job[x].valid
        /\ Available(Key(x)) = 0
        /\ Fail(x)
        /\ UNCHANGED pool
     \/ /\ ~job[x].valid
        /\ \E r \in {"err", "panic"} : Abort(x, r)
        /\ UNCHANGED pool
  /\ UNCHANGED <<fileVars, cacheVars>>

\* Mutants of Push: into the Vec of any language; only the first of all.
PushAnywhere(x) ==
  /\ held[x] # <<>>
  /\ \E k \in Keys : pool' = [pool EXCEPT ![k] = Append(@, Head(held[x]))]
  /\ held' = [held EXCEPT ![x] = Tail(@)]
PushOnlyOne(x) ==
  /\ held[x] # <<>>
  /\ pool' = [pool EXCEPT ![Key(x)] = Append(@, Head(held[x]))]
  /\ held' = [held EXCEPT ![x] = <<>>]

\* return_container: push the first container the call still owns.
Push(x) ==
  /\ held[x] # <<>>
  /\ pool' = [pool EXCEPT ![Key(x)] = Append(@, Head(held[x]))]
  /\ held' = [held EXCEPT ![x] = Tail(@)]

\* The return of the remaining containers, one lock at a time; after the last
\* one the function returns and drops its permit.
GiveBack(x) ==
  /\ pc[x] = "giveback"
  /\ Push(x)
  /\ IF Len(held[x]) = 1
       THEN /\ Goto(x, "replied")
            /\ permits' = permits + 1
            /\ loc' = [loc EXCEPT ![x] = NoLocals]
       ELSE UNCHANGED <<pc, permits, loc>>
  /\ UNCHANGED <<fileVars, cacheVars, job, out, reply>>

-----------------------------------------------------------------------------
\* The files of a container.

\* start_exec of a shell that writes p into the source file.  It comes back
\* when the shell is attached, not when the shell is done.
WriteSource(c, p) ==
  \/ /\ src' = [src EXCEPT ![c] = p]
     /\ UNCHANGED inflight
  \/ /\ LateWrites
     /\ inflight' = [inflight EXCEPT ![c] = @ \cup {p}]
     /\ UNCHANGED src

\* A shell that was still writing gets there, whoever owns the container now.
WriteLands(c) ==
  \E p \in inflight[c] :
    /\ src' = [src EXCEPT ![c] = p]
    /\ inflight' = [inflight EXCEPT ![c] = @ \ {p}]
    /\ UNCHANGED <<poolVars, bin, cacheVars, callVars>>

\* An interpreted program is written to /app.  create_exec fails through "?";
\* a start_exec that fails or times out returns the container, whatever the
\* shell may still be doing in it.
WriteFile(x) ==
  /\ pc[x] = "write"
  /\ \/ /\ WriteSource(held[x][1], Code(x))
        /\ Goto(x, "run")
        /\ UNCHANGED <<permits, held, out, reply, loc, job>>
     \/ /\ DockerFails
        /\ WriteSource(held[x][1], Code(x)) \/ UNCHANGED <<src, inflight>>
        /\ Leave(x, "err")
        /\ UNCHANGED <<permits, held, out, loc, job>>
     \/ /\ DockerFails
        /\ Fail(x)
        /\ UNCHANGED <<src, inflight>>
  /\ UNCHANGED <<pool, bin, cacheVars>>

\* What the run command of x executes in container c.
Program(x, c) == IF Key(x) \in Compiled THEN bin[c] ELSE src[c]

\* After a compilation that failed the run command is empty.  Docker refuses
\* to execute it as it is; behind "echo -n ... |" it is a shell syntax error.
EmptyCommand(x, i) == loc[x].build # "ok" /\ Stdin(x, i) = NoStdin

\* The results request i of x can have in container c.
RunResults(x, i, c) ==
  LET p == IF loc[x].build = "ok" THEN Program(x, c) ELSE NoCode
  IN  [prog : {p}, stdin : {Stdin(x, i)},
       end : IF p = NoCode THEN {"crash"} ELSE Endings]

-----------------------------------------------------------------------------
\* redis_client.rs.  A lookup that fails is treated as a miss.

\* Mutants of the cache keys: one that leaves out a part of the request.
AnyCode == CHOOSE p \in Codes : TRUE
EntryWithoutCode(x, i) == [key |-> Key(x), code |-> AnyCode, stdin |-> Stdin(x, i)]
EntryWithoutStdin(x, i) == [key |-> Key(x), code |-> Code(x), stdin |-> NoStdin]
ArtifactWithoutCode(x) == [key |-> Key(x), code |-> AnyCode]

Entry(x, i) == [key |-> Key(x), code |-> Code(x), stdin |-> Stdin(x, i)]
Artifact(x) == [key |-> Key(x), code |-> Code(x)]

ResultHit(x, i) == rcache[Entry(x, i)] # Missing
ResultMiss(x, i) == CacheLossy \/ ~ResultHit(x, i)
ArtifactHit(x) == acache[Artifact(x)] # Missing
ArtifactMiss(x) == CacheLossy \/ ~ArtifactHit(x)

\* Only a result with an empty stderr is stored.
StoreResult(x, i, o) ==
  \/ /\ o.end \in CleanStderr
     /\ rcache' = [rcache EXCEPT ![Entry(x, i)] = o]
  \/ /\ o.end \notin CleanStderr \/ CacheLossy
     /\ UNCHANGED rcache

\* Request i is answered from the cache.
Serve(x, i) ==
  /\ ResultHit(x, i)
  /\ out' = [out EXCEPT ![x] = [@ EXCEPT ![i] = rcache[Entry(x, i)]]]

\* Request i runs in container c, and a result without stderr is stored.
RunRequest(x, i, c) ==
  /\ ~EmptyCommand(x, i)
  /\ \E o \in RunResults(x, i, c) :
       /\ out' = [out EXCEPT ![x] = [@ EXCEPT ![i] = o]]
       /\ StoreResult(x, i, o)

\* A TTL of 3600 s or 120 s runs out, or allkeys-lru evicts an entry.
Evict ==
  /\ CacheLossy
  /\ \/ \E e \in Entries : /\ rcache[e] # Missing
                          /\ rcache' = [rcache EXCEPT ![e] = Missing]
                          /\ UNCHANGED acache
     \/ \E a \in Artifacts : /\ acache[a] # Missing
                            /\ acache' = [acache EXCEPT ![a] = Missing]
                            /\ UNCHANGED rcache
  /\ UNCHANGED <<poolVars, fileVars, callVars>>
=============================================================================
