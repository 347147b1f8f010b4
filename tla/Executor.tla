------------------------------ MODULE Executor -------------------------------
(***************************************************************************)
(* CodeExecutor: any number of execute and execute_batch calls at once, on *)
(* one pool, one semaphore and one Redis.                                  *)
(***************************************************************************)
EXTENDS ExecuteSingle, ExecuteBatch

CONSTANTS FreeOwner, LostOwner  \* owners of a container that no call holds

ASSUME OwnerAssumption ==
  FreeOwner \notin Calls /\ LostOwner \notin Calls /\ FreeOwner # LostOwner

\* A handler or a worker calls execute or execute_batch.
Begin(x) ==
  /\ pc[x] = "idle"
  /\ \E j \in Jobs :
       /\ job' = [job EXCEPT ![x] = j]
       /\ out' = [out EXCEPT ![x] = [i \in DOMAIN j.stdins |-> Missing]]
  /\ Goto(x, "acquire")
  /\ UNCHANGED <<poolVars, fileVars, cacheVars, held, reply, loc>>

\* The caller takes the reply.
Collect(x) ==
  /\ pc[x] = "replied"
  /\ Goto(x, "idle")
  /\ job' = [job EXCEPT ![x] = NoJob]
  /\ out' = [out EXCEPT ![x] = <<>>]
  /\ reply' = [reply EXCEPT ![x] = "none"]
  /\ UNCHANGED <<poolVars, fileVars, cacheVars, held, loc>>

\* The client hangs up, or the timeout layer of /execute/batch fires: axum
\* drops the future at an await.  Only the permit has a destructor.
Cancel(x) ==
  /\ x \in Clients
  /\ pc[x] \in Inside \cup {"acquire"}
  /\ permits' = IF HoldsPermit(x) THEN permits + 1 ELSE permits
  /\ Goto(x, "idle")
  /\ held' = [held EXCEPT ![x] = <<>>]
  /\ job' = [job EXCEPT ![x] = NoJob]
  /\ out' = [out EXCEPT ![x] = <<>>]
  /\ reply' = [reply EXCEPT ![x] = "none"]
  /\ loc' = [loc EXCEPT ![x] = NoLocals]
  /\ UNCHANGED <<pool, fileVars, cacheVars>>

Acquire(x) == AcquireSingle(x) \/ AcquireBatch(x)

Step(x) == SingleStep(x) \/ BatchStep(x) \/ CompilerStep(x) \/ GiveBack(x)

Next ==
  \/ \E x \in Calls : Begin(x) \/ Collect(x) \/ Cancel(x) \/ Acquire(x) \/ Step(x)
  \/ \E c \in Containers : WriteLands(c)
  \/ Evict

Spec == Init /\ [][Next]_vars

\* Every future that can go on is polled again (tokio), Docker and Redis answer,
\* compilers end; the semaphore queues its waiters first come, first served.
Fairness == \A x \in Calls : WF_vars(Step(x)) /\ SF_vars(Acquire(x))

FairSpec == Spec /\ Fairness

-----------------------------------------------------------------------------
\* Every variable has its type (the fields of CodeExecutor and the locals of
\* execute and execute_batch): in particular the permits never go below zero.
TypeOK ==
  /\ pool \in [Keys -> Seq(Containers)]
  /\ permits \in Nat
  /\ src \in [Containers -> Programs]
  /\ bin \in [Containers -> Programs]
  /\ inflight \in [Containers -> SUBSET Codes]
  /\ rcache \in [Entries -> Outcomes \cup {Missing}]
  /\ acache \in [Artifacts -> Programs \cup {Missing}]
  /\ pc \in [Calls -> Outside \cup Inside]
  /\ job \in [Calls -> Jobs \cup {NoJob}]
  /\ held \in [Calls -> Seq(Containers)]
  /\ out \in [Calls -> Seq(Outcomes \cup {Missing})]
  /\ reply \in [Calls -> {"none", "ok", "err", "panic"}]
  /\ loc \in [Calls -> Locals]

\* A call has its arguments from its first step to its last, and, until it
\* ends, room for exactly one result per request (results, chunk_results).
Engaged ==
  \A x \in Calls :
    IF pc[x] = "idle" THEN job[x] = NoJob
    ELSE /\ job[x] # NoJob
         /\ pc[x] # "replied" => Len(out[x]) = NumRequests(x)

\* Wherever a call writes to, runs in or returns a container, it holds one,
\* and it holds none before get_container and after its last return_container.
\* A batch that took no container again after a chunk still has requests to
\* run, so it panics at containers[i % containers.len()] and never goes on.
HoldsWhatItUses ==
  \A x \in Calls :
    /\ pc[x] \in Inside \ {"get", "extend"} => held[x] # <<>>
    /\ pc[x] \in Outside \cup {"get"} => held[x] = <<>>
    /\ pc[x] = "extend" /\ held[x] = <<>> => loc[x].from <= NumRequests(x)
    /\ pc[x] = "drain" => loc[x].from + loc[x].size <= NumRequests(x)

\* The requests in flight are requests of the batch after its first one, and
\* all of them are done before a chunk ends (join_all), so that no request of
\* a call runs in a container the call has returned.
ChunkInRange ==
  \A x \in Calls :
    IF pc[x] = "runchunk"
      THEN loc[x].todo \cup loc[x].running \subseteq 2 .. NumRequests(x)
      ELSE loc[x].todo = {} /\ loc[x].running = {}

\* A container is in one place: once in one Vec of the pool, or once in the
\* hands of one call (get_container pops it, return_container pushes it).
PoolOnce ==
  \A k, l \in Keys : \A i \in DOMAIN pool[k], j \in DOMAIN pool[l] :
    pool[k][i] = pool[l][j] => k = l /\ i = j
HeldOnce ==
  \A x, y \in Calls : \A i \in DOMAIN held[x], j \in DOMAIN held[y] :
    held[x][i] = held[y][j] => x = y /\ i = j
HeldNotPooled ==
  \A k \in Keys, x \in Calls : \A i \in DOMAIN pool[k], j \in DOMAIN held[x] :
    pool[k][i] # held[x][j]
OnePlace == PoolOnce /\ HeldOnce /\ HeldNotPooled

\* A container never changes its language: it is pooled under the key it was
\* created for and held only by calls for that key, through get_container and
\* return_container, whatever a call does in between.
Home(k) == {InitialPool[k][i] : i \in DOMAIN InitialPool[k]}
AtHome ==
  /\ \A k \in Keys : \A i \in DOMAIN pool[k] : pool[k][i] \in Home(k)
  /\ \A x \in Calls : \A i \in DOMAIN held[x] :
       job[x] # NoJob /\ held[x][i] \in Home(Key(x))

\* No permit of the semaphore is lost or made up, whichever way calls end:
\* return, error, panic, or a client that hangs up.
PermitsConserved ==
  permits + Cardinality({x \in Calls : HoldsPermit(x)}) = MaxPermits

InPool(c) == \E k \in Keys : \E i \in DOMAIN pool[k] : pool[k][i] = c
HeldBy(x, c) == \E i \in DOMAIN held[x] : held[x][i] = c

\* Without a fault of Docker and a client that hangs up, every container is in
\* the pool or with a call: the early returns of a failed compilation, a cache
\* hit and a failed first result give theirs back.
NoneLost ==
  \A k \in Keys : \A c \in Home(k) : InPool(c) \/ \E x \in Calls : HeldBy(x, c)

\* The results of a successful call answer its requests, each for its own
\* stdin, whatever order the requests of a chunk end in.
Aligned ==
  \A x \in Calls : pc[x] = "replied" /\ reply[x] = "ok" =>
    /\ Len(out[x]) = NumRequests(x)
    /\ \A i \in DOMAIN out[x] : out[x][i] # Missing /\ out[x][i].stdin = Stdin(x, i)

\* A successful call answers with runs of its own program (or of none, where
\* there was nothing to run), and not of one that an earlier call left in the
\* container or in the cache.  (A java program whose class is not called Main
\* has no such promise: compile_java fetches Main.class all the same.)
RanOwnCode ==
  \A x \in Calls :
    pc[x] = "replied" /\ reply[x] = "ok" /\ Code(x) \notin Nameless =>
      \A i \in DOMAIN out[x] : out[x][i].prog \in {Code(x), NoCode}

\* What Redis holds under a program and a stdin came from that program and
\* that stdin, and what it holds as its artifact was compiled from it, java
\* programs without a class Main aside.
CacheSound ==
  /\ \A e \in Entries : rcache[e] # Missing /\ e.code \notin Nameless =>
       rcache[e].prog = e.code /\ rcache[e].stdin = e.stdin
  /\ \A a \in Artifacts : acache[a] # Missing /\ a.code \notin Nameless =>
       acache[a] = a.code

\* A batch that passed the checks of its arguments runs to an answer or an
\* error: the code has no panic left for it.
BatchNeverPanics ==
  \A x \in Calls : job[x] # NoJob /\ job[x].valid => reply[x] # "panic"

\* A call that has the compiler's message answers with it: it does not end in
\* an error of what it does after that.
CompileErrorReported ==
  [][\A x \in Calls :
       loc[x].build = "stderr" /\ pc'[x] = "replied" => reply'[x] # "err"]_vars

\* The containers in use at once stay within the configured maximum (which is
\* MaxPermits as long as it is at most 5).
ContainersInUse == {c \in Containers : \E x \in Calls : HeldBy(x, c)}
WithinMaximum == Cardinality(ContainersInUse) <= MaxPermits

\* How far beyond it they can go: max_parallel is what the semaphore has left
\* besides the batch itself and the other calls inside, so at most
\* MaxPermits - m calls have m containers or more, and none has MaxPermits.
FewHoldMany ==
  \A m \in 2 .. MaxPermits :
    Cardinality({x \in Calls : Len(held[x]) >= m}) <= MaxPermits - m

\* Where nothing fails, there are permits to spare and containers enough for
\* all calls to hold as many as they can, every call that passed the checks of
\* its arguments is answered, however permits and containers change hands in
\* between: no "No available container", no panic after a chunk.
AlwaysAnswered ==
  \A x \in Calls : pc[x] = "replied" /\ job[x].valid => reply[x] = "ok"

\* Every call that asks for a permit gets its reply (or its client hangs up).
EveryCallEnds == \A x \in Calls : pc[x] = "acquire" ~> pc[x] \in {"replied", "idle"}

\* Who owns a container: nobody, a call, or nobody any more.
Owner == [c \in Containers |->
            IF InPool(c) THEN FreeOwner
            ELSE IF \E x \in Calls : HeldBy(x, c)
                   THEN CHOOSE x \in Calls : HeldBy(x, c)
                   ELSE LostOwner]

\* The executor implements the leases of ContainerLease: a container goes from
\* the pool to one call and from that call back or to nobody, and one that is
\* lost (an early "?", a dropped future) never comes back.
Lease == INSTANCE ContainerLease
           WITH Idle <- FreeOwner, Lost <- LostOwner, owner <- Owner
LeaseSpec == Lease!Spec

\* And it implements Execution, which stands for it in module Service: in the
\* step that takes or frees a permit, containers move as Execution says, a call
\* holds containers only with a permit, and it gives the permit back with the
\* last container it still has.
Holders == {x \in Calls : HoldsPermit(x)}
Exec == INSTANCE Execution
          WITH Idle <- FreeOwner, Lost <- LostOwner, owner <- Owner, holders <- Holders
ExecutionSpec == Exec!Spec
=============================================================================
