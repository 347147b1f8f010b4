--------------------------- MODULE SufficiencyProofs ---------------------------
(***************************************************************************)
(* Where no container is lost, no call ends without its answers, and no    *)
(* batch panics.  The first takes that nothing fails, the second permits   *)
(* and containers to spare as well, the third short batches only.          *)
(***************************************************************************)
EXTENDS IsolationProofs

\* Without faults: where an early "?" remains, there is no container to lose.

\* Docker answers, shells end in time, nobody hangs up, a program that does not
\* compile has a stdin, and java classes are called Main.
FaultFree ==
  /\ ~DockerFails /\ ~LateWrites /\ Clients = {} /\ Nameless = {}
  /\ \A j \in Jobs : j.code \in Broken => \A i \in DOMAIN j.stdins : j.stdins[i] # NoStdin

\* Only a program that does not compile has no run command, and a call with
\* none does not get as far as the other requests of a batch.
Healthy(x) ==
  /\ ~loc[x].failed
  /\ pc[x] = "compile" => src[First(x)] = Code(x)
  /\ loc[x].build # "ok" =>
       /\ loc[x].build = "stderr" /\ Code(x) \in Broken
       /\ \/ pc[x] \in {"built", "check", "giveback"}
          \/ pc[x] \in {"write", "run"} /\ Batch(x)

HInv == (\A c \in Containers : inflight[c] = {}) /\ \A x \in Calls : Healthy(x)

\* No request of a healthy call has an empty command.
LEMMA NoEmptyCommand ==
  ASSUME FaultFree, IInv, NEW x \in Calls, Healthy(x), pc[x] \in Inside,
         NEW i \in 1 .. NumRequests(x)
  PROVE  ~EmptyCommand(x, i)
<1>1. job[x] # NoJob /\ job[x] \in Jobs /\ i \in DOMAIN job[x].stdins
  BY Busy, Arguments DEF IInv, TypeOK, Inside
<1> QED
  BY <1>1 DEF FaultFree, Healthy, EmptyCommand, Stdin, Code

\* A call whose own state and containers do not change stays healthy.
LEMMA UntouchedHealth ==
  ASSUME IInv, NEW y \in Calls, Healthy(y), Same(y), held'[y] = held[y],
         \A i \in DOMAIN held[y] : src'[held[y][i]] = src[held[y][i]]
  PROVE  Healthy(y)'
<1>1. pc[y] = "compile" => src'[First(y)] = src[First(y)]
  BY Indices DEF IInv, HoldsWhatItUses, Inside, First
<1>2. /\ Code(y)' = Code(y) /\ First(y)' = First(y)
      /\ Batch(y)' <=> Batch(y)
  BY DEF Same, Code, First, Batch
<1> QED
  BY <1>1, <1>2 DEF Healthy, Same

\* Locals as they are at the start of a call.
LEMMA FreshHealth ==
  ASSUME NEW x \in Calls, pc'[x] # "compile", loc'[x].build = "ok", ~loc'[x].failed
  PROVE  Healthy(x)'
BY DEF Healthy

\* The steps up to the executable.
LEMMA EarlyHealth ==
  ASSUME FaultFree, IInv, NEW x \in Calls, Healthy(x),
         \/ Begin(x) \/ Collect(x) \/ Acquire(x) \/ TakeFirst(x) \/ GiveBack(x)
         \/ WriteFile(x)
  PROVE  Healthy(x)'
<1>1. ~NoLocals.failed /\ NoLocals.build = "ok"
  BY DEF NoLocals
<1>2. ASSUME Begin(x) \/ Collect(x) \/ Acquire(x) PROVE Healthy(x)'
  <2>1. loc'[x] = loc[x] /\ pc[x] \in {"idle", "acquire", "replied"} /\ pc'[x] # "compile"
    BY <1>2 DEF Begin, Collect, Acquire, AcquireSingle, AcquireBatch, Enter, Goto, IInv,
                TypeOK
  <2> QED
    BY <2>1, FreshHealth DEF Healthy
<1>3. ASSUME TakeFirst(x) PROVE Healthy(x)'
  <2>1. /\ loc'[x] = loc[x] \/ loc'[x] = NoLocals
        /\ pc[x] = "get" /\ pc'[x] # "compile"
    BY <1>3 DEF TakeFirst, Fail, Abort, Goto, IInv, TypeOK
  <2> QED
    BY <1>1, <2>1, FreshHealth DEF Healthy
<1>4. ASSUME GiveBack(x) PROVE Healthy(x)'
  <2>1. /\ loc'[x] = NoLocals \/ (loc'[x] = loc[x] /\ pc'[x] = "giveback")
        /\ pc'[x] # "compile" /\ job' = job
    BY <1>4 DEF GiveBack, Goto, IInv, TypeOK
  <2> QED
    BY <1>1, <2>1 DEF Healthy, Code, Batch
<1>5. ASSUME WriteFile(x) PROVE Healthy(x)'
  <2>1. pc[x] = "write" /\ pc'[x] = "run" /\ loc' = loc /\ job' = job
    BY <1>5 DEF WriteFile, FaultFree, Goto, IInv, TypeOK
  <2> QED
    BY <2>1 DEF Healthy, Code, Batch
<1> QED
  BY <1>2, <1>3, <1>4, <1>5

\* The compiler succeeds, or the program is one that does not compile.
LEMMA CompilerHealth ==
  ASSUME FaultFree, IInv, NEW x \in Calls, Healthy(x), CompilerStep(x)
  PROVE  Healthy(x)' /\ UNCHANGED <<pool, held, job>>
<1> DEFINE c == First(x)
<1>1. /\ pc[x] \in {"artifact", "compile"} /\ held[x] # <<>> /\ c \in Containers
      /\ job[x] # NoJob /\ Code(x) \in Codes
  BY Busy, FirstContainer, Arguments
     DEF CompilerStep, UseArtifact, WriteProgram, Compile, IInv, TypeOK, HoldsWhatItUses,
         Inside, First
<1>2. loc[x] \in Locals /\ loc[x].build = "ok" /\ ~loc[x].failed
  BY <1>1, CallTypes DEF Healthy
<1>3. ASSUME NEW q \in {"ok", "stderr"}, Built(x, q), q = "stderr" => Code(x) \in Broken
      PROVE  Healthy(x)' /\ UNCHANGED <<held, job>>
  <2>1. /\ pc'[x] = "built" /\ loc'[x].build = q /\ ~loc'[x].failed
        /\ Code(x)' = Code(x) /\ UNCHANGED <<held, job>>
    BY <1>2, <1>3 DEF Built, Goto, Code, IInv, TypeOK, Locals
  <2> QED
    BY <1>3, <2>1 DEF Healthy
<1>4. ASSUME UseArtifact(x) PROVE Healthy(x)' /\ UNCHANGED <<pool, held, job>>
  <2>1. Built(x, "ok") /\ pool' = pool
    BY <1>4 DEF UseArtifact, FaultFree
  <2> QED
    BY <1>3, <2>1
<1>5. ASSUME WriteProgram(x) PROVE Healthy(x)' /\ UNCHANGED <<pool, held, job>>
  <2>1. /\ Goto(x, "compile") /\ WriteSource(c, Code(x))
        /\ UNCHANGED <<pool, held, job, loc>>
    BY <1>5 DEF WriteProgram, FaultFree, First
  <2>2. src' = [src EXCEPT ![c] = Code(x)]
    BY <2>1, WritesOnce DEF FaultFree
  <2>3. /\ pc'[x] = "compile" /\ src'[c] = Code(x) /\ loc'[x] = loc[x]
        /\ Code(x)' = Code(x) /\ First(x)' = First(x)
    BY <1>1, <2>1, <2>2 DEF Goto, Code, First, IInv, TypeOK
  <2> QED
    BY <1>2, <2>1, <2>3 DEF Healthy
<1>6. ASSUME Compile(x) PROVE Healthy(x)' /\ UNCHANGED <<pool, held, job>>
  <2>1. src[c] = Code(x) /\ pool' = pool
    BY <1>6 DEF Compile, Healthy
  <2>2. Code(x) # NoCode /\ Output(src[c], bin[c]) = Code(x)
    BY <1>1, <2>1, SandboxAssumption DEF SandboxAssumption, Output, FaultFree
  <2>3. Built(x, "ok") \/ (Code(x) \in Broken /\ Built(x, "stderr"))
    BY <1>1, <1>6, <2>1, <2>2 DEF Compile, First, FaultFree
  <2> QED
    BY <1>3, <2>1, <2>3
<1> QED
  BY <1>4, <1>5, <1>6 DEF CompilerStep

\* The first request.
LEMMA FirstHealth ==
  ASSUME FaultFree, IInv, NEW x \in Calls, Healthy(x),
         LookupSingle(x) \/ RunSingle(x) \/ LookupFirst(x) \/ RunFirst(x) \/ CheckFirst(x)
  PROVE  Healthy(x)' /\ UNCHANGED <<pool, held, job>>
<1>1. pc[x] \in Inside /\ job[x] # NoJob /\ loc[x] \in Locals
  BY Busy, CallTypes
     DEF LookupSingle, RunSingle, LookupFirst, RunFirst, CheckFirst, Inside
<1>2. ~EmptyCommand(x, 1)
  BY <1>1, NoEmptyCommand, Arguments DEF IInv, TypeOK
<1>3. ASSUME UNCHANGED <<loc, held, job>>, pc'[x] \in {"check", "giveback", "run", "write"},
             pc'[x] \in {"run", "write"} => Batch(x) \/ loc[x].build = "ok"
      PROVE  Healthy(x)'
  BY <1>3 DEF Healthy, Code, Batch
<1>4. ASSUME LookupSingle(x) PROVE Healthy(x)' /\ UNCHANGED <<pool, held, job>>
  <2>1. /\ UNCHANGED <<pool, held, job, loc>>
        /\ \/ pc'[x] = "giveback"
           \/ pc'[x] \in {"run", "write"} /\ loc[x].build # "stderr"
    BY <1>4 DEF LookupSingle, Leave, Goto, poolVars, IInv, TypeOK
  <2> QED
    BY <1>3, <2>1 DEF Healthy
<1>5. ASSUME RunSingle(x) PROVE Healthy(x)' /\ UNCHANGED <<pool, held, job>>
  <2>1. UNCHANGED <<pool, held, job, loc>> /\ pc'[x] = "giveback"
    BY <1>2, <1>5 DEF RunSingle, FaultFree, Leave, Goto, IInv, TypeOK
  <2> QED
    BY <1>3, <2>1
<1>6. ASSUME LookupFirst(x) PROVE Healthy(x)' /\ UNCHANGED <<pool, held, job>>
  <2>1. /\ UNCHANGED <<pool, held, job, loc>> /\ pc'[x] \in {"check", "run", "write"}
        /\ Batch(x)
    BY <1>6 DEF LookupFirst, Goto, poolVars, IInv, TypeOK
  <2> QED
    BY <1>3, <2>1
<1>7. ASSUME RunFirst(x) PROVE Healthy(x)' /\ UNCHANGED <<pool, held, job>>
  <2>1. UNCHANGED <<pool, held, job, loc>> /\ pc'[x] = "check"
    BY <1>2, <1>7 DEF RunFirst, FaultFree, Leave, Goto, IInv, TypeOK
  <2> QED
    BY <1>3, <2>1
<1>8. ASSUME CheckFirst(x) PROVE Healthy(x)' /\ UNCHANGED <<pool, held, job>>
  <2>1. pc[x] = "check" /\ UNCHANGED <<pool, held, job>>
    BY <1>8 DEF CheckFirst, poolVars
  <2>2. CASE Leave(x, "ok") /\ UNCHANGED loc
    <3>1. pc'[x] = "giveback"
      BY <2>2 DEF Leave, Goto, IInv, TypeOK
    <3> QED
      BY <1>3, <2>1, <2>2, <3>1
  <2>3. ASSUME NEW m, NEW l, loc' = [loc EXCEPT ![x].maxPar = m, ![x].left = l],
               loc[x].build # "stderr", Goto(x, "extend")
        PROVE  Healthy(x)'
    <3>1. /\ pc'[x] = "extend" /\ loc'[x].build = loc[x].build
          /\ loc'[x].failed = loc[x].failed
      BY <1>1, <2>3 DEF Goto, IInv, TypeOK, Locals
    <3> QED
      BY <2>3, <3>1, FreshHealth DEF Healthy
  <2> QED
    BY <1>8, <2>1, <2>2, <2>3 DEF CheckFirst
<1> QED
  BY <1>4, <1>5, <1>6, <1>7, <1>8

\* The other requests: nothing fails, so a batch loses containers only where it
\* has none, before the panic.
LEMMA ChunkHealth ==
  ASSUME FaultFree, IInv, NEW x \in Calls, Healthy(x),
         \/ Extend(x) \/ StartChunk(x) \/ LookupNext(x) \/ RunNext(x) \/ EndChunk(x)
         \/ Drain(x)
  PROVE  Healthy(x)'
<1>1. /\ pc[x] \in {"extend", "runchunk", "drain"} /\ loc[x] \in Locals
      /\ loc[x].build = "ok" /\ ~loc[x].failed /\ pc[x] \in Inside
  BY CallTypes
     DEF Extend, StartChunk, LookupNext, RunNext, EndChunk, Drain, Healthy, Inside
<1>2. ASSUME pc'[x] # "compile", loc'[x].build = loc[x].build, loc'[x].failed = loc[x].failed
      PROVE  Healthy(x)'
  BY <1>1, <1>2, FreshHealth
<1>3. ASSUME Extend(x) PROVE Healthy(x)'
  <2>1. pc' = pc /\ loc' = [loc EXCEPT ![x].left = @ - 1]
    BY <1>3 DEF Extend, FaultFree
  <2>2. loc'[x].build = loc[x].build /\ loc'[x].failed = loc[x].failed
    BY <1>1, <2>1 DEF IInv, TypeOK, Locals
  <2> QED
    BY <1>1, <1>2, <2>1, <2>2
<1>4. ASSUME StartChunk(x) PROVE Healthy(x)'
  <2>1. CASE Leave(x, "ok") /\ loc' = loc
    BY <1>1, <1>2, <2>1 DEF Leave, Goto, IInv, TypeOK
  <2>2. ASSUME NEW m, NEW t, loc' = [loc EXCEPT ![x].size = m, ![x].todo = t],
               Goto(x, "runchunk")
        PROVE  Healthy(x)'
    <3>1. /\ pc'[x] = "runchunk" /\ loc'[x].build = loc[x].build
          /\ loc'[x].failed = loc[x].failed
      BY <1>1, <2>2 DEF Goto, IInv, TypeOK, Locals
    <3> QED
      BY <1>2, <3>1
  <2>3. CASE Abort(x, "panic")
    <3>1. pc'[x] = "replied" /\ loc'[x] = NoLocals
      BY <2>3 DEF Abort, Goto, IInv, TypeOK
    <3> QED
      BY <3>1, FreshHealth DEF NoLocals
  <2> QED
    BY <1>4, <2>1, <2>2, <2>3 DEF StartChunk
<1>5. ASSUME LookupNext(x) PROVE Healthy(x)'
  <2>1. /\ pc' = pc
        /\ \E i : \/ loc' = [loc EXCEPT ![x].todo = @ \ {i}]
                  \/ loc' = [loc EXCEPT ![x].todo = @ \ {i}, ![x].running = @ \cup {i}]
    BY <1>5 DEF LookupNext
  <2>2. loc'[x].build = loc[x].build /\ loc'[x].failed = loc[x].failed
    BY <1>1, <2>1 DEF IInv, TypeOK, Locals
  <2> QED
    BY <1>1, <1>2, <2>1, <2>2
<1>6. ASSUME RunNext(x) PROVE Healthy(x)'
  <2>1. \A i \in loc[x].running : ~EmptyCommand(x, i)
    BY <1>1, <1>6, NoEmptyCommand DEF RunNext, IInv, ChunkInRange
  <2>2. pc' = pc /\ \E i : loc' = [loc EXCEPT ![x].running = @ \ {i}]
    BY <1>6, <2>1 DEF RunNext, FaultFree
  <2>3. loc'[x].build = loc[x].build /\ loc'[x].failed = loc[x].failed
    BY <1>1, <2>2 DEF IInv, TypeOK, Locals
  <2> QED
    BY <1>1, <1>2, <2>2, <2>3
<1>7. ASSUME EndChunk(x) PROVE Healthy(x)'
  <2>1. loc' = loc /\ (Leave(x, "ok") \/ Goto(x, "drain"))
    BY <1>1, <1>7 DEF EndChunk
  <2> QED
    BY <1>1, <1>2, <2>1 DEF Leave, Goto, IInv, TypeOK
<1>8. ASSUME Drain(x) PROVE Healthy(x)'
  <2>1. /\ pc' = pc \/ Goto(x, "extend")
        /\ \/ loc' = loc
           \/ \E m, l : loc' = [loc EXCEPT ![x].left = l, ![x].from = m]
    BY <1>8 DEF Drain
  <2>2. ASSUME NEW m, NEW l, loc' = [loc EXCEPT ![x].left = l, ![x].from = m]
        PROVE  loc'[x].build = loc[x].build /\ loc'[x].failed = loc[x].failed
    BY <1>1, <2>2 DEF IInv, TypeOK, Locals
  <2>3. pc'[x] # "compile"
    BY <1>1, <2>1 DEF Goto, IInv, TypeOK
  <2> QED
    BY <1>2, <2>1, <2>2, <2>3
<1> QED
  BY <1>3, <1>4, <1>5, <1>6, <1>7, <1>8

\* Every call is healthy at the start.
LEMMA InitHInv == Init => HInv
BY DEF Init, HInv, Healthy, NoLocals

\* HInv is inductive relative to IInv and the exclusiveness of containers.
LEMMA NextHInv ==
  ASSUME FaultFree
  PROVE  IInv /\ OnePlace /\ HInv /\ [Next]_vars => HInv'
<1> SUFFICES ASSUME IInv, OnePlace, HInv, [Next]_vars PROVE HInv'
  OBVIOUS
<1>1. \A x \in Calls : Healthy(x)
  BY DEF HInv
<1>2. CASE UNCHANGED vars \/ Evict
  <2>1. UNCHANGED <<fileVars, callVars>>
    BY <1>2 DEF vars, Evict
  <2>2. \A x \in Calls : Healthy(x)'
    BY <1>1, <2>1, UntouchedHealth DEF fileVars, callVars, Same
  <2> QED
    BY <2>1, <2>2 DEF HInv, fileVars
<1>3. \A c \in Containers : ~WriteLands(c)
  BY DEF WriteLands, HInv
<1>4. \A x \in Calls : ~Cancel(x)
  BY DEF Cancel, FaultFree
<1>5. ASSUME NEW x \in Calls,
             Begin(x) \/ Collect(x) \/ Cancel(x) \/ Acquire(x) \/ Step(x)
      PROVE  HInv'
  <2>1. ASSUME SingleStep(x) \/ BatchStep(x) PROVE Healthy(x)'
    BY <1>1, <2>1, EarlyHealth, FirstHealth, ChunkHealth
       DEF SingleStep, GetSingle, WriteSingle, BatchStep, GetInitial, WriteFirst
  <2>2. Healthy(x)'
    BY <1>1, <1>4, <1>5, <2>1, EarlyHealth, CompilerHealth DEF Step
  <2>3. Writes(x)
    BY <1>5, StepWrites DEF FaultFree
  <2>4. \A y \in Calls \ {x} : Healthy(y)'
    BY <1>1, <1>5, <2>3, OthersSame, OthersHold, OthersSpared, UntouchedHealth
  <2> QED
    BY <2>2, <2>3, <2>4 DEF HInv, Writes
<1> QED
  BY <1>2, <1>3, <1>5 DEF Next

\* ContainerSteps without its losses.
LEMMA LosslessSteps ==
  ASSUME FaultFree, IInv, HInv, [Next]_vars
  PROVE  \/ Keeps
         \/ \E x \in Calls : \/ Drops(x) /\ held[x] = <<>>
                             \/ Returns(x)
                             \/ \E c \in Containers : Takes(x, c) /\ held'[x] # <<>>
<1> DEFINE Goal == \/ Keeps
                   \/ \E x \in Calls :
                        \/ Drops(x) /\ held[x] = <<>>
                        \/ Returns(x)
                        \/ \E c \in Containers : Takes(x, c) /\ held'[x] # <<>>
<1> SUFFICES Goal
  OBVIOUS
<1>1. ASSUME UNCHANGED <<pool, held, job>> PROVE Goal
  BY <1>1 DEF Keeps
<1>2. ASSUME NEW x \in Calls, NEW r, Abort(x, r), pool' = pool, held[x] = <<>> PROVE Goal
  BY <1>2 DEF Abort, Drops
<1>3. ASSUME NEW x \in Calls, TakeFirst(x) PROVE Goal
  <2>1. pc[x] = "get" /\ job[x] # NoJob /\ held[x] = <<>>
    BY <1>3, Busy DEF TakeFirst, IInv, HoldsWhatItUses
  <2>2. ASSUME NEW c \in Containers, Pop(Key(x), c), held' = [held EXCEPT ![x] = <<c>>],
               job' = job
        PROVE  Goal
    <3>1. held'[x] # <<>>
      BY <2>2 DEF IInv, TypeOK
    <3>2. Takes(x, c)
      BY <2>1, <2>2 DEF Takes
    <3> QED
      BY <3>1, <3>2
  <2> QED
    BY <1>2, <1>3, <2>1, <2>2 DEF TakeFirst, Fail
<1>4. ASSUME NEW x \in Calls, Extend(x) PROVE Goal
  <2>1. job[x] # NoJob /\ held[x] \in Seq(Containers)
    BY <1>4, Busy, CallTypes DEF Extend
  <2>2. ASSUME NEW c \in Containers, Pop(Key(x), c), job' = job,
               held' = [held EXCEPT ![x] = Append(@, c)]
        PROVE  Goal
    <3>1. held'[x] = Append(held[x], c)
      BY <2>2 DEF IInv, TypeOK
    <3>2. held'[x] # <<>>
      BY <2>1, <3>1, AppendProperties
    <3> QED
      BY <2>1, <2>2, <3>2 DEF Takes
  <2> QED
    BY <1>1, <1>4, <2>2 DEF Extend, FaultFree
<1>5. ASSUME NEW x \in Calls, GiveBack(x) \/ Drain(x) PROVE Goal
  BY <1>5, Busy DEF GiveBack, Drain, Returns
<1>6. ASSUME NEW x \in Calls, Begin(x) \/ Collect(x) PROVE Goal
  <2>1. held[x] = <<>> /\ UNCHANGED <<pool, held>>
    BY <1>6 DEF Begin, Collect, poolVars, IInv, HoldsWhatItUses, Outside
  <2>2. \A y \in Calls \ {x} : job'[y] = job[y]
    BY <1>6 DEF Begin, Collect, IInv, TypeOK
  <2> QED
    BY <2>1, <2>2 DEF Keeps
<1>7. ASSUME NEW x \in Calls, Acquire(x) \/ WriteFile(x) PROVE Goal
  BY <1>1, <1>7 DEF Acquire, AcquireSingle, AcquireBatch, Enter, WriteFile, FaultFree
<1>8. ASSUME NEW x \in Calls, StartChunk(x) PROVE Goal
  BY <1>1, <1>2, <1>8 DEF StartChunk
<1>9. ASSUME NEW x \in Calls, LookupNext(x) \/ RunNext(x) PROVE Goal
  BY <1>1, <1>9 DEF LookupNext, RunNext, poolVars
<1>10. ASSUME NEW x \in Calls, EndChunk(x) PROVE Goal
  BY <1>1, <1>10 DEF EndChunk, HInv, Healthy
<1>11. \A x \in Calls : ~Cancel(x)
  BY DEF Cancel, FaultFree
<1>12. ASSUME UNCHANGED vars \/ Evict \/ \E c \in Containers : WriteLands(c) PROVE Goal
  BY <1>1, <1>12 DEF vars, Evict, WriteLands, poolVars, callVars
<1> HIDE DEF Goal
<1>13. ASSUME NEW x \in Calls, SingleStep(x) \/ BatchStep(x) PROVE Goal
  BY <1>1, <1>3, <1>4, <1>5, <1>7, <1>8, <1>9, <1>10, <1>13, FirstHealth
     DEF SingleStep, GetSingle, WriteSingle, BatchStep, GetInitial, WriteFirst, HInv
<1>14. ASSUME NEW x \in Calls, CompilerStep(x) PROVE Goal
  BY <1>1, <1>14, CompilerHealth DEF HInv
<1> QED
  BY <1>5, <1>6, <1>7, <1>11, <1>12, <1>13, <1>14 DEF Next, Step

\* A container that is lost has LostOwner, and no other has.
LEMMA LostOwners == OnePlace => (NoneLost <=> \A k \in Keys : \A c \in Home(k) :
                                   c \in Containers => Owner[c] # LostOwner)
<1> SUFFICES ASSUME OnePlace
             PROVE  NoneLost <=> \A k \in Keys : \A c \in Home(k) :
                                   c \in Containers => Owner[c] # LostOwner
  OBVIOUS
<1>1. ASSUME NEW k \in Keys, NEW c \in Home(k) PROVE c \in Containers
  <2>1. InitialPool[k] \in Seq(Containers)
    BY PoolAssumption DEF PoolAssumption
  <2> QED
    BY <2>1, ElementOfSeq, LenProperties DEF Home
<1>2. \A c \in Containers :
        Owner[c] # LostOwner <=> InPool(c) \/ \E x \in Calls : HeldBy(x, c)
  BY Owners, OwnerAssumption DEF OwnerAssumption
<1> QED
  BY <1>1, <1>2 DEF NoneLost

\* execute and execute_batch return every container they took on every path
\* that is left without faults: a result, a hit in Redis, a failed compilation,
\* a failed first request, a refusal, and the panic of a batch that has none.
THEOREM NothingLost ==
  ASSUME FaultFree
  PROVE  Spec => []NoneLost
<1> DEFINE Kept == \A k \in Keys : \A c \in Home(k) : c \in Containers => Owner[c] # LostOwner
<1>1. Init /\ OnePlace => Kept
  <2>1. Init => NoneLost
    BY DEF Init, NoneLost, Home, InPool
  <2> QED
    BY <2>1, LostOwners
<1>2. IInv /\ OnePlace /\ OnePlace' /\ HInv /\ Kept /\ [Next]_vars => Kept'
  <2> SUFFICES ASSUME IInv, OnePlace, OnePlace', HInv, [Next]_vars, NEW d \in Containers,
                      Owner[d] # LostOwner
               PROVE  Owner'[d] # LostOwner
    BY DEF Home
  <2>1. CASE Keeps
    BY <2>1, KeepsLease
  <2>2. ASSUME NEW x \in Calls, Drops(x), held[x] = <<>> PROVE Owner'[d] # LostOwner
    <3>1. Owner[d] # x
      BY <2>2, Owners DEF HeldBy
    <3>2. Lease!Abandon(x, {})
      BY <2>2, DropsLease
    <3> QED
      BY <3>1, <3>2 DEF Lease!Abandon
  <2>3. ASSUME NEW x \in Calls, Returns(x) PROVE Owner'[d] # LostOwner
    <3>1. PICK c \in Containers : Lease!Return(x, c)
      BY <2>3, ReturnsLease
    <3> QED
      BY <3>1, OwnerFunction, OwnerAssumption DEF Lease!Return, OwnerAssumption
  <2>4. ASSUME NEW x \in Calls, NEW c \in Containers, Takes(x, c), held'[x] # <<>>
        PROVE  Owner'[d] # LostOwner
    <3>1. Lease!Take(x, c)
      BY <2>4, TakesLease
    <3> QED
      BY <3>1, OwnerFunction, OwnerAssumption DEF Lease!Take, OwnerAssumption
  <2> QED
    BY <2>1, <2>2, <2>3, <2>4, LosslessSteps
<1>3. Spec => []HInv
  BY InitHInv, NextHInv, InvariantIInv, ContainersExclusive, PTL DEF Spec
<1>4. OnePlace /\ Kept => NoneLost
  BY LostOwners
<1> HIDE DEF Kept
<1> QED
  BY <1>1, <1>2, <1>3, <1>4, InvariantIInv, ContainersExclusive, PTL DEF Spec

-----------------------------------------------------------------------------
\* With permits and containers to spare, every call is answered.

\* There is one permit more than calls that ask for one, and more containers of
\* each language than all calls but one can hold.
Roomy ==
  /\ Cardinality(Calls) < MaxPermits
  /\ \A j \in Jobs :
       Cardinality(Home(j.key)) > (Cardinality(Calls) - 1) * (MaxPermits - 1)

\* A batch that has no container, before a chunk, will take one: the container
\* loop has an iteration to go, since a permit was left to be read.
Fed(x) ==
  /\ loc[x].from >= 2
  /\ pc[x] \in Inside \ {"get"} => job[x].valid
  /\ pc[x] \in {"giveback", "replied"} /\ job[x].valid => reply[x] = "ok"
  /\ pc[x] \in {"extend", "runchunk", "drain"} /\ Multi(x) => loc[x].maxPar >= 1
  /\ pc[x] = "extend" /\ held[x] = <<>> => loc[x].left >= 1

NInv == \A x \in Calls : Fed(x)

\* All that the steps below need to know of the state.
Supplied ==
  /\ IInv /\ OnePlace /\ AtHome /\ PermitsConserved /\ FewHoldMany
  /\ NoneLost /\ HInv /\ NInv

\* The semaphore is never empty.
LEMMA PermitLeft ==
  ASSUME Roomy, IInv, PermitsConserved
  PROVE  permits \in Nat /\ permits >= 1
<1> DEFINE Inner == {x \in Calls : HoldsPermit(x)}
<1>1. IsFiniteSet(Calls) /\ MaxPermits \in Nat /\ permits \in Nat
  BY SandboxAssumption DEF SandboxAssumption, IInv, TypeOK
<1>2. Inner \in SUBSET Calls
  OBVIOUS
<1>3. Cardinality(Inner) <= Cardinality(Calls) /\ Cardinality(Inner) \in Nat
      /\ Cardinality(Calls) \in Nat
  BY <1>1, <1>2, FS_Subset, FS_CardinalityType
<1>4. permits + Cardinality(Inner) = MaxPermits
  BY DEF PermitsConserved
<1> HIDE DEF Inner
<1> QED
  BY <1>1, <1>3, <1>4 DEF Roomy

\* No call holds as many containers as there are permits.
LEMMA FewPerCall ==
  ASSUME Roomy, IInv, FewHoldMany, NEW y \in Calls
  PROVE  MaxPermits \in Nat /\ Len(held[y]) \in Nat /\ Len(held[y]) <= MaxPermits - 1
<1> DEFINE Full == {x \in Calls : Len(held[x]) >= MaxPermits}
<1>1. IsFiniteSet(Calls) /\ MaxPermits \in Nat /\ Len(held[y]) \in Nat
  BY SandboxAssumption, Numbers DEF SandboxAssumption
<1>2. Cardinality(Calls) \in Nat /\ Cardinality(Calls) # 0
  BY <1>1, FS_CardinalityType, FS_EmptySet
<1>3. MaxPermits \in 2 .. MaxPermits
  BY <1>1, <1>2 DEF Roomy
<1>4. Cardinality(Full) <= MaxPermits - MaxPermits
  BY <1>3 DEF FewHoldMany
<1>5. IsFiniteSet(Full) /\ Cardinality(Full) \in Nat
  <2>1. Full \in SUBSET Calls
    OBVIOUS
  <2> QED
    BY <1>1, <2>1, FS_Subset, FS_CardinalityType
<1>6. Cardinality(Full) = 0
  <2> HIDE DEF Full
  <2> QED
    BY <1>1, <1>4, <1>5
<1>7. Full = {}
  <2> HIDE DEF Full
  <2> QED
    BY <1>5, <1>6, FS_EmptySet
<1>8. ~(Len(held[y]) >= MaxPermits)
  BY <1>7
<1> QED
  BY <1>1, <1>8

\* So the pool has a container for a call that has none: the others of its
\* language are with the other calls at most.
LEMMA PoolHasMore ==
  ASSUME Roomy, Supplied, NEW x \in Calls, job[x] # NoJob, held[x] = <<>>
  PROVE  Available(Key(x)) # 0
<1> DEFINE k == Key(x)
           Others == Calls \ {x}
           Numbered == 1 .. (MaxPermits - 1)
           Slots == Others \X Numbered
           At(c, q) == q[2] \in DOMAIN held[q[1]] /\ held[q[1]][q[2]] = c
<1>1. IInv /\ AtHome /\ NoneLost /\ FewHoldMany
  BY DEF Supplied
<1>2. job[x] \in Jobs /\ k = job[x].key /\ k \in Keys /\ pool[k] \in Seq(Containers)
  BY <1>1, Arguments DEF IInv, TypeOK, Key
<1> SUFFICES ASSUME pool[k] = <<>> PROVE FALSE
  BY <1>2, EmptySeq DEF Available
<1>3. ASSUME NEW c \in Home(k) PROVE \E q \in Slots : At(c, q)
  <2>1. CASE InPool(c)
    <3>1. PICK l \in Keys : \E i \in DOMAIN pool[l] : pool[l][i] = c
      BY <2>1 DEF InPool
    <3>2. c \in Home(l)
      BY <1>1, <3>1 DEF AtHome
    <3>3. l = k
      BY <1>2, <1>3, <3>2, PoolAssumption DEF Home, PoolAssumption
    <3>4. DOMAIN pool[k] = {}
      OBVIOUS
    <3> QED
      BY <3>1, <3>3, <3>4
  <2>2. ASSUME NEW y \in Calls, HeldBy(y, c) PROVE \E q \in Slots : At(c, q)
    <3>1. PICK i \in DOMAIN held[y] : held[y][i] = c
      BY <2>2 DEF HeldBy
    <3>2. y # x
      <4>1. DOMAIN held[x] = {}
        OBVIOUS
      <4> QED
        BY <3>1, <4>1
    <3>3. i \in 1 .. Len(held[y]) /\ Len(held[y]) \in Nat
      BY <1>1, <3>1, CallTypes, LenProperties
    <3>4. i \in Numbered
      BY <1>1, <3>3, FewPerCall
    <3>5. <<y, i>> \in Slots /\ At(c, <<y, i>>)
      BY <3>1, <3>2, <3>4
    <3> QED
      BY <3>5
  <2> QED
    BY <1>1, <1>2, <2>1, <2>2 DEF NoneLost
<1> DEFINE Slot == [c \in Home(k) |-> CHOOSE q \in Slots : At(c, q)]
<1>4. Slot \in Injection(Home(k), Slots)
  <2>1. \A c \in Home(k) : Slot[c] \in Slots /\ At(c, Slot[c])
    BY <1>3
  <2>2. \A c, d \in Home(k) : Slot[c] = Slot[d] => c = d
    BY <2>1
  <2>3. Slot \in [Home(k) -> Slots]
    BY <2>1
  <2> QED
    BY <2>2, <2>3 DEF Injection, IsInjective
<1>5. IsFiniteSet(Calls) /\ Cardinality(Calls) \in Nat \ {0} /\ MaxPermits \in Nat \ {0}
  BY SandboxAssumption, FS_CardinalityType, FS_EmptySet DEF SandboxAssumption
<1>6. IsFiniteSet(Others) /\ Cardinality(Others) = Cardinality(Calls) - 1
  BY <1>5, FS_RemoveElement
<1>7. IsFiniteSet(Numbered) /\ Cardinality(Numbered) = MaxPermits - 1
  BY <1>5, FS_Interval
<1>8. IsFiniteSet(Slots) /\ Cardinality(Slots) = (Cardinality(Calls) - 1) * (MaxPermits - 1)
  BY <1>6, <1>7, FS_Product
<1>9. /\ Cardinality(Home(k)) <= Cardinality(Slots)
      /\ Cardinality(Home(k)) \in Nat /\ Cardinality(Slots) \in Nat
  BY <1>4, <1>8, FS_Injection, FS_CardinalityType
<1>10. Cardinality(Home(k)) > (Cardinality(Calls) - 1) * (MaxPermits - 1)
  BY <1>2 DEF Roomy
<1> HIDE DEF Slots, k
<1> QED
  BY <1>8, <1>9, <1>10

\* A call that does not move.
LEMMA UntouchedFed ==
  ASSUME NEW y \in Calls, Fed(y), Same(y), held'[y] = held[y]
  PROVE  Fed(y)'
<1>1. Multi(y)' <=> Multi(y)
  BY DEF Same, Multi, NumRequests
<1> QED
  BY <1>1 DEF Fed, Same

\* A step that leads neither to the chunks nor to the end.
LEMMA OnwardFed ==
  ASSUME NEW x \in Calls, Fed(x), job'[x] = job[x], loc'[x].from = loc[x].from,
         pc[x] = "get" => job[x].valid,
         \/ pc[x] \in Inside
            /\ pc'[x] \notin {"giveback", "replied", "extend", "runchunk", "drain"}
         \/ pc'[x] = "giveback" /\ reply'[x] = "ok" /\ pc[x] \in Inside
  PROVE  Fed(x)'
BY DEF Fed

\* The way in and the last return.
LEMMA OutsideFed ==
  ASSUME FaultFree, Supplied, NEW x \in Calls,
         Begin(x) \/ Collect(x) \/ Cancel(x) \/ Acquire(x) \/ GiveBack(x)
  PROVE  Fed(x)'
<1>1. IInv /\ Fed(x) /\ loc[x] \in Locals
  BY CallTypes DEF Supplied, NInv
<1>2. ASSUME Begin(x) \/ Collect(x) PROVE Fed(x)'
  <2>1. pc'[x] \in {"acquire", "idle"} /\ loc'[x] = loc[x]
    BY <1>1, <1>2 DEF Begin, Collect, Goto, IInv, TypeOK
  <2> QED
    BY <1>1, <2>1 DEF Fed, Inside
<1>3. ~Cancel(x)
  BY DEF FaultFree, Cancel
<1>4. ASSUME Acquire(x) PROVE Fed(x)'
  <2>1. job' = job /\ loc' = loc /\ pc'[x] = "get"
    BY <1>1, <1>4 DEF Acquire, AcquireSingle, AcquireBatch, Enter, Goto, IInv, TypeOK
  <2> QED
    BY <1>1, <2>1 DEF Fed, Inside
<1>5. ASSUME GiveBack(x) PROVE Fed(x)'
  <2>1. /\ pc[x] = "giveback" /\ pc'[x] \in {"giveback", "replied"}
        /\ job' = job /\ reply' = reply
        /\ loc'[x] = loc[x] \/ loc'[x] = NoLocals
    BY <1>1, <1>5 DEF GiveBack, Goto, IInv, TypeOK
  <2> QED
    BY <1>1, <2>1 DEF Fed, Inside, NoLocals
<1> QED
  BY <1>2, <1>3, <1>4, <1>5

\* The steps up to the first answer: there is a container, and none of them
\* ends in an error.
LEMMA FirstFed ==
  ASSUME FaultFree, Roomy, Supplied, NEW x \in Calls,
         \/ TakeFirst(x) \/ CompilerStep(x) \/ WriteFile(x)
         \/ LookupSingle(x) \/ RunSingle(x) \/ LookupFirst(x) \/ RunFirst(x)
  PROVE  Fed(x)'
<1>1. IInv /\ Fed(x) /\ Healthy(x) /\ loc[x] \in Locals
  BY CallTypes DEF Supplied, NInv, HInv
<1>2. ASSUME TakeFirst(x) PROVE Fed(x)'
  <2>1. pc[x] = "get" /\ held[x] = <<>> /\ job[x] # NoJob
    BY <1>1, <1>2, Busy DEF TakeFirst, IInv, HoldsWhatItUses
  <2>2. Available(Key(x)) # 0
    BY <2>1, PoolHasMore
  <2>3. CASE job[x].valid
    <3>1. pc'[x] \in {"artifact", "built"} /\ job' = job /\ loc' = loc
      BY <1>1, <1>2, <2>2, <2>3 DEF TakeFirst, Goto, IInv, TypeOK
    <3> QED
      BY <1>1, <2>1, <2>3, <3>1, OnwardFed DEF Inside
  <2>4. CASE ~job[x].valid
    <3>1. PICK r \in {"err", "panic"} : Abort(x, r)
      BY <1>2, <2>4 DEF TakeFirst
    <3>2. pc'[x] = "replied" /\ job' = job /\ loc'[x] = NoLocals
      BY <1>1, <3>1 DEF Abort, Goto, IInv, TypeOK
    <3> QED
      BY <2>4, <3>2 DEF Fed, Inside, NoLocals
  <2> QED
    BY <2>3, <2>4
<1>3. ASSUME WriteFile(x) PROVE Fed(x)'
  <2>1. pc[x] = "write" /\ pc'[x] = "run" /\ job' = job /\ loc' = loc
    BY <1>1, <1>3 DEF WriteFile, FaultFree, Goto, IInv, TypeOK
  <2> QED
    BY <1>1, <2>1, OnwardFed DEF Inside
<1>4. ASSUME CompilerStep(x) PROVE Fed(x)'
  <2>1. /\ pc[x] \in {"artifact", "compile"} /\ held[x] # <<>>
        /\ held' = held /\ job' = job
    BY <1>1, <1>4, CompilerHealth
       DEF CompilerStep, UseArtifact, WriteProgram, Compile, IInv, HoldsWhatItUses, Inside
  <2>2. ~Fail(x)
    BY <1>1, <2>1 DEF Fail, Abort, IInv, TypeOK
  <2>3. \/ Goto(x, "compile") /\ loc' = loc
        \/ \E q \in {"ok", "stderr", "nocmd"} : Built(x, q)
    BY <1>4, <2>2 DEF CompilerStep, UseArtifact, WriteProgram, Compile
  <2>4. pc'[x] \in {"compile", "built"} /\ loc'[x].from = loc[x].from
    BY <1>1, <2>3 DEF Goto, Built, IInv, TypeOK, Locals
  <2> QED
    BY <1>1, <2>1, <2>4, OnwardFed DEF Inside
<1>5. ASSUME LookupSingle(x) \/ RunSingle(x) \/ LookupFirst(x) \/ RunFirst(x)
      PROVE  Fed(x)'
  <2>1. /\ pc[x] \in {"built", "run"} /\ held[x] # <<>> /\ held' = held /\ job' = job
    BY <1>1, <1>5, FirstHealth
       DEF LookupSingle, RunSingle, LookupFirst, RunFirst, IInv, HoldsWhatItUses, Inside
  <2>2. ~Fail(x)
    BY <1>1, <2>1 DEF Fail, Abort, IInv, TypeOK
  <2>3. /\ loc' = loc
        /\ \/ Leave(x, "ok") \/ Goto(x, "check")
           \/ Goto(x, IF Key(x) \in Compiled THEN "run" ELSE "write")
    BY <1>5, <2>2 DEF LookupSingle, RunSingle, LookupFirst, RunFirst, FaultFree
  <2>4. \/ pc'[x] = "giveback" /\ reply'[x] = "ok"
        \/ pc'[x] \in {"check", "run", "write"}
    BY <1>1, <2>3 DEF Leave, Goto, IInv, TypeOK
  <2> QED
    BY <1>1, <2>1, <2>3, <2>4, OnwardFed DEF Inside
<1> QED
  BY <1>2, <1>3, <1>4, <1>5

\* max_parallel is read while a permit is left.
LEMMA CheckFed ==
  ASSUME Roomy, Supplied, NEW x \in Calls, CheckFirst(x)
  PROVE  Fed(x)'
<1> DEFINE max == Lesser(permits, NumRequests(x) - 1)
<1>1. /\ IInv /\ Fed(x) /\ loc[x] \in Locals /\ pc[x] = "check" /\ held[x] # <<>>
      /\ UNCHANGED <<job, held>>
  BY CallTypes DEF Supplied, NInv, CheckFirst, IInv, HoldsWhatItUses, Inside
<1>2. CASE Leave(x, "ok") /\ loc' = loc
  <2>1. pc'[x] = "giveback" /\ reply'[x] = "ok"
    BY <1>1, <1>2 DEF Leave, Goto, IInv, TypeOK
  <2> QED
    BY <1>1, <1>2, <2>1, OnwardFed DEF Inside
<1>3. CASE /\ loc' = [loc EXCEPT ![x].maxPar = max, ![x].left = Iterations(max)]
           /\ Goto(x, "extend")
  <2>1. permits \in Nat /\ permits >= 1 /\ NumRequests(x) \in Nat \ {0}
    BY <1>1, PermitLeft, Busy, Arguments DEF Supplied, IInv, TypeOK
  <2>2. Multi(x) => max >= 1
    BY <2>1 DEF Multi, Lesser
  <2>3. /\ pc'[x] = "extend" /\ loc'[x].maxPar = max /\ loc'[x].from = loc[x].from
        /\ Multi(x)' <=> Multi(x)
    BY <1>1, <1>3 DEF Goto, IInv, TypeOK, Locals, Multi, NumRequests
  <2> HIDE DEF max
  <2> QED
    BY <1>1, <2>2, <2>3 DEF Fed, Inside
<1> QED
  BY <1>2, <1>3 DEF CheckFirst

\* The chunks: a batch that has no container finds one.
LEMMA ChunkFed ==
  ASSUME FaultFree, Roomy, Supplied, NEW x \in Calls,
         \/ Extend(x) \/ StartChunk(x) \/ LookupNext(x) \/ RunNext(x) \/ EndChunk(x)
  PROVE  Fed(x)'
<1>1. /\ IInv /\ Fed(x) /\ Healthy(x) /\ loc[x] \in Locals /\ held[x] \in Seq(Containers)
      /\ pc[x] \in {"extend", "runchunk"} /\ pc[x] \in Inside /\ job[x] # NoJob
  BY CallTypes, Busy
     DEF Supplied, NInv, HInv, Extend, StartChunk, LookupNext, RunNext, EndChunk, Inside
<1>2. loc[x].left \in Nat /\ ~loc[x].failed
  BY <1>1, LocalsTypes DEF Healthy
<1>3. ASSUME job' = job, loc'[x].from = loc[x].from, loc'[x].maxPar = loc[x].maxPar,
             \/ pc'[x] = "extend" /\ held'[x] # <<>>
             \/ pc'[x] \in {"runchunk", "drain"}
      PROVE  Fed(x)'
  <2>1. Multi(x)' <=> Multi(x)
    BY <1>3 DEF Multi, NumRequests
  <2> QED
    BY <1>1, <1>3, <2>1 DEF Fed
<1>4. ASSUME Leave(x, "ok"), job' = job, loc' = loc PROVE Fed(x)'
  <2>1. pc'[x] = "giveback" /\ reply'[x] = "ok"
    BY <1>1, <1>4 DEF Leave, Goto, IInv, TypeOK
  <2> QED
    BY <1>1, <1>4, <2>1, OnwardFed DEF Inside
<1>5. ASSUME Extend(x) PROVE Fed(x)'
  <2>1. /\ pc[x] = "extend" /\ pc' = pc /\ job' = job
        /\ loc' = [loc EXCEPT ![x].left = @ - 1]
    BY <1>5 DEF Extend, FaultFree
  <2>2. loc'[x].from = loc[x].from /\ loc'[x].maxPar = loc[x].maxPar
    BY <1>1, <2>1 DEF IInv, TypeOK, Locals
  <2>3. ASSUME NEW c \in Containers, held' = [held EXCEPT ![x] = Append(@, c)]
        PROVE  held'[x] # <<>>
    <3>1. held'[x] = Append(held[x], c)
      BY <1>1, <2>3 DEF IInv, TypeOK
    <3> QED
      BY <1>1, <3>1, AppendProperties
  <2>4. held[x] = <<>> => Available(Key(x)) # 0
    BY <1>1, PoolHasMore
  <2>5. held'[x] # <<>>
    BY <1>5, <2>3, <2>4 DEF Extend, FaultFree
  <2> QED
    BY <1>1, <1>3, <2>1, <2>2, <2>5
<1>6. ASSUME StartChunk(x) PROVE Fed(x)'
  <2>1. held[x] # <<>>
    BY <1>1, <1>2, <1>6 DEF StartChunk, Fed
  <2>2. ASSUME Goto(x, "runchunk"), job' = job, NEW m, NEW t,
               loc' = [loc EXCEPT ![x].size = m, ![x].todo = t]
        PROVE  Fed(x)'
    <3>1. /\ pc'[x] = "runchunk" /\ loc'[x].from = loc[x].from
          /\ loc'[x].maxPar = loc[x].maxPar
      BY <1>1, <2>2 DEF Goto, IInv, TypeOK, Locals
    <3>2. Multi(x)' <=> Multi(x)
      BY <2>2 DEF Multi, NumRequests
    <3> QED
      BY <1>3, <2>2, <3>1
  <2> QED
    BY <1>4, <1>6, <2>1, <2>2 DEF StartChunk
<1>7. ASSUME LookupNext(x) \/ RunNext(x) PROVE Fed(x)'
  <2>1. pc[x] = "runchunk" /\ pc' = pc /\ job' = job
    BY <1>7 DEF LookupNext, RunNext
  <2>2. \E i : \/ loc' = [loc EXCEPT ![x].todo = @ \ {i}]
               \/ loc' = [loc EXCEPT ![x].todo = @ \ {i}, ![x].running = @ \cup {i}]
               \/ loc' = [loc EXCEPT ![x].running = @ \ {i}]
               \/ loc' = [loc EXCEPT ![x].running = @ \ {i}, ![x].failed = TRUE]
    BY <1>7 DEF LookupNext, RunNext
  <2>3. loc'[x].from = loc[x].from /\ loc'[x].maxPar = loc[x].maxPar
    BY <1>1, <2>2 DEF IInv, TypeOK, Locals
  <2> QED
    BY <1>3, <2>1, <2>3
<1>8. ASSUME EndChunk(x) PROVE Fed(x)'
  <2>1. CASE Goto(x, "drain") /\ UNCHANGED <<job, loc>>
    <3>1. pc'[x] = "drain"
      BY <1>1, <2>1 DEF Goto, IInv, TypeOK
    <3> QED
      BY <1>3, <2>1, <3>1
  <2> QED
    BY <1>2, <1>4, <1>8, <2>1 DEF EndChunk
<1> QED
  BY <1>5, <1>6, <1>7, <1>8

\* After a chunk the loop that takes containers runs at least once.
LEMMA DrainFed ==
  ASSUME Supplied, NEW x \in Calls, Drain(x)
  PROVE  Fed(x)'
<1>1. /\ IInv /\ Fed(x) /\ loc[x] \in Locals /\ pc[x] = "drain" /\ job' = job
      /\ job[x] # NoJob
  BY CallTypes, Busy DEF Supplied, NInv, Drain
<1>2. /\ loc[x].from \in Nat /\ loc[x].size \in Nat /\ loc[x].maxPar \in Nat
      /\ NumRequests(x) \in Nat /\ loc[x].from + loc[x].size <= NumRequests(x)
  BY <1>1, LocalsTypes, Arguments DEF IInv, TypeOK, HoldsWhatItUses
<1>3. Multi(x) /\ (Multi(x)' <=> Multi(x))
  BY <1>1, <1>2 DEF Fed, Multi, NumRequests
<1>4. CASE /\ loc' = [loc EXCEPT ![x].left = loc[x].maxPar, ![x].from = @ + loc[x].size]
           /\ Goto(x, "extend")
  <2>1. /\ pc'[x] = "extend" /\ loc'[x].left = loc[x].maxPar
        /\ loc'[x].maxPar = loc[x].maxPar /\ loc'[x].from = loc[x].from + loc[x].size
    BY <1>1, <1>4 DEF Goto, IInv, TypeOK, Locals
  <2> QED
    BY <1>1, <1>2, <1>3, <2>1 DEF Fed, Inside
<1>5. CASE UNCHANGED <<pc, loc>>
  BY <1>1, <1>3, <1>5 DEF Fed
<1> QED
  BY <1>4, <1>5 DEF Drain

\* NInv is inductive relative to what is known of permits and containers.
LEMMA NextNInv ==
  ASSUME FaultFree, Roomy
  PROVE  Supplied /\ [Next]_vars => NInv'
<1> SUFFICES ASSUME Supplied, [Next]_vars PROVE NInv'
  OBVIOUS
<1>1. IInv /\ \A y \in Calls : Fed(y)
  BY DEF Supplied, NInv
<1>2. ASSUME UNCHANGED callVars PROVE NInv'
  BY <1>1, <1>2, UntouchedFed DEF callVars, Same, NInv
<1>3. ASSUME NEW x \in Calls,
             Begin(x) \/ Collect(x) \/ Cancel(x) \/ Acquire(x) \/ Step(x)
      PROVE  NInv'
  <2>1. ASSUME SingleStep(x) \/ BatchStep(x) PROVE Fed(x)'
    BY <2>1, FirstFed, CheckFed, ChunkFed, DrainFed
       DEF SingleStep, GetSingle, WriteSingle, BatchStep, GetInitial, WriteFirst
  <2>2. Fed(x)'
    BY <1>3, <2>1, OutsideFed, FirstFed DEF Step
  <2>3. \A y \in Calls \ {x} : Fed(y)'
    BY <1>1, <1>3, OthersSame, OthersHold, UntouchedFed
  <2> QED
    BY <2>2, <2>3 DEF NInv
<1> QED
  BY <1>2, <1>3 DEF Next, vars, Evict, WriteLands

\* While the calls are fewer than the permits and the containers more than they
\* can hold, the code never shows "No available container" nor the panic of a
\* batch between two chunks: execute and execute_batch answer every request
\* that passed their checks, whatever the calls do to each other's supply.
THEOREM EnoughForAll ==
  ASSUME FaultFree, Roomy
  PROVE  Spec => []AlwaysAnswered
<1>1. Init => NInv
  BY DEF Init, NInv, Fed, NoLocals, Inside
<1>2. NInv => AlwaysAnswered
  BY DEF NInv, Fed, AlwaysAnswered
<1>3. Spec => []HInv
  BY InitHInv, NextHInv, InvariantIInv, ContainersExclusive, PTL DEF Spec
<1>4. IInv /\ OnePlace /\ AtHome /\ PermitsConserved /\ FewHoldMany /\ NoneLost /\ HInv
      /\ NInv /\ [Next]_vars => NInv'
  BY NextNInv DEF Supplied
<1> QED
  BY <1>1, <1>2, <1>3, <1>4, InvariantIInv, ContainersExclusive, ContainersStayHome,
     PermitsNeverLost, FewCallsHoldMany, NothingLost, PTL DEF Spec

-----------------------------------------------------------------------------
\* Whatever fails, only a batch of three requests can lack a container.

Short == \A j \in Jobs : Len(j.stdins) <= 2

\* A batch of two has one chunk, and no drain between two.
OneChunk(x) ==
  /\ loc[x].from >= 2
  /\ pc[x] = "runchunk" => loc[x].size >= 1
  /\ pc[x] # "drain"
  /\ pc[x] = "extend" => held[x] # <<>> /\ loc[x].size = 0
  /\ pc[x] \notin {"extend", "runchunk", "giveback"} => loc[x].size = 0
  /\ reply[x] = "panic" => job[x] # NoJob /\ ~job[x].valid

BInv == \A x \in Calls : OneChunk(x)

\* An error that loses the containers.
LEMMA FailOneChunk ==
  ASSUME IInv, NEW x \in Calls, Fail(x)
  PROVE  OneChunk(x)'
<1>1. pc'[x] = "replied" /\ reply'[x] = "err" /\ loc'[x] = NoLocals
  BY DEF Fail, Abort, Goto, IInv, TypeOK
<1> QED
  BY <1>1 DEF OneChunk, NoLocals

\* A step outside the chunks.
LEMMA OutsideOneChunk ==
  ASSUME NEW x \in Calls, OneChunk(x), job'[x] = job[x],
         pc[x] \notin {"extend", "runchunk", "giveback"} \/ pc'[x] = "giveback",
         loc'[x].from = loc[x].from, loc'[x].size = loc[x].size,
         pc'[x] \notin {"extend", "runchunk", "drain"},
         reply'[x] = reply[x] \/ reply'[x] \in {"ok", "err"}
  PROVE  OneChunk(x)'
BY DEF OneChunk

\* Everything but the chunks.
LEMMA PlainOneChunk ==
  ASSUME IInv, NEW x \in Calls, OneChunk(x),
         \/ Begin(x) \/ Collect(x) \/ Cancel(x) \/ Acquire(x) \/ GiveBack(x)
         \/ TakeFirst(x) \/ WriteFile(x) \/ CompilerStep(x) \/ LookupSingle(x)
         \/ RunSingle(x) \/ LookupFirst(x) \/ RunFirst(x)
  PROVE  OneChunk(x)'
<1>1. loc[x] \in Locals
  BY CallTypes
<1>2. ASSUME Begin(x) PROVE OneChunk(x)'
  <2>1. pc[x] = "idle" /\ pc'[x] = "acquire" /\ loc' = loc /\ reply' = reply
    BY <1>2 DEF Begin, Goto, IInv, TypeOK
  <2>2. reply[x] # "panic"
    BY <2>1 DEF OneChunk, IInv, Engaged
  <2> QED
    BY <2>1, <2>2 DEF OneChunk
<1>3. ASSUME Collect(x) \/ Cancel(x) PROVE OneChunk(x)'
  <2>1. /\ pc'[x] = "idle" /\ reply'[x] = "none"
        /\ loc'[x] = NoLocals \/ (pc[x] = "replied" /\ loc'[x] = loc[x])
    BY <1>3 DEF Collect, Cancel, Goto, IInv, TypeOK
  <2> QED
    BY <2>1 DEF OneChunk, NoLocals
<1>4. ASSUME Acquire(x) PROVE OneChunk(x)'
  <2>1. /\ pc[x] = "acquire" /\ job' = job /\ loc' = loc
        /\ pc'[x] = "get" /\ reply' = reply
    BY <1>4 DEF Acquire, AcquireSingle, AcquireBatch, Enter, Goto, IInv, TypeOK
  <2> QED
    BY <2>1 DEF OneChunk
<1>5. ASSUME GiveBack(x) PROVE OneChunk(x)'
  <2>1. /\ pc[x] = "giveback" /\ job' = job /\ reply' = reply
        /\ \/ pc'[x] = "replied" /\ loc'[x] = NoLocals
           \/ pc'[x] = "giveback" /\ loc'[x] = loc[x]
    BY <1>5 DEF GiveBack, Goto, IInv, TypeOK
  <2> QED
    BY <2>1 DEF OneChunk, NoLocals
<1>r. ASSUME TakeFirst(x), ~job[x].valid PROVE OneChunk(x)'
  <2>1. pc[x] = "get" /\ job[x] # NoJob
    BY <1>r, Busy DEF TakeFirst, Inside
  <2>2. PICK r \in {"err", "panic"} : Abort(x, r)
    BY <1>r DEF TakeFirst
  <2>3. pc'[x] = "replied" /\ job' = job /\ loc'[x] = NoLocals
    BY <2>2 DEF Abort, Goto, IInv, TypeOK
  <2> QED
    BY <1>r, <2>1, <2>3 DEF OneChunk, NoLocals
<1>6. ASSUME ~Fail(x), (TakeFirst(x) /\ job[x].valid) \/ WriteFile(x) PROVE OneChunk(x)'
  <2>1. /\ pc[x] \in {"get", "write"} /\ job' = job /\ loc' = loc
        /\ pc'[x] \in {"artifact", "built", "run", "giveback"}
        /\ reply' = reply \/ reply'[x] = "err"
    BY <1>6 DEF TakeFirst, WriteFile, Leave, Goto, IInv, TypeOK
  <2> QED
    BY <2>1, OutsideOneChunk
<1>7. ASSUME ~Fail(x), CompilerStep(x) PROVE OneChunk(x)'
  <2>1. pc[x] \in {"artifact", "compile"} /\ job' = job /\ reply' = reply
    BY <1>7 DEF CompilerStep, UseArtifact, WriteProgram, Compile, Built
  <2>2. \/ Goto(x, "compile") /\ loc' = loc
        \/ \E q \in {"ok", "stderr", "nocmd"} : Built(x, q)
    BY <1>7 DEF CompilerStep, UseArtifact, WriteProgram, Compile
  <2>3. /\ pc'[x] \in {"compile", "built"}
        /\ loc'[x].from = loc[x].from /\ loc'[x].size = loc[x].size
    BY <1>1, <2>2 DEF Goto, Built, IInv, TypeOK, Locals
  <2> QED
    BY <2>1, <2>3, OutsideOneChunk
<1>8. ASSUME ~Fail(x), LookupSingle(x) \/ RunSingle(x) \/ LookupFirst(x) \/ RunFirst(x)
      PROVE  OneChunk(x)'
  <2>1. pc[x] \in {"built", "run"} /\ job' = job /\ loc' = loc
    BY <1>8 DEF LookupSingle, RunSingle, LookupFirst, RunFirst
  <2>2. \/ \E r \in {"ok", "err"} : Leave(x, r)
        \/ \E l \in {"check", "run", "write"} : Goto(x, l) /\ reply' = reply
    BY <1>8 DEF LookupSingle, RunSingle, LookupFirst, RunFirst
  <2>3. /\ pc'[x] \in {"giveback", "check", "run", "write"}
        /\ reply'[x] = reply[x] \/ reply'[x] \in {"ok", "err"}
    BY <2>2 DEF Leave, Goto, IInv, TypeOK
  <2> QED
    BY <2>1, <2>3, OutsideOneChunk
<1> QED
  BY <1>r, <1>2, <1>3, <1>4, <1>5, <1>6, <1>7, <1>8, FailOneChunk

\* The chunk of a batch of two: it begins with a container and is the last one.
LEMMA ShortOneChunk ==
  ASSUME Short, IInv, NEW x \in Calls, OneChunk(x),
         \/ CheckFirst(x) \/ Extend(x) \/ StartChunk(x) \/ LookupNext(x) \/ RunNext(x)
         \/ EndChunk(x) \/ Drain(x)
  PROVE  OneChunk(x)'
<1>1. /\ pc[x] \in {"check", "extend", "runchunk"} /\ job[x] # NoJob
      /\ loc[x] \in Locals /\ held[x] \in Seq(Containers) /\ held[x] # <<>>
  BY CallTypes, Busy
     DEF CheckFirst, Extend, StartChunk, LookupNext, RunNext, EndChunk, Drain, OneChunk,
         IInv, HoldsWhatItUses, Inside
<1>2. /\ NumRequests(x) \in Nat /\ NumRequests(x) <= 2
      /\ loc[x].from \in Nat /\ loc[x].size \in Nat
      /\ Len(held[x]) \in Nat \ {0}
  BY <1>1, LocalsTypes, Arguments, EmptySeq DEF IInv, TypeOK, Short, NumRequests
<1>3. reply[x] # "panic" \/ ~job[x].valid
  BY <1>1 DEF OneChunk
<1>4. ASSUME Leave(x, "ok"), job' = job, loc' = loc PROVE OneChunk(x)'
  <2>1. pc'[x] = "giveback" /\ reply'[x] = "ok"
    BY <1>4 DEF Leave, Goto, IInv, TypeOK
  <2> QED
    BY <1>4, <2>1, OutsideOneChunk
<1>5. ASSUME CheckFirst(x) PROVE OneChunk(x)'
  <2>1. ASSUME NEW m, NEW l, Goto(x, "extend"), reply' = reply,
               loc' = [loc EXCEPT ![x].maxPar = m, ![x].left = l]
        PROVE  OneChunk(x)'
    <3>1. /\ pc'[x] = "extend" /\ loc'[x].from = loc[x].from /\ loc'[x].size = loc[x].size
          /\ pc[x] = "check" /\ held' = held /\ job' = job
      BY <1>1, <1>5, <2>1 DEF CheckFirst, Goto, IInv, TypeOK, Locals
    <3> QED
      BY <1>1, <1>3, <2>1, <3>1 DEF OneChunk
  <2> QED
    BY <1>4, <1>5, <2>1 DEF CheckFirst
<1>6. ASSUME Extend(x) PROVE OneChunk(x)'
  <2>1. CASE /\ pc' = pc /\ job' = job /\ reply' = reply
             /\ loc' = [loc EXCEPT ![x].left = @ - 1]
             /\ \/ held' = held
                \/ \E c \in Containers : held' = [held EXCEPT ![x] = Append(@, c)]
    <3>1. loc'[x].from = loc[x].from /\ loc'[x].size = loc[x].size /\ pc[x] = "extend"
      BY <1>1, <1>6, <2>1 DEF Extend, IInv, TypeOK, Locals
    <3>2. held'[x] # <<>>
      <4>1. ASSUME NEW c \in Containers, held' = [held EXCEPT ![x] = Append(@, c)]
            PROVE  held'[x] # <<>>
        <5>1. held'[x] = Append(held[x], c)
          BY <4>1 DEF IInv, TypeOK
        <5> QED
          BY <1>1, <5>1, AppendProperties
      <4> QED
        BY <1>1, <2>1, <4>1
    <3> QED
      BY <2>1, <3>1, <3>2 DEF OneChunk
  <2> QED
    BY <1>6, <2>1, FailOneChunk DEF Extend
<1>7. ASSUME StartChunk(x) PROVE OneChunk(x)'
  <2>1. pc[x] = "extend" /\ loc[x].size = 0
    BY <1>7 DEF StartChunk, OneChunk
  <2>2. CASE /\ Goto(x, "runchunk") /\ UNCHANGED <<job, reply>>
             /\ \E t : loc' = [loc EXCEPT ![x].size = Len(held[x]), ![x].todo = t]
    <3>1. /\ pc'[x] = "runchunk" /\ loc'[x].from = loc[x].from
          /\ loc'[x].size = Len(held[x])
      BY <1>1, <2>2 DEF Goto, IInv, TypeOK, Locals
    <3> QED
      BY <1>2, <2>2, <3>1 DEF OneChunk
  <2> QED
    BY <1>1, <1>4, <1>7, <2>1, <2>2 DEF StartChunk
<1>8. ASSUME LookupNext(x) \/ RunNext(x) PROVE OneChunk(x)'
  <2>1. pc[x] = "runchunk" /\ UNCHANGED <<pc, job, reply>>
    BY <1>8 DEF LookupNext, RunNext
  <2>2. \E i : \/ loc' = [loc EXCEPT ![x].todo = @ \ {i}]
               \/ loc' = [loc EXCEPT ![x].todo = @ \ {i}, ![x].running = @ \cup {i}]
               \/ loc' = [loc EXCEPT ![x].running = @ \ {i}]
               \/ loc' = [loc EXCEPT ![x].running = @ \ {i}, ![x].failed = TRUE]
    BY <1>8 DEF LookupNext, RunNext
  <2>3. loc'[x].from = loc[x].from /\ loc'[x].size = loc[x].size
    BY <1>1, <2>2 DEF IInv, TypeOK, Locals
  <2> QED
    BY <2>1, <2>3 DEF OneChunk
<1>9. ASSUME EndChunk(x) PROVE OneChunk(x)'
  <2>1. LastChunk(x)
    BY <1>2, <1>9 DEF EndChunk, LastChunk, OneChunk
  <2> QED
    BY <1>4, <1>9, <2>1, FailOneChunk DEF EndChunk
<1>10. ~Drain(x)
  BY DEF Drain, OneChunk
<1> QED
  BY <1>5, <1>6, <1>7, <1>8, <1>9, <1>10

\* The panic at containers[i % containers.len()] takes a batch of three or more
\* requests: with fewer, neither a batch nor a single request panics once its
\* arguments are checked, for any number of permits and containers, and
\* whatever Docker, Redis and the clients do.
THEOREM ShortBatchesNeverPanic ==
  ASSUME Short
  PROVE  Spec => []BatchNeverPanics
<1>1. Init => BInv
  BY DEF Init, BInv, OneChunk, NoLocals
<1>2. IInv /\ BInv /\ [Next]_vars => BInv'
  <2> SUFFICES ASSUME IInv, BInv, [Next]_vars PROVE BInv'
    OBVIOUS
  <2>1. ASSUME NEW y \in Calls, Same(y), held'[y] = held[y] PROVE OneChunk(y)'
    BY <2>1 DEF BInv, OneChunk, Same
  <2>2. ASSUME UNCHANGED callVars PROVE BInv'
    BY <2>1, <2>2 DEF callVars, Same, BInv
  <2>3. ASSUME NEW x \in Calls,
               Begin(x) \/ Collect(x) \/ Cancel(x) \/ Acquire(x) \/ Step(x)
        PROVE  BInv'
    <3>1. OneChunk(x)
      BY DEF BInv
    <3>2. ASSUME SingleStep(x) \/ BatchStep(x) PROVE OneChunk(x)'
      BY <3>1, <3>2, PlainOneChunk, ShortOneChunk
         DEF SingleStep, GetSingle, WriteSingle, BatchStep, GetInitial, WriteFirst
    <3>3. OneChunk(x)'
      BY <2>3, <3>1, <3>2, PlainOneChunk DEF Step
    <3>4. \A y \in Calls \ {x} : OneChunk(y)'
      BY <2>1, <2>3, OthersSame, OthersHold
    <3> QED
      BY <3>3, <3>4 DEF BInv
  <2> QED
    BY <2>2, <2>3 DEF Next, vars, Evict, WriteLands
<1>3. BInv => BatchNeverPanics
  BY DEF BInv, OneChunk, BatchNeverPanics
<1> QED
  BY <1>1, <1>2, <1>3, InvariantIInv, PTL DEF Spec
=============================================================================
