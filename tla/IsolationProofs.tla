---------------------------- MODULE IsolationProofs ---------------------------
(***************************************************************************)
(* What one call leaves to the next, for any number of calls, containers   *)
(* and requests.  Single requests of every language, and batches of a      *)
(* compiled one, run their own program, and Redis holds under a program    *)
(* what that program gave, whatever else fails.  (Run Poisoned shows what  *)
(* is different for batches of an interpreted language, and a compiled one *)
(* needs its artifact to stay in Redis while the batch runs.)              *)
(***************************************************************************)
EXTENDS AnswerProofs, ExecutionProofs

\* No write outlives its start_exec; where batches of several requests arrive,
\* they are of a compiled language, and Redis keeps what it was given.
Careful ==
  /\ ~LateWrites
  /\ \A j \in Jobs : Len(j.stdins) > 1 => j.key \in Compiled /\ ~CacheLossy

First(x) == held[x][1]

Multi(x) == job[x] # NoJob /\ NumRequests(x) > 1

ArtifactsOwn ==
  \A a \in Artifacts : acache[a] # Missing /\ a.code \notin Nameless => acache[a] = a.code

EntriesOwn ==
  \A e \in Entries : rcache[e] # Missing /\ e.code \notin Nameless =>
    rcache[e].prog = e.code

\* The places between the compiler and the last return.
Loaded == {"built", "write", "run", "check", "extend", "runchunk", "drain"}

\* After a successful build the program is in every container the call runs
\* requests in, and a batch finds it in Redis for the containers it takes.
Executable(x) ==
  pc[x] \in Loaded /\ Key(x) \in Compiled /\ loc[x].build = "ok" =>
    /\ Multi(x) => ArtifactHit(x)
    /\ Code(x) \notin Nameless /\ pc[x] # "drain" =>
         \A i \in DOMAIN held[x] : bin[held[x][i]] = Code(x)

\* The first container holds the program from its write on, and only a batch
\* of several requests has chunks.
Prepared(x) ==
  /\ loc[x].from >= 2
  /\ pc[x] = "compile" => src[First(x)] = Code(x)
  /\ pc[x] = "run" /\ Key(x) \notin Compiled => src[First(x)] = Code(x)
  /\ pc[x] \in {"runchunk", "drain"} => Multi(x)
  /\ Executable(x)

\* Every result the call has so far is of its program.
OwnResults(x) ==
  pc[x] # "idle" /\ Code(x) \notin Nameless =>
    \A i \in DOMAIN out[x] : out[x][i] = Missing \/ out[x][i].prog \in {Code(x), NoCode}

OInv ==
  /\ \A c \in Containers : inflight[c] = {}
  /\ ArtifactsOwn
  /\ EntriesOwn
  /\ \A x \in Calls : Prepared(x) /\ OwnResults(x)

-----------------------------------------------------------------------------
\* Batches of several requests are of a compiled language.
LEMMA MultiCompiled ==
  ASSUME Careful, IInv, NEW x \in Calls, Multi(x)
  PROVE  Key(x) \in Compiled /\ ~CacheLossy
<1>1. job[x] \in Jobs
  BY DEF IInv, TypeOK, Multi
<1> QED
  BY <1>1 DEF Careful, Multi, NumRequests, Key

\* Indices of the containers of a call.
LEMMA Indices ==
  ASSUME IInv, NEW x \in Calls
  PROVE  /\ held[x] # <<>> => 1 \in DOMAIN held[x] /\ First(x) \in Containers
         /\ \A i \in DOMAIN held[x] : held[x][i] \in Containers
<1>1. held[x] \in Seq(Containers)
  BY CallTypes
<1>2. DOMAIN held[x] = 1 .. Len(held[x])
  BY <1>1, LenProperties
<1>3. held[x] # <<>> => Len(held[x]) \in Nat \ {0}
  BY <1>1, EmptySeq, LenProperties
<1> QED
  BY <1>1, <1>2, <1>3, ElementOfSeq DEF First

\* Up to its first result a call has one container.
LEMMA OneContainer ==
  ASSUME IInv, RInv, NEW x \in Calls, pc[x] \notin AfterFirst
  PROVE  \A i \in DOMAIN held[x] : i = 1
<1>1. Len(held[x]) <= 1 /\ Len(held[x]) \in Nat
  BY Numbers DEF RInv, RoomKept, Room, AfterFirst
<1>2. DOMAIN held[x] = 1 .. Len(held[x])
  BY CallTypes, LenProperties
<1> QED
  BY <1>1, <1>2

\* A step that changes neither files nor artifacts of a call.
LEMMA StillPrepared ==
  ASSUME NEW x \in Calls, Prepared(x), job'[x] = job[x], held'[x] = held[x],
         held[x] # <<>> => src'[First(x)] = src[First(x)],
         \A i \in DOMAIN held[x] : bin'[held[x][i]] = bin[held[x][i]],
         Multi(x) /\ ArtifactHit(x) => ArtifactHit(x)',
         loc'[x].build = loc[x].build, loc'[x].from = loc[x].from,
         pc'[x] = "compile" => pc[x] = "compile" /\ held[x] # <<>>,
         pc'[x] = "run" /\ Key(x) \notin Compiled => pc[x] = "run" /\ held[x] # <<>>,
         pc'[x] \in {"runchunk", "drain"} => Multi(x),
         pc'[x] \in Loaded => pc[x] \in Loaded,
         pc'[x] # "drain" => pc[x] # "drain"
  PROVE  Prepared(x)'
<1>1. /\ Key(x)' = Key(x) /\ Code(x)' = Code(x) /\ First(x)' = First(x)
      /\ Multi(x)' <=> Multi(x)
  BY DEF Key, Code, First, Multi, NumRequests
<1>2. Executable(x)'
  BY <1>1 DEF Prepared, Executable
<1> QED
  BY <1>1, <1>2 DEF Prepared

\* A call that does not move.
LEMMA UntouchedCall ==
  ASSUME IInv, NEW y \in Calls, Prepared(y), OwnResults(y), Same(y), held'[y] = held[y],
         \A i \in DOMAIN held[y] : /\ src'[held[y][i]] = src[held[y][i]]
                                   /\ bin'[held[y][i]] = bin[held[y][i]],
         Multi(y) /\ ArtifactHit(y) => ArtifactHit(y)'
  PROVE  Prepared(y)' /\ OwnResults(y)'
<1>1. pc[y] \in {"compile", "run"} => held[y] # <<>>
  BY DEF IInv, HoldsWhatItUses, Inside
<1>2. held[y] # <<>> => src'[First(y)] = src[First(y)]
  BY Indices DEF First
<1>3. Prepared(y)'
  <2>1. pc[y] \in {"runchunk", "drain"} => Multi(y)
    BY DEF Prepared
  <2> QED
    BY <1>1, <1>2, <2>1, StillPrepared DEF Same
<1>4. OwnResults(y)'
  BY DEF OwnResults, Same, Code
<1> QED
  BY <1>3, <1>4

\* A step of a call writes to its first container or to one it takes.
Mine(x, c) == (held[x] # <<>> /\ c = First(x)) \/ \E k \in Keys : Pop(k, c)

Writes(x) ==
  /\ inflight' = inflight
  /\ src' = src \/ \E c, p : Mine(x, c) /\ src' = [src EXCEPT ![c] = p]
  /\ bin' = bin \/ \E c, p : Mine(x, c) /\ bin' = [bin EXCEPT ![c] = p]

\* No shell is left behind.
LEMMA WritesOnce ==
  ASSUME ~LateWrites, NEW c, NEW p, WriteSource(c, p)
  PROVE  src' = [src EXCEPT ![c] = p] /\ inflight' = inflight
BY DEF WriteSource

\* What a call writes to.
LEMMA StepWrites ==
  ASSUME ~LateWrites, IInv, NEW x \in Calls,
         Begin(x) \/ Collect(x) \/ Cancel(x) \/ Acquire(x) \/ Step(x)
  PROVE  Writes(x)
<1>1. ASSUME UNCHANGED fileVars PROVE Writes(x)
  BY <1>1 DEF fileVars, Writes
<1>2. ASSUME held[x] # <<>>,
             WriteSource(First(x), Code(x)) \/ UNCHANGED <<src, inflight>>,
             bin' = bin \/ \E p : bin' = [bin EXCEPT ![First(x)] = p]
      PROVE  Writes(x)
  BY <1>2, WritesOnce DEF Writes, Mine
<1>3. ASSUME Begin(x) \/ Collect(x) \/ Cancel(x) \/ Acquire(x) \/ TakeFirst(x) \/ GiveBack(x)
      PROVE  UNCHANGED fileVars
  BY <1>3 DEF Begin, Collect, Cancel, Acquire, AcquireSingle, AcquireBatch, Enter,
              TakeFirst, GiveBack
<1>4. ASSUME WriteFile(x) PROVE Writes(x)
  <2>1. held[x] # <<>> /\ bin' = bin
    BY <1>4 DEF WriteFile, IInv, HoldsWhatItUses, Inside
  <2> QED
    BY <1>2, <1>4, <2>1 DEF WriteFile, First
<1>5. ASSUME CompilerStep(x) PROVE Writes(x)
  <2>1. held[x] # <<>>
    BY <1>5 DEF CompilerStep, UseArtifact, WriteProgram, Compile, IInv, HoldsWhatItUses,
                Inside
  <2>2. WriteSource(First(x), Code(x)) \/ UNCHANGED <<src, inflight>>
    BY <1>5 DEF CompilerStep, UseArtifact, WriteProgram, Compile, First, fileVars
  <2>3. bin' = bin \/ \E p : bin' = [bin EXCEPT ![First(x)] = p]
    BY <1>5 DEF CompilerStep, UseArtifact, WriteProgram, Compile, First, fileVars
  <2> QED
    BY <1>2, <2>1, <2>2, <2>3
<1>6. ASSUME \/ LookupSingle(x) \/ RunSingle(x) \/ LookupFirst(x) \/ RunFirst(x)
             \/ CheckFirst(x) \/ StartChunk(x) \/ LookupNext(x) \/ RunNext(x)
             \/ EndChunk(x) \/ Drain(x)
      PROVE  UNCHANGED fileVars
  BY <1>6 DEF LookupSingle, RunSingle, LookupFirst, RunFirst, CheckFirst, StartChunk,
              LookupNext, RunNext, EndChunk, Drain
<1>7. ASSUME Extend(x) PROVE Writes(x)
  <2>1. ASSUME NEW c \in Containers, Pop(Key(x), c), Load(x, c) PROVE Writes(x)
    <3>1. Key(x) \in Keys
      BY <1>7, Busy, Arguments DEF Extend, IInv, TypeOK
    <3>2. Mine(x, c)
      BY <2>1, <3>1 DEF Mine
    <3>3. WriteSource(c, Code(x)) \/ UNCHANGED <<src, inflight>>
      BY <2>1 DEF Load, fileVars
    <3>4. bin' = bin \/ \E p : bin' = [bin EXCEPT ![c] = p]
      BY <2>1 DEF Load, fileVars
    <3> QED
      BY <3>2, <3>3, <3>4, WritesOnce DEF Writes
  <2>2. CASE UNCHANGED fileVars
    BY <1>1, <2>2
  <2> QED
    BY <1>7, <2>1, <2>2 DEF Extend, fileVars
<1>8. ASSUME SingleStep(x) \/ BatchStep(x) PROVE Writes(x)
  BY <1>1, <1>3, <1>4, <1>6, <1>7, <1>8
     DEF SingleStep, GetSingle, WriteSingle, BatchStep, GetInitial, WriteFirst
<1> QED
  BY <1>1, <1>3, <1>5, <1>8 DEF Step

\* Containers are exclusive, so a step of one call spares those of the others.
LEMMA OthersSpared ==
  ASSUME IInv, OnePlace, NEW x \in Calls, NEW y \in Calls \ {x}, Writes(x)
  PROVE  \A i \in DOMAIN held[y] : /\ src'[held[y][i]] = src[held[y][i]]
                                   /\ bin'[held[y][i]] = bin[held[y][i]]
<1> SUFFICES ASSUME NEW i \in DOMAIN held[y]
             PROVE  /\ src'[held[y][i]] = src[held[y][i]]
                    /\ bin'[held[y][i]] = bin[held[y][i]]
  OBVIOUS
<1>1. held[y][i] \in Containers
  BY Indices
<1>2. ASSUME NEW c, Mine(x, c) PROVE c # held[y][i]
  <2>1. CASE held[x] # <<>> /\ c = First(x)
    <3>1. 1 \in DOMAIN held[x]
      BY <2>1, Indices
    <3> QED
      BY <1>1, <2>1, <3>1 DEF OnePlace, HeldOnce, First
  <2>2. ASSUME NEW k \in Keys, Pop(k, c) PROVE c # held[y][i]
    <3>1. Len(pool[k]) \in DOMAIN pool[k]
      <4>1. pool[k] \in Seq(Containers) /\ pool[k] # <<>>
        BY <2>2 DEF IInv, TypeOK, Pop
      <4> QED
        BY <4>1, EmptySeq, LenProperties
    <3> QED
      BY <1>1, <2>2, <3>1 DEF Pop, OnePlace, HeldNotPooled
  <2> QED
    BY <1>2, <2>1, <2>2 DEF Mine
<1> QED
  BY <1>1, <1>2 DEF Writes, IInv, TypeOK

\* What the compiler leaves in a container is a program.
LEMMA OutputType ==
  ASSUME IInv, NEW c \in Containers
  PROVE  Output(src[c], bin[c]) \in Programs /\ Output(src[c], bin[c]) # Missing
<1>1. src[c] \in Programs /\ bin[c] \in Programs
  BY DEF IInv, TypeOK
<1> QED
  BY <1>1, SandboxAssumption DEF SandboxAssumption, Output

\* Only a compiler writes artifacts.
LEMMA ArtifactSteps ==
  ASSUME IInv, NEW x \in Calls,
         Begin(x) \/ Collect(x) \/ Cancel(x) \/ Acquire(x) \/ Step(x)
  PROVE  \/ acache' = acache
         \/ \E e \in Programs \ {Missing} : acache' = [acache EXCEPT ![Artifact(x)] = e]
<1> USE DEF cacheVars
<1>1. ASSUME Compile(x)
      PROVE  \/ acache' = acache
             \/ \E e \in Programs \ {Missing} : acache' = [acache EXCEPT ![Artifact(x)] = e]
  <2>1. held[x] # <<>>
    BY <1>1 DEF Compile, IInv, HoldsWhatItUses, Inside
  <2>2. Output(src[First(x)], bin[First(x)]) \in Programs \ {Missing}
    BY <2>1, Indices, OutputType
  <2> QED
    BY <1>1, <2>2 DEF Compile, First
<1>2. ASSUME Begin(x) \/ Collect(x) \/ Cancel(x) \/ Acquire(x) PROVE acache' = acache
  BY <1>2 DEF Begin, Collect, Cancel, Acquire, AcquireSingle, AcquireBatch, Enter
<1>3. ASSUME \/ TakeFirst(x) \/ GiveBack(x) \/ WriteFile(x) \/ UseArtifact(x)
             \/ WriteProgram(x) \/ LookupSingle(x) \/ RunSingle(x)
      PROVE  acache' = acache
  BY <1>3 DEF TakeFirst, GiveBack, WriteFile, UseArtifact, WriteProgram, LookupSingle,
              RunSingle
<1>4. ASSUME \/ LookupFirst(x) \/ RunFirst(x) \/ CheckFirst(x) \/ Extend(x) \/ StartChunk(x)
             \/ LookupNext(x) \/ RunNext(x) \/ EndChunk(x) \/ Drain(x)
      PROVE  acache' = acache
  BY <1>4 DEF LookupFirst, RunFirst, CheckFirst, Extend, StartChunk, LookupNext, RunNext,
              EndChunk, Drain
<1> QED
  BY <1>1, <1>2, <1>3, <1>4
     DEF Step, SingleStep, GetSingle, WriteSingle, BatchStep, GetInitial, WriteFirst,
         CompilerStep

\* So the artifact of a batch stays.
LEMMA ArtifactKept ==
  ASSUME IInv, NEW x \in Calls, NEW y \in Calls, job[y] # NoJob, job'[y] = job[y],
         Begin(x) \/ Collect(x) \/ Cancel(x) \/ Acquire(x) \/ Step(x),
         ArtifactHit(y)
  PROVE  ArtifactHit(y)'
<1>1. Artifact(y) \in Artifacts /\ Artifact(y)' = Artifact(y)
  BY Arguments DEF IInv, TypeOK, Artifact, Key, Code
<1> QED
  BY <1>1, ArtifactSteps DEF ArtifactHit, IInv, TypeOK

\* What a call has prepared and answered stays, whoever else moves.
LEMMA OthersPrepared ==
  ASSUME Careful, IInv, OnePlace, OInv, NEW x \in Calls, NEW y \in Calls \ {x},
         Begin(x) \/ Collect(x) \/ Cancel(x) \/ Acquire(x) \/ Step(x)
  PROVE  Prepared(y)' /\ OwnResults(y)'
<1>1. Writes(x) /\ Same(y) /\ held'[y] = held[y]
  BY StepWrites, OthersSame, OthersHold DEF Careful
<1>2. Multi(y) /\ ArtifactHit(y) => ArtifactHit(y)'
  BY <1>1, ArtifactKept DEF Multi, Same
<1>3. \A i \in DOMAIN held[y] : /\ src'[held[y][i]] = src[held[y][i]]
                                /\ bin'[held[y][i]] = bin[held[y][i]]
  BY <1>1, OthersSpared
<1> QED
  BY <1>1, <1>2, <1>3, UntouchedCall DEF OInv

-----------------------------------------------------------------------------
\* One lemma per group of actions.
KeepsOwn(x) == Prepared(x)' /\ OwnResults(x)' /\ ArtifactsOwn' /\ EntriesOwn'

\* Steps that leave Redis alone.
LEMMA SameCaches ==
  ASSUME ArtifactsOwn, EntriesOwn, UNCHANGED cacheVars
  PROVE  ArtifactsOwn' /\ EntriesOwn'
BY DEF ArtifactsOwn, EntriesOwn, cacheVars

\* A step that leaves the results of a call alone.
LEMMA SameOwnResults ==
  ASSUME NEW x \in Calls, OwnResults(x), job'[x] = job[x], out'[x] = out[x],
         pc[x] # "idle"
  PROVE  OwnResults(x)'
BY DEF OwnResults, Code

\* A call that has no container yet or any more.
LEMMA NothingPrepared ==
  ASSUME NEW x \in Calls, loc'[x].from >= 2,
         pc'[x] \in {"idle", "acquire", "get", "artifact", "giveback", "replied"}
  PROVE  Prepared(x)'
BY DEF Prepared, Executable, Loaded

\* An early end shows no result.
LEMMA AbortOwn ==
  ASSUME IInv, NEW x \in Calls, NEW r, Abort(x, r)
  PROVE  Prepared(x)' /\ OwnResults(x)'
<1>1. pc'[x] = "replied" /\ out'[x] = <<>> /\ loc'[x].from = 2
  BY DEF Abort, Goto, IInv, TypeOK, NoLocals
<1>2. DOMAIN out'[x] = {}
  BY <1>1
<1> QED
  BY <1>1, <1>2, NothingPrepared DEF OwnResults

\* One more result of the program of the call.
LEMMA NewOwnResult ==
  ASSUME IInv, NEW x \in Calls, OwnResults(x), pc[x] # "idle", job'[x] = job[x],
         NEW i, NEW o, out' = [out EXCEPT ![x] = [@ EXCEPT ![i] = o]],
         Code(x) \notin Nameless => o.prog \in {Code(x), NoCode}
  PROVE  OwnResults(x)'
<1>1. out'[x] = [out[x] EXCEPT ![i] = o]
  BY DEF IInv, TypeOK
<1>2. DOMAIN out'[x] = DOMAIN out[x]
  BY <1>1
<1>3. \A k \in DOMAIN out[x] : out'[x][k] = IF k = i THEN o ELSE out[x][k]
  BY <1>1
<1> QED
  BY <1>2, <1>3 DEF OwnResults, Code

\* A result from Redis is one of the program it is asked for.
LEMMA ServeOwn ==
  ASSUME IInv, EntriesOwn, NEW x \in Calls, OwnResults(x), pc[x] # "idle", job' = job,
         NEW i \in 1 .. NumRequests(x), Serve(x, i)
  PROVE  OwnResults(x)'
<1>1. Entry(x, i) \in Entries /\ Entry(x, i).code = Code(x)
  BY Busy, Arguments DEF IInv, TypeOK, Entry
<1>2. Code(x) \notin Nameless => rcache[Entry(x, i)].prog = Code(x)
  BY <1>1 DEF EntriesOwn, Serve, ResultHit
<1> QED
  BY <1>2, NewOwnResult DEF Serve

\* So is a run of it, in a container that has it, and what Redis gets of it.
LEMMA RunOwn ==
  ASSUME IInv, EntriesOwn, NEW x \in Calls, OwnResults(x), pc[x] # "idle", job' = job,
         NEW i \in 1 .. NumRequests(x), NEW c \in Containers, RunRequest(x, i, c),
         loc[x].build = "ok" /\ Code(x) \notin Nameless => Program(x, c) = Code(x)
  PROVE  OwnResults(x)' /\ EntriesOwn'
<1>1. PICK o \in RunResults(x, i, c) :
        /\ out' = [out EXCEPT ![x] = [@ EXCEPT ![i] = o]]
        /\ StoreResult(x, i, o)
  BY DEF RunRequest
<1>2. /\ Code(x) \notin Nameless => o.prog \in {Code(x), NoCode}
      /\ o.end \in CleanStderr => o.prog # NoCode
  BY <1>1 DEF RunResults, CleanStderr
<1>3. Entry(x, i) \in Entries /\ Entry(x, i).code = Code(x)
  BY Busy, Arguments DEF IInv, TypeOK, Entry
<1>4. EntriesOwn'
  BY <1>1, <1>2, <1>3 DEF StoreResult, EntriesOwn, IInv, TypeOK
<1> QED
  BY <1>1, <1>2, <1>4, NewOwnResult

\* The way in and out.
LEMMA OutsideOwn ==
  ASSUME IInv, OInv, NEW x \in Calls, Begin(x) \/ Collect(x) \/ Cancel(x) \/ Acquire(x)
  PROVE  KeepsOwn(x)
<1>1. UNCHANGED cacheVars
  BY DEF Begin, Collect, Cancel, Acquire, AcquireSingle, AcquireBatch, Enter
<1>2. /\ pc'[x] \in {"idle", "acquire", "get", "replied"}
      /\ loc'[x] = loc[x] \/ loc'[x] = NoLocals
  BY DEF Begin, Collect, Cancel, Acquire, AcquireSingle, AcquireBatch, Enter, Goto,
         IInv, TypeOK
<1>3. loc'[x].from >= 2
  BY <1>2 DEF OInv, Prepared, NoLocals
<1>4. OwnResults(x)'
  <2>1. CASE Begin(x)
    <3>1. PICK j \in Jobs : out' = [out EXCEPT ![x] = [i \in DOMAIN j.stdins |-> Missing]]
      BY <2>1 DEF Begin
    <3>2. out'[x] = [i \in DOMAIN j.stdins |-> Missing]
      BY <3>1 DEF IInv, TypeOK
    <3> QED
      BY <3>2 DEF OwnResults
  <2>2. CASE Collect(x) \/ Cancel(x)
    <3>1. pc'[x] = "idle"
      BY <2>2 DEF Collect, Cancel, Goto, IInv, TypeOK
    <3> QED
      BY <3>1 DEF OwnResults
  <2>3. CASE Acquire(x)
    <3>1. pc[x] = "acquire" /\ UNCHANGED <<job, out>>
      BY <2>3 DEF Acquire, AcquireSingle, AcquireBatch, Enter
    <3> QED
      BY <3>1, SameOwnResults DEF OInv
  <2> QED
    BY <2>1, <2>2, <2>3
<1> QED
  BY <1>1, <1>2, <1>3, <1>4, SameCaches, NothingPrepared DEF KeepsOwn, OInv

\* The first container and the last return.
LEMMA ContainerOwn ==
  ASSUME IInv, OInv, NEW x \in Calls, TakeFirst(x) \/ GiveBack(x)
  PROVE  KeepsOwn(x)
<1>1. ArtifactsOwn' /\ EntriesOwn' /\ loc[x].from >= 2 /\ OwnResults(x)
  BY SameCaches DEF TakeFirst, GiveBack, OInv, Prepared
<1>2. CASE TakeFirst(x) /\ Goto(x, IF Key(x) \in Compiled THEN "artifact" ELSE "built")
           /\ UNCHANGED <<job, out, loc>>
  <2>1. /\ pc'[x] = (IF Key(x) \in Compiled THEN "artifact" ELSE "built")
        /\ Key(x)' = Key(x) /\ pc[x] = "get"
    BY <1>2 DEF TakeFirst, Goto, Key, IInv, TypeOK
  <2>2. OwnResults(x)'
    BY <1>1, <1>2, <2>1, SameOwnResults
  <2> QED
    BY <1>1, <1>2, <2>1, <2>2 DEF KeepsOwn, Prepared, Executable, Loaded
<1>3. ASSUME TakeFirst(x), NEW r \in {"err", "panic"}, Abort(x, r) PROVE KeepsOwn(x)
  BY <1>1, <1>3, AbortOwn DEF KeepsOwn
<1>4. CASE GiveBack(x)
  <2>1. /\ pc[x] = "giveback" /\ pc'[x] \in {"giveback", "replied"}
        /\ UNCHANGED <<job, out>> /\ loc'[x].from >= 2
    BY <1>1, <1>4 DEF GiveBack, Goto, IInv, TypeOK, NoLocals
  <2> QED
    BY <1>1, <2>1, NothingPrepared, SameOwnResults DEF KeepsOwn
<1> QED
  BY <1>2, <1>3, <1>4 DEF TakeFirst, Fail

\* The write of an interpreted program.
LEMMA WriteOwn ==
  ASSUME Careful, IInv, OInv, NEW x \in Calls, WriteFile(x)
  PROVE  KeepsOwn(x)
<1>1. /\ ArtifactsOwn' /\ EntriesOwn' /\ pc[x] = "write" /\ UNCHANGED <<bin, acache>>
      /\ Prepared(x) /\ OwnResults(x)
  BY SameCaches DEF WriteFile, OInv, cacheVars
<1>2. held[x] # <<>> /\ First(x) \in Containers
  BY <1>1, Indices DEF IInv, HoldsWhatItUses, Inside
<1>3. CASE WriteSource(First(x), Code(x)) /\ Goto(x, "run") /\ UNCHANGED <<held, loc, job, out>>
  <2>1. src' = [src EXCEPT ![First(x)] = Code(x)]
    BY <1>3, WritesOnce DEF Careful
  <2>2. /\ pc'[x] = "run" /\ src'[First(x)] = Code(x)
        /\ Key(x)' = Key(x) /\ Code(x)' = Code(x) /\ First(x)' = First(x)
        /\ ArtifactHit(x)' <=> ArtifactHit(x)
        /\ Multi(x)' <=> Multi(x)
    BY <1>1, <1>2, <1>3, <2>1
       DEF Goto, Key, Code, First, ArtifactHit, Artifact, Multi, NumRequests, IInv, TypeOK
  <2>3. Prepared(x)'
    BY <1>1, <1>3, <2>2 DEF Prepared, Executable, Loaded
  <2> QED
    BY <1>1, <1>3, <2>3, SameOwnResults DEF KeepsOwn
<1>4. CASE Leave(x, "err") /\ UNCHANGED <<held, loc, job, out>>
  <2>1. pc'[x] = "giveback" /\ loc'[x].from >= 2
    BY <1>1, <1>4 DEF Leave, Goto, IInv, TypeOK, Prepared
  <2> QED
    BY <1>1, <1>4, <2>1, NothingPrepared, SameOwnResults DEF KeepsOwn
<1>5. CASE Fail(x)
  BY <1>1, <1>5, AbortOwn DEF Fail, KeepsOwn
<1> QED
  BY <1>3, <1>4, <1>5 DEF WriteFile, First

\* The executable: from Redis or from the compiler.
LEMMA CompilerOwn ==
  ASSUME Careful, IInv, RInv, OInv, NEW x \in Calls, CompilerStep(x)
  PROVE  KeepsOwn(x)
<1> DEFINE c == First(x)
<1>1. /\ pc[x] \in {"artifact", "compile"} /\ rcache' = rcache /\ held[x] # <<>>
      /\ c \in Containers /\ job[x] # NoJob /\ loc[x].from >= 2
      /\ ArtifactsOwn /\ EntriesOwn /\ Prepared(x) /\ OwnResults(x)
  BY Busy, Indices
     DEF CompilerStep, UseArtifact, WriteProgram, Compile, IInv, HoldsWhatItUses, Inside,
         cacheVars, OInv, Prepared
<1>2. Artifact(x) \in Artifacts /\ Artifact(x).code = Code(x) /\ loc[x] \in Locals
  BY <1>1, Arguments, CallTypes DEF IInv, TypeOK, Artifact
<1>3. EntriesOwn'
  BY <1>1 DEF EntriesOwn
<1>4. \A i \in DOMAIN held[x] : held[x][i] = c
  BY <1>1, OneContainer DEF AfterFirst, First
<1>5. ASSUME NEW q \in {"ok", "stderr", "nocmd"}, Built(x, q)
      PROVE  /\ pc'[x] = "built" /\ loc'[x].build = q /\ loc'[x].from >= 2
             /\ Key(x)' = Key(x) /\ Code(x)' = Code(x) /\ held'[x] = held[x]
             /\ OwnResults(x)'
  <2>1. /\ pc'[x] = "built" /\ loc'[x].build = q /\ loc'[x].from = loc[x].from
        /\ Key(x)' = Key(x) /\ Code(x)' = Code(x) /\ UNCHANGED <<job, out, held>>
    BY <1>2, <1>5 DEF Built, Goto, Key, Code, IInv, TypeOK, Locals
  <2> QED
    BY <1>1, <2>1, SameOwnResults
<1>6. ASSUME Built(x, "ok"), Code(x) \notin Nameless => bin'[c] = Code(x), ArtifactsOwn',
             ArtifactHit(x)'
      PROVE  KeepsOwn(x)
  BY <1>3, <1>4, <1>5, <1>6 DEF KeepsOwn, Prepared, Executable
<1>7. ASSUME NEW q \in {"stderr", "nocmd"}, Built(x, q), ArtifactsOwn' PROVE KeepsOwn(x)
  BY <1>3, <1>5, <1>7 DEF KeepsOwn, Prepared, Executable
<1>8. ASSUME Fail(x), ArtifactsOwn' PROVE KeepsOwn(x)
  BY <1>3, <1>8, AbortOwn DEF Fail, KeepsOwn
<1>9. ASSUME acache' = acache PROVE ArtifactsOwn'
  BY <1>1, <1>9 DEF ArtifactsOwn
<1>10. ASSUME job' = job PROVE Artifact(x)' = Artifact(x)
  BY <1>10 DEF Artifact, Key, Code
<1>11. ASSUME UseArtifact(x) PROVE KeepsOwn(x)
  <2>1. acache' = acache /\ acache[Artifact(x)] # Missing
    BY <1>11 DEF UseArtifact, ArtifactHit, cacheVars
  <2>2. Code(x) \notin Nameless => acache[Artifact(x)] = Code(x)
    BY <1>1, <1>2, <2>1 DEF ArtifactsOwn
  <2>3. CASE Built(x, "ok") /\ bin' = [bin EXCEPT ![c] = acache[Artifact(x)]]
    <3>1. bin'[c] = acache[Artifact(x)]
      BY <1>1, <2>3 DEF IInv, TypeOK
    <3>2. ArtifactHit(x)'
      BY <1>10, <2>1, <2>3 DEF ArtifactHit, Built
    <3> QED
      BY <1>6, <1>9, <2>1, <2>2, <2>3, <3>1, <3>2
  <2> QED
    BY <1>8, <1>9, <1>11, <2>1, <2>3 DEF UseArtifact, First
<1>12. ASSUME WriteProgram(x) PROVE KeepsOwn(x)
  <2>1. acache' = acache
    BY <1>12 DEF WriteProgram, cacheVars
  <2>2. CASE Goto(x, "compile") /\ WriteSource(c, Code(x)) /\ UNCHANGED <<job, held, out, loc>>
    <3>1. src' = [src EXCEPT ![c] = Code(x)]
      BY <2>2, WritesOnce DEF Careful
    <3>2. /\ pc'[x] = "compile" /\ src'[c] = Code(x)
          /\ Code(x)' = Code(x) /\ First(x)' = First(x)
      BY <1>1, <2>2, <3>1 DEF Goto, Code, First, IInv, TypeOK
    <3>3. Prepared(x)'
      BY <1>1, <2>2, <3>2 DEF Prepared, Executable, Loaded
    <3> QED
      BY <1>1, <1>3, <1>9, <2>1, <2>2, <3>3, SameOwnResults DEF KeepsOwn
  <2> QED
    BY <1>8, <1>9, <1>12, <2>1, <2>2 DEF WriteProgram, First
<1>13. ASSUME Compile(x) PROVE KeepsOwn(x)
  <2>1. src[c] = Code(x) /\ (Multi(x) => ~CacheLossy)
    BY <1>1, <1>13, MultiCompiled DEF Compile, Prepared
  <2> DEFINE e == Output(src[c], bin[c])
  <2>2. (Code(x) \notin Nameless => e = Code(x)) /\ e \in Programs /\ e # Missing
    BY <1>1, <2>1, OutputType DEF Output
  <2> HIDE DEF e
  <2>3. CASE /\ Built(x, "ok") /\ bin' = [bin EXCEPT ![c] = e]
             /\ \/ acache' = [acache EXCEPT ![Artifact(x)] = e]
                \/ CacheLossy /\ acache' = acache
    <3>1. bin'[c] = e
      BY <1>1, <2>3 DEF IInv, TypeOK
    <3>2. ArtifactsOwn'
      BY <1>1, <1>2, <2>2, <2>3 DEF ArtifactsOwn, IInv, TypeOK
    <3>3. Multi(x) => ArtifactHit(x)'
      BY <1>2, <1>10, <2>1, <2>2, <2>3 DEF ArtifactHit, Built, IInv, TypeOK
    <3>4. Multi(x)' <=> Multi(x)
      BY <2>3 DEF Built, Multi, NumRequests
    <3> QED
      BY <1>3, <1>4, <1>5, <2>2, <2>3, <3>1, <3>2, <3>3, <3>4
         DEF KeepsOwn, Prepared, Executable
  <2>4. \/ /\ Built(x, "ok") /\ bin' = [bin EXCEPT ![c] = e]
           /\ \/ acache' = [acache EXCEPT ![Artifact(x)] = e]
              \/ CacheLossy /\ acache' = acache
        \/ acache' = acache /\ (Built(x, "stderr") \/ Built(x, "nocmd") \/ Fail(x))
    BY <1>13 DEF Compile, First, e
  <2> QED
    BY <1>7, <1>8, <1>9, <2>3, <2>4
<1> QED
  BY <1>11, <1>12, <1>13 DEF CompilerStep

\* The run command of a call that is prepared runs its program.
LEMMA RunsProgram ==
  ASSUME IInv, NEW x \in Calls, Prepared(x), NEW k \in DOMAIN held[x],
         pc[x] \in {"run", "runchunk"}, loc[x].build = "ok", Code(x) \notin Nameless,
         Key(x) \in Compiled \/ (pc[x] = "run" /\ k = 1)
  PROVE  Program(x, held[x][k]) = Code(x)
<1>1. CASE Key(x) \in Compiled
  BY <1>1 DEF Prepared, Executable, Loaded, Program
<1>2. CASE Key(x) \notin Compiled
  BY <1>2 DEF Prepared, Program, First
<1> QED
  BY <1>1, <1>2

\* A step that leaves files and artifacts alone, and what it does to the call.
LEMMA QuietStep ==
  ASSUME IInv, OInv, NEW x \in Calls, pc[x] # "idle", UNCHANGED <<src, bin, acache>>,
         UNCHANGED <<job, held>>, OwnResults(x)', EntriesOwn',
         loc'[x].build = loc[x].build, loc'[x].from = loc[x].from,
         pc'[x] # "compile", pc'[x] = "run" => Key(x) \in Compiled,
         pc'[x] \in {"runchunk", "drain"} => Multi(x),
         pc'[x] \in Loaded => pc[x] \in Loaded,
         pc'[x] # "drain" => pc[x] # "drain"
  PROVE  KeepsOwn(x)
<1>1. Prepared(x) /\ ArtifactsOwn'
  BY DEF OInv, ArtifactsOwn
<1>2. ArtifactHit(x)' <=> ArtifactHit(x)
  BY DEF ArtifactHit, Artifact, Key, Code
<1>3. Prepared(x)'
  BY <1>1, <1>2, StillPrepared
<1> QED
  BY <1>1, <1>3 DEF KeepsOwn

\* The first answer: a compiler's message, a cached result or a run.
LEMMA FirstOwn ==
  ASSUME IInv, OInv, NEW x \in Calls,
         LookupSingle(x) \/ RunSingle(x) \/ LookupFirst(x) \/ RunFirst(x)
  PROVE  KeepsOwn(x)
<1>1. /\ pc[x] \in {"built", "run"} /\ UNCHANGED <<src, bin, acache, job>>
      /\ pc[x] \in Inside /\ pc[x] \in Loaded /\ held[x] # <<>>
      /\ 1 \in DOMAIN held[x] /\ held[x][1] \in Containers
      /\ Prepared(x) /\ OwnResults(x) /\ EntriesOwn /\ ArtifactsOwn
  BY Indices
     DEF LookupSingle, RunSingle, LookupFirst, RunFirst, IInv, HoldsWhatItUses, Inside,
         Loaded, fileVars, cacheVars, Fail, Abort, OInv
<1>2. job[x] # NoJob /\ 1 \in 1 .. NumRequests(x) /\ pc[x] # "idle"
  BY <1>1, Busy, Arguments DEF IInv, TypeOK, Inside
<1>3. ArtifactsOwn'
  BY <1>1 DEF ArtifactsOwn
<1>4. ASSUME UNCHANGED <<held, loc>>, OwnResults(x)', EntriesOwn',
             \/ pc'[x] \in {"giveback", "check", "write"}
             \/ pc'[x] = "run" /\ Key(x) \in Compiled
      PROVE  KeepsOwn(x)
  BY <1>1, <1>2, <1>4, QuietStep
<1>5. ASSUME rcache' = rcache PROVE EntriesOwn'
  BY <1>1, <1>5 DEF EntriesOwn
<1>6. ASSUME Fail(x), rcache' = rcache PROVE KeepsOwn(x)
  BY <1>3, <1>5, <1>6, AbortOwn DEF Fail, KeepsOwn
<1>7. ASSUME NEW r, Leave(x, r) PROVE pc'[x] = "giveback"
  BY <1>7 DEF Leave, Goto, IInv, TypeOK
<1>8. ASSUME out' = out PROVE OwnResults(x)'
  BY <1>1, <1>2, <1>8, SameOwnResults
<1>9. ASSUME LookupSingle(x) \/ LookupFirst(x) PROVE KeepsOwn(x)
  <2>1. EntriesOwn' /\ UNCHANGED <<held, loc>>
    BY <1>5, <1>9 DEF LookupSingle, LookupFirst, cacheVars
  <2>2. CASE /\ Leave(x, "ok")
             /\ out' = [out EXCEPT ![x] = <<[prog |-> Code(x), stdin |-> Stdin(x, 1),
                                             end |-> "compile_error"]>>]
    <3>1. out'[x] = <<[prog |-> Code(x), stdin |-> Stdin(x, 1), end |-> "compile_error"]>>
      BY <2>2 DEF IInv, TypeOK
    <3>2. OwnResults(x)'
      BY <1>1, <3>1 DEF OwnResults, Code
    <3> QED
      BY <1>4, <1>7, <2>1, <2>2, <3>2
  <2>3. CASE Serve(x, 1) /\ (Leave(x, "ok") \/ Goto(x, "check"))
    <3>1. OwnResults(x)'
      BY <1>1, <1>2, <2>3, ServeOwn
    <3>2. pc'[x] \in {"giveback", "check"}
      BY <1>7, <2>3 DEF Goto, IInv, TypeOK
    <3> QED
      BY <1>4, <2>1, <3>1, <3>2
  <2>4. CASE out' = out /\ Goto(x, IF Key(x) \in Compiled THEN "run" ELSE "write")
    <3>1. pc'[x] = (IF Key(x) \in Compiled THEN "run" ELSE "write")
      BY <2>4 DEF Goto, IInv, TypeOK
    <3> QED
      BY <1>4, <1>8, <2>1, <2>4, <3>1
  <2> QED
    BY <1>9, <2>2, <2>3, <2>4 DEF LookupSingle, LookupFirst
<1>10. ASSUME RunSingle(x) \/ RunFirst(x) PROVE KeepsOwn(x)
  <2>1. pc[x] = "run"
    BY <1>10 DEF RunSingle, RunFirst
  <2>2. CASE /\ RunRequest(x, 1, held[x][1]) /\ UNCHANGED <<held, loc>>
             /\ Leave(x, "ok") \/ Goto(x, "check")
    <3>1. loc[x].build = "ok" /\ Code(x) \notin Nameless => Program(x, held[x][1]) = Code(x)
      BY <1>1, <2>1, RunsProgram
    <3>2. OwnResults(x)' /\ EntriesOwn'
      BY <1>1, <1>2, <2>2, <3>1, RunOwn
    <3>3. pc'[x] \in {"giveback", "check"}
      BY <1>7, <2>2 DEF Goto, IInv, TypeOK
    <3> QED
      BY <1>4, <2>2, <3>2, <3>3
  <2>3. CASE Leave(x, "err") /\ UNCHANGED <<held, loc, out, rcache>>
    BY <1>4, <1>5, <1>7, <1>8, <2>3
  <2>4. CASE Fail(x) /\ rcache' = rcache
    BY <1>6, <2>4
  <2> QED
    BY <1>10, <2>2, <2>3, <2>4 DEF RunSingle, RunFirst
<1> QED
  BY <1>9, <1>10

\* The first result is passed on to the whole batch, or the loop begins.
LEMMA CheckOwn ==
  ASSUME IInv, OInv, NEW x \in Calls, CheckFirst(x)
  PROVE  KeepsOwn(x)
<1>1. /\ pc[x] = "check" /\ UNCHANGED <<src, bin, acache, rcache, job, held>>
      /\ OwnResults(x) /\ EntriesOwn /\ loc[x] \in Locals
  BY CallTypes DEF CheckFirst, fileVars, cacheVars, OInv
<1>2. EntriesOwn' /\ pc[x] \in Loaded
  BY <1>1 DEF EntriesOwn, Loaded
<1> DEFINE first == IF loc[x].build = "stderr"
                      THEN [prog |-> Code(x), stdin |-> Stdin(x, 1), end |-> "compile_error"]
                      ELSE out[x][1]
<1>3. CASE out' = [out EXCEPT ![x] = Answers(x, first)] /\ Leave(x, "ok") /\ loc' = loc
  <2>1. out'[x] = [i \in DOMAIN out[x] |-> IF i = 1 THEN first ELSE Skipped(x, i)]
    BY <1>3 DEF IInv, TypeOK, Answers
  <2>2. \A i \in DOMAIN out[x] : Skipped(x, i).prog = NoCode
    BY DEF Skipped
  <2>3. ASSUME 1 \in DOMAIN out[x], Code(x) \notin Nameless
        PROVE  first = Missing \/ first.prog \in {Code(x), NoCode}
    BY <1>1, <2>3 DEF OwnResults
  <2> HIDE DEF first
  <2>4. OwnResults(x)'
    BY <1>1, <2>1, <2>2, <2>3 DEF OwnResults, Code
  <2>5. pc'[x] = "giveback"
    BY <1>3 DEF Leave, Goto, IInv, TypeOK
  <2> QED
    BY <1>1, <1>2, <1>3, <2>4, <2>5, QuietStep
<1>4. ASSUME NEW n, NEW l, loc' = [loc EXCEPT ![x].maxPar = n, ![x].left = l],
             Goto(x, "extend"), out' = out
      PROVE  KeepsOwn(x)
  <2>1. /\ pc'[x] = "extend" /\ loc'[x].build = loc[x].build /\ loc'[x].from = loc[x].from
    BY <1>1, <1>4 DEF Goto, IInv, TypeOK, Locals
  <2>2. OwnResults(x)'
    BY <1>1, <1>4, SameOwnResults
  <2> QED
    BY <1>1, <1>2, <2>1, <2>2, QuietStep
<1> QED
  BY <1>3, <1>4 DEF CheckFirst

\* A container more has the program before a request can run in it.
LEMMA ExtendOwn ==
  ASSUME Careful, IInv, RInv, OInv, NEW x \in Calls, Extend(x)
  PROVE  KeepsOwn(x)
<1>1. /\ pc[x] = "extend" /\ loc[x].left > 0 /\ UNCHANGED <<acache, rcache, job>>
      /\ OwnResults(x) /\ EntriesOwn /\ ArtifactsOwn /\ Prepared(x) /\ job[x] # NoJob
      /\ loc[x] \in Locals /\ held[x] \in Seq(Containers)
  BY CallTypes, Busy DEF Extend, cacheVars, OInv, Fail, Abort
<1>2. EntriesOwn' /\ ArtifactsOwn' /\ pc[x] \in Loaded
  BY <1>1 DEF EntriesOwn, ArtifactsOwn, Loaded
<1>3. Multi(x)
  <2>1. NumRequests(x) \in Nat \ {0} /\ loc[x].from \in Nat
    BY <1>1, Arguments, LocalsTypes DEF IInv, TypeOK
  <2>2. CASE held[x] = <<>>
    <3>1. loc[x].from >= 2 /\ loc[x].from <= NumRequests(x)
      BY <1>1, <2>2 DEF IInv, HoldsWhatItUses, Prepared
    <3> QED
      BY <1>1, <2>1, <3>1 DEF Multi
  <2>3. CASE held[x] # <<>>
    <3>1. loc[x].maxPar > 0
      BY <1>1, <2>3, Numbers DEF RInv, RoomKept, Room
    <3>2. loc[x].maxPar < NumRequests(x)
      BY <3>1 DEF RInv, RoomKept
    <3> QED
      BY <1>1, <2>1, <3>1, <3>2, Numbers DEF Multi
  <2> QED
    BY <2>2, <2>3
<1>4. Key(x) \in Compiled /\ ~CacheLossy
  BY <1>3, MultiCompiled
<1>5. loc[x].build = "ok" => ArtifactHit(x)
  BY <1>1, <1>2, <1>3, <1>4 DEF Prepared, Executable
<1>6. /\ Key(x)' = Key(x) /\ Code(x)' = Code(x) /\ (Multi(x)' <=> Multi(x))
      /\ ArtifactHit(x)' <=> ArtifactHit(x)
  BY <1>1 DEF Key, Code, Multi, NumRequests, ArtifactHit, Artifact
<1>7. CASE Fail(x)
  BY <1>2, <1>7, AbortOwn DEF Fail, KeepsOwn
<1>8. ASSUME pc' = pc, out' = out, loc' = [loc EXCEPT ![x].left = @ - 1],
             loc[x].build = "ok" /\ Code(x) \notin Nameless =>
               \A i \in DOMAIN held'[x] : bin'[held'[x][i]] = Code(x)
      PROVE  KeepsOwn(x)
  <2>1. loc'[x].build = loc[x].build /\ loc'[x].from = loc[x].from
    BY <1>1, <1>8 DEF IInv, TypeOK, Locals
  <2>2. Prepared(x)'
    BY <1>1, <1>5, <1>6, <1>8, <2>1 DEF Prepared, Executable
  <2>3. OwnResults(x)'
    BY <1>1, <1>8, SameOwnResults
  <2> QED
    BY <1>2, <2>2, <2>3 DEF KeepsOwn
<1>9. ASSUME loc[x].build = "ok", Code(x) \notin Nameless, NEW i \in DOMAIN held[x]
      PROVE  bin[held[x][i]] = Code(x) /\ held[x][i] \in Containers
  BY <1>1, <1>2, <1>4, <1>9, Indices DEF Prepared, Executable
<1>10. ASSUME NEW c \in Containers, Load(x, c), held' = [held EXCEPT ![x] = Append(@, c)],
              loc[x].build = "ok", Code(x) \notin Nameless, NEW i \in DOMAIN held'[x]
       PROVE  bin'[held'[x][i]] = Code(x)
  <2>1. bin' = [bin EXCEPT ![c] = acache[Artifact(x)]] /\ acache[Artifact(x)] # Missing
    BY <1>4, <1>5, <1>10 DEF Load, ArtifactMiss, ArtifactHit
  <2>2. acache[Artifact(x)] = Code(x)
    <3>1. Artifact(x) \in Artifacts /\ Artifact(x).code = Code(x)
      BY <1>1, Arguments DEF IInv, TypeOK, Artifact
    <3> QED
      BY <1>1, <1>10, <2>1, <3>1 DEF ArtifactsOwn
  <2>3. \A d \in Containers : bin'[d] = IF d = c THEN Code(x) ELSE bin[d]
    BY <2>1, <2>2 DEF IInv, TypeOK
  <2>4. held'[x] = Append(held[x], c)
    BY <1>10 DEF IInv, TypeOK
  <2>5. held'[x][i] = c \/ (i \in DOMAIN held[x] /\ held'[x][i] = held[x][i])
    <3>1. /\ DOMAIN held[x] = 1 .. Len(held[x]) /\ Len(held[x]) \in Nat
          /\ DOMAIN held'[x] = 1 .. Len(held[x]) + 1
          /\ held'[x][Len(held[x]) + 1] = c
          /\ \A j \in 1 .. Len(held[x]) : held'[x][j] = held[x][j]
      BY <1>1, <2>4, AppendProperties, LenProperties
    <3>2. i \in 1 .. Len(held[x]) \/ i = Len(held[x]) + 1
      BY <3>1
    <3> QED
      BY <3>1, <3>2
  <2> QED
    BY <1>9, <1>10, <2>3, <2>5
<1> QED
  BY <1>1, <1>7, <1>8, <1>9, <1>10 DEF Extend, fileVars

\* The chunks: their requests run the program of the batch, in any order.
LEMMA ChunkOwn ==
  ASSUME Careful, IInv, RInv, OInv, NEW x \in Calls,
         StartChunk(x) \/ LookupNext(x) \/ RunNext(x) \/ EndChunk(x)
  PROVE  KeepsOwn(x)
<1>1. /\ pc[x] \in {"extend", "runchunk"} /\ UNCHANGED <<src, bin, acache, job>>
      /\ pc[x] \in Loaded /\ pc[x] # "idle" /\ job[x] # NoJob
      /\ Prepared(x) /\ OwnResults(x) /\ EntriesOwn /\ ArtifactsOwn
  BY Busy DEF StartChunk, LookupNext, RunNext, EndChunk, Loaded, fileVars, cacheVars, Fail,
              Abort, OInv
<1>2. /\ loc[x] \in Locals /\ NumRequests(x) \in Nat \ {0}
      /\ loc[x].from \in Nat /\ loc[x].from >= 2
  BY <1>1, CallTypes, LocalsTypes, Arguments DEF IInv, TypeOK, Prepared
<1>3. ArtifactsOwn' /\ (rcache' = rcache => EntriesOwn')
  BY <1>1 DEF ArtifactsOwn, EntriesOwn
<1>4. pc[x] = "runchunk" => Multi(x) /\ held[x] # <<>>
  BY <1>1 DEF Prepared, IInv, HoldsWhatItUses, Inside
<1>5. ASSUME UNCHANGED held, OwnResults(x)', EntriesOwn',
             loc'[x].build = loc[x].build, loc'[x].from = loc[x].from,
             \/ pc'[x] = "giveback"
             \/ pc'[x] \in {"runchunk", "drain"} /\ Multi(x)
      PROVE  KeepsOwn(x)
  <2>1. /\ pc'[x] \notin {"compile", "run"}
        /\ pc'[x] \in {"runchunk", "drain"} => Multi(x)
        /\ pc[x] # "drain"
    BY <1>1, <1>5
  <2> QED
    BY <1>1, <1>5, <2>1, QuietStep
<1>6. ASSUME NEW r, Abort(x, r), rcache' = rcache PROVE KeepsOwn(x)
  BY <1>3, <1>6, AbortOwn DEF KeepsOwn
<1>7. ASSUME out' = out PROVE OwnResults(x)'
  BY <1>1, <1>7, SameOwnResults
<1>8. ASSUME NEW r, Leave(x, r) PROVE pc'[x] = "giveback"
  BY <1>8 DEF Leave, Goto, IInv, TypeOK
<1>9. ASSUME StartChunk(x) PROVE KeepsOwn(x)
  <2>1. pc[x] = "extend" /\ rcache' = rcache
    BY <1>9 DEF StartChunk, cacheVars
  <2>2. CASE Leave(x, "ok") /\ UNCHANGED <<held, out, loc>>
    BY <1>3, <1>5, <1>7, <1>8, <2>1, <2>2
  <2>3. ASSUME loc[x].from <= NumRequests(x), Goto(x, "runchunk"), UNCHANGED <<held, out>>,
               NEW m, NEW t, loc' = [loc EXCEPT ![x].size = m, ![x].todo = t]
        PROVE  KeepsOwn(x)
    <3>1. Multi(x)
      BY <1>1, <1>2, <2>3 DEF Multi
    <3>2. /\ pc'[x] = "runchunk" /\ loc'[x].build = loc[x].build
          /\ loc'[x].from = loc[x].from
      BY <1>2, <2>3 DEF Goto, IInv, TypeOK, Locals
    <3> QED
      BY <1>3, <1>5, <1>7, <2>1, <2>3, <3>1, <3>2
  <2>4. CASE Abort(x, "panic")
    BY <1>6, <2>1, <2>4
  <2> QED
    BY <1>9, <2>2, <2>3, <2>4 DEF StartChunk
<1>10. ASSUME LookupNext(x) PROVE KeepsOwn(x)
  <2>1. /\ pc[x] = "runchunk" /\ pc' = pc /\ held' = held /\ rcache' = rcache
    BY <1>10 DEF LookupNext, cacheVars
  <2>2. PICK i \in loc[x].todo :
          \/ /\ Serve(x, i)
             /\ loc' = [loc EXCEPT ![x].todo = @ \ {i}]
          \/ /\ loc' = [loc EXCEPT ![x].todo = @ \ {i}, ![x].running = @ \cup {i}]
             /\ UNCHANGED out
    BY <1>10 DEF LookupNext
  <2>3. i \in 1 .. NumRequests(x)
    BY <2>1 DEF IInv, ChunkInRange
  <2>4. OwnResults(x)'
    BY <1>1, <1>7, <2>2, <2>3, ServeOwn
  <2>5. loc'[x].build = loc[x].build /\ loc'[x].from = loc[x].from
    BY <1>2, <2>2 DEF IInv, TypeOK, Locals
  <2> QED
    BY <1>3, <1>4, <1>5, <2>1, <2>4, <2>5
<1>11. ASSUME RunNext(x) PROVE KeepsOwn(x)
  <2>1. pc[x] = "runchunk" /\ pc' = pc /\ held' = held
    BY <1>11 DEF RunNext
  <2>2. PICK i \in loc[x].running :
          \/ /\ RunRequest(x, i, ContainerOf(x, i))
             /\ loc' = [loc EXCEPT ![x].running = @ \ {i}]
          \/ /\ loc' = [loc EXCEPT ![x].running = @ \ {i}, ![x].failed = TRUE]
             /\ UNCHANGED <<out, rcache>>
    BY <1>11 DEF RunNext
  <2>3. i \in 1 .. NumRequests(x) /\ i \in Nat
    BY <1>2, <2>1, LocalsTypes DEF IInv, ChunkInRange
  <2>4. loc'[x].build = loc[x].build /\ loc'[x].from = loc[x].from
    BY <1>2, <2>2 DEF IInv, TypeOK, Locals
  <2>5. ContainerOf(x, i) \in Containers
        /\ \E k \in DOMAIN held[x] : ContainerOf(x, i) = held[x][k]
    BY <1>4, <2>1, <2>3, ContainerOfType DEF IInv
  <2>6. loc[x].build = "ok" /\ Code(x) \notin Nameless =>
          Program(x, ContainerOf(x, i)) = Code(x)
    <3>1. Key(x) \in Compiled
      BY <1>4, <2>1, MultiCompiled
    <3> QED
      BY <1>1, <2>1, <2>5, <3>1, RunsProgram
  <2>7. OwnResults(x)' /\ EntriesOwn'
    BY <1>1, <1>3, <1>7, <2>2, <2>3, <2>5, <2>6, RunOwn
  <2> QED
    BY <1>4, <1>5, <2>1, <2>4, <2>7
<1>12. ASSUME EndChunk(x) PROVE KeepsOwn(x)
  <2>1. pc[x] = "runchunk" /\ rcache' = rcache
    BY <1>12 DEF EndChunk, cacheVars
  <2>2. CASE Fail(x)
    BY <1>6, <2>1, <2>2 DEF Fail
  <2>3. CASE (Leave(x, "ok") \/ Goto(x, "drain")) /\ UNCHANGED <<held, out, loc>>
    <3>1. pc'[x] \in {"giveback", "drain"}
      BY <1>8, <2>3 DEF Goto, IInv, TypeOK
    <3> QED
      BY <1>3, <1>4, <1>5, <1>7, <2>1, <2>3, <3>1
  <2> QED
    BY <1>12, <2>2, <2>3 DEF EndChunk
<1> QED
  BY <1>9, <1>10, <1>11, <1>12

\* Between two chunks the containers go back; the artifact stays.
LEMMA DrainOwn ==
  ASSUME IInv, OInv, NEW x \in Calls, Drain(x)
  PROVE  KeepsOwn(x)
<1>1. /\ pc[x] = "drain" /\ UNCHANGED <<src, bin, acache, rcache, job, out>>
      /\ pc[x] \in Loaded /\ pc[x] # "idle" /\ Push(x)
      /\ Prepared(x) /\ OwnResults(x) /\ EntriesOwn /\ ArtifactsOwn /\ Multi(x)
      /\ loc[x] \in Locals /\ held[x] \in Seq(Containers)
  BY CallTypes DEF Drain, Loaded, fileVars, cacheVars, OInv, Prepared
<1>2. ArtifactsOwn' /\ EntriesOwn' /\ OwnResults(x)'
  BY <1>1, SameOwnResults DEF ArtifactsOwn, EntriesOwn
<1>3. /\ ArtifactHit(x)' <=> ArtifactHit(x)
      /\ Key(x)' = Key(x) /\ Code(x)' = Code(x) /\ (Multi(x)' <=> Multi(x))
  BY <1>1 DEF ArtifactHit, Artifact, Key, Code, Multi, NumRequests
<1>4. CASE Len(held[x]) = 1
  <2>1. /\ pc'[x] = "extend"
        /\ loc' = [loc EXCEPT ![x].left = loc[x].maxPar, ![x].from = @ + loc[x].size]
    BY <1>1, <1>4 DEF Drain, Goto, IInv, TypeOK
  <2>2. loc'[x].build = loc[x].build /\ loc'[x].from = loc[x].from + loc[x].size
    BY <1>1, <2>1 DEF IInv, TypeOK, Locals
  <2>3. loc'[x].from >= 2
    BY <1>1, <2>2, LocalsTypes DEF Prepared
  <2>4. DOMAIN held'[x] = {}
    <3>1. held'[x] = Tail(held[x])
      BY <1>1 DEF Push, IInv, TypeOK
    <3>2. held[x] # <<>>
      BY <1>1 DEF Push
    <3>3. held'[x] \in Seq(Containers) /\ Len(held'[x]) = 0
      BY <1>1, <1>4, <3>1, <3>2, HeadTailProperties
    <3>4. DOMAIN held'[x] = 1 .. 0
      BY <3>3, LenProperties
    <3> QED
      BY <3>4
  <2> QED
    BY <1>1, <1>2, <1>3, <2>1, <2>2, <2>3, <2>4 DEF KeepsOwn, Prepared, Executable
<1>5. CASE Len(held[x]) # 1
  <2>1. pc' = pc /\ loc' = loc
    BY <1>1, <1>5 DEF Drain
  <2> QED
    BY <1>1, <1>2, <1>3, <2>1 DEF KeepsOwn, Prepared, Executable
<1> QED
  BY <1>4, <1>5

-----------------------------------------------------------------------------
\* Containers and caches are empty at the start.
LEMMA InitOInv == Init => OInv
BY DEF Init, OInv, ArtifactsOwn, EntriesOwn, Prepared, Executable, Loaded, OwnResults,
       NoLocals

\* OInv is inductive relative to IInv, RInv and the exclusiveness of containers.
LEMMA NextOInv ==
  ASSUME Careful
  PROVE  IInv /\ OnePlace /\ RInv /\ OInv /\ [Next]_vars => OInv'
<1> SUFFICES ASSUME IInv, OnePlace, RInv, OInv, [Next]_vars PROVE OInv'
  OBVIOUS
<1>1. ArtifactsOwn /\ EntriesOwn /\ \A x \in Calls : Prepared(x) /\ OwnResults(x)
  BY DEF OInv
<1>2. ASSUME UNCHANGED <<fileVars, callVars>>, ArtifactsOwn', EntriesOwn',
             \A x \in Calls : Multi(x) /\ ArtifactHit(x) => ArtifactHit(x)'
      PROVE  OInv'
  <2>1. \A x \in Calls : Prepared(x)' /\ OwnResults(x)'
    BY <1>1, <1>2, UntouchedCall DEF fileVars, callVars, Same
  <2> QED
    BY <1>2, <2>1 DEF OInv, fileVars
<1>3. CASE UNCHANGED vars
  <2>1. ArtifactsOwn' /\ EntriesOwn'
    BY <1>1, <1>3, SameCaches DEF vars
  <2>2. \A x \in Calls : ArtifactHit(x) => ArtifactHit(x)'
    BY <1>3 DEF vars, callVars, cacheVars, ArtifactHit, Artifact, Key, Code
  <2> QED
    BY <1>2, <1>3, <2>1, <2>2 DEF vars
<1>4. CASE Evict
  <2>1. ArtifactsOwn' /\ EntriesOwn'
    BY <1>1, <1>4 DEF Evict, ArtifactsOwn, EntriesOwn, IInv, TypeOK
  <2>2. \A x \in Calls : ~Multi(x)
    BY <1>4, MultiCompiled DEF Evict
  <2> QED
    BY <1>2, <1>4, <2>1, <2>2 DEF Evict
<1>5. \A c \in Containers : ~WriteLands(c)
  BY DEF WriteLands, OInv
<1>6. ASSUME NEW x \in Calls,
             Begin(x) \/ Collect(x) \/ Cancel(x) \/ Acquire(x) \/ Step(x)
      PROVE  OInv'
  <2>1. ASSUME SingleStep(x) \/ BatchStep(x) PROVE KeepsOwn(x)
    BY <2>1, ContainerOwn, WriteOwn, FirstOwn, CheckOwn, ExtendOwn, ChunkOwn, DrainOwn
       DEF SingleStep, GetSingle, WriteSingle, BatchStep, GetInitial, WriteFirst
  <2>2. KeepsOwn(x)
    BY <1>6, <2>1, OutsideOwn, ContainerOwn, CompilerOwn DEF Step
  <2>3. \A y \in Calls \ {x} : Prepared(y)' /\ OwnResults(y)'
    BY <1>6, OthersPrepared
  <2>4. \A c \in Containers : inflight'[c] = {}
    BY <1>6, StepWrites DEF Writes, OInv, Careful
  <2> QED
    BY <2>2, <2>3, <2>4 DEF KeepsOwn, OInv
<1> QED
  BY <1>3, <1>4, <1>5, <1>6 DEF Next

\* OInv is an invariant of the instances whose batches are careful.
LEMMA InvariantOInv ==
  ASSUME Careful
  PROVE  Spec => []OInv
BY InitOInv, NextOInv, InvariantIInv, InvariantRInv, ContainersExclusive, PTL DEF Spec

\* execute and execute_batch answer with runs of the program they were given,
\* never with one an earlier call left in a container or in Redis, although
\* containers and caches are shared, the requests of a batch run in containers
\* taken and loaded at different times, and Docker and clients may fail at any
\* await.
THEOREM RunsOwnCode ==
  ASSUME Careful
  PROVE  Spec => []RanOwnCode
<1>1. IInv /\ AInv /\ OInv => RanOwnCode
  <2> SUFFICES ASSUME IInv, AInv, OInv, NEW x \in Calls, pc[x] = "replied",
                      reply[x] = "ok", Code(x) \notin Nameless, NEW i \in DOMAIN out[x]
               PROVE  out[x][i].prog \in {Code(x), NoCode}
    BY DEF RanOwnCode
  <2>1. DOMAIN out[x] = 1 .. NumRequests(x)
    BY LenProperties DEF AInv, Progress, IInv, TypeOK
  <2>2. out[x][i] # Missing
    BY <2>1 DEF AInv, Progress, Answered
  <2> QED
    BY <2>2 DEF OInv, OwnResults
<1>2. Spec => []AInv
  BY InitAInv, NextAInv, InvariantIInv, PTL DEF Spec
<1> QED
  BY <1>1, <1>2, InvariantIInv, InvariantOInv, PTL

\* What they store in Redis under a program, a stdin and a language came from
\* them: compile_*, execute and execute_batch never cache what another call
\* produced.
THEOREM KeepsCachesSound ==
  ASSUME Careful
  PROVE  Spec => []CacheSound
<1>1. OInv /\ AInv => CacheSound
  BY DEF OInv, AInv, ArtifactsOwn, EntriesOwn, EntriesMatch, CacheSound
<1>2. Spec => []AInv
  BY InitAInv, NextAInv, InvariantIInv, PTL DEF Spec
<1> QED
  BY <1>1, <1>2, InvariantOInv, PTL
=============================================================================
