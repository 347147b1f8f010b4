--------------------------- MODULE ExecutorProofs ----------------------------
(***************************************************************************)
(* Theorems of Executor, for any number of calls, containers, keys,        *)
(* programs and permits.                                                   *)
(***************************************************************************)
EXTENDS Executor, SequenceTheorems, TLAPS

\* TypeOK with what it needs to be inductive.
IInv == TypeOK /\ Engaged /\ HoldsWhatItUses /\ ChunkInRange

-----------------------------------------------------------------------------
\* Facts about the data.

\* What the code may read of the arguments of a call.
LEMMA Arguments ==
  ASSUME NEW x \in Calls, job \in [Calls -> Jobs \cup {NoJob}], job[x] # NoJob
  PROVE  /\ Key(x) \in Keys /\ Code(x) \in Codes
         /\ NumRequests(x) \in Nat \ {0} /\ 1 \in 1 .. NumRequests(x)
         /\ \A i \in 1 .. NumRequests(x) : Stdin(x, i) \in Stdins
         /\ DOMAIN job[x].stdins = 1 .. NumRequests(x)
         /\ Artifact(x) \in Artifacts
         /\ \A i \in 1 .. NumRequests(x) : Entry(x, i) \in Entries
<1>1. job[x] \in Jobs /\ job[x] \in JobType
  BY SandboxAssumption DEF SandboxAssumption
<1>2. /\ job[x].key \in Keys /\ job[x].code \in Codes
      /\ job[x].stdins \in Seq(Stdins)
  BY <1>1 DEF JobType
<1>3. Len(job[x].stdins) \in Nat \ {0}
  BY <1>1, <1>2, LenProperties, SandboxAssumption DEF SandboxAssumption
<1>4. \A i \in 1 .. NumRequests(x) : Stdin(x, i) \in Stdins
  BY <1>2, <1>3, ElementOfSeq DEF Stdin, NumRequests
<1>5. NumRequests(x) \in Nat \ {0} /\ 1 \in 1 .. NumRequests(x)
  BY <1>3 DEF NumRequests
<1> QED
  BY <1>2, <1>4, <1>5, LenProperties
     DEF Key, Code, NumRequests, Artifact, Artifacts, Entry, Entries

\* A single call has one request.
LEMMA SingleArguments ==
  ASSUME NEW x \in Calls, job \in [Calls -> Jobs \cup {NoJob}], Single(x)
  PROVE  NumRequests(x) = 1
BY SandboxAssumption DEF Single, NumRequests, SandboxAssumption

\* What a program leaves behind is a result.
LEMMA RunResultsType ==
  ASSUME NEW x \in Calls, NEW c \in Containers, TypeOK, job[x] # NoJob,
         NEW i \in 1 .. NumRequests(x), NEW o \in RunResults(x, i, c)
  PROVE  o \in Outcomes
<1>1. Stdin(x, i) \in Stdins
  BY Arguments DEF TypeOK
<1>2. Program(x, c) \in Programs
  BY DEF TypeOK, Program
<1>3. Endings \subseteq AllEndings /\ "crash" \in AllEndings
  BY SandboxAssumption DEF SandboxAssumption, AllEndings
<1> QED
  BY <1>1, <1>2, <1>3 DEF RunResults, Outcomes, Programs

\* The empty sequence is the one of length zero.
LEMMA LenZero ==
  ASSUME NEW S, NEW s \in Seq(S)
  PROVE  s = <<>> <=> Len(s) = 0
BY EmptySeq

\* The remainder of a division is an index below the divisor.
LEMMA Remainder ==
  ASSUME NEW m \in Int, NEW n \in Nat \ {0}
  PROVE  m % n \in 0 .. n - 1
OBVIOUS

\* A request of a chunk has a container.
LEMMA ContainerOfType ==
  ASSUME NEW x \in Calls, TypeOK, held[x] # <<>>, NEW i \in Nat
  PROVE  /\ ContainerOf(x, i) \in Containers
         /\ \E k \in DOMAIN held[x] : ContainerOf(x, i) = held[x][k]
<1>1. held[x] \in Seq(Containers) /\ loc[x].from \in Nat
  BY DEF TypeOK, Locals
<1>2. Len(held[x]) \in Nat \ {0}
  BY <1>1, EmptySeq
<1>3. i - loc[x].from \in Int
  BY <1>1
<1>4. (i - loc[x].from) % Len(held[x]) \in 0 .. Len(held[x]) - 1
  BY <1>2, <1>3, Remainder
<1>5. ((i - loc[x].from) % Len(held[x])) + 1 \in 1 .. Len(held[x])
  BY <1>2, <1>4
<1>6. DOMAIN held[x] = 1 .. Len(held[x])
  BY <1>1, LenProperties
<1> QED
  BY <1>1, <1>5, <1>6, ElementOfSeq DEF ContainerOf

\* The first container of a call that holds some.
LEMMA FirstContainer ==
  ASSUME NEW x \in Calls, TypeOK, held[x] # <<>>
  PROVE  held[x][1] \in Containers
<1>1. held[x] \in Seq(Containers)
  BY DEF TypeOK
<1> QED
  BY <1>1, EmptySeq, ElementOfSeq

-----------------------------------------------------------------------------
\* IInv by the state it is about.

PoolOK == pool \in [Keys -> Seq(Containers)] /\ permits \in Nat

FilesOK ==
  /\ src \in [Containers -> Programs]
  /\ bin \in [Containers -> Programs]
  /\ inflight \in [Containers -> SUBSET Codes]

CachesOK ==
  /\ rcache \in [Entries -> Outcomes \cup {Missing}]
  /\ acache \in [Artifacts -> Programs \cup {Missing}]

CallsOK ==
  /\ pc \in [Calls -> Outside \cup Inside]
  /\ job \in [Calls -> Jobs \cup {NoJob}]
  /\ held \in [Calls -> Seq(Containers)]
  /\ out \in [Calls -> Seq(Outcomes \cup {Missing})]
  /\ reply \in [Calls -> {"none", "ok", "err", "panic"}]
  /\ loc \in [Calls -> Locals]
  /\ Engaged
  /\ HoldsWhatItUses
  /\ ChunkInRange

\* IInv by parts: the pool and permits, the files, the caches, the calls.
LEMMA Parts == IInv <=> PoolOK /\ FilesOK /\ CachesOK /\ CallsOK
BY DEF IInv, TypeOK, PoolOK, FilesOK, CachesOK, CallsOK

\* The same after a step.
LEMMA PartsNext == IInv' <=> PoolOK' /\ FilesOK' /\ CachesOK' /\ CallsOK'
BY DEF IInv, TypeOK, PoolOK, FilesOK, CachesOK, CallsOK

-----------------------------------------------------------------------------
\* What the helpers of the actions preserve.

\* A call that is not idle has its arguments.
LEMMA Busy ==
  ASSUME IInv, NEW x \in Calls, pc[x] # "idle"
  PROVE  job[x] # NoJob
BY DEF IInv, Engaged

\* The locals of a call that has not begun.
LEMMA NoLocalsType == NoLocals \in Locals
BY DEF NoLocals, Locals

\* An early end leaves nothing behind.
LEMMA AbortKeeps ==
  ASSUME IInv, NEW x \in Calls, NEW r \in {"err", "panic"},
         pc[x] \in Inside, Abort(x, r)
  PROVE  permits' \in Nat /\ CallsOK'
<1> USE DEF IInv, TypeOK, Abort, Goto
<1>1. Inside \cap Outside = {} /\ "replied" \in Outside /\ "idle" \in Outside
  BY DEF Inside, Outside
<1>2. /\ pc' \in [Calls -> Outside \cup Inside]
      /\ reply' \in [Calls -> {"none", "ok", "err", "panic"}]
      /\ loc' \in [Calls -> Locals]
      /\ job' \in [Calls -> Jobs \cup {NoJob}]
      /\ permits' \in Nat
  BY <1>1, NoLocalsType
<1>3. held' \in [Calls -> Seq(Containers)]
  BY EmptySeq
<1>4. out' \in [Calls -> Seq(Outcomes \cup {Missing})]
  BY EmptySeq
<1>5. Engaged'
  BY <1>1 DEF Engaged, NumRequests
<1>6. HoldsWhatItUses'
  BY <1>1 DEF HoldsWhatItUses, NumRequests
<1>7. ChunkInRange'
  BY DEF ChunkInRange, NumRequests, NoLocals
<1> QED
  BY <1>2, <1>3, <1>4, <1>5, <1>6, <1>7 DEF CallsOK

\* Writes into a container.
LEMMA WriteSourceKeeps ==
  ASSUME IInv, NEW c \in Containers, NEW p \in Codes, WriteSource(c, p),
         bin' \in [Containers -> Programs]
  PROVE  FilesOK'
BY DEF IInv, TypeOK, WriteSource, FilesOK, Programs

\* Pops and pushes.
LEMMA PopKeeps ==
  ASSUME IInv, NEW k \in Keys, NEW c, Pop(k, c)
  PROVE  pool' \in [Keys -> Seq(Containers)]
<1>1. pool \in [Keys -> Seq(Containers)] /\ pool[k] \in Seq(Containers)
  BY DEF IInv, TypeOK
<1>2. Len(pool[k]) \in Nat \ {0}
  BY <1>1, EmptySeq DEF Pop
<1>3. \A i \in 1 .. Len(pool[k]) - 1 : pool[k][i] \in Containers
  BY <1>1, <1>2, ElementOfSeq
<1>4. SubSeq(pool[k], 1, Len(pool[k]) - 1) \in Seq(Containers)
  BY <1>2, <1>3, SubSeqProperties
<1> QED
  BY <1>1, <1>4 DEF Pop

\* return_container leaves the pool and the call's containers well typed.
LEMMA PushKeeps ==
  ASSUME IInv, NEW x \in Calls, job[x] # NoJob, Push(x)
  PROVE  /\ pool' \in [Keys -> Seq(Containers)]
         /\ held' \in [Calls -> Seq(Containers)]
         /\ Len(held[x]) = 1 => held'[x] = <<>>
         /\ Len(held[x]) # 1 => held'[x] # <<>>
<1>1. /\ pool \in [Keys -> Seq(Containers)] /\ held \in [Calls -> Seq(Containers)]
      /\ held[x] \in Seq(Containers) /\ held[x] # <<>>
      /\ Key(x) \in Keys
  BY Arguments DEF IInv, TypeOK, Push
<1>2. /\ Head(held[x]) \in Containers /\ Tail(held[x]) \in Seq(Containers)
      /\ Len(Tail(held[x])) = Len(held[x]) - 1
  BY <1>1, HeadTailProperties
<1>3. Append(pool[Key(x)], Head(held[x])) \in Seq(Containers)
  BY <1>1, <1>2, AppendProperties
<1>4. Len(held[x]) \in Nat \ {0}
  BY <1>1, EmptySeq
<1>5. held'[x] = Tail(held[x])
  BY <1>1 DEF Push
<1>6. Tail(held[x]) = <<>> <=> Len(held[x]) - 1 = 0
  BY <1>2, LenZero
<1> QED
  BY <1>1, <1>2, <1>3, <1>4, <1>5, <1>6 DEF Push

\* A call moves on and changes nothing but its place, its reply and its locals.
LEMMA MoveKeeps ==
  ASSUME IInv, NEW x \in Calls, pc[x] \in Inside,
         NEW l \in Inside \ {"get", "extend", "runchunk", "drain"}, Goto(x, l),
         held[x] # <<>>,
         pc[x] # "runchunk" \/ (loc[x].todo = {} /\ loc[x].running = {}),
         UNCHANGED <<job, held>>,
         reply' = reply \/ \E r \in {"ok", "err"} : reply' = [reply EXCEPT ![x] = r],
         loc' = loc \/ \E b \in {"ok", "stderr", "nocmd"} :
                         loc' = [loc EXCEPT ![x].build = b],
         out' \in [Calls -> Seq(Outcomes \cup {Missing})],
         Len(out'[x]) = NumRequests(x), \A y \in Calls \ {x} : out'[y] = out[y]
  PROVE  CallsOK'
<1> USE DEF IInv, TypeOK, Goto
<1>0. Inside \cap Outside = {} /\ "idle" \in Outside /\ "replied" \in Outside
  BY DEF Inside, Outside
<1>1. /\ pc' \in [Calls -> Outside \cup Inside]
      /\ reply' \in [Calls -> {"none", "ok", "err", "panic"}]
      /\ job' \in [Calls -> Jobs \cup {NoJob}]
      /\ held' \in [Calls -> Seq(Containers)]
  OBVIOUS
<1>2. loc' \in [Calls -> Locals]
  <2>1. loc \in [Calls -> Locals] /\ loc[x] \in Locals
    OBVIOUS
  <2>2. \A b \in {"ok", "stderr", "nocmd"} : [loc[x] EXCEPT !.build = b] \in Locals
    BY <2>1 DEF Locals
  <2> QED
    BY <2>1, <2>2
<1>3. /\ loc'[x].todo = loc[x].todo /\ loc'[x].running = loc[x].running
      /\ \A y \in Calls \ {x} : loc'[y] = loc[y]
  BY DEF Locals
<1>4. Engaged'
  BY <1>0 DEF Engaged, NumRequests
<1>5. HoldsWhatItUses'
  BY <1>0, <1>3 DEF HoldsWhatItUses, NumRequests
<1>6. ChunkInRange'
  BY <1>3 DEF ChunkInRange, NumRequests
<1> QED
  BY <1>1, <1>2, <1>4, <1>5, <1>6 DEF CallsOK

\* A result for request i of a call.
LEMMA AnswerKeeps ==
  ASSUME IInv, NEW x \in Calls, pc[x] \in Inside,
         NEW i \in 1 .. NumRequests(x), NEW o \in Outcomes,
         out' = [out EXCEPT ![x] = [@ EXCEPT ![i] = o]]
  PROVE  /\ out' \in [Calls -> Seq(Outcomes \cup {Missing})]
         /\ Len(out'[x]) = NumRequests(x)
         /\ \A y \in Calls \ {x} : out'[y] = out[y]
<1>1. out \in [Calls -> Seq(Outcomes \cup {Missing})]
  BY DEF IInv, TypeOK
<1>2. Len(out[x]) = NumRequests(x)
  BY DEF IInv, Engaged, Inside
<1>3. o \in Outcomes \cup {Missing}
  OBVIOUS
<1>4. /\ [out[x] EXCEPT ![i] = o] \in Seq(Outcomes \cup {Missing})
      /\ Len([out[x] EXCEPT ![i] = o]) = NumRequests(x)
  BY <1>1, <1>2, <1>3, ExceptSeq
<1> QED
  BY <1>1, <1>4

\* An answer from the cache is a result, in the place of its request.
LEMMA ServeKeeps ==
  ASSUME IInv, NEW x \in Calls, pc[x] \in Inside,
         NEW i \in 1 .. NumRequests(x), Serve(x, i)
  PROVE  /\ out' \in [Calls -> Seq(Outcomes \cup {Missing})]
         /\ Len(out'[x]) = NumRequests(x)
         /\ \A y \in Calls \ {x} : out'[y] = out[y]
<1>1. job[x] # NoJob
  BY Busy DEF Inside
<1>2. Entry(x, i) \in Entries
  BY <1>1, Arguments DEF IInv, TypeOK
<1>3. rcache[Entry(x, i)] \in Outcomes
  BY <1>2 DEF IInv, TypeOK, Serve, ResultHit
<1> QED
  BY <1>3, AnswerKeeps DEF Serve

\* So is the answer of a run, and only results get into the cache.
LEMMA RunRequestKeeps ==
  ASSUME IInv, NEW x \in Calls, pc[x] \in Inside, NEW c \in Containers,
         NEW i \in 1 .. NumRequests(x), RunRequest(x, i, c)
  PROVE  /\ out' \in [Calls -> Seq(Outcomes \cup {Missing})]
         /\ Len(out'[x]) = NumRequests(x)
         /\ \A y \in Calls \ {x} : out'[y] = out[y]
         /\ rcache' \in [Entries -> Outcomes \cup {Missing}]
<1>1. job[x] # NoJob
  BY Busy DEF Inside
<1>2. PICK o \in RunResults(x, i, c) :
        /\ out' = [out EXCEPT ![x] = [@ EXCEPT ![i] = o]]
        /\ StoreResult(x, i, o)
  BY DEF RunRequest
<1>3. o \in Outcomes
  BY <1>1, RunResultsType DEF IInv
<1>4. rcache' \in [Entries -> Outcomes \cup {Missing}]
  BY <1>2, <1>3 DEF IInv, TypeOK, StoreResult
<1> QED
  BY <1>2, <1>3, <1>4, AnswerKeeps

\* What a call that changes none of its results keeps of them.
LEMMA SameResults ==
  ASSUME IInv, NEW x \in Calls, pc[x] \in Inside, out' = out
  PROVE  /\ out' \in [Calls -> Seq(Outcomes \cup {Missing})]
         /\ Len(out'[x]) = NumRequests(x)
         /\ \A y \in Calls \ {x} : out'[y] = out[y]
BY DEF IInv, TypeOK, Engaged, Inside

-----------------------------------------------------------------------------
\* One lemma per action: it preserves IInv.

\* A call begins with one empty place per request.
LEMMA BeginKeeps == ASSUME IInv, NEW x \in Calls, Begin(x) PROVE IInv'
<1> USE DEF IInv, TypeOK, Begin, Goto
<1>1. PoolOK' /\ FilesOK' /\ CachesOK'
  BY DEF poolVars, fileVars, cacheVars, PoolOK, FilesOK, CachesOK
<1>2. PICK j \in Jobs :
        /\ job' = [job EXCEPT ![x] = j]
        /\ out' = [out EXCEPT ![x] = [i \in DOMAIN j.stdins |-> Missing]]
  OBVIOUS
<1>3. j \in JobType /\ j # NoJob /\ j.stdins \in Seq(Stdins)
  BY SandboxAssumption DEF SandboxAssumption, JobType
<1>4. /\ [i \in DOMAIN j.stdins |-> Missing] \in Seq(Outcomes \cup {Missing})
      /\ Len([i \in DOMAIN j.stdins |-> Missing]) = Len(j.stdins)
  BY <1>3, LenProperties
<1>5. /\ out' \in [Calls -> Seq(Outcomes \cup {Missing})]
      /\ Len(out'[x]) = Len(j.stdins)
  BY <1>2, <1>4
<1>6. /\ pc' \in [Calls -> Outside \cup Inside] /\ job' \in [Calls -> Jobs \cup {NoJob}]
      /\ "acquire" \in Outside \ Inside /\ "replied" \notin Inside
  BY <1>2 DEF Inside, Outside
<1>7. Engaged'
  BY <1>2, <1>3, <1>5 DEF Engaged, NumRequests
<1>8. HoldsWhatItUses' /\ ChunkInRange'
  BY <1>2, <1>6 DEF HoldsWhatItUses, ChunkInRange, NumRequests, Inside, Outside
<1> QED
  BY <1>1, <1>5, <1>6, <1>7, <1>8, PartsNext DEF CallsOK

\* The caller takes the reply.
LEMMA CollectKeeps == ASSUME IInv, NEW x \in Calls, Collect(x) PROVE IInv'
<1> USE DEF IInv, TypeOK, Collect, Goto
<1>1. PoolOK' /\ FilesOK' /\ CachesOK'
  BY DEF poolVars, fileVars, cacheVars, PoolOK, FilesOK, CachesOK
<1>2. /\ pc' \in [Calls -> Outside \cup Inside]
      /\ job' \in [Calls -> Jobs \cup {NoJob}]
      /\ reply' \in [Calls -> {"none", "ok", "err", "panic"}]
      /\ out' \in [Calls -> Seq(Outcomes \cup {Missing})]
  BY EmptySeq DEF Outside
<1>3. Engaged' /\ HoldsWhatItUses' /\ ChunkInRange'
  BY DEF Engaged, HoldsWhatItUses, ChunkInRange, NumRequests, Inside, Outside
<1> QED
  BY <1>1, <1>2, <1>3, PartsNext DEF CallsOK

\* A dropped future leaves no call half in the semaphore.
LEMMA CancelKeeps == ASSUME IInv, NEW x \in Calls, Cancel(x) PROVE IInv'
<1> USE DEF IInv, TypeOK, Cancel, Goto
<1>1. PoolOK' /\ FilesOK' /\ CachesOK'
  BY DEF poolVars, fileVars, cacheVars, PoolOK, FilesOK, CachesOK
<1>2. /\ pc' \in [Calls -> Outside \cup Inside]
      /\ job' \in [Calls -> Jobs \cup {NoJob}]
      /\ reply' \in [Calls -> {"none", "ok", "err", "panic"}]
      /\ out' \in [Calls -> Seq(Outcomes \cup {Missing})]
      /\ held' \in [Calls -> Seq(Containers)]
      /\ loc' \in [Calls -> Locals]
  BY EmptySeq, NoLocalsType DEF Outside
<1>3. Engaged' /\ HoldsWhatItUses' /\ ChunkInRange'
  BY DEF Engaged, HoldsWhatItUses, ChunkInRange, NumRequests, Inside, Outside, NoLocals
<1> QED
  BY <1>1, <1>2, <1>3, PartsNext DEF CallsOK

\* The permit is taken only if there is one.
LEMMA EnterKeeps == ASSUME IInv, NEW x \in Calls, Enter(x) PROVE IInv'
<1> USE DEF IInv, TypeOK, Enter, Goto
<1>1. PoolOK' /\ FilesOK' /\ CachesOK'
  BY DEF fileVars, cacheVars, PoolOK, FilesOK, CachesOK
<1>2. /\ pc' \in [Calls -> Outside \cup Inside]
      /\ reply' \in [Calls -> {"none", "ok", "err", "panic"}]
  BY DEF Outside, Inside
<1>3. Engaged'
  BY DEF Engaged, NumRequests
<1>4. HoldsWhatItUses' /\ ChunkInRange'
  BY DEF HoldsWhatItUses, ChunkInRange, NumRequests, Inside, Outside
<1> QED
  BY <1>1, <1>2, <1>3, <1>4, PartsNext DEF CallsOK

\* With its first container the call may go where containers are used.
LEMMA TakeFirstKeeps == ASSUME IInv, NEW x \in Calls, TakeFirst(x) PROVE IInv'
<1>1. pc[x] = "get" /\ pc[x] \in Inside /\ job[x] # NoJob /\ Key(x) \in Keys
  BY Busy, Arguments DEF IInv, TypeOK, TakeFirst, Inside
<1>2. FilesOK' /\ CachesOK'
  BY DEF IInv, TypeOK, TakeFirst, fileVars, cacheVars, FilesOK, CachesOK
<1>3. ASSUME NEW r \in {"err", "panic"}, Abort(x, r), UNCHANGED pool
      PROVE  IInv'
  <2>1. permits' \in Nat /\ CallsOK'
    BY <1>1, <1>3, AbortKeeps
  <2>2. PoolOK'
    BY <1>3, <2>1 DEF PoolOK, IInv, TypeOK
  <2> QED
    BY <1>2, <2>1, <2>2, PartsNext
<1>4. ASSUME NEW c \in Containers,
             Pop(Key(x), c),
             held' = [held EXCEPT ![x] = <<c>>],
             Goto(x, IF Key(x) \in Compiled THEN "artifact" ELSE "built"),
             UNCHANGED <<permits, job, out, reply, loc>>
      PROVE  IInv'
  <2> USE DEF IInv, TypeOK, Goto
  <2>1. PoolOK'
    BY <1>1, <1>4, PopKeeps DEF PoolOK
  <2>2. <<c>> \in Seq(Containers) /\ <<c>> # <<>>
    OBVIOUS
  <2>3. /\ pc' \in [Calls -> Outside \cup Inside]
        /\ held' \in [Calls -> Seq(Containers)]
    BY <1>4, <2>2 DEF Inside
  <2>4. Engaged' /\ HoldsWhatItUses' /\ ChunkInRange'
    BY <1>1, <1>4, <2>2
       DEF Engaged, HoldsWhatItUses, ChunkInRange, NumRequests, Inside, Outside
  <2>5. CallsOK'
    BY <1>4, <2>3, <2>4 DEF CallsOK
  <2> QED
    BY <1>2, <2>1, <2>5, PartsNext
<1> QED
  BY <1>3, <1>4 DEF TakeFirst, Fail

\* The call leaves when its last container is back.
LEMMA GiveBackKeeps == ASSUME IInv, NEW x \in Calls, GiveBack(x) PROVE IInv'
<1>1. /\ pc[x] = "giveback" /\ pc[x] \in Inside /\ job[x] # NoJob
      /\ loc[x].todo = {} /\ loc[x].running = {}
  BY Busy DEF IInv, ChunkInRange, GiveBack, Inside
<1>2. /\ pool' \in [Keys -> Seq(Containers)]
      /\ held' \in [Calls -> Seq(Containers)]
      /\ Len(held[x]) = 1 => held'[x] = <<>>
      /\ Len(held[x]) # 1 => held'[x] # <<>>
      /\ \A y \in Calls \ {x} : held'[y] = held[y]
  BY <1>1, PushKeeps DEF GiveBack, Push, IInv, TypeOK
<1>3. FilesOK' /\ CachesOK' /\ PoolOK'
  BY <1>2 DEF IInv, TypeOK, GiveBack, fileVars, cacheVars, FilesOK, CachesOK, PoolOK
<1>4. UNCHANGED <<job, out, reply>>
  BY DEF GiveBack
<1>5. CASE Len(held[x]) = 1
  <2>1. Goto(x, "replied") /\ loc' = [loc EXCEPT ![x] = NoLocals]
    BY <1>5 DEF GiveBack
  <2>2. pc' \in [Calls -> Outside \cup Inside] /\ loc' \in [Calls -> Locals]
    BY <2>1, NoLocalsType DEF IInv, TypeOK, Goto, Outside
  <2>3. Engaged' /\ HoldsWhatItUses' /\ ChunkInRange'
    BY <1>1, <1>2, <1>4, <1>5, <2>1
       DEF IInv, TypeOK, Goto, Engaged, HoldsWhatItUses, ChunkInRange, NumRequests,
           Inside, Outside, NoLocals
  <2> QED
    BY <1>2, <1>3, <1>4, <2>2, <2>3, PartsNext DEF CallsOK, IInv, TypeOK
<1>6. CASE Len(held[x]) # 1
  <2>1. UNCHANGED <<pc, loc>>
    BY <1>6 DEF GiveBack
  <2>2. Engaged' /\ HoldsWhatItUses' /\ ChunkInRange'
    BY <1>1, <1>2, <1>4, <1>6, <2>1
       DEF IInv, TypeOK, Engaged, HoldsWhatItUses, ChunkInRange, NumRequests,
           Inside, Outside
  <2> QED
    BY <1>2, <1>3, <1>4, <2>1, <2>2, PartsNext DEF CallsOK, IInv, TypeOK
<1> QED
  BY <1>5, <1>6

\* The program is written, or the container returned, or the call ends.
LEMMA WriteFileKeeps == ASSUME IInv, NEW x \in Calls, WriteFile(x) PROVE IInv'
<1>1. /\ pc[x] = "write" /\ pc[x] \in Inside /\ job[x] # NoJob /\ held[x] # <<>>
      /\ loc[x].todo = {} /\ loc[x].running = {}
      /\ "run" \in Inside /\ "giveback" \in Inside
  BY Busy DEF IInv, HoldsWhatItUses, ChunkInRange, WriteFile, Inside
<1>2. held[x][1] \in Containers /\ Code(x) \in Codes
  BY <1>1, FirstContainer, Arguments DEF IInv, TypeOK
<1>3. FilesOK'
  BY <1>2, WriteSourceKeeps DEF WriteFile, IInv, TypeOK, FilesOK
<1>4. CachesOK' /\ pool' = pool
  BY DEF IInv, TypeOK, WriteFile, cacheVars, CachesOK
<1>5. CASE Fail(x)
  <2>1. permits' \in Nat /\ CallsOK'
    BY <1>1, <1>5, AbortKeeps DEF Fail
  <2> QED
    BY <1>3, <1>4, <2>1, PartsNext DEF PoolOK, IInv, TypeOK
<1>6. CASE ~Fail(x)
  <2>1. /\ (Goto(x, "run") /\ UNCHANGED reply) \/ Leave(x, "err")
        /\ UNCHANGED <<permits, held, out, loc, job>>
    BY <1>6 DEF WriteFile
  <2>2. PICK l \in {"run", "giveback"} : Goto(x, l)
    BY <2>1 DEF Leave
  <2>3. CallsOK'
    BY <1>1, <2>1, <2>2, SameResults, MoveKeeps DEF Leave
  <2> QED
    BY <1>3, <1>4, <2>1, <2>3, PartsNext DEF PoolOK, IInv, TypeOK
<1> QED
  BY <1>5, <1>6

-----------------------------------------------------------------------------
\* The compilers.

\* The compiler's verdict is recorded.
LEMMA BuiltKeeps ==
  ASSUME IInv, NEW x \in Calls, pc[x] \in {"artifact", "compile"},
         NEW b \in {"ok", "stderr", "nocmd"}, Built(x, b)
  PROVE  CallsOK' /\ permits' = permits
<1>1. /\ pc[x] \in Inside /\ held[x] # <<>> /\ "built" \in Inside
      /\ loc[x].todo = {} /\ loc[x].running = {}
  BY DEF IInv, HoldsWhatItUses, ChunkInRange, Inside
<1> QED
  BY <1>1, SameResults, MoveKeeps DEF Built

\* A cached artifact is a program.
LEMMA UseArtifactKeeps == ASSUME IInv, NEW x \in Calls, UseArtifact(x) PROVE IInv'
<1>1. /\ pc[x] = "artifact" /\ pc[x] \in Inside /\ job[x] # NoJob /\ held[x] # <<>>
  BY Busy DEF IInv, HoldsWhatItUses, UseArtifact, Inside
<1>2. held[x][1] \in Containers /\ Code(x) \in Codes /\ Artifact(x) \in Artifacts
  BY <1>1, FirstContainer, Arguments DEF IInv, TypeOK
<1>3. acache[Artifact(x)] \in Programs
  BY <1>2 DEF IInv, TypeOK, UseArtifact, ArtifactHit
<1>4. bin' \in [Containers -> Programs]
  BY <1>2, <1>3 DEF UseArtifact, IInv, TypeOK, fileVars
<1>5. FilesOK'
  BY <1>2, <1>4, WriteSourceKeeps DEF UseArtifact, IInv, TypeOK, FilesOK, fileVars
<1>6. CallsOK' /\ permits' \in Nat
  BY <1>1, BuiltKeeps, AbortKeeps DEF UseArtifact, Fail, IInv, TypeOK
<1> QED
  BY <1>5, <1>6, PartsNext
     DEF UseArtifact, IInv, TypeOK, PoolOK, CachesOK, cacheVars

\* The source file of a compiled program.
LEMMA WriteProgramKeeps == ASSUME IInv, NEW x \in Calls, WriteProgram(x) PROVE IInv'
<1>1. /\ pc[x] = "artifact" /\ pc[x] \in Inside /\ job[x] # NoJob /\ held[x] # <<>>
      /\ loc[x].todo = {} /\ loc[x].running = {} /\ "compile" \in Inside
  BY Busy DEF IInv, HoldsWhatItUses, ChunkInRange, WriteProgram, Inside
<1>2. held[x][1] \in Containers /\ Code(x) \in Codes
  BY <1>1, FirstContainer, Arguments DEF IInv, TypeOK
<1>3. FilesOK'
  BY <1>2, WriteSourceKeeps DEF WriteProgram, IInv, TypeOK, FilesOK
<1>4. CallsOK' /\ permits' \in Nat
  <2>1. CASE Fail(x)
    BY <1>1, <2>1, AbortKeeps DEF Fail
  <2>2. CASE Goto(x, "compile") /\ UNCHANGED <<permits, job, held, out, reply, loc>>
    BY <1>1, <2>2, SameResults, MoveKeeps DEF IInv, TypeOK
  <2> QED
    BY <2>1, <2>2 DEF WriteProgram
<1> QED
  BY <1>3, <1>4, PartsNext
     DEF WriteProgram, IInv, TypeOK, PoolOK, CachesOK, cacheVars

\* What the compiler makes is a program, in the container and in the cache.
LEMMA CompileKeeps == ASSUME IInv, NEW x \in Calls, Compile(x) PROVE IInv'
<1>1. /\ pc[x] = "compile" /\ pc[x] \in Inside /\ job[x] # NoJob /\ held[x] # <<>>
  BY Busy DEF IInv, HoldsWhatItUses, Compile, Inside
<1>2. held[x][1] \in Containers
  BY <1>1, FirstContainer DEF IInv
<1>3. Output(src[held[x][1]], bin[held[x][1]]) \in Programs
  BY <1>2 DEF Output, IInv, TypeOK
<1>4. FilesOK' /\ CachesOK' /\ pool' = pool
  BY <1>2, <1>3 DEF Compile, IInv, TypeOK, FilesOK, CachesOK
<1>5. CallsOK' /\ permits' \in Nat
  BY <1>1, BuiltKeeps, AbortKeeps DEF Compile, Fail, IInv, TypeOK
<1> QED
  BY <1>4, <1>5, PartsNext DEF IInv, TypeOK, PoolOK

-----------------------------------------------------------------------------
\* execute.

\* A compile error, a cached result, or a miss.
LEMMA LookupSingleKeeps == ASSUME IInv, NEW x \in Calls, LookupSingle(x) PROVE IInv'
<1>1. /\ pc[x] = "built" /\ pc[x] \in Inside /\ job[x] # NoJob /\ held[x] # <<>>
      /\ loc[x].todo = {} /\ loc[x].running = {}
      /\ "run" \in Inside /\ "write" \in Inside /\ "giveback" \in Inside
  BY Busy DEF IInv, HoldsWhatItUses, ChunkInRange, LookupSingle, Inside
<1>2. PoolOK' /\ FilesOK' /\ CachesOK'
  BY DEF LookupSingle, IInv, TypeOK, poolVars, fileVars, cacheVars, PoolOK, FilesOK, CachesOK
<1>3. /\ NumRequests(x) = 1 /\ 1 \in 1 .. NumRequests(x)
      /\ Stdin(x, 1) \in Stdins /\ Code(x) \in Codes
  BY <1>1, Arguments, SingleArguments DEF IInv, TypeOK, LookupSingle
<1>4. /\ out' \in [Calls -> Seq(Outcomes \cup {Missing})]
      /\ Len(out'[x]) = NumRequests(x)
      /\ \A y \in Calls \ {x} : out'[y] = out[y]
  <2>1. CASE Serve(x, 1)
    BY <1>1, <1>3, <2>1, ServeKeeps
  <2>2. CASE out' = out
    BY <1>1, <2>2, SameResults
  <2>3. CASE out' = [out EXCEPT ![x] = <<[prog |-> Code(x), stdin |-> Stdin(x, 1),
                                          end |-> "compile_error"]>>]
    <3>1. [prog |-> Code(x), stdin |-> Stdin(x, 1), end |-> "compile_error"] \in Outcomes
      BY <1>3 DEF Outcomes, Programs
    <3> QED
      BY <1>3, <2>3, <3>1 DEF IInv, TypeOK
  <2> QED
    BY <2>1, <2>2, <2>3 DEF LookupSingle
<1>5. PICK l \in {"run", "write", "giveback"} : Goto(x, l)
  BY DEF LookupSingle, Leave
<1>6. CallsOK'
  BY <1>1, <1>4, <1>5, MoveKeeps DEF LookupSingle, Leave
<1> QED
  BY <1>2, <1>6, PartsNext

\* The run of a single request.
LEMMA RunSingleKeeps == ASSUME IInv, NEW x \in Calls, RunSingle(x) PROVE IInv'
<1>1. /\ pc[x] = "run" /\ pc[x] \in Inside /\ job[x] # NoJob /\ held[x] # <<>>
      /\ loc[x].todo = {} /\ loc[x].running = {} /\ "giveback" \in Inside
  BY Busy DEF IInv, HoldsWhatItUses, ChunkInRange, RunSingle, Inside
<1>2. held[x][1] \in Containers /\ 1 \in 1 .. NumRequests(x)
  BY <1>1, FirstContainer, Arguments DEF IInv, TypeOK
<1>3. FilesOK' /\ pool' = pool /\ acache' = acache
  BY DEF RunSingle, IInv, TypeOK, fileVars, FilesOK
<1>4. CASE Fail(x) /\ UNCHANGED rcache
  BY <1>1, <1>3, <1>4, AbortKeeps, PartsNext DEF Fail, IInv, TypeOK, PoolOK, CachesOK
<1>5. CASE RunRequest(x, 1, held[x][1]) /\ Leave(x, "ok") /\ UNCHANGED <<permits, held, job, loc>>
  <2>1. CallsOK' /\ CachesOK'
    BY <1>1, <1>2, <1>3, <1>5, RunRequestKeeps, MoveKeeps
       DEF Leave, CachesOK, IInv, TypeOK
  <2> QED
    BY <1>3, <1>5, <2>1, PartsNext DEF PoolOK, IInv, TypeOK
<1>6. CASE Leave(x, "err") /\ UNCHANGED <<permits, held, job, loc, out, rcache>>
  <2>1. CallsOK'
    BY <1>1, <1>6, SameResults, MoveKeeps DEF Leave
  <2> QED
    BY <1>3, <1>6, <2>1, PartsNext DEF PoolOK, CachesOK, IInv, TypeOK
<1> QED
  BY <1>4, <1>5, <1>6 DEF RunSingle

-----------------------------------------------------------------------------
\* execute_batch.

\* A cached first result, or a miss.
LEMMA LookupFirstKeeps == ASSUME IInv, NEW x \in Calls, LookupFirst(x) PROVE IInv'
<1>1. /\ pc[x] = "built" /\ pc[x] \in Inside /\ job[x] # NoJob /\ held[x] # <<>>
      /\ loc[x].todo = {} /\ loc[x].running = {}
      /\ "run" \in Inside /\ "write" \in Inside /\ "check" \in Inside
  BY Busy DEF IInv, HoldsWhatItUses, ChunkInRange, LookupFirst, Inside
<1>2. PoolOK' /\ FilesOK' /\ CachesOK'
  BY DEF LookupFirst, IInv, TypeOK, poolVars, fileVars, cacheVars, PoolOK, FilesOK, CachesOK
<1>3. 1 \in 1 .. NumRequests(x)
  BY <1>1, Arguments DEF IInv, TypeOK
<1>4. /\ out' \in [Calls -> Seq(Outcomes \cup {Missing})]
      /\ Len(out'[x]) = NumRequests(x)
      /\ \A y \in Calls \ {x} : out'[y] = out[y]
  <2>1. CASE Serve(x, 1)
    BY <1>1, <1>3, <2>1, ServeKeeps
  <2>2. CASE out' = out
    BY <1>1, <2>2, SameResults
  <2> QED
    BY <2>1, <2>2 DEF LookupFirst
<1>5. PICK l \in {"run", "write", "check"} : Goto(x, l)
  BY DEF LookupFirst
<1>6. CallsOK'
  BY <1>1, <1>4, <1>5, MoveKeeps DEF LookupFirst
<1> QED
  BY <1>2, <1>6, PartsNext

\* The run of the first request of a batch.
LEMMA RunFirstKeeps == ASSUME IInv, NEW x \in Calls, RunFirst(x) PROVE IInv'
<1>1. /\ pc[x] = "run" /\ pc[x] \in Inside /\ job[x] # NoJob /\ held[x] # <<>>
      /\ loc[x].todo = {} /\ loc[x].running = {}
      /\ "giveback" \in Inside /\ "check" \in Inside
  BY Busy DEF IInv, HoldsWhatItUses, ChunkInRange, RunFirst, Inside
<1>2. held[x][1] \in Containers /\ 1 \in 1 .. NumRequests(x)
  BY <1>1, FirstContainer, Arguments DEF IInv, TypeOK
<1>3. FilesOK' /\ pool' = pool /\ acache' = acache
  BY DEF RunFirst, IInv, TypeOK, fileVars, FilesOK
<1>4. CASE Fail(x) /\ UNCHANGED rcache
  BY <1>1, <1>3, <1>4, AbortKeeps, PartsNext DEF Fail, IInv, TypeOK, PoolOK, CachesOK
<1>5. CASE /\ RunRequest(x, 1, held[x][1]) /\ Goto(x, "check")
           /\ UNCHANGED <<permits, held, job, loc, reply>>
  <2>1. CallsOK' /\ CachesOK'
    BY <1>1, <1>2, <1>3, <1>5, RunRequestKeeps, MoveKeeps DEF CachesOK, IInv, TypeOK
  <2> QED
    BY <1>3, <1>5, <2>1, PartsNext DEF PoolOK, IInv, TypeOK
<1>6. CASE Leave(x, "err") /\ UNCHANGED <<permits, held, job, loc, out, rcache>>
  <2>1. CallsOK'
    BY <1>1, <1>6, SameResults, MoveKeeps DEF Leave
  <2> QED
    BY <1>3, <1>6, <2>1, PartsNext DEF PoolOK, CachesOK, IInv, TypeOK
<1> QED
  BY <1>4, <1>5, <1>6 DEF RunFirst

\* The results of a batch that ends with its first request.
LEMMA SkippedResults ==
  ASSUME IInv, NEW x \in Calls, pc[x] \in Inside, NEW f \in Outcomes \cup {Missing},
         out' = [out EXCEPT ![x] = [i \in DOMAIN @ |-> IF i = 1 THEN f ELSE Skipped(x, i)]]
  PROVE  /\ out' \in [Calls -> Seq(Outcomes \cup {Missing})]
         /\ Len(out'[x]) = NumRequests(x)
         /\ \A y \in Calls \ {x} : out'[y] = out[y]
<1>1. /\ out[x] \in Seq(Outcomes \cup {Missing})
      /\ Len(out[x]) = NumRequests(x)
      /\ job[x] # NoJob
  BY Busy DEF IInv, TypeOK, Engaged, Inside
<1>2. /\ NumRequests(x) \in Nat /\ DOMAIN out[x] = 1 .. NumRequests(x)
      /\ \A i \in 1 .. NumRequests(x) : Stdin(x, i) \in Stdins
  BY <1>1, Arguments, LenProperties DEF IInv, TypeOK
<1>3. \A i \in 1 .. NumRequests(x) : Skipped(x, i) \in Outcomes
  BY <1>2 DEF Skipped, Outcomes, Programs
<1> DEFINE r == [i \in DOMAIN out[x] |-> IF i = 1 THEN f ELSE Skipped(x, i)]
<1>4. r \in [1 .. NumRequests(x) -> Outcomes \cup {Missing}]
  BY <1>2, <1>3
<1>5. r \in Seq(Outcomes \cup {Missing}) /\ Len(r) = NumRequests(x)
  BY <1>2, <1>4
<1> HIDE DEF r
<1>6. out' = [out EXCEPT ![x] = r]
  BY DEF r, IInv, TypeOK
<1> QED
  BY <1>5, <1>6 DEF IInv, TypeOK

\* A call moves on inside the semaphore: what is to be shown of its own state.
LEMMA StepKeeps ==
  ASSUME IInv, NEW x \in Calls, NEW l \in Inside,
         NEW h \in Seq(Containers), NEW r \in Locals,
         pc[x] \in Inside,
         pc' = [pc EXCEPT ![x] = l], job' = job,
         held' = [held EXCEPT ![x] = h],
         loc' = [loc EXCEPT ![x] = r],
         reply' \in [Calls -> {"none", "ok", "err", "panic"}],
         out' \in [Calls -> Seq(Outcomes \cup {Missing})],
         Len(out'[x]) = NumRequests(x), \A y \in Calls \ {x} : out'[y] = out[y],
         l \notin {"get", "extend"} => h # <<>>,
         l = "get" => h = <<>>,
         l = "extend" /\ h = <<>> => r.from <= NumRequests(x),
         l = "drain" => r.from + r.size <= NumRequests(x),
         IF l = "runchunk" THEN r.todo \cup r.running \subseteq 2 .. NumRequests(x)
                           ELSE r.todo = {} /\ r.running = {}
  PROVE  CallsOK'
<1> USE DEF IInv, TypeOK
<1>1. /\ pc' \in [Calls -> Outside \cup Inside]
      /\ job' \in [Calls -> Jobs \cup {NoJob}]
      /\ held' \in [Calls -> Seq(Containers)]
      /\ loc' \in [Calls -> Locals]
  OBVIOUS
<1>2. /\ pc'[x] = l /\ held'[x] = h /\ loc'[x] = r
      /\ \A y \in Calls \ {x} : pc'[y] = pc[y] /\ held'[y] = held[y] /\ loc'[y] = loc[y]
  OBVIOUS
<1>3. Engaged'
  BY <1>2 DEF Engaged, NumRequests, Inside
<1>4. HoldsWhatItUses'
  BY <1>2 DEF HoldsWhatItUses, NumRequests, Inside, Outside
<1>5. ChunkInRange'
  BY <1>2 DEF ChunkInRange, NumRequests
<1> QED
  BY <1>1, <1>3, <1>4, <1>5 DEF CallsOK

\* Updates of the locals of a batch.
LEMMA SetParallel ==
  ASSUME NEW q \in Locals, NEW m \in Nat, NEW n \in Nat
  PROVE  LET r == [q EXCEPT !.maxPar = m, !.left = n]
         IN  r \in Locals /\ r.todo = q.todo /\ r.running = q.running
BY DEF Locals

\* One iteration of the container loop is done.
LEMMA SetLeft ==
  ASSUME NEW q \in Locals, NEW n \in Nat
  PROVE  LET r == [q EXCEPT !.left = n]
         IN  /\ r \in Locals /\ r.todo = q.todo /\ r.running = q.running
             /\ r.from = q.from /\ r.size = q.size
BY DEF Locals

\* The next chunk.
LEMMA SetNext ==
  ASSUME NEW q \in Locals, NEW m \in Nat \ {0, 1}, NEW n \in Nat
  PROVE  LET r == [q EXCEPT !.left = n, !.from = m]
         IN  /\ r \in Locals /\ r.todo = q.todo /\ r.running = q.running
             /\ r.from = m
BY DEF Locals

\* Answers fills one place per request, and max_parallel is not negative.
LEMMA CheckFirstKeeps == ASSUME IInv, NEW x \in Calls, CheckFirst(x) PROVE IInv'
<1>1. /\ pc[x] = "check" /\ pc[x] \in Inside /\ job[x] # NoJob /\ held[x] # <<>>
      /\ loc[x].todo = {} /\ loc[x].running = {}
      /\ "giveback" \in Inside /\ "extend" \in Inside
  BY Busy DEF IInv, HoldsWhatItUses, ChunkInRange, CheckFirst, Inside
<1>2. PoolOK' /\ FilesOK' /\ CachesOK' /\ UNCHANGED <<job, held>>
  BY DEF CheckFirst, IInv, TypeOK, poolVars, fileVars, cacheVars, PoolOK, FilesOK, CachesOK
<1>3. /\ NumRequests(x) \in Nat \ {0} /\ 1 \in 1 .. NumRequests(x)
      /\ Stdin(x, 1) \in Stdins /\ Code(x) \in Codes
  BY <1>1, Arguments DEF IInv, TypeOK
<1>4. out[x] \in Seq(Outcomes \cup {Missing}) /\ Len(out[x]) = NumRequests(x)
  BY <1>1, SameResults DEF IInv, TypeOK, Engaged
<1> DEFINE f == IF loc[x].build = "stderr"
                  THEN [prog |-> Code(x), stdin |-> Stdin(x, 1), end |-> "compile_error"]
                  ELSE out[x][1]
           max == Lesser(permits, NumRequests(x) - 1)
<1>5. f \in Outcomes \cup {Missing}
  BY <1>3, <1>4, ElementOfSeq DEF Outcomes, Programs
<1>6. max \in Nat
  BY <1>3 DEF Lesser, IInv, TypeOK
<1>7. CASE /\ out' = [out EXCEPT ![x] = Answers(x, f)]
           /\ Leave(x, "ok")
           /\ UNCHANGED loc
  <2> HIDE DEF f
  <2>1. /\ out' \in [Calls -> Seq(Outcomes \cup {Missing})]
        /\ Len(out'[x]) = NumRequests(x)
        /\ \A y \in Calls \ {x} : out'[y] = out[y]
    BY <1>1, <1>5, <1>7, SkippedResults DEF Answers
  <2> QED
    BY <1>1, <1>2, <1>7, <2>1, MoveKeeps, PartsNext DEF Leave
<1>8. CASE /\ loc' = [loc EXCEPT ![x].maxPar = max,
                        ![x].left = Iterations(max)]
           /\ Goto(x, "extend")
           /\ UNCHANGED <<out, reply>>
  <2> HIDE DEF max
  <2> DEFINE r == [loc[x] EXCEPT !.maxPar = max, !.left = Iterations(max)]
  <2>1. /\ r \in Locals /\ r.todo = {} /\ r.running = {}
    <3>1. loc[x] \in Locals
      BY DEF IInv, TypeOK
    <3>2. Iterations(max) \in Nat
      BY <1>6 DEF Iterations
    <3> QED
      BY <1>1, <1>6, <3>1, <3>2, SetParallel
  <2>2. loc' = [loc EXCEPT ![x] = r]
    BY <1>8 DEF IInv, TypeOK, Locals
  <2> HIDE DEF r
  <2>3. held[x] \in Seq(Containers) /\ held' = [held EXCEPT ![x] = held[x]]
    BY <1>2 DEF IInv, TypeOK
  <2>4. CallsOK'
    BY <1>1, <1>2, <1>8, <2>1, <2>2, <2>3, SameResults, StepKeeps DEF Goto, IInv, TypeOK
  <2> QED
    BY <1>2, <2>4, PartsNext
<1> QED
  BY <1>7, <1>8 DEF CheckFirst

\* A container taken for a batch is loaded by a write or an upload.
LEMMA LoadKeeps ==
  ASSUME IInv, NEW x \in Calls, job[x] # NoJob, NEW c \in Containers, Load(x, c)
  PROVE  FilesOK'
<1>1. Code(x) \in Codes /\ Artifact(x) \in Artifacts
  BY Arguments DEF IInv, TypeOK
<1>2. ArtifactHit(x) => acache[Artifact(x)] \in Programs
  BY <1>1 DEF ArtifactHit, IInv, TypeOK
<1>3. bin' \in [Containers -> Programs]
  BY <1>2 DEF Load, IInv, TypeOK, fileVars
<1> QED
  BY <1>1, <1>3, WriteSourceKeeps DEF Load, FilesOK, IInv, TypeOK, fileVars

\* The locals and the results of a call that keeps its reply.
LEMMA CallTypes ==
  ASSUME IInv, NEW x \in Calls
  PROVE  /\ loc[x] \in Locals /\ held[x] \in Seq(Containers)
         /\ reply' = reply => reply' \in [Calls -> {"none", "ok", "err", "panic"}]
         /\ held' = held => held' = [held EXCEPT ![x] = held[x]]
         /\ pc' = pc => pc' = [pc EXCEPT ![x] = pc[x]]
BY DEF IInv, TypeOK

\* The locals that bound a chunk are numbers.
LEMMA LocalsTypes ==
  ASSUME NEW r \in Locals
  PROVE  /\ r.left \in Nat /\ r.from \in Nat \ {0, 1} /\ r.size \in Nat /\ r.maxPar \in Nat
         /\ r.todo \in SUBSET Nat /\ r.running \in SUBSET Nat /\ r.failed \in BOOLEAN
BY DEF Locals

\* The same for a call that stays in the loop that takes containers.
LEMMA StayKeeps ==
  ASSUME IInv, NEW x \in Calls,
         NEW h \in Seq(Containers), NEW r \in Locals,
         pc[x] = "extend", pc' = [pc EXCEPT ![x] = "extend"], job' = job,
         held' = [held EXCEPT ![x] = h],
         loc' = [loc EXCEPT ![x] = r],
         reply' \in [Calls -> {"none", "ok", "err", "panic"}],
         out' \in [Calls -> Seq(Outcomes \cup {Missing})],
         Len(out'[x]) = NumRequests(x), \A y \in Calls \ {x} : out'[y] = out[y],
         h = <<>> => r.from <= NumRequests(x),
         r.todo = {}, r.running = {}
  PROVE  CallsOK'
<1>1. "extend" \in Inside /\ "extend" # "get" /\ "extend" # "drain" /\ "extend" # "runchunk"
  BY DEF Inside
<1> QED
  BY <1>1, StepKeeps

\* A container more, or none, or an early end.
LEMMA ExtendKeeps == ASSUME IInv, NEW x \in Calls, Extend(x) PROVE IInv'
<1>1. /\ pc[x] = "extend" /\ pc[x] \in Inside /\ "extend" \in Inside
      /\ loc[x].left > 0 /\ UNCHANGED cacheVars
  BY DEF Extend, Inside
<1>2. job[x] # NoJob
  BY <1>1, Busy
<1>3. Key(x) \in Keys
  BY <1>2, Arguments DEF IInv, TypeOK
<1>4. /\ loc[x].todo = {} /\ loc[x].running = {}
      /\ held[x] = <<>> => loc[x].from <= NumRequests(x)
  BY <1>1 DEF IInv, ChunkInRange, HoldsWhatItUses
<1>5. loc[x] \in Locals /\ held[x] \in Seq(Containers) /\ loc[x].left - 1 \in Nat
  BY <1>1, CallTypes, LocalsTypes
<1>6. CachesOK'
  BY <1>1 DEF IInv, TypeOK, cacheVars, CachesOK
<1> DEFINE r == [loc[x] EXCEPT !.left = loc[x].left - 1]
<1>7. /\ r \in Locals /\ r.todo = {} /\ r.running = {} /\ r.from = loc[x].from
  BY <1>4, <1>5, SetLeft
<1>8. loc' = [loc EXCEPT ![x].left = @ - 1] => loc' = [loc EXCEPT ![x] = r]
  BY DEF IInv, TypeOK
<1> HIDE DEF r
<1>9. ASSUME NEW c \in Containers, Pop(Key(x), c), Load(x, c),
             held' = [held EXCEPT ![x] = Append(@, c)],
             loc' = [loc EXCEPT ![x].left = @ - 1],
             UNCHANGED <<permits, pc, job, out, reply>>
      PROVE  IInv'
  <2>1. PoolOK' /\ FilesOK'
    BY <1>2, <1>3, <1>9, PopKeeps, LoadKeeps DEF PoolOK, IInv, TypeOK
  <2>2. Append(held[x], c) \in Seq(Containers) /\ Append(held[x], c) # <<>>
    BY <1>5, AppendProperties
  <2>3. held' = [held EXCEPT ![x] = Append(held[x], c)]
    BY <1>9
  <2>4. /\ pc' = [pc EXCEPT ![x] = "extend"]
        /\ reply' \in [Calls -> {"none", "ok", "err", "panic"}]
    BY <1>1, <1>9, CallTypes
  <2>5. /\ out' \in [Calls -> Seq(Outcomes \cup {Missing})]
        /\ Len(out'[x]) = NumRequests(x)
        /\ \A y \in Calls \ {x} : out'[y] = out[y]
    BY <1>1, <1>9, SameResults
  <2>6. job' = job /\ loc' = [loc EXCEPT ![x] = r]
    BY <1>8, <1>9
  <2>7. CallsOK'
    BY <1>1, <1>7, <2>2, <2>3, <2>4, <2>5, <2>6, StayKeeps
  <2> QED
    BY <1>6, <2>1, <2>7, PartsNext
<1>10. CASE DockerFails /\ (\E c \in Containers : Pop(Key(x), c)) /\ Fail(x) /\ UNCHANGED fileVars
  <2>1. pool' \in [Keys -> Seq(Containers)]
    BY <1>3, <1>10, PopKeeps
  <2>2. CallsOK' /\ permits' \in Nat
    BY <1>1, <1>10, AbortKeeps DEF Fail
  <2> QED
    BY <1>6, <1>10, <2>1, <2>2, PartsNext DEF PoolOK, FilesOK, fileVars, IInv, TypeOK
<1>11. CASE /\ loc' = [loc EXCEPT ![x].left = @ - 1]
            /\ UNCHANGED <<pool, permits, fileVars, pc, job, held, out, reply>>
  <2>1. /\ held' = [held EXCEPT ![x] = held[x]] /\ pc' = [pc EXCEPT ![x] = "extend"]
        /\ reply' \in [Calls -> {"none", "ok", "err", "panic"}]
    BY <1>1, <1>11, CallTypes
  <2>2. /\ out' \in [Calls -> Seq(Outcomes \cup {Missing})]
        /\ Len(out'[x]) = NumRequests(x)
        /\ \A y \in Calls \ {x} : out'[y] = out[y]
    BY <1>1, <1>11, SameResults
  <2>3. /\ job' = job /\ loc' = [loc EXCEPT ![x] = r]
        /\ held[x] = <<>> => r.from <= NumRequests(x)
    BY <1>4, <1>7, <1>8, <1>11
  <2>4. CallsOK'
    BY <1>1, <1>5, <1>7, <2>1, <2>2, <2>3, StayKeeps
  <2> QED
    BY <1>6, <1>11, <2>4, PartsNext DEF PoolOK, FilesOK, fileVars, IInv, TypeOK
<1> QED
  BY <1>9, <1>10, <1>11 DEF Extend

\* A chunk that starts has containers and stays within the batch.
LEMMA StartChunkKeeps == ASSUME IInv, NEW x \in Calls, StartChunk(x) PROVE IInv'
<1>1. /\ pc[x] = "extend" /\ pc[x] \in Inside
      /\ "giveback" \in Inside /\ "runchunk" \in Inside
      /\ UNCHANGED <<pool, fileVars, cacheVars>>
  BY DEF StartChunk, Inside
<1>2. /\ loc[x].todo = {} /\ loc[x].running = {}
      /\ held[x] = <<>> => loc[x].from <= NumRequests(x)
  BY <1>1 DEF IInv, ChunkInRange, HoldsWhatItUses
<1>3. NumRequests(x) \in Nat \ {0}
  BY <1>1, Busy, Arguments DEF IInv, TypeOK
<1>4. loc[x] \in Locals /\ held[x] \in Seq(Containers) /\ loc[x].from \in Nat \ {0, 1}
  BY CallTypes, LocalsTypes
<1>5. pool' = pool /\ FilesOK' /\ CachesOK'
  BY <1>1 DEF IInv, TypeOK, fileVars, cacheVars, FilesOK, CachesOK
<1> DEFINE size == IF loc[x].size = 0 THEN Len(held[x]) ELSE loc[x].size
<1>6. size \in Nat
  BY <1>4, LenProperties, LocalsTypes
<1>7. CASE /\ loc[x].from > NumRequests(x)
           /\ Leave(x, "ok")
           /\ UNCHANGED <<permits, job, held, out, loc>>
  <2>1. held[x] # <<>>
    BY <1>2, <1>3, <1>4, <1>7
  <2>2. /\ out' \in [Calls -> Seq(Outcomes \cup {Missing})]
        /\ Len(out'[x]) = NumRequests(x)
        /\ \A y \in Calls \ {x} : out'[y] = out[y]
    BY <1>1, <1>7, SameResults
  <2>3. CallsOK'
    BY <1>1, <1>2, <1>7, <2>1, <2>2, MoveKeeps DEF Leave
  <2> QED
    BY <1>5, <1>7, <2>3, PartsNext DEF PoolOK, IInv, TypeOK
<1>8. CASE /\ held[x] # <<>>
           /\ loc' = [loc EXCEPT ![x].size = size, ![x].todo = Chunk(x, size)]
           /\ Goto(x, "runchunk")
           /\ UNCHANGED <<permits, job, held, out, reply>>
  <2> HIDE DEF size
  <2>1. Chunk(x, size) \subseteq 2 .. NumRequests(x)
    BY <1>3, <1>4, <1>6 DEF Chunk, Lesser
  <2>2. Chunk(x, size) \in SUBSET Nat
    BY <1>3, <2>1
  <2> DEFINE r == [loc[x] EXCEPT !.size = size, !.todo = Chunk(x, size)]
  <2>3. r \in Locals /\ r.todo = Chunk(x, size) /\ r.running = loc[x].running
    BY <1>4, <1>6, <2>2 DEF Locals
  <2>4. loc' = [loc EXCEPT ![x] = r]
    BY <1>8 DEF IInv, TypeOK
  <2> HIDE DEF r
  <2>5. /\ held' = [held EXCEPT ![x] = held[x]]
        /\ reply' \in [Calls -> {"none", "ok", "err", "panic"}]
    BY <1>8, CallTypes
  <2>6. /\ out' \in [Calls -> Seq(Outcomes \cup {Missing})]
        /\ Len(out'[x]) = NumRequests(x)
        /\ \A y \in Calls \ {x} : out'[y] = out[y]
    BY <1>1, <1>8, SameResults
  <2>7. r.todo \cup r.running \subseteq 2 .. NumRequests(x)
    BY <1>2, <2>1, <2>3
  <2>8. CallsOK'
    BY <1>1, <1>4, <1>8, <2>3, <2>4, <2>5, <2>6, <2>7, StepKeeps DEF Goto
  <2> QED
    BY <1>5, <1>8, <2>8, PartsNext DEF PoolOK, IInv, TypeOK
<1>9. CASE Abort(x, "panic")
  <2>1. CallsOK' /\ permits' \in Nat
    BY <1>1, <1>9, AbortKeeps
  <2> QED
    BY <1>5, <2>1, PartsNext DEF PoolOK, IInv, TypeOK
<1> QED
  BY <1>7, <1>8, <1>9 DEF StartChunk

\* The same for a call in the middle of a chunk.
LEMMA ChunkKeeps ==
  ASSUME IInv, NEW x \in Calls, NEW h \in Seq(Containers), NEW r \in Locals,
         pc[x] = "runchunk", pc' = [pc EXCEPT ![x] = "runchunk"], job' = job,
         h # <<>>, held' = [held EXCEPT ![x] = h],
         loc' = [loc EXCEPT ![x] = r],
         reply' \in [Calls -> {"none", "ok", "err", "panic"}],
         out' \in [Calls -> Seq(Outcomes \cup {Missing})],
         Len(out'[x]) = NumRequests(x), \A y \in Calls \ {x} : out'[y] = out[y],
         r.todo \cup r.running \subseteq 2 .. NumRequests(x)
  PROVE  CallsOK'
<1>1. /\ "runchunk" \in Inside /\ "runchunk" # "get" /\ "runchunk" # "drain"
      /\ "runchunk" # "extend"
  BY DEF Inside
<1> QED
  BY <1>1, StepKeeps

\* The requests of a chunk are requests of the batch.
LEMMA InRange ==
  ASSUME IInv, NEW x \in Calls, pc[x] = "runchunk",
         NEW i \in loc[x].todo \cup loc[x].running
  PROVE  i \in 1 .. NumRequests(x) /\ i \in 2 .. NumRequests(x)
<1>1. i \in 2 .. NumRequests(x)
  BY DEF IInv, ChunkInRange
<1>2. job[x] # NoJob
  BY Busy DEF Inside
<1>3. NumRequests(x) \in Nat
  BY <1>2, Arguments DEF IInv, TypeOK
<1> QED
  BY <1>1, <1>3

\* A request of the chunk is answered from the cache or starts to run.
LEMMA LookupNextKeeps == ASSUME IInv, NEW x \in Calls, LookupNext(x) PROVE IInv'
<1>1. /\ pc[x] = "runchunk" /\ pc[x] \in Inside
      /\ UNCHANGED <<poolVars, fileVars, cacheVars, pc, job, held, reply>>
  BY DEF LookupNext, Inside
<1>2. PoolOK' /\ FilesOK' /\ CachesOK'
  BY <1>1 DEF IInv, TypeOK, poolVars, fileVars, cacheVars, PoolOK, FilesOK, CachesOK
<1>3. PICK i \in loc[x].todo :
        \/ Serve(x, i) /\ loc' = [loc EXCEPT ![x].todo = @ \ {i}]
        \/ /\ loc' = [loc EXCEPT ![x].todo = @ \ {i}, ![x].running = @ \cup {i}]
           /\ UNCHANGED out
  BY DEF LookupNext
<1>4. loc[x] \in Locals /\ loc[x].todo \in SUBSET Nat /\ loc[x].running \in SUBSET Nat
  BY CallTypes, LocalsTypes
<1>5. i \in 1 .. NumRequests(x)
  BY <1>1, <1>3, InRange
<1>6. /\ out' \in [Calls -> Seq(Outcomes \cup {Missing})]
      /\ Len(out'[x]) = NumRequests(x)
      /\ \A y \in Calls \ {x} : out'[y] = out[y]
  BY <1>1, <1>3, <1>5, ServeKeeps, SameResults
<1> DEFINE h == held[x]
<1>own. /\ h \in Seq(Containers) /\ h # <<>>
      /\ held' = [held EXCEPT ![x] = h] /\ pc' = [pc EXCEPT ![x] = "runchunk"]
      /\ reply' \in [Calls -> {"none", "ok", "err", "panic"}] /\ job' = job
      /\ loc[x].todo \cup loc[x].running \subseteq 2 .. NumRequests(x)
  BY <1>1, CallTypes DEF IInv, HoldsWhatItUses, ChunkInRange
<1> HIDE DEF h
<1>7. CASE loc' = [loc EXCEPT ![x].todo = @ \ {i}]
  <2> DEFINE r == [loc[x] EXCEPT !.todo = @ \ {i}]
  <2>1. r \in Locals /\ r.todo = loc[x].todo \ {i} /\ r.running = loc[x].running
    BY <1>4 DEF Locals
  <2>2. loc' = [loc EXCEPT ![x] = r]
    BY <1>7 DEF IInv, TypeOK
  <2> HIDE DEF r
  <2>3. r.todo \cup r.running \subseteq 2 .. NumRequests(x)
    BY <1>own, <2>1
  <2>4. CallsOK'
    BY <1>own, <1>1, <1>6, <2>1, <2>2, <2>3, ChunkKeeps
  <2> QED
    BY <1>2, <2>4, PartsNext
<1>8. CASE loc' = [loc EXCEPT ![x].todo = @ \ {i}, ![x].running = @ \cup {i}]
  <2> DEFINE r == [loc[x] EXCEPT !.todo = @ \ {i}, !.running = @ \cup {i}]
  <2>1. r \in Locals /\ r.todo = loc[x].todo \ {i} /\ r.running = loc[x].running \cup {i}
    BY <1>3, <1>4 DEF Locals
  <2>2. loc' = [loc EXCEPT ![x] = r]
    BY <1>8 DEF IInv, TypeOK
  <2> HIDE DEF r
  <2>3. r.todo \cup r.running \subseteq 2 .. NumRequests(x)
    BY <1>own, <1>3, <2>1
  <2>4. CallsOK'
    BY <1>own, <1>1, <1>6, <2>1, <2>2, <2>3, ChunkKeeps
  <2> QED
    BY <1>2, <2>4, PartsNext
<1> QED
  BY <1>3, <1>7, <1>8

\* A request of the chunk ends in one of the containers of the call.
LEMMA RunNextKeeps == ASSUME IInv, NEW x \in Calls, RunNext(x) PROVE IInv'
<1>1. /\ pc[x] = "runchunk" /\ pc[x] \in Inside
      /\ UNCHANGED <<poolVars, fileVars, acache, pc, job, held, reply>>
  BY DEF RunNext, Inside
<1>2. PoolOK' /\ FilesOK' /\ held[x] # <<>>
  BY <1>1 DEF IInv, TypeOK, HoldsWhatItUses, poolVars, fileVars, PoolOK, FilesOK
<1>3. PICK i \in loc[x].running :
        \/ /\ RunRequest(x, i, ContainerOf(x, i))
           /\ loc' = [loc EXCEPT ![x].running = @ \ {i}]
        \/ /\ loc' = [loc EXCEPT ![x].running = @ \ {i}, ![x].failed = TRUE]
           /\ UNCHANGED <<out, rcache>>
  BY DEF RunNext
<1>4. loc[x] \in Locals /\ loc[x].todo \in SUBSET Nat /\ loc[x].running \in SUBSET Nat
  BY CallTypes, LocalsTypes
<1>5. i \in 1 .. NumRequests(x) /\ i \in Nat
  BY <1>1, <1>3, <1>4, InRange
<1>6. ContainerOf(x, i) \in Containers
  BY <1>2, <1>5, ContainerOfType DEF IInv
<1>7. /\ out' \in [Calls -> Seq(Outcomes \cup {Missing})]
      /\ Len(out'[x]) = NumRequests(x)
      /\ \A y \in Calls \ {x} : out'[y] = out[y]
  BY <1>1, <1>3, <1>5, <1>6, RunRequestKeeps, SameResults
<1>8. CachesOK'
  <2>1. rcache' \in [Entries -> Outcomes \cup {Missing}]
    BY <1>1, <1>3, <1>5, <1>6, RunRequestKeeps DEF IInv, TypeOK
  <2> QED
    BY <1>1, <2>1 DEF CachesOK, IInv, TypeOK
<1> DEFINE h == held[x]
<1>own. /\ h \in Seq(Containers) /\ h # <<>>
      /\ held' = [held EXCEPT ![x] = h] /\ pc' = [pc EXCEPT ![x] = "runchunk"]
      /\ reply' \in [Calls -> {"none", "ok", "err", "panic"}] /\ job' = job
      /\ loc[x].todo \cup loc[x].running \subseteq 2 .. NumRequests(x)
  BY <1>1, CallTypes DEF IInv, HoldsWhatItUses, ChunkInRange
<1> HIDE DEF h
<1>9. CASE loc' = [loc EXCEPT ![x].running = @ \ {i}]
  <2> DEFINE r == [loc[x] EXCEPT !.running = @ \ {i}]
  <2>1. r \in Locals /\ r.todo = loc[x].todo /\ r.running = loc[x].running \ {i}
    BY <1>4 DEF Locals
  <2>2. loc' = [loc EXCEPT ![x] = r]
    BY <1>9 DEF IInv, TypeOK
  <2> HIDE DEF r
  <2>3. r.todo \cup r.running \subseteq 2 .. NumRequests(x)
    BY <1>own, <2>1
  <2>4. CallsOK'
    BY <1>own, <1>1, <1>7, <2>1, <2>2, <2>3, ChunkKeeps
  <2> QED
    BY <1>2, <1>8, <2>4, PartsNext
<1>10. CASE loc' = [loc EXCEPT ![x].running = @ \ {i}, ![x].failed = TRUE]
  <2> DEFINE r == [loc[x] EXCEPT !.running = @ \ {i}, !.failed = TRUE]
  <2>1. r \in Locals /\ r.todo = loc[x].todo /\ r.running = loc[x].running \ {i}
    BY <1>4 DEF Locals
  <2>2. loc' = [loc EXCEPT ![x] = r]
    BY <1>10 DEF IInv, TypeOK
  <2> HIDE DEF r
  <2>3. r.todo \cup r.running \subseteq 2 .. NumRequests(x)
    BY <1>own, <2>1
  <2>4. CallsOK'
    BY <1>own, <1>1, <1>7, <2>1, <2>2, <2>3, ChunkKeeps
  <2> QED
    BY <1>2, <1>8, <2>4, PartsNext
<1> QED
  BY <1>3, <1>9, <1>10

\* The batch drains its containers only if it has requests left.
LEMMA EndChunkKeeps == ASSUME IInv, NEW x \in Calls, EndChunk(x) PROVE IInv'
<1>1. /\ pc[x] = "runchunk" /\ pc[x] \in Inside
      /\ "giveback" \in Inside /\ "drain" \in Inside
      /\ loc[x].todo = {} /\ loc[x].running = {}
      /\ UNCHANGED <<pool, fileVars, cacheVars>>
  BY DEF EndChunk, Joined, Inside
<1>2. held[x] # <<>>
  BY <1>1 DEF IInv, HoldsWhatItUses
<1>3. pool' = pool /\ FilesOK' /\ CachesOK'
  BY <1>1 DEF IInv, TypeOK, fileVars, cacheVars, FilesOK, CachesOK
<1>4. CASE Fail(x)
  <2>1. CallsOK' /\ permits' \in Nat
    BY <1>1, <1>4, AbortKeeps DEF Fail
  <2> QED
    BY <1>3, <2>1, PartsNext DEF PoolOK, IInv, TypeOK
<1>5. CASE Leave(x, "ok") /\ UNCHANGED <<permits, job, held, out, loc>>
  <2>1. CallsOK'
    BY <1>1, <1>2, <1>5, SameResults, MoveKeeps DEF Leave
  <2> QED
    BY <1>3, <1>5, <2>1, PartsNext DEF PoolOK, IInv, TypeOK
<1>6. CASE /\ ~LastChunk(x)
           /\ Goto(x, "drain")
           /\ UNCHANGED <<permits, job, held, out, reply, loc>>
  <2> loc[x].from + loc[x].size <= NumRequests(x)
    <3>1. /\ loc[x].from \in Nat /\ loc[x].size \in Nat
          /\ NumRequests(x) \in Nat
      BY <1>1, Busy, Arguments DEF IInv, TypeOK, Locals
    <3> QED
      BY <1>6, <3>1 DEF LastChunk
  <2>1. pc' = [pc EXCEPT ![x] = "drain"] /\ UNCHANGED <<job, held, out, reply, loc>>
    BY <1>6 DEF Goto
  <2>2. /\ pc' \in [Calls -> Outside \cup Inside]
        /\ pc'[x] = "drain" /\ \A y \in Calls \ {x} : pc'[y] = pc[y]
    BY <1>1, <2>1 DEF IInv, TypeOK
  <2>3. Engaged' /\ HoldsWhatItUses' /\ ChunkInRange'
    BY <1>1, <1>2, <1>6, <2>1, <2>2
       DEF IInv, Engaged, HoldsWhatItUses, ChunkInRange, NumRequests, Inside, Outside
  <2>4. CallsOK'
    BY <2>1, <2>2, <2>3 DEF CallsOK, IInv, TypeOK
  <2> QED
    BY <1>3, <1>6, <2>4, PartsNext DEF PoolOK, IInv, TypeOK
<1> QED
  BY <1>4, <1>5, <1>6 DEF EndChunk

\* After the last container the next chunk begins within the batch.
LEMMA DrainKeeps == ASSUME IInv, NEW x \in Calls, Drain(x) PROVE IInv'
<1>1. /\ pc[x] = "drain" /\ pc[x] \in Inside /\ job[x] # NoJob
      /\ loc[x].todo = {} /\ loc[x].running = {}
      /\ loc[x].from + loc[x].size <= NumRequests(x)
  BY Busy DEF IInv, ChunkInRange, HoldsWhatItUses, Drain, Inside
<1>2. /\ pool' \in [Keys -> Seq(Containers)]
      /\ held' \in [Calls -> Seq(Containers)]
      /\ Len(held[x]) # 1 => held'[x] # <<>>
      /\ \A y \in Calls \ {x} : held'[y] = held[y]
  BY <1>1, PushKeeps DEF Drain, Push, IInv, TypeOK
<1>3. FilesOK' /\ CachesOK' /\ PoolOK'
  BY <1>2 DEF IInv, TypeOK, Drain, fileVars, cacheVars, FilesOK, CachesOK, PoolOK
<1>4. UNCHANGED <<job, out, reply>>
  BY DEF Drain
<1>5. CASE Len(held[x]) = 1
  <2>1. /\ loc' = [loc EXCEPT ![x].left = loc[x].maxPar,
                              ![x].from = @ + loc[x].size]
        /\ pc' = [pc EXCEPT ![x] = "extend"]
    BY <1>5 DEF Drain, Goto
  <2>2. /\ loc[x] \in Locals /\ loc[x].maxPar \in Nat
        /\ loc[x].from + loc[x].size \in Nat \ {0, 1}
    BY CallTypes, LocalsTypes
  <2> DEFINE n == loc[x].from + loc[x].size
             q == loc[x].maxPar
             r == [loc[x] EXCEPT !.left = q, !.from = n]
  <2>3. /\ r \in Locals /\ r.todo = {} /\ r.running = {}
        /\ r.from = loc[x].from + loc[x].size
    <3>1. n \in Nat \ {0, 1} /\ q \in Nat
      BY <2>2
    <3> HIDE DEF n, q
    <3>2. /\ r \in Locals /\ r.todo = loc[x].todo /\ r.running = loc[x].running
          /\ r.from = n
      BY <2>2, <3>1, SetNext
    <3> QED
      BY <1>1, <3>2 DEF n
  <2>4. loc' = [loc EXCEPT ![x] = r]
    BY <2>1 DEF IInv, TypeOK
  <2> HIDE DEF r
  <2>5. pc' \in [Calls -> Outside \cup Inside] /\ loc' \in [Calls -> Locals]
    <3>1. "extend" \in Outside \cup Inside
      BY DEF Inside
    <3> QED
      BY <2>1, <2>3, <2>4, <3>1 DEF IInv, TypeOK
  <2>6. Engaged' /\ HoldsWhatItUses' /\ ChunkInRange'
    BY <1>1, <1>2, <1>4, <2>1, <2>3, <2>4
       DEF IInv, TypeOK, Engaged, HoldsWhatItUses, ChunkInRange, NumRequests,
           Inside, Outside
  <2> QED
    BY <1>2, <1>3, <1>4, <2>5, <2>6, PartsNext DEF CallsOK, IInv, TypeOK
<1>6. CASE Len(held[x]) # 1
  <2>1. UNCHANGED <<pc, loc>>
    BY <1>6 DEF Drain
  <2>2. Engaged' /\ HoldsWhatItUses' /\ ChunkInRange'
    BY <1>1, <1>2, <1>4, <1>6, <2>1
       DEF IInv, TypeOK, Engaged, HoldsWhatItUses, ChunkInRange, NumRequests,
           Inside, Outside
  <2> QED
    BY <1>2, <1>3, <1>4, <2>1, <2>2, PartsNext DEF CallsOK, IInv, TypeOK
<1> QED
  BY <1>5, <1>6

-----------------------------------------------------------------------------
\* The environment.

\* A late write touches files only.
LEMMA WriteLandsKeeps ==
  ASSUME IInv, NEW c \in Containers, WriteLands(c) PROVE IInv'
<1>1. UNCHANGED callVars /\ UNCHANGED poolVars /\ UNCHANGED cacheVars
  BY DEF WriteLands
<1>2. FilesOK'
  BY DEF WriteLands, FilesOK, IInv, TypeOK, Programs
<1> QED
  BY <1>1, <1>2
     DEF callVars, poolVars, cacheVars, FilesOK, IInv, TypeOK, Engaged, HoldsWhatItUses,
         ChunkInRange, NumRequests

\* Redis forgets an entry.
LEMMA EvictKeeps == ASSUME IInv, Evict PROVE IInv'
<1>1. UNCHANGED callVars /\ UNCHANGED poolVars /\ UNCHANGED fileVars
  BY DEF Evict
<1>2. CachesOK'
  BY DEF Evict, CachesOK, IInv, TypeOK
<1> QED
  BY <1>1, <1>2
     DEF callVars, poolVars, fileVars, CachesOK, IInv, TypeOK, Engaged, HoldsWhatItUses,
         ChunkInRange, NumRequests

-----------------------------------------------------------------------------
\* The initial state, every step, and the theorem.

\* The initial states.
LEMMA InitIInv == Init => IInv
<1> SUFFICES ASSUME Init PROVE IInv
  OBVIOUS
<1>1. <<>> \in Seq(Containers) /\ <<>> \in Seq(Outcomes \cup {Missing})
  BY EmptySeq
<1>2. TypeOK
  BY <1>1, NoLocalsType, PoolAssumption, SandboxAssumption
     DEF Init, TypeOK, SandboxAssumption, PoolAssumption, Programs, Outside
<1>3. Engaged /\ HoldsWhatItUses /\ ChunkInRange
  BY DEF Init, Engaged, HoldsWhatItUses, ChunkInRange, NoLocals, Inside, Outside
<1> QED
  BY <1>2, <1>3 DEF IInv

\* Every step, by the action it takes.
LEMMA NextIInv == IInv /\ [Next]_vars => IInv'
<1> SUFFICES ASSUME IInv, [Next]_vars PROVE IInv'
  OBVIOUS
<1>1. CASE UNCHANGED vars
  BY <1>1 DEF vars, poolVars, fileVars, cacheVars, callVars, IInv, TypeOK, Engaged,
              HoldsWhatItUses, ChunkInRange, NumRequests
<1>2. ASSUME NEW x \in Calls, Begin(x) \/ Collect(x) \/ Cancel(x) \/ Acquire(x)
      PROVE  IInv'
  BY <1>2, BeginKeeps, CollectKeeps, CancelKeeps, EnterKeeps
     DEF Acquire, AcquireSingle, AcquireBatch
<1>3. ASSUME NEW x \in Calls, SingleStep(x) PROVE IInv'
  BY <1>3, TakeFirstKeeps, LookupSingleKeeps, WriteFileKeeps, RunSingleKeeps
     DEF SingleStep, GetSingle, WriteSingle
<1>4. ASSUME NEW x \in Calls, BatchStep(x) PROVE IInv'
  BY <1>4, TakeFirstKeeps, LookupFirstKeeps, WriteFileKeeps, RunFirstKeeps,
     CheckFirstKeeps, ExtendKeeps, StartChunkKeeps, LookupNextKeeps, RunNextKeeps,
     EndChunkKeeps, DrainKeeps
     DEF BatchStep, GetInitial, WriteFirst
<1>5. ASSUME NEW x \in Calls, CompilerStep(x) \/ GiveBack(x) PROVE IInv'
  BY <1>5, UseArtifactKeeps, WriteProgramKeeps, CompileKeeps, GiveBackKeeps
     DEF CompilerStep
<1> QED
  BY <1>1, <1>2, <1>3, <1>4, <1>5, WriteLandsKeeps, EvictKeeps DEF Next, Step

\* IInv is an invariant.
LEMMA InvariantIInv == Spec => []IInv
BY InitIInv, NextIInv, PTL DEF Spec

\* Every variable of CodeExecutor and of its calls keeps its type; in
\* particular the semaphore never hands out a permit it does not have.
THEOREM TypeCorrect == Spec => []TypeOK
BY InvariantIInv, PTL DEF IInv

\* Wherever execute or execute_batch uses a container it holds one, and a call
\* that has not got or has given back its containers holds none.
THEOREM NeverWithoutContainer == Spec => []HoldsWhatItUses
BY InvariantIInv, PTL DEF IInv

\* Every call under way has room for exactly one result per request, whether
\* its requests ran, were cached, or got a made-up answer after a failed first.
THEOREM OneResultEach == Spec => []Engaged
BY InvariantIInv, PTL DEF IInv

\* join_all waits for every request of a chunk before the batch returns its
\* containers, so no request of it runs in a container of another call.
THEOREM ChunksComplete == Spec => []ChunkInRange
BY InvariantIInv, PTL DEF IInv

-----------------------------------------------------------------------------
\* What a step does to the pool and to the containers of the calls.

\* Nothing, and a call that holds containers keeps its arguments.
Keeps ==
  /\ UNCHANGED <<pool, held>>
  /\ \A x \in Calls : held[x] # <<>> => job'[x] = job[x]

\* x forgets its containers.
Drops(x) ==
  /\ pool' = pool
  /\ held' = [held EXCEPT ![x] = <<>>]
  /\ \A y \in Calls \ {x} : job'[y] = job[y]

\* x takes c, as its only container or as one more, or loses all with it.
Takes(x, c) ==
  /\ job[x] # NoJob /\ job' = job
  /\ Pop(Key(x), c)
  /\ \/ held[x] = <<>> /\ held' = [held EXCEPT ![x] = <<c>>]
     \/ held' = [held EXCEPT ![x] = Append(@, c)]
     \/ held' = [held EXCEPT ![x] = <<>>]

\* x returns its first container.
Returns(x) == job[x] # NoJob /\ job' = job /\ Push(x)

\* Every step does one of these four things.
LEMMA ContainerSteps ==
  ASSUME IInv, [Next]_vars
  PROVE  \/ Keeps
         \/ \E x \in Calls : Drops(x) \/ Returns(x) \/ \E c \in Containers : Takes(x, c)
<1> DEFINE Goal == \/ Keeps
                   \/ \E x \in Calls : Drops(x) \/ Returns(x)
                                       \/ \E c \in Containers : Takes(x, c)
<1> SUFFICES Goal
  OBVIOUS
<1>1. ASSUME UNCHANGED <<pool, held, job>> PROVE Goal
  BY <1>1 DEF Keeps
<1>2. ASSUME NEW x \in Calls, NEW r, Abort(x, r), pool' = pool PROVE Goal
  BY <1>2 DEF Abort, Drops
<1>3. ASSUME NEW x \in Calls, pc[x] # "idle" PROVE job[x] # NoJob
  BY <1>3, Busy
<1>4. CASE UNCHANGED vars
  BY <1>1, <1>4 DEF vars, poolVars, callVars
<1>5. ASSUME NEW x \in Calls, Begin(x) \/ Collect(x) PROVE Goal
  <2>1. held[x] = <<>> /\ UNCHANGED <<pool, held>>
    BY <1>5 DEF Begin, Collect, poolVars, IInv, HoldsWhatItUses, Outside
  <2>2. \A y \in Calls \ {x} : job'[y] = job[y]
    BY <1>5 DEF Begin, Collect, IInv, TypeOK
  <2> QED
    BY <2>1, <2>2 DEF Keeps
<1>6. ASSUME NEW x \in Calls, Cancel(x) PROVE Goal
  <2>1. Drops(x)
    BY <1>6 DEF Cancel, Drops, IInv, TypeOK
  <2> QED
    BY <2>1
<1>7. ASSUME NEW x \in Calls, TakeFirst(x) PROVE Goal
  <2>1. pc[x] = "get" /\ job[x] # NoJob /\ held[x] = <<>>
    BY <1>3, <1>7 DEF TakeFirst, IInv, HoldsWhatItUses
  <2> QED
    BY <1>2, <1>7, <2>1 DEF TakeFirst, Takes, Fail
<1>8. ASSUME NEW x \in Calls, Extend(x) PROVE Goal
  <2>1. job[x] # NoJob
    BY <1>3, <1>8 DEF Extend
  <2>2. ASSUME NEW c \in Containers, Pop(Key(x), c), Fail(x) PROVE Goal
    BY <2>1, <2>2 DEF Takes, Fail, Abort
  <2> QED
    BY <1>1, <1>8, <2>1, <2>2 DEF Extend, Takes
<1>9. ASSUME NEW x \in Calls, GiveBack(x) \/ Drain(x) PROVE Goal
  BY <1>3, <1>9 DEF GiveBack, Drain, Returns
<1>10. ASSUME NEW x \in Calls, Enter(x) PROVE Goal
  BY <1>1, <1>10 DEF Enter
<1>11. ASSUME NEW x \in Calls, WriteFile(x) PROVE Goal
  BY <1>1, <1>2, <1>11 DEF WriteFile, Fail
<1>12. ASSUME NEW x \in Calls, LookupSingle(x) \/ RunSingle(x) PROVE Goal
  BY <1>1, <1>2, <1>12 DEF LookupSingle, RunSingle, Fail, poolVars
<1>13. ASSUME NEW x \in Calls, LookupFirst(x) \/ RunFirst(x) \/ CheckFirst(x) PROVE Goal
  BY <1>1, <1>2, <1>13 DEF LookupFirst, RunFirst, CheckFirst, Fail, poolVars
<1>14. ASSUME NEW x \in Calls, StartChunk(x) \/ LookupNext(x) PROVE Goal
  BY <1>1, <1>2, <1>14 DEF StartChunk, LookupNext, poolVars
<1>15. ASSUME NEW x \in Calls, RunNext(x) \/ EndChunk(x) PROVE Goal
  BY <1>1, <1>2, <1>15 DEF RunNext, EndChunk, Fail, poolVars
<1>16. ASSUME NEW x \in Calls, UseArtifact(x) \/ WriteProgram(x) \/ Compile(x) PROVE Goal
  BY <1>1, <1>2, <1>16 DEF UseArtifact, WriteProgram, Compile, Built, Fail
<1>17. ASSUME Evict \/ \E c \in Containers : WriteLands(c) PROVE Goal
  BY <1>1, <1>17 DEF Evict, WriteLands, poolVars, callVars
<1> HIDE DEF Goal
<1>18. ASSUME NEW x \in Calls, SingleStep(x) PROVE Goal
  BY <1>7, <1>11, <1>12, <1>18 DEF SingleStep, GetSingle, WriteSingle
<1>19. ASSUME NEW x \in Calls, BatchStep(x) PROVE Goal
  BY <1>7, <1>8, <1>9, <1>11, <1>13, <1>14, <1>15, <1>19
     DEF BatchStep, GetInitial, WriteFirst
<1>20. ASSUME NEW x \in Calls, CompilerStep(x) PROVE Goal
  BY <1>16, <1>20 DEF CompilerStep
<1> QED
  BY <1>4, <1>5, <1>6, <1>9, <1>10, <1>17, <1>18, <1>19, <1>20
     DEF Next, Step, Acquire, AcquireSingle, AcquireBatch

\* What get_container leaves in the pool.
LEMMA PopContents ==
  ASSUME IInv, NEW k \in Keys, NEW c, Pop(k, c)
  PROVE  /\ Len(pool[k]) \in Nat \ {0}
         /\ c = pool[k][Len(pool[k])]
         /\ \A l \in Keys : DOMAIN pool[l] = 1 .. Len(pool[l]) /\ Len(pool[l]) \in Nat
         /\ DOMAIN pool'[k] = 1 .. Len(pool[k]) - 1
         /\ \A i \in 1 .. Len(pool[k]) - 1 : pool'[k][i] = pool[k][i]
         /\ \A l \in Keys \ {k} : pool'[l] = pool[l]
<1>1. pool \in [Keys -> Seq(Containers)] /\ pool[k] \in Seq(Containers)
  BY DEF IInv, TypeOK
<1>2. \A l \in Keys : DOMAIN pool[l] = 1 .. Len(pool[l]) /\ Len(pool[l]) \in Nat
  BY <1>1, LenProperties
<1>3. Len(pool[k]) \in Nat \ {0}
  BY <1>1, EmptySeq DEF Pop
<1>4. \A i \in 1 .. Len(pool[k]) - 1 : pool[k][i] \in Containers
  BY <1>1, <1>3, ElementOfSeq
<1> DEFINE s == SubSeq(pool[k], 1, Len(pool[k]) - 1)
<1>5. /\ s \in Seq(Containers) /\ Len(s) = Len(pool[k]) - 1
      /\ \A i \in 1 .. Len(pool[k]) - 1 : s[i] = pool[k][i]
  BY <1>3, <1>4, SubSeqProperties
<1>6. DOMAIN s = 1 .. Len(pool[k]) - 1
  BY <1>5, LenProperties
<1>7. pool' = [pool EXCEPT ![k] = s] /\ c = pool[k][Len(pool[k])]
  BY DEF Pop
<1> HIDE DEF s
<1> QED
  BY <1>1, <1>2, <1>3, <1>5, <1>6, <1>7

\* What return_container leaves in the pool and with the call.
LEMMA PushContents ==
  ASSUME IInv, NEW x \in Calls, job[x] # NoJob, Push(x)
  PROVE  /\ Key(x) \in Keys
         /\ Len(held[x]) \in Nat \ {0} /\ Len(pool[Key(x)]) \in Nat
         /\ \A y \in Calls : DOMAIN held[y] = 1 .. Len(held[y])
         /\ \A l \in Keys : DOMAIN pool[l] = 1 .. Len(pool[l])
         /\ DOMAIN pool'[Key(x)] = 1 .. Len(pool[Key(x)]) + 1
         /\ \A i \in 1 .. Len(pool[Key(x)]) : pool'[Key(x)][i] = pool[Key(x)][i]
         /\ pool'[Key(x)][Len(pool[Key(x)]) + 1] = held[x][1]
         /\ \A l \in Keys \ {Key(x)} : pool'[l] = pool[l]
         /\ DOMAIN held'[x] = 1 .. Len(held[x]) - 1
         /\ \A i \in 1 .. Len(held[x]) - 1 : held'[x][i] = held[x][i + 1]
         /\ \A y \in Calls \ {x} : held'[y] = held[y]
<1>1. /\ pool \in [Keys -> Seq(Containers)] /\ held \in [Calls -> Seq(Containers)]
      /\ held[x] \in Seq(Containers) /\ held[x] # <<>>
      /\ Key(x) \in Keys
  BY Arguments DEF IInv, TypeOK, Push
<1>2. /\ \A y \in Calls : DOMAIN held[y] = 1 .. Len(held[y])
      /\ \A l \in Keys : DOMAIN pool[l] = 1 .. Len(pool[l]) /\ Len(pool[l]) \in Nat
  BY <1>1, LenProperties
<1>3. Len(held[x]) \in Nat \ {0}
  BY <1>1, EmptySeq
<1> DEFINE t == Tail(held[x])
           a == Append(pool[Key(x)], Head(held[x]))
<1>4. Head(held[x]) \in Containers /\ Head(held[x]) = held[x][1]
  BY <1>1, HeadTailProperties
<1>5. /\ t \in Seq(Containers) /\ Len(t) = Len(held[x]) - 1
      /\ \A i \in 1 .. Len(t) : t[i] = held[x][i + 1]
  BY <1>1, HeadTailProperties
<1>6. /\ a \in Seq(Containers) /\ Len(a) = Len(pool[Key(x)]) + 1
      /\ \A i \in 1 .. Len(pool[Key(x)]) : a[i] = pool[Key(x)][i]
      /\ a[Len(pool[Key(x)]) + 1] = held[x][1]
  BY <1>1, <1>4, AppendProperties
<1>7. DOMAIN t = 1 .. Len(held[x]) - 1 /\ DOMAIN a = 1 .. Len(pool[Key(x)]) + 1
  BY <1>5, <1>6, LenProperties
<1>8. pool' = [pool EXCEPT ![Key(x)] = a] /\ held' = [held EXCEPT ![x] = t]
  BY DEF Push
<1> HIDE DEF t, a
<1> QED
  BY <1>1, <1>2, <1>3, <1>5, <1>6, <1>7, <1>8

\* What get_container leaves with the call.
LEMMA TakenContents ==
  ASSUME IInv, NEW x \in Calls, NEW c \in Containers, Takes(x, c)
  PROVE  \/ held'[x] = <<>>
         \/ held'[x] = <<c>>
         \/ /\ Len(held[x]) \in Nat /\ DOMAIN held[x] = 1 .. Len(held[x])
            /\ DOMAIN held'[x] = 1 .. Len(held[x]) + 1
            /\ \A i \in 1 .. Len(held[x]) : held'[x][i] = held[x][i]
            /\ held'[x][Len(held[x]) + 1] = c
<1>1. held[x] \in Seq(Containers)
  BY CallTypes
<1>2. /\ Append(held[x], c) \in Seq(Containers)
      /\ Len(Append(held[x], c)) = Len(held[x]) + 1
      /\ \A i \in 1 .. Len(held[x]) : Append(held[x], c)[i] = held[x][i]
      /\ Append(held[x], c)[Len(held[x]) + 1] = c
  BY <1>1, AppendProperties
<1>3. /\ Len(held[x]) \in Nat /\ DOMAIN held[x] = 1 .. Len(held[x])
      /\ DOMAIN Append(held[x], c) = 1 .. Len(held[x]) + 1
  BY <1>1, <1>2, LenProperties
<1>4. held'[x] = <<>> \/ held'[x] = <<c>> \/ held'[x] = Append(held[x], c)
  BY DEF Takes, IInv, TypeOK
<1> QED
  BY <1>2, <1>3, <1>4

\* get_container moves a container from its Vec to one call.
LEMMA TakesOnePlace ==
  ASSUME IInv, OnePlace, NEW x \in Calls, NEW c \in Containers, Takes(x, c)
  PROVE  OnePlace'
<1> DEFINE k == Key(x)
<1>1. k \in Keys
  BY Arguments DEF IInv, TypeOK, Takes
<1>2. Pop(k, c)
  BY DEF Takes
<1> HIDE DEF k
<1>3. /\ Len(pool[k]) \in Nat \ {0}
      /\ c = pool[k][Len(pool[k])]
      /\ \A l \in Keys : DOMAIN pool[l] = 1 .. Len(pool[l]) /\ Len(pool[l]) \in Nat
      /\ DOMAIN pool'[k] = 1 .. Len(pool[k]) - 1
      /\ \A i \in 1 .. Len(pool[k]) - 1 : pool'[k][i] = pool[k][i]
      /\ \A l \in Keys \ {k} : pool'[l] = pool[l]
  BY <1>1, <1>2, PopContents
<1>4. \A l \in Keys : \A i \in DOMAIN pool'[l] :
        i \in DOMAIN pool[l] /\ pool'[l][i] = pool[l][i] /\ pool[l][i] # c
  BY <1>1, <1>3 DEF OnePlace, PoolOnce
<1>5. PoolOnce'
  BY <1>4 DEF OnePlace, PoolOnce
<1>6. \A y \in Calls : \A j \in DOMAIN held[y] : held[y][j] # c
  BY <1>1, <1>3 DEF OnePlace, HeldNotPooled
<1>7. \A y \in Calls \ {x} : held'[y] = held[y]
  BY DEF Takes, IInv, TypeOK
<1>8. \/ held'[x] = <<>>
      \/ held'[x] = <<c>>
      \/ /\ Len(held[x]) \in Nat /\ DOMAIN held[x] = 1 .. Len(held[x])
         /\ DOMAIN held'[x] = 1 .. Len(held[x]) + 1
         /\ \A i \in 1 .. Len(held[x]) : held'[x][i] = held[x][i]
         /\ held'[x][Len(held[x]) + 1] = c
  BY TakenContents
<1>9. \A i, j \in DOMAIN held'[x] : held'[x][i] = held'[x][j] => i = j
  BY <1>6, <1>8 DEF OnePlace, HeldOnce
<1>10. \A i \in DOMAIN held'[x] :
         held'[x][i] = c \/ \E j \in DOMAIN held[x] : held'[x][i] = held[x][j]
  BY <1>8
<1>11. HeldOnce'
  BY <1>6, <1>7, <1>9, <1>10 DEF OnePlace, HeldOnce
<1>12. HeldNotPooled'
  BY <1>4, <1>7, <1>10 DEF OnePlace, HeldNotPooled
<1> QED
  BY <1>5, <1>11, <1>12 DEF OnePlace

\* return_container moves it back to one Vec.
LEMMA ReturnsOnePlace ==
  ASSUME IInv, OnePlace, NEW x \in Calls, Returns(x)
  PROVE  OnePlace'
<1> DEFINE k == Key(x)
<1>1. /\ k \in Keys
      /\ Len(held[x]) \in Nat \ {0} /\ Len(pool[k]) \in Nat
      /\ \A y \in Calls : DOMAIN held[y] = 1 .. Len(held[y])
      /\ \A l \in Keys : DOMAIN pool[l] = 1 .. Len(pool[l])
      /\ DOMAIN pool'[k] = 1 .. Len(pool[k]) + 1
      /\ \A i \in 1 .. Len(pool[k]) : pool'[k][i] = pool[k][i]
      /\ pool'[k][Len(pool[k]) + 1] = held[x][1]
      /\ \A l \in Keys \ {k} : pool'[l] = pool[l]
      /\ DOMAIN held'[x] = 1 .. Len(held[x]) - 1
      /\ \A i \in 1 .. Len(held[x]) - 1 : held'[x][i] = held[x][i + 1]
      /\ \A y \in Calls \ {x} : held'[y] = held[y]
  BY PushContents DEF Returns
<1> HIDE DEF k
<1> DEFINE c == held[x][1]
<1>2. \A l \in Keys : \A i \in DOMAIN pool'[l] :
        \/ i \in DOMAIN pool[l] /\ pool'[l][i] = pool[l][i]
        \/ l = k /\ i = Len(pool[k]) + 1 /\ pool'[l][i] = c
  BY <1>1
<1>3. \A l \in Keys : \A i \in DOMAIN pool[l] : pool[l][i] # c
  BY <1>1 DEF OnePlace, HeldNotPooled
<1>4. \A i \in DOMAIN held'[x] : i + 1 \in DOMAIN held[x] /\ held'[x][i] = held[x][i + 1]
  BY <1>1
<1>5. \A y \in Calls : \A i \in DOMAIN held'[y] : held'[y][i] # c
  <2>1. 1 \in DOMAIN held[x]
    BY <1>1
  <2>2. \A i \in DOMAIN held'[x] : held'[x][i] # c
    <3>1. ASSUME NEW i \in DOMAIN held'[x] PROVE i + 1 # 1
      BY <1>1
    <3> QED
      BY <1>4, <2>1, <3>1 DEF OnePlace, HeldOnce
  <2>3. \A y \in Calls \ {x} : \A i \in DOMAIN held[y] : held[y][i] # c
    BY <2>1 DEF OnePlace, HeldOnce
  <2>4. \A y \in Calls \ {x} : held'[y] = held[y]
    BY <1>1
  <2> HIDE DEF c
  <2> QED
    BY <2>2, <2>3, <2>4, Zenon
<1> HIDE DEF c
<1>6. \A y \in Calls : \A i \in DOMAIN held'[y] :
        \E j \in DOMAIN held[y] : held'[y][i] = held[y][j]
  BY <1>1, <1>4
<1>7. PoolOnce'
  BY <1>2, <1>3 DEF OnePlace, PoolOnce
<1>8. HeldOnce'
  <2>1. \A i, j \in DOMAIN held'[x] : held'[x][i] = held'[x][j] => i = j
    BY <1>1, <1>4 DEF OnePlace, HeldOnce
  <2>2. \A y \in Calls \ {x} : \A i \in DOMAIN held'[x], j \in DOMAIN held'[y] :
          held'[x][i] # held'[y][j]
    BY <1>1, <1>4 DEF OnePlace, HeldOnce
  <2>3. \A y, z \in Calls \ {x} : \A i \in DOMAIN held'[y], j \in DOMAIN held'[z] :
          held'[y][i] = held'[z][j] => y = z /\ i = j
    BY <1>1 DEF OnePlace, HeldOnce
  <2> QED
    BY <2>1, <2>2, <2>3 DEF HeldOnce
<1>9. HeldNotPooled'
  BY <1>2, <1>5, <1>6 DEF OnePlace, HeldNotPooled
<1> QED
  BY <1>7, <1>8, <1>9 DEF OnePlace

\* Every step keeps each container in one place.
LEMMA NextOnePlace == IInv /\ OnePlace /\ [Next]_vars => OnePlace'
<1> SUFFICES ASSUME IInv, OnePlace, [Next]_vars PROVE OnePlace'
  OBVIOUS
<1>1. CASE Keeps
  BY <1>1 DEF Keeps, OnePlace, PoolOnce, HeldOnce, HeldNotPooled
<1>2. ASSUME NEW x \in Calls, Drops(x) PROVE OnePlace'
  <2>1. /\ pool' = pool /\ held'[x] = <<>> /\ DOMAIN held'[x] = {}
        /\ \A y \in Calls \ {x} : held'[y] = held[y]
    BY <1>2 DEF Drops, IInv, TypeOK
  <2> QED
    BY <2>1 DEF OnePlace, PoolOnce, HeldOnce, HeldNotPooled
<1> QED
  BY <1>1, <1>2, ContainerSteps, TakesOnePlace, ReturnsOnePlace

\* However calls interleave, fail, panic or are dropped, a container is never
\* pooled twice, held twice, or both pooled and held: no two calls ever use the
\* same container at once.
THEOREM ContainersExclusive == Spec => []OnePlace
<1>1. Init => OnePlace
  BY PoolAssumption
     DEF Init, OnePlace, PoolOnce, HeldOnce, HeldNotPooled, PoolAssumption
<1> QED
  BY <1>1, InvariantIInv, NextOnePlace, PTL DEF Spec

-----------------------------------------------------------------------------
\* Containers stay with their language.

\* The container taken belongs to the call's own key.
LEMMA TakesAtHome ==
  ASSUME IInv, AtHome, NEW x \in Calls, NEW c \in Containers, Takes(x, c)
  PROVE  AtHome'
<1> DEFINE k == Key(x)
<1>1. k \in Keys /\ Pop(k, c) /\ job[x] # NoJob /\ job' = job
  BY Arguments DEF IInv, TypeOK, Takes
<1>2. \A y \in Calls : Key(y)' = Key(y)
  BY <1>1 DEF Key
<1> HIDE DEF k
<1>3. /\ Len(pool[k]) \in Nat \ {0}
      /\ c = pool[k][Len(pool[k])]
      /\ \A l \in Keys : DOMAIN pool[l] = 1 .. Len(pool[l]) /\ Len(pool[l]) \in Nat
      /\ DOMAIN pool'[k] = 1 .. Len(pool[k]) - 1
      /\ \A i \in 1 .. Len(pool[k]) - 1 : pool'[k][i] = pool[k][i]
      /\ \A l \in Keys \ {k} : pool'[l] = pool[l]
  BY <1>1, PopContents
<1>4. \A l \in Keys : \A i \in DOMAIN pool'[l] :
        i \in DOMAIN pool[l] /\ pool'[l][i] = pool[l][i]
  BY <1>1, <1>3
<1>5. \A l \in Keys : \A i \in DOMAIN pool'[l] : pool'[l][i] \in Home(l)
  BY <1>4 DEF AtHome
<1>6. c \in Home(Key(x))
  <2>1. Len(pool[k]) \in DOMAIN pool[k]
    BY <1>1, <1>3
  <2> QED
    BY <1>1, <1>3, <2>1 DEF AtHome, k
<1>7. \A i \in DOMAIN held'[x] :
        held'[x][i] = c \/ \E j \in DOMAIN held[x] : held'[x][i] = held[x][j]
  BY TakenContents
<1>8. \A y \in Calls \ {x} : held'[y] = held[y]
  BY DEF Takes, IInv, TypeOK
<1>9. \A y \in Calls : \A i \in DOMAIN held'[y] :
        job[y] # NoJob /\ held'[y][i] \in Home(Key(y))
  BY <1>1, <1>6, <1>7, <1>8 DEF AtHome
<1>10. Home(Key(x))' = Home(Key(x)) /\ \A l \in Keys : Home(l)' = Home(l)
  BY <1>2 DEF Home
<1> QED
  BY <1>1, <1>2, <1>5, <1>9 DEF AtHome, Home

\* It goes back under the key it was taken from.
LEMMA ReturnsAtHome ==
  ASSUME IInv, AtHome, NEW x \in Calls, Returns(x)
  PROVE  AtHome'
<1> DEFINE k == Key(x)
<1>1. job[x] # NoJob /\ job' = job /\ Push(x)
  BY DEF Returns
<1>2. \A y \in Calls : Key(y)' = Key(y)
  BY <1>1 DEF Key
<1>3. /\ k \in Keys
      /\ Len(held[x]) \in Nat \ {0} /\ Len(pool[k]) \in Nat
      /\ \A y \in Calls : DOMAIN held[y] = 1 .. Len(held[y])
      /\ \A l \in Keys : DOMAIN pool[l] = 1 .. Len(pool[l])
      /\ DOMAIN pool'[k] = 1 .. Len(pool[k]) + 1
      /\ \A i \in 1 .. Len(pool[k]) : pool'[k][i] = pool[k][i]
      /\ pool'[k][Len(pool[k]) + 1] = held[x][1]
      /\ \A l \in Keys \ {k} : pool'[l] = pool[l]
      /\ DOMAIN held'[x] = 1 .. Len(held[x]) - 1
      /\ \A i \in 1 .. Len(held[x]) - 1 : held'[x][i] = held[x][i + 1]
      /\ \A y \in Calls \ {x} : held'[y] = held[y]
  BY <1>1, PushContents
<1>4. held[x][1] \in Home(k)
  <2>1. 1 \in DOMAIN held[x]
    BY <1>3
  <2> QED
    BY <2>1 DEF AtHome
<1> HIDE DEF k
<1>5. \A l \in Keys : \A i \in DOMAIN pool'[l] :
        \/ i \in DOMAIN pool[l] /\ pool'[l][i] = pool[l][i]
        \/ l = k /\ pool'[l][i] = held[x][1]
  BY <1>3
<1>6. \A l \in Keys : \A i \in DOMAIN pool'[l] : pool'[l][i] \in Home(l)
  BY <1>4, <1>5 DEF AtHome
<1>7. \A i \in DOMAIN held'[x] : i + 1 \in DOMAIN held[x] /\ held'[x][i] = held[x][i + 1]
  BY <1>3
<1>8. \A y \in Calls : \A i \in DOMAIN held'[y] :
        job[y] # NoJob /\ held'[y][i] \in Home(Key(y))
  <2>1. \A i \in DOMAIN held'[x] : job[x] # NoJob /\ held'[x][i] \in Home(Key(x))
    BY <1>7 DEF AtHome
  <2>2. \A y \in Calls \ {x} : held'[y] = held[y]
    BY <1>3
  <2>3. \A y \in Calls \ {x} : \A i \in DOMAIN held'[y] :
          job[y] # NoJob /\ held'[y][i] \in Home(Key(y))
    BY <2>2 DEF AtHome
  <2> QED
    BY <2>1, <2>3
<1> QED
  BY <1>1, <1>2, <1>6, <1>8 DEF AtHome, Home

\* Every step keeps the containers with their language.
LEMMA NextAtHome == IInv /\ AtHome /\ [Next]_vars => AtHome'
<1> SUFFICES ASSUME IInv, AtHome, [Next]_vars PROVE AtHome'
  OBVIOUS
<1>1. CASE Keeps
  <2>1. \A x \in Calls : \A i \in DOMAIN held[x] : held[x] # <<>>
    BY DEF IInv, TypeOK
  <2>2. \A x \in Calls : \A i \in DOMAIN held[x] : job'[x] = job[x]
    BY <1>1, <2>1 DEF Keeps
  <2> QED
    BY <1>1, <2>2 DEF Keeps, AtHome, Home, Key
<1>2. ASSUME NEW x \in Calls, Drops(x) PROVE AtHome'
  <2>1. /\ pool' = pool /\ held'[x] = <<>> /\ DOMAIN held'[x] = {}
        /\ \A y \in Calls \ {x} : held'[y] = held[y] /\ job'[y] = job[y]
    BY <1>2 DEF Drops, IInv, TypeOK
  <2> QED
    BY <2>1 DEF AtHome, Home, Key
<1> QED
  BY <1>1, <1>2, ContainerSteps, TakesAtHome, ReturnsAtHome

\* A container is pooled and used under the language and version it was created
\* for, however often calls take it and give it back.
THEOREM ContainersStayHome == Spec => []AtHome
<1>1. Init => AtHome
  BY DEF Init, AtHome, Home
<1> QED
  BY <1>1, InvariantIInv, NextAtHome, PTL DEF Spec

-----------------------------------------------------------------------------
\* What a step of one call leaves to the others.

\* The call y does not move.
Same(y) ==
  /\ pc'[y] = pc[y] /\ job'[y] = job[y] /\ out'[y] = out[y]
  /\ reply'[y] = reply[y] /\ loc'[y] = loc[y]

\* The steps of a call change nothing of another one.
LEMMA OthersSame ==
  ASSUME IInv, NEW x \in Calls, NEW y \in Calls \ {x},
         Begin(x) \/ Collect(x) \/ Cancel(x) \/ Acquire(x) \/ Step(x)
  PROVE  Same(y)
<1> USE DEF IInv, TypeOK, Same, Goto, Leave, Fail, Abort
<1>1. ASSUME Begin(x) \/ Collect(x) \/ Cancel(x) \/ Acquire(x) PROVE Same(y)
  BY <1>1 DEF Begin, Collect, Cancel, Acquire, AcquireSingle, AcquireBatch, Enter
<1>2. ASSUME TakeFirst(x) \/ GiveBack(x) \/ WriteFile(x) \/ Drain(x) PROVE Same(y)
  BY <1>2 DEF TakeFirst, GiveBack, WriteFile, Drain
<1>3. ASSUME CompilerStep(x) PROVE Same(y)
  BY <1>3 DEF CompilerStep, UseArtifact, WriteProgram, Compile, Built
<1>4. ASSUME LookupSingle(x) \/ RunSingle(x) PROVE Same(y)
  BY <1>4 DEF LookupSingle, RunSingle, Serve, RunRequest
<1>5. ASSUME LookupFirst(x) \/ RunFirst(x) \/ CheckFirst(x) PROVE Same(y)
  BY <1>5 DEF LookupFirst, RunFirst, CheckFirst, Serve, RunRequest
<1>6. ASSUME Extend(x) \/ StartChunk(x) PROVE Same(y)
  BY <1>6 DEF Extend, StartChunk
<1>7. ASSUME LookupNext(x) \/ RunNext(x) \/ EndChunk(x) PROVE Same(y)
  BY <1>7 DEF LookupNext, RunNext, EndChunk, Serve, RunRequest
<1> HIDE DEF IInv, TypeOK, Same, Goto, Leave, Fail, Abort
<1>8. ASSUME SingleStep(x) \/ BatchStep(x) PROVE Same(y)
  BY <1>2, <1>4, <1>5, <1>6, <1>7, <1>8
     DEF SingleStep, BatchStep, GetSingle, WriteSingle, GetInitial, WriteFirst
<1> QED
  BY <1>1, <1>2, <1>3, <1>8 DEF Step

\* The containers of the other calls stay theirs.
LEMMA OthersHold ==
  ASSUME IInv, NEW x \in Calls, NEW y \in Calls \ {x},
         Begin(x) \/ Collect(x) \/ Cancel(x) \/ Acquire(x) \/ Step(x)
  PROVE  held'[y] = held[y]
<1> USE DEF IInv, TypeOK, Leave, Fail, Abort
<1>1. ASSUME Begin(x) \/ Collect(x) \/ Cancel(x) \/ Acquire(x) PROVE held'[y] = held[y]
  BY <1>1 DEF Begin, Collect, Cancel, Acquire, AcquireSingle, AcquireBatch, Enter
<1>2. ASSUME TakeFirst(x) \/ GiveBack(x) \/ WriteFile(x) \/ Drain(x) PROVE held'[y] = held[y]
  BY <1>2 DEF TakeFirst, GiveBack, WriteFile, Drain, Push
<1>3. ASSUME CompilerStep(x) PROVE held'[y] = held[y]
  BY <1>3 DEF CompilerStep, UseArtifact, WriteProgram, Compile, Built
<1>4. ASSUME LookupSingle(x) \/ RunSingle(x) PROVE held'[y] = held[y]
  BY <1>4 DEF LookupSingle, RunSingle
<1>5. ASSUME LookupFirst(x) \/ RunFirst(x) \/ CheckFirst(x) PROVE held'[y] = held[y]
  BY <1>5 DEF LookupFirst, RunFirst, CheckFirst
<1>6. ASSUME Extend(x) \/ StartChunk(x) PROVE held'[y] = held[y]
  BY <1>6 DEF Extend, StartChunk
<1>7. ASSUME LookupNext(x) \/ RunNext(x) \/ EndChunk(x) PROVE held'[y] = held[y]
  BY <1>7 DEF LookupNext, RunNext, EndChunk
<1> HIDE DEF IInv, TypeOK, Leave, Fail, Abort
<1>8. ASSUME SingleStep(x) \/ BatchStep(x) PROVE held'[y] = held[y]
  BY <1>2, <1>4, <1>5, <1>6, <1>7, <1>8
     DEF SingleStep, BatchStep, GetSingle, WriteSingle, GetInitial, WriteFirst
<1> QED
  BY <1>1, <1>2, <1>3, <1>8 DEF Step
=============================================================================
