---------------------------- MODULE PermitProofs -----------------------------
(***************************************************************************)
(* The semaphore of CodeExecutor: no permit is lost and none is made up,   *)
(* whichever way a call ends.  A step leaves every call on its side of the *)
(* semaphore, or takes one call in and one permit out, or the reverse.     *)
(***************************************************************************)
EXTENDS ExecutorProofs, FiniteSetTheorems

\* No call passes the semaphore.
NoPassage == permits' = permits /\ Holders' = Holders

\* x comes in with a permit that was free.
ComesIn(x) ==
  /\ permits' = permits - 1
  /\ x \notin Holders /\ Holders' = Holders \cup {x}

\* x goes out, and its permit is free.
GoesOut(x) ==
  /\ permits' = permits + 1
  /\ x \in Holders /\ Holders' = Holders \ {x}

Passage == NoPassage \/ \E x \in Calls : ComesIn(x) \/ GoesOut(x)

\* One call goes to another place: what that does to Holders.
LEMMA Moves ==
  ASSUME IInv, NEW x \in Calls, NEW l, Goto(x, l)
  PROVE  Holders' = IF l \in Inside THEN Holders \cup {x} ELSE Holders \ {x}
<1>1. pc'[x] = l /\ \A y \in Calls \ {x} : pc'[y] = pc[y]
  BY DEF Goto, IInv, TypeOK
<1> QED
  BY <1>1 DEF Holders, HoldsPermit

\* The places inside the semaphore.
LEMMA Places ==
  /\ \A l \in {"get", "artifact", "compile", "built", "write", "run", "check", "extend",
               "runchunk", "drain", "giveback"} : l \in Inside
  /\ \A l \in Outside : l \notin Inside
BY DEF Inside, Outside

\* A call inside the semaphore that goes to another place inside it.
LEMMA Inward ==
  ASSUME IInv, NEW x \in Calls, pc[x] \in Inside, NEW l \in Inside, Goto(x, l),
         permits' = permits
  PROVE  Passage
<1>1. x \in Holders
  BY DEF Holders, HoldsPermit
<1> QED
  BY <1>1, Moves DEF Passage, NoPassage

\* An early end: Err or a panic.
LEMMA AbortPasses ==
  ASSUME IInv, NEW x \in Calls, pc[x] \in Inside, NEW r, Abort(x, r)
  PROVE  Passage
<1>1. Goto(x, "replied") /\ permits' = permits + 1
  BY DEF Abort
<1>2. x \in Holders /\ "replied" \notin Inside
  BY DEF Holders, HoldsPermit, Inside
<1> QED
  BY <1>1, <1>2, Moves DEF Passage, GoesOut

\* Nobody moves.
LEMMA StillPasses == ASSUME UNCHANGED <<pc, permits>> PROVE Passage
BY DEF Passage, NoPassage, Holders, HoldsPermit

\* A permit is taken with the way in.
LEMMA EnterPasses == ASSUME IInv, NEW x \in Calls, Enter(x) PROVE Passage
<1>1. x \notin Holders /\ Holders' = Holders \cup {x}
  BY Moves DEF Enter, Holders, HoldsPermit, Inside
<1> QED
  BY <1>1 DEF Enter, Passage, ComesIn

\* A call begins and its reply is taken outside the semaphore.
LEMMA OutsidePasses ==
  ASSUME IInv, NEW x \in Calls, Begin(x) \/ Collect(x) PROVE Passage
<1>1. /\ pc[x] \notin Inside /\ permits' = permits
      /\ Goto(x, "acquire") \/ Goto(x, "idle")
      /\ "acquire" \notin Inside /\ "idle" \notin Inside
  BY DEF Begin, Collect, poolVars, Inside
<1>2. Holders' = Holders \ {x} /\ x \notin Holders
  BY <1>1, Moves DEF Holders, HoldsPermit
<1> QED
  BY <1>1, <1>2 DEF Passage, NoPassage

\* A dropped future frees a permit exactly if it held one.
LEMMA CancelPasses == ASSUME IInv, NEW x \in Calls, Cancel(x) PROVE Passage
<1>1. Goto(x, "idle") /\ "idle" \notin Inside
  BY DEF Cancel, Inside
<1>2. Holders' = Holders \ {x} /\ (x \in Holders <=> HoldsPermit(x))
  BY <1>1, Moves DEF Holders
<1> QED
  BY <1>2 DEF Cancel, Passage, GoesOut, NoPassage

\* The last container returned is the way out.
LEMMA GiveBackPasses == ASSUME IInv, NEW x \in Calls, GiveBack(x) PROVE Passage
<1>1. CASE Goto(x, "replied") /\ permits' = permits + 1
  <2>1. x \in Holders /\ "replied" \notin Inside
    BY DEF GiveBack, Holders, HoldsPermit, Inside
  <2> QED
    BY <1>1, <2>1, Moves DEF Passage, GoesOut
<1>2. CASE UNCHANGED <<pc, permits>>
  BY <1>2, StillPasses
<1> QED
  BY <1>1, <1>2 DEF GiveBack

\* Every other step of a call: it stays inside, or it ends early.
LEMMA StepPasses ==
  ASSUME IInv, NEW x \in Calls, pc[x] \in Inside,
         \/ UNCHANGED <<pc, permits>>
         \/ permits' = permits /\ \E l \in Inside : Goto(x, l)
         \/ \E r \in {"err", "panic"} : Abort(x, r)
  PROVE  Passage
BY StillPasses, Inward, AbortPasses

\* The steps execute and execute_batch share.
LEMMA SharedSteps ==
  ASSUME IInv, NEW x \in Calls, TakeFirst(x) \/ WriteFile(x) \/ CompilerStep(x)
  PROVE  Passage
<1>1. ASSUME TakeFirst(x) PROVE Passage
  <2>1. pc[x] \in Inside
    BY <1>1, Places DEF TakeFirst
  <2>2. \/ permits' = permits /\ \E l \in {"artifact", "built"} : Goto(x, l)
        \/ \E r \in {"err", "panic"} : Abort(x, r)
    BY <1>1 DEF TakeFirst, Fail
  <2> QED
    BY <2>1, <2>2, Places, StepPasses
<1>2. ASSUME WriteFile(x) PROVE Passage
  <2>1. pc[x] \in Inside
    BY <1>2, Places DEF WriteFile
  <2>2. \/ permits' = permits /\ \E l \in {"run", "giveback"} : Goto(x, l)
        \/ Abort(x, "err")
    BY <1>2 DEF WriteFile, Fail, Leave
  <2> QED
    BY <2>1, <2>2, Places, StepPasses
<1>3. ASSUME CompilerStep(x) PROVE Passage
  <2>1. pc[x] \in Inside
    BY <1>3, Places DEF CompilerStep, UseArtifact, WriteProgram, Compile
  <2>2. \/ permits' = permits /\ \E l \in {"built", "compile"} : Goto(x, l)
        \/ Abort(x, "err")
    BY <1>3 DEF CompilerStep, UseArtifact, WriteProgram, Compile, Built, Fail
  <2> QED
    BY <2>1, <2>2, Places, StepPasses
<1> QED
  BY <1>1, <1>2, <1>3

\* The steps of execute.
LEMMA SingleSteps ==
  ASSUME IInv, NEW x \in Calls, LookupSingle(x) \/ RunSingle(x)
  PROVE  Passage
<1>1. pc[x] \in Inside
  BY Places DEF LookupSingle, RunSingle
<1>2. \/ permits' = permits /\ \E l \in {"run", "write", "giveback"} : Goto(x, l)
      \/ Abort(x, "err")
  BY DEF LookupSingle, RunSingle, Leave, Fail, poolVars
<1> QED
  BY <1>1, <1>2, Places, StepPasses

\* The steps of execute_batch up to its first result.
LEMMA FirstSteps ==
  ASSUME IInv, NEW x \in Calls, LookupFirst(x) \/ RunFirst(x) \/ CheckFirst(x)
  PROVE  Passage
<1>1. pc[x] \in Inside
  BY Places DEF LookupFirst, RunFirst, CheckFirst
<1>2. \/ /\ permits' = permits
         /\ \E l \in {"check", "run", "write", "giveback", "extend"} : Goto(x, l)
      \/ Abort(x, "err")
  BY DEF LookupFirst, RunFirst, CheckFirst, Leave, Fail, poolVars
<1> QED
  BY <1>1, <1>2, Places, StepPasses

\* The steps of execute_batch after its first result.
LEMMA ChunkSteps ==
  ASSUME IInv, NEW x \in Calls,
         \/ Extend(x) \/ StartChunk(x) \/ LookupNext(x)
         \/ RunNext(x) \/ EndChunk(x) \/ Drain(x)
  PROVE  Passage
<1>1. pc[x] \in Inside
  BY Places DEF Extend, StartChunk, LookupNext, RunNext, EndChunk, Drain
<1>2. \/ UNCHANGED <<pc, permits>>
      \/ permits' = permits /\ \E l \in {"giveback", "runchunk", "drain", "extend"} : Goto(x, l)
      \/ \E r \in {"err", "panic"} : Abort(x, r)
  <2>1. ASSUME Extend(x) \/ LookupNext(x) \/ RunNext(x)
        PROVE  UNCHANGED <<pc, permits>> \/ Abort(x, "err")
    BY <2>1 DEF Extend, LookupNext, RunNext, Fail, poolVars
  <2>2. ASSUME StartChunk(x)
        PROVE  \/ permits' = permits /\ (Goto(x, "giveback") \/ Goto(x, "runchunk"))
               \/ Abort(x, "panic")
    BY <2>2 DEF StartChunk, Leave
  <2>3. ASSUME EndChunk(x)
        PROVE  \/ permits' = permits /\ (Goto(x, "giveback") \/ Goto(x, "drain"))
               \/ Abort(x, "err")
    BY <2>3 DEF EndChunk, Leave, Fail
  <2>4. ASSUME Drain(x)
        PROVE  permits' = permits /\ (Goto(x, "extend") \/ pc' = pc)
    BY <2>4 DEF Drain
  <2> QED
    BY <2>1, <2>2, <2>3, <2>4
<1> QED
  BY <1>1, <1>2, Places, StepPasses

\* Every step passes at most one call through the semaphore.
LEMMA PermitSteps == ASSUME IInv, [Next]_vars PROVE Passage
<1>1. CASE UNCHANGED vars
  BY <1>1, StillPasses DEF vars, callVars, poolVars
<1>2. ASSUME NEW x \in Calls, Begin(x) \/ Collect(x) \/ Cancel(x) \/ Acquire(x)
      PROVE  Passage
  BY <1>2, OutsidePasses, CancelPasses, EnterPasses DEF Acquire, AcquireSingle, AcquireBatch
<1>3. ASSUME NEW x \in Calls, Step(x) PROVE Passage
  BY <1>3, SharedSteps, SingleSteps, FirstSteps, ChunkSteps, GiveBackPasses
     DEF Step, SingleStep, BatchStep, GetSingle, WriteSingle, GetInitial, WriteFirst
<1>4. ASSUME Evict \/ \E c \in Containers : WriteLands(c) PROVE Passage
  BY <1>4, StillPasses DEF Evict, WriteLands, callVars, poolVars
<1> QED
  BY <1>1, <1>2, <1>3, <1>4 DEF Next

-----------------------------------------------------------------------------
\* There are finitely many calls to count.
LEMMA HoldersFinite ==
  IsFiniteSet(Holders) /\ Cardinality(Holders) \in Nat
<1>1. IsFiniteSet(Calls) /\ Holders \in SUBSET Calls
  BY SandboxAssumption DEF SandboxAssumption, Holders
<1> QED
  BY <1>1, FS_Subset, FS_CardinalityType

\* Every step keeps the sum of free and held permits.
LEMMA NextPermits ==
  IInv /\ PermitsConserved /\ [Next]_vars => PermitsConserved'
<1> SUFFICES ASSUME IInv, PermitsConserved, [Next]_vars PROVE PermitsConserved'
  OBVIOUS
<1>1. permits + Cardinality(Holders) = MaxPermits /\ permits \in Nat
  BY DEF PermitsConserved, Holders, IInv, TypeOK
<1>2. permits' + Cardinality(Holders') = MaxPermits
  <2>1. CASE NoPassage
    BY <1>1, <2>1 DEF NoPassage
  <2>2. ASSUME NEW x \in Calls, ComesIn(x) PROVE permits' + Cardinality(Holders') = MaxPermits
    <3>1. Cardinality(Holders') = Cardinality(Holders) + 1
      BY <2>2, HoldersFinite, FS_AddElement DEF ComesIn
    <3> QED
      BY <1>1, <2>2, <3>1, HoldersFinite DEF ComesIn
  <2>3. ASSUME NEW x \in Calls, GoesOut(x) PROVE permits' + Cardinality(Holders') = MaxPermits
    <3>1. Cardinality(Holders') = Cardinality(Holders) - 1
      BY <2>3, HoldersFinite, FS_RemoveElement DEF GoesOut
    <3> QED
      BY <1>1, <2>3, <3>1, HoldersFinite DEF GoesOut
  <2> QED
    BY <2>1, <2>2, <2>3, PermitSteps DEF Passage
<1> QED
  BY <1>2 DEF PermitsConserved, Holders

\* For any number of calls and permits, the permits that are free and those of
\* the calls inside add up to MaxPermits: no error, panic or dropped future
\* leaks one.
THEOREM PermitsNeverLost == Spec => []PermitsConserved
<1>1. Init => PermitsConserved
  <2> SUFFICES ASSUME Init PROVE PermitsConserved
    OBVIOUS
  <2>1. {x \in Calls : HoldsPermit(x)} = {}
    BY DEF Init, HoldsPermit, Inside
  <2>2. permits = MaxPermits /\ MaxPermits \in Nat
    BY SandboxAssumption DEF Init, SandboxAssumption
  <2> QED
    BY <2>1, <2>2, FS_EmptySet DEF PermitsConserved
<1> QED
  BY <1>1, InvariantIInv, NextPermits, PTL DEF Spec

-----------------------------------------------------------------------------
\* How many containers a call holds.

\* The steps of a batch after its first result.
AfterFirst == {"extend", "runchunk", "drain", "giveback"}

\* The containers max_parallel allows a call: one if it is zero or not read yet.
Room(x) == IF loc[x].maxPar = 0 THEN 1 ELSE loc[x].maxPar

\* A call holds no more, those its container loop can still take included, and
\* max_parallel is less than the number of its requests.
RoomKept(x) ==
  /\ pc[x] \notin AfterFirst => loc[x].maxPar = 0
  /\ Len(held[x]) + (IF pc[x] = "extend" THEN loc[x].left ELSE 0) <= Room(x)
  /\ loc[x].maxPar > 0 => loc[x].maxPar < NumRequests(x)

RInv == \A x \in Calls : RoomKept(x)

\* The calls that read at least m permits.
Readers(m) == {x \in Calls : loc[x].maxPar >= m}

\* They had a permit each besides those m.
SInv == \A m \in 1 .. MaxPermits : Cardinality(Readers(m)) <= MaxPermits - m

\* The numbers of RoomKept.
LEMMA Numbers ==
  ASSUME IInv, NEW x \in Calls
  PROVE  /\ Len(held[x]) \in Nat /\ loc[x].left \in Nat /\ loc[x].maxPar \in Nat
         /\ Room(x) \in Nat /\ (held[x] # <<>> => Len(held[x]) \in Nat \ {0})
         /\ Len(<<>>) = 0
BY CallTypes, LocalsTypes, LenProperties, EmptySeq DEF Room

\* A call that is over, or loses its containers.
LEMMA EmptyRoom ==
  ASSUME NEW x \in Calls, held'[x] = <<>>, loc'[x] = NoLocals
  PROVE  RoomKept(x)'
<1>1. Len(held'[x]) = 0 /\ loc'[x].maxPar = 0 /\ loc'[x].left = 0 /\ Room(x)' = 1
  BY DEF NoLocals, Room
<1> QED
  BY <1>1 DEF RoomKept

\* An early end.
LEMMA AbortRoom ==
  ASSUME IInv, NEW x \in Calls, NEW r, Abort(x, r)
  PROVE  RoomKept(x)'
<1>1. held'[x] = <<>> /\ loc'[x] = NoLocals
  BY DEF Abort, IInv, TypeOK
<1> QED
  BY <1>1, EmptyRoom

\* A step that is not about containers.
LEMMA SameRoom ==
  ASSUME IInv, NEW x \in Calls, RoomKept(x), held'[x] = held[x],
         loc'[x].maxPar = loc[x].maxPar, job'[x] = job[x] \/ loc[x].maxPar = 0,
         pc'[x] \notin AfterFirst => pc[x] \notin AfterFirst,
         pc'[x] # "extend" \/ (pc[x] = "extend" /\ loc'[x].left = loc[x].left)
  PROVE  RoomKept(x)'
<1>1. Room(x)' = Room(x) /\ (loc[x].maxPar # 0 => NumRequests(x)' = NumRequests(x))
  BY DEF Room, NumRequests
<1>2. Len(held[x]) <= Room(x)
  BY Numbers DEF RoomKept
<1> QED
  BY <1>1, <1>2, Numbers DEF RoomKept

\* Before the first permit and after the last container.
LEMMA OutsideRoom ==
  ASSUME IInv, NEW x \in Calls, RoomKept(x),
         Begin(x) \/ Collect(x) \/ Cancel(x) \/ Acquire(x)
  PROVE  RoomKept(x)'
<1>1. CASE Cancel(x)
  <2>1. held'[x] = <<>> /\ loc'[x] = NoLocals
    BY <1>1 DEF Cancel, IInv, TypeOK
  <2> QED
    BY <2>1, EmptyRoom
<1>2. CASE Begin(x) \/ Collect(x) \/ Acquire(x)
  <2>1. /\ UNCHANGED <<held, loc>> /\ pc[x] \in Outside
        /\ pc'[x] \in {"acquire", "idle", "get"}
    BY <1>2 DEF Begin, Collect, Acquire, AcquireSingle, AcquireBatch, Enter, Goto, Outside,
                IInv, TypeOK
  <2>2. pc[x] \notin AfterFirst /\ pc'[x] # "extend"
    BY <2>1 DEF AfterFirst, Outside
  <2> QED
    BY <2>1, <2>2, SameRoom DEF RoomKept
<1> QED
  BY <1>1, <1>2

\* The steps up to the first result: one container.
LEMMA FirstRoom ==
  ASSUME IInv, NEW x \in Calls, RoomKept(x),
         \/ TakeFirst(x) \/ WriteFile(x) \/ CompilerStep(x) \/ LookupSingle(x)
         \/ RunSingle(x) \/ LookupFirst(x) \/ RunFirst(x)
  PROVE  RoomKept(x)'
<1> DEFINE Ends == \E r \in {"err", "panic"} : Abort(x, r)
<1>1. CASE TakeFirst(x) /\ ~Ends
  <2>1. PICK c \in Containers : held' = [held EXCEPT ![x] = <<c>>]
    BY <1>1 DEF TakeFirst, Fail
  <2>2. /\ pc[x] = "get" /\ loc' = loc /\ held'[x] = <<c>>
        /\ pc'[x] \in {"artifact", "built"}
    BY <1>1, <2>1 DEF TakeFirst, Fail, Goto, IInv, TypeOK
  <2>3. loc'[x].maxPar = 0 /\ Room(x)' = 1 /\ Len(held'[x]) = 1
    BY <2>2 DEF RoomKept, Room, AfterFirst
  <2> QED
    BY <2>2, <2>3 DEF RoomKept
<1>2. CASE Ends
  BY <1>2, AbortRoom
<1>3. CASE ~TakeFirst(x) /\ ~Ends
  <2> ~Fail(x)
    BY <1>3 DEF Fail
  <2> HIDE DEF Ends
  <2>1. /\ UNCHANGED <<held, job>> /\ loc'[x].maxPar = loc[x].maxPar
        /\ pc[x] \in {"artifact", "compile", "built", "write", "run"}
        /\ pc'[x] # "extend"
    <3>1. ASSUME CompilerStep(x)
          PROVE  /\ UNCHANGED <<held, job>> /\ loc'[x].maxPar = loc[x].maxPar
                 /\ pc[x] \in {"artifact", "compile"} /\ pc'[x] \in {"compile", "built"}
      <4>1. \/ Goto(x, "compile") /\ UNCHANGED <<held, job, loc>>
            \/ \E q \in {"ok", "stderr", "nocmd"} : Built(x, q)
        BY <1>3, <3>1 DEF CompilerStep, UseArtifact, WriteProgram, Compile
      <4>2. loc[x] \in Locals
        BY CallTypes
      <4>3. pc[x] \in {"artifact", "compile"}
        BY <3>1 DEF CompilerStep, UseArtifact, WriteProgram, Compile
      <4> QED
        BY <4>1, <4>2, <4>3 DEF Built, Goto, IInv, TypeOK, Locals
    <3>2. ASSUME WriteFile(x) \/ LookupSingle(x) \/ RunSingle(x) \/ LookupFirst(x) \/ RunFirst(x)
          PROVE  /\ UNCHANGED <<held, job, loc>> /\ pc[x] \in {"built", "write", "run"}
                 /\ pc'[x] \in {"run", "giveback", "write", "check"}
      BY <1>3, <3>2 DEF WriteFile, LookupSingle, RunSingle, LookupFirst, RunFirst, Leave,
                        Goto, IInv, TypeOK
    <3> QED
      BY <1>3, <3>1, <3>2
  <2>2. pc[x] \notin AfterFirst
    BY <2>1 DEF AfterFirst
  <2> QED
    BY <2>1, <2>2, SameRoom
<1> QED
  BY <1>1, <1>2, <1>3

\* max_parallel is read: less than the number of requests, and the loop runs
\* one time less, for the container the batch has.
LEMMA CheckRoom ==
  ASSUME IInv, NEW x \in Calls, RoomKept(x), CheckFirst(x)
  PROVE  RoomKept(x)'
<1> DEFINE max == Lesser(permits, NumRequests(x) - 1)
<1>1. /\ pc[x] = "check" /\ loc[x] \in Locals /\ loc[x].maxPar = 0
      /\ UNCHANGED <<held, job>>
  BY CallTypes DEF CheckFirst, RoomKept, AfterFirst
<1>2. CASE Leave(x, "ok") /\ loc' = loc
  <2>1. pc'[x] = "giveback"
    BY <1>2 DEF Leave, Goto, IInv, TypeOK
  <2> QED
    BY <1>1, <1>2, <2>1, SameRoom DEF AfterFirst
<1>3. CASE /\ loc' = [loc EXCEPT ![x].maxPar = max, ![x].left = Iterations(max)]
           /\ Goto(x, "extend")
  <2>1. NumRequests(x) \in Nat \ {0} /\ permits \in Nat
    BY <1>1, Busy, Arguments DEF IInv, TypeOK
  <2>2. max \in Nat /\ max < NumRequests(x)
    BY <2>1 DEF Lesser
  <2> HIDE DEF max
  <2>3. /\ loc'[x].maxPar = max /\ loc'[x].left = Iterations(max) /\ pc'[x] = "extend"
        /\ NumRequests(x)' = NumRequests(x)
    BY <1>1, <1>3 DEF Goto, NumRequests, IInv, TypeOK, Locals
  <2>4. Len(held[x]) <= 1
    BY <1>1 DEF RoomKept, Room
  <2>5. 1 + Iterations(max) <= Room(x)'
    BY <2>2, <2>3 DEF Iterations, Room
  <2>6. Iterations(max) \in Nat /\ Room(x)' \in Nat
    BY <2>2, <2>3 DEF Iterations, Room
  <2> QED
    BY <1>1, <2>2, <2>3, <2>4, <2>5, <2>6, Numbers DEF RoomKept, AfterFirst
<1> QED
  BY <1>2, <1>3 DEF CheckFirst

\* The loop that takes containers, the chunks, and the returns.
LEMMA ChunkRoom ==
  ASSUME IInv, NEW x \in Calls, RoomKept(x),
         \/ Extend(x) \/ StartChunk(x) \/ LookupNext(x) \/ RunNext(x) \/ EndChunk(x)
         \/ Drain(x) \/ GiveBack(x)
  PROVE  RoomKept(x)'
<1>1. /\ loc[x] \in Locals /\ held[x] \in Seq(Containers) /\ pc[x] \in AfterFirst
  BY CallTypes
     DEF Extend, StartChunk, LookupNext, RunNext, EndChunk, Drain, GiveBack, AfterFirst
<1>2. CASE \E r : Abort(x, r)
  BY <1>2, AbortRoom
<1>3. ASSUME Extend(x), ~Fail(x) PROVE RoomKept(x)'
  <2>1. /\ pc[x] = "extend" /\ loc[x].left > 0 /\ UNCHANGED <<pc, job>>
        /\ loc' = [loc EXCEPT ![x].left = @ - 1]
        /\ held' = held \/ \E c \in Containers : held' = [held EXCEPT ![x] = Append(@, c)]
    BY <1>3 DEF Extend
  <2>2. /\ loc'[x].left = loc[x].left - 1 /\ loc'[x].maxPar = loc[x].maxPar
        /\ Room(x)' = Room(x) /\ NumRequests(x)' = NumRequests(x)
    BY <1>1, <2>1 DEF Room, NumRequests, IInv, TypeOK, Locals
  <2>3. Len(held'[x]) <= Len(held[x]) + 1 /\ Len(held'[x]) \in Nat
    <3>1. CASE held' = held
      BY <3>1, Numbers
    <3>2. ASSUME NEW c \in Containers, held' = [held EXCEPT ![x] = Append(@, c)]
          PROVE  Len(held'[x]) = Len(held[x]) + 1
      <4>1. held'[x] = Append(held[x], c)
        BY <3>2 DEF IInv, TypeOK
      <4> QED
        BY <1>1, <4>1, AppendProperties
    <3> QED
      BY <2>1, <3>1, <3>2, Numbers
  <2> QED
    BY <2>1, <2>2, <2>3, Numbers DEF RoomKept, AfterFirst
<1>4. ASSUME StartChunk(x) \/ LookupNext(x) \/ RunNext(x) \/ EndChunk(x), \A r : ~Abort(x, r)
      PROVE  RoomKept(x)'
  <2>1. /\ UNCHANGED <<held, job>> /\ pc'[x] \in {"giveback", "runchunk", "drain"}
        /\ loc'[x].maxPar = loc[x].maxPar
    <3>1. ASSUME StartChunk(x)
          PROVE  /\ UNCHANGED <<held, job>>
                 /\ \/ loc' = loc /\ pc'[x] = "giveback"
                    \/ /\ \E n, t : loc' = [loc EXCEPT ![x].size = n, ![x].todo = t]
                       /\ pc'[x] = "runchunk"
      BY <1>4, <3>1 DEF StartChunk, Leave, Goto, IInv, TypeOK
    <3>2. ASSUME LookupNext(x)
          PROVE  /\ UNCHANGED <<held, job>> /\ pc'[x] = "runchunk"
                 /\ \/ \E t : loc' = [loc EXCEPT ![x].todo = t]
                    \/ \E t, r : loc' = [loc EXCEPT ![x].todo = t, ![x].running = r]
      <4>1. pc' = pc /\ pc[x] = "runchunk" /\ UNCHANGED <<held, job>>
        BY <3>2 DEF LookupNext
      <4>2. PICK i : \/ loc' = [loc EXCEPT ![x].todo = @ \ {i}]
                     \/ loc' = [loc EXCEPT ![x].todo = @ \ {i}, ![x].running = @ \cup {i}]
        BY <3>2 DEF LookupNext
      <4> QED
        BY <4>1, <4>2
    <3>3. ASSUME RunNext(x)
          PROVE  /\ UNCHANGED <<held, job>> /\ pc'[x] = "runchunk"
                 /\ \/ \E r : loc' = [loc EXCEPT ![x].running = r]
                    \/ \E r, f : loc' = [loc EXCEPT ![x].running = r, ![x].failed = f]
      <4>1. pc' = pc /\ pc[x] = "runchunk" /\ UNCHANGED <<held, job>>
        BY <3>3 DEF RunNext
      <4>2. PICK i : \/ loc' = [loc EXCEPT ![x].running = @ \ {i}]
                     \/ loc' = [loc EXCEPT ![x].running = @ \ {i}, ![x].failed = TRUE]
        BY <3>3 DEF RunNext
      <4> QED
        BY <4>1, <4>2
    <3>4. ASSUME EndChunk(x)
          PROVE  UNCHANGED <<held, job, loc>> /\ pc'[x] \in {"giveback", "drain"}
      BY <1>4, <3>4 DEF EndChunk, Fail, Leave, Goto, IInv, TypeOK
    <3>5. ASSUME NEW n, NEW t, NEW r, NEW f,
                 \/ loc' = [loc EXCEPT ![x].size = n, ![x].todo = t]
                 \/ loc' = [loc EXCEPT ![x].todo = t]
                 \/ loc' = [loc EXCEPT ![x].todo = t, ![x].running = r]
                 \/ loc' = [loc EXCEPT ![x].running = r]
                 \/ loc' = [loc EXCEPT ![x].running = r, ![x].failed = f]
          PROVE  loc'[x].maxPar = loc[x].maxPar
      BY <1>1, <3>5 DEF IInv, TypeOK, Locals
    <3> QED
      BY <1>4, <3>1, <3>2, <3>3, <3>4, <3>5
  <2>2. pc'[x] \in AfterFirst /\ pc'[x] # "extend"
    BY <2>1 DEF AfterFirst
  <2> QED
    BY <2>1, <2>2, SameRoom
<1>5. ASSUME Drain(x) \/ GiveBack(x) PROVE RoomKept(x)'
  <2>1. held[x] # <<>> /\ held' = [held EXCEPT ![x] = Tail(@)] /\ job' = job
    BY <1>5 DEF Drain, GiveBack, Push
  <2>2. Len(held'[x]) = Len(held[x]) - 1
    <3>1. held'[x] = Tail(held[x])
      BY <2>1 DEF IInv, TypeOK
    <3> QED
      BY <1>1, <2>1, <3>1, HeadTailProperties
  <2>3. CASE /\ pc'[x] = "extend" /\ Len(held[x]) = 1
             /\ \E n : loc' = [loc EXCEPT ![x].left = loc[x].maxPar, ![x].from = n]
    <3>1. /\ loc'[x].left = loc[x].maxPar /\ loc'[x].maxPar = loc[x].maxPar
          /\ Room(x)' = Room(x) /\ NumRequests(x)' = NumRequests(x)
      BY <1>1, <2>1, <2>3 DEF Room, NumRequests, IInv, TypeOK, Locals
    <3> QED
      BY <2>2, <2>3, <3>1, Numbers DEF RoomKept, Room, AfterFirst
  <2>4. CASE UNCHANGED <<pc, loc>> /\ pc[x] # "extend"
    <3>1. Room(x)' = Room(x) /\ NumRequests(x)' = NumRequests(x)
      BY <2>1, <2>4 DEF Room, NumRequests
    <3> QED
      BY <2>2, <2>4, <3>1, Numbers DEF RoomKept
  <2>5. CASE Len(held[x]) = 1 /\ loc'[x] = NoLocals
    <3>1. held'[x] = <<>>
      BY <1>1, <2>1, <2>2, <2>5, LenZero, HeadTailProperties DEF IInv, TypeOK
    <3> QED
      BY <2>5, <3>1, EmptyRoom
  <2> QED
    BY <1>5, <2>3, <2>4, <2>5 DEF Drain, GiveBack, Goto, IInv, TypeOK
<1> QED
  BY <1>2, <1>3, <1>4, <1>5 DEF Fail

\* A call starts with room for one.
LEMMA InitRInv == Init => RInv
<1> SUFFICES ASSUME Init PROVE RInv
  OBVIOUS
<1>1. ASSUME NEW x \in Calls PROVE RoomKept(x)
  BY <1>1, EmptySeq DEF Init, RoomKept, Room, NoLocals
<1> QED
  BY <1>1 DEF RInv

\* No step gives a call more room than max_parallel.
LEMMA NextRInv == IInv /\ RInv /\ [Next]_vars => RInv'
<1> SUFFICES ASSUME IInv, RInv, [Next]_vars PROVE RInv'
  OBVIOUS
<1>1. \A x \in Calls : RoomKept(x)
  BY DEF RInv
<1>2. ASSUME NEW y \in Calls, Same(y), held'[y] = held[y] PROVE RoomKept(y)'
  BY <1>1, <1>2 DEF Same, RoomKept, Room, NumRequests
<1>3. CASE UNCHANGED vars \/ Evict \/ \E c \in Containers : WriteLands(c)
  <2>1. \A y \in Calls : Same(y) /\ held'[y] = held[y]
    BY <1>3 DEF vars, callVars, Evict, WriteLands, Same
  <2> QED
    BY <1>2, <2>1 DEF RInv
<1>4. ASSUME NEW x \in Calls, Begin(x) \/ Collect(x) \/ Cancel(x) \/ Acquire(x) \/ Step(x)
      PROVE  RInv'
  <2>1. ASSUME SingleStep(x) \/ BatchStep(x) PROVE RoomKept(x)'
    BY <1>1, <2>1, FirstRoom, CheckRoom, ChunkRoom
       DEF SingleStep, GetSingle, WriteSingle, BatchStep, GetInitial, WriteFirst
  <2>2. RoomKept(x)'
    BY <1>1, <1>4, <2>1, OutsideRoom, FirstRoom, ChunkRoom DEF Step
  <2>3. \A y \in Calls \ {x} : RoomKept(y)'
    BY <1>2, <1>4, OthersSame, OthersHold
  <2> QED
    BY <2>2, <2>3 DEF RInv
<1> QED
  BY <1>3, <1>4 DEF Next

\* RInv is an invariant.
LEMMA InvariantRInv == Spec => []RInv
BY InitRInv, NextRInv, InvariantIInv, PTL DEF Spec

-----------------------------------------------------------------------------
\* How many calls hold how many containers.

\* Readers are finite sets, and all of them have a permit.
LEMMA ReadersFinite ==
  ASSUME IInv, RInv, NEW m \in Nat
  PROVE  /\ IsFiniteSet(Readers(m)) /\ Cardinality(Readers(m)) \in Nat
         /\ m >= 1 => Readers(m) \subseteq Holders
<1>1. IsFiniteSet(Calls) /\ Readers(m) \in SUBSET Calls
  BY SandboxAssumption DEF SandboxAssumption, Readers
<1>2. \A x \in Calls : loc[x].maxPar > 0 => pc[x] \in Inside
  BY Places, Numbers DEF RInv, RoomKept, AfterFirst
<1>3. m >= 1 => Readers(m) \subseteq Holders
  BY <1>2, Numbers DEF Readers, Holders, HoldsPermit
<1> QED
  BY <1>1, <1>3, FS_Subset, FS_CardinalityType

\* Only CheckFirst raises max_parallel, and no higher than the free permits.
LEMMA MaxParallelRead ==
  ASSUME IInv, RInv, [Next]_vars, NEW x \in Calls, ~(loc'[x].maxPar <= loc[x].maxPar)
  PROVE  /\ CheckFirst(x) /\ loc'[x].maxPar <= permits
         /\ \A y \in Calls \ {x} : loc'[y] = loc[y]
<1> DEFINE Lower(y) == loc'[y].maxPar <= loc[y].maxPar
<1>1. ASSUME NEW y \in Calls, loc'[y] = loc[y] PROVE Lower(y)
  BY <1>1, Numbers
<1>2. ASSUME NEW y \in Calls, loc'[y] = NoLocals PROVE Lower(y)
  BY <1>2, Numbers DEF NoLocals
<1>3. ASSUME NEW y \in Calls, NEW l, loc' = [loc EXCEPT ![y] = l], l.maxPar = loc[y].maxPar
      PROVE  Lower(y)
  <2>1. loc'[y].maxPar = loc[y].maxPar
    BY <1>3 DEF IInv, TypeOK
  <2> QED
    BY <2>1, Numbers
<1>4. UNCHANGED vars \/ Evict \/ (\E c \in Containers : WriteLands(c)) => loc' = loc
  BY DEF vars, callVars, Evict, WriteLands
<1>5. PICK y \in Calls : Begin(y) \/ Collect(y) \/ Cancel(y) \/ Acquire(y) \/ Step(y)
  BY <1>1, <1>4 DEF Next
<1>6. y = x
  BY <1>1, <1>5, OthersSame DEF Same
<1>7. \A z \in Calls \ {x} : loc'[z] = loc[z]
  BY <1>5, <1>6, OthersSame DEF Same
<1>8. loc[x] \in Locals
  BY CallTypes
<1>9. ~(Begin(x) \/ Collect(x) \/ Cancel(x) \/ Acquire(x))
  BY <1>1, <1>2 DEF Begin, Collect, Cancel, Acquire, AcquireSingle, AcquireBatch, Enter,
                    IInv, TypeOK
<1>10. ASSUME NEW r, Abort(x, r) PROVE FALSE
  BY <1>2, <1>10 DEF Abort, IInv, TypeOK
<1>11. ~(TakeFirst(x) \/ WriteFile(x) \/ LookupSingle(x) \/ RunSingle(x) \/ LookupFirst(x)
         \/ RunFirst(x) \/ GiveBack(x))
  BY <1>1, <1>2, <1>10
     DEF TakeFirst, WriteFile, LookupSingle, RunSingle, LookupFirst, RunFirst, GiveBack, Fail,
         IInv, TypeOK
<1>12. ~CompilerStep(x)
  <2>1. ASSUME NEW q, loc' = [loc EXCEPT ![x].build = q] PROVE FALSE
    <3>1. loc'[x].maxPar = loc[x].maxPar
      BY <1>8, <2>1 DEF IInv, TypeOK, Locals
    <3> QED
      BY <3>1, Numbers
  <2> QED
    BY <1>1, <1>10, <2>1 DEF CompilerStep, UseArtifact, WriteProgram, Compile, Built, Fail
<1>13. ASSUME NEW n, NEW t, NEW r, NEW f,
              \/ loc' = [loc EXCEPT ![x].left = n]
              \/ loc' = [loc EXCEPT ![x].left = n, ![x].from = t]
              \/ loc' = [loc EXCEPT ![x].size = n, ![x].todo = t]
              \/ loc' = [loc EXCEPT ![x].todo = t]
              \/ loc' = [loc EXCEPT ![x].todo = t, ![x].running = r]
              \/ loc' = [loc EXCEPT ![x].running = r]
              \/ loc' = [loc EXCEPT ![x].running = r, ![x].failed = f]
       PROVE  FALSE
  <2>1. loc'[x].maxPar = loc[x].maxPar
    BY <1>8, <1>13 DEF IInv, TypeOK, Locals
  <2> QED
    BY <2>1, Numbers
<1>14. ~(Extend(x) \/ StartChunk(x) \/ EndChunk(x) \/ Drain(x))
  <2>1. ~Extend(x)
    BY <1>10, <1>13 DEF Extend, Fail
  <2>2. ~StartChunk(x)
    <3>1. StartChunk(x) => \/ loc' = loc \/ Abort(x, "panic")
                           \/ \E n, t : loc' = [loc EXCEPT ![x].size = n, ![x].todo = t]
      BY DEF StartChunk
    <3> QED
      BY <1>1, <1>10, <1>13, <3>1
  <2>3. ~EndChunk(x) /\ ~Drain(x)
    BY <1>1, <1>10, <1>13 DEF EndChunk, Drain, Fail
  <2> QED
    BY <2>1, <2>2, <2>3
<1>15. ~LookupNext(x)
  <2>1. ASSUME LookupNext(x)
        PROVE  \E i : \/ loc' = [loc EXCEPT ![x].todo = @ \ {i}]
                      \/ loc' = [loc EXCEPT ![x].todo = @ \ {i}, ![x].running = @ \cup {i}]
    BY <2>1 DEF LookupNext
  <2> QED
    BY <1>13, <2>1
<1>16. ~RunNext(x)
  <2>1. ASSUME RunNext(x)
        PROVE  \E i : \/ loc' = [loc EXCEPT ![x].running = @ \ {i}]
                      \/ loc' = [loc EXCEPT ![x].running = @ \ {i}, ![x].failed = TRUE]
    BY <2>1 DEF RunNext
  <2> QED
    BY <1>13, <2>1
<1>17. CheckFirst(x)
  BY <1>5, <1>6, <1>9, <1>11, <1>12, <1>14, <1>15, <1>16
     DEF Step, SingleStep, GetSingle, WriteSingle, BatchStep, GetInitial, WriteFirst
<1>18. loc'[x].maxPar = Lesser(permits, NumRequests(x) - 1)
  <2>1. \/ loc' = loc
        \/ loc' = [loc EXCEPT ![x].maxPar = Lesser(permits, NumRequests(x) - 1),
                              ![x].left = Iterations(Lesser(permits, NumRequests(x) - 1))]
    BY <1>17 DEF CheckFirst
  <2> QED
    BY <1>1, <1>8, <2>1 DEF IInv, TypeOK, Locals
<1>19. NumRequests(x) \in Nat /\ permits \in Nat
  BY <1>17, Busy, Arguments DEF CheckFirst, IInv, TypeOK
<1> QED
  BY <1>7, <1>17, <1>18, <1>19 DEF Lesser

\* SInv is inductive relative to IInv, RInv and the conservation of permits.
LEMMA NextSInv ==
  IInv /\ IInv' /\ RInv /\ RInv' /\ PermitsConserved /\ SInv /\ [Next]_vars => SInv'
<1> SUFFICES ASSUME IInv, IInv', RInv, RInv', PermitsConserved, SInv, [Next]_vars,
                    NEW m \in 1 .. MaxPermits
             PROVE  Cardinality(Readers(m)') <= MaxPermits - m
  BY DEF SInv
<1>1. /\ Cardinality(Readers(m)) <= MaxPermits - m /\ MaxPermits \in Nat
      /\ m \in Nat /\ m >= 1
  BY SandboxAssumption DEF SInv, SandboxAssumption
<1>2. /\ IsFiniteSet(Readers(m)) /\ Cardinality(Readers(m)) \in Nat
      /\ Readers(m) \subseteq Holders
  BY <1>1, ReadersFinite
<1>3. permits + Cardinality(Holders) = MaxPermits /\ permits \in Nat
  BY DEF PermitsConserved, Holders, IInv, TypeOK
<1>4. \A y \in Calls : loc[y].maxPar \in Nat /\ loc'[y].maxPar \in Nat
  BY LocalsTypes DEF IInv, TypeOK
<1>5. Readers(m)' = {y \in Calls : loc'[y].maxPar >= m}
  BY DEF Readers
<1>6. CASE Readers(m)' \subseteq Readers(m)
  <2>1. Cardinality(Readers(m)') <= Cardinality(Readers(m)) /\ IsFiniteSet(Readers(m)')
    BY <1>6, <1>2, FS_Subset
  <2>2. Cardinality(Readers(m)') \in Nat
    BY <2>1, FS_CardinalityType
  <2> QED
    BY <1>1, <1>2, <2>1, <2>2
<1>7. ASSUME NEW x \in Calls, x \in Readers(m)', x \notin Readers(m)
      PROVE  Cardinality(Readers(m)') <= MaxPermits - m
  <2>1. loc'[x].maxPar >= m /\ ~(loc[x].maxPar >= m)
    BY <1>5, <1>7 DEF Readers
  <2>2. ~(loc'[x].maxPar <= loc[x].maxPar)
    BY <1>1, <1>4, <2>1
  <2>3. /\ CheckFirst(x) /\ loc'[x].maxPar <= permits
        /\ \A y \in Calls \ {x} : loc'[y] = loc[y]
    BY <2>2, MaxParallelRead
  <2>4. x \in Holders
    BY <2>3, Places DEF CheckFirst, Holders, HoldsPermit
  <2>5. Readers(m)' \subseteq Holders
    <3>1. ASSUME NEW y \in Calls, y \in Readers(m)' PROVE y \in Holders
      <4>1. CASE y = x
        BY <2>4, <4>1
      <4>2. CASE y # x
        <5>1. y \in Readers(m)
          BY <1>5, <2>3, <3>1, <4>2 DEF Readers
        <5> QED
          BY <1>2, <5>1
      <4> QED
        BY <4>1, <4>2
    <3> QED
      BY <1>5, <3>1
  <2>6. /\ Cardinality(Readers(m)') <= Cardinality(Holders) /\ IsFiniteSet(Readers(m)')
        /\ Cardinality(Holders) \in Nat
    BY <2>5, HoldersFinite, FS_Subset
  <2>7. Cardinality(Readers(m)') \in Nat
    BY <2>6, FS_CardinalityType
  <2>8. m <= permits
    BY <1>1, <1>3, <1>4, <2>1, <2>3
  <2> QED
    BY <1>1, <1>3, <2>6, <2>7, <2>8
<1> QED
  BY <1>5, <1>6, <1>7

\* A call that holds two containers or more read that many permits.
LEMMA ManyHeld ==
  ASSUME IInv, RInv, NEW x \in Calls, Len(held[x]) > 1
  PROVE  Len(held[x]) <= loc[x].maxPar /\ Len(held[x]) < NumRequests(x)
<1>1. /\ Len(held[x]) \in Nat /\ loc[x].left \in Nat /\ loc[x].maxPar \in Nat
      /\ RoomKept(x)
  BY Numbers DEF RInv
<1>2. Len(held[x]) <= Room(x)
  BY <1>1, Numbers DEF RoomKept
<1>3. Len(held[x]) <= loc[x].maxPar /\ loc[x].maxPar > 0
  BY <1>1, <1>2 DEF Room
<1>4. held[x] # <<>> /\ job[x] # NoJob
  <2>1. held[x] # <<>>
    BY <1>1, Numbers
  <2>2. pc[x] # "idle"
    BY <2>1 DEF IInv, HoldsWhatItUses, Outside
  <2> QED
    BY <2>1, <2>2, Busy
<1>5. NumRequests(x) \in Nat
  BY <1>4, Arguments DEF IInv, TypeOK
<1> QED
  BY <1>1, <1>3, <1>5 DEF RoomKept

\* For any number of permits, calls and requests, at most MaxPermits - m calls
\* have m containers at once, although no call takes a permit for its second.
THEOREM FewCallsHoldMany == Spec => []FewHoldMany
<1>1. Init => SInv
  <2> SUFFICES ASSUME Init, NEW m \in 1 .. MaxPermits
               PROVE  Cardinality(Readers(m)) <= MaxPermits - m
    BY DEF SInv
  <2>1. Readers(m) = {}
    BY DEF Init, Readers, NoLocals
  <2> QED
    BY <2>1, FS_EmptySet, SandboxAssumption DEF SandboxAssumption
<1>2. IInv /\ RInv /\ SInv => FewHoldMany
  <2> SUFFICES ASSUME IInv, RInv, SInv, NEW m \in 2 .. MaxPermits
               PROVE  Cardinality({x \in Calls : Len(held[x]) >= m}) <= MaxPermits - m
    BY DEF FewHoldMany
  <2> DEFINE Many == {x \in Calls : Len(held[x]) >= m}
  <2>1. MaxPermits \in Nat /\ m \in 1 .. MaxPermits /\ m \in Nat
    BY SandboxAssumption DEF SandboxAssumption
  <2>2. Many \subseteq Readers(m)
    <3>1. ASSUME NEW x \in Calls, Len(held[x]) >= m PROVE loc[x].maxPar >= m
      <4>1. Len(held[x]) \in Nat /\ loc[x].maxPar \in Nat /\ Len(held[x]) > 1
        BY <3>1, Numbers
      <4> QED
        BY <2>1, <3>1, <4>1, ManyHeld
    <3> QED
      BY <3>1 DEF Readers
  <2>3. /\ IsFiniteSet(Readers(m)) /\ Cardinality(Readers(m)) <= MaxPermits - m
        /\ Cardinality(Readers(m)) \in Nat
    BY <2>1, ReadersFinite DEF SInv
  <2>4. Cardinality(Many) <= Cardinality(Readers(m)) /\ IsFiniteSet(Many)
    BY <2>2, <2>3, FS_Subset
  <2>5. Cardinality(Many) \in Nat
    BY <2>4, FS_CardinalityType
  <2> QED
    BY <2>1, <2>3, <2>4, <2>5
<1> QED
  BY <1>1, <1>2, NextSInv, InvariantIInv, InvariantRInv, PermitsNeverLost, PTL DEF Spec

\* Without a batch of three requests or more, the maximum is kept: each call
\* inside the semaphore holds one container.
THEOREM SmallBatchesWithinMaximum ==
  ASSUME \A j \in Jobs : Len(j.stdins) <= 2
  PROVE  Spec => []WithinMaximum
<1>1. IInv /\ RInv /\ PermitsConserved => WithinMaximum
  <2> SUFFICES ASSUME IInv, RInv, PermitsConserved PROVE WithinMaximum
    OBVIOUS
  <2>1. ASSUME NEW x \in Calls PROVE Len(held[x]) \in {0, 1} /\ DOMAIN held[x] = 1 .. Len(held[x])
    <3>1. Len(held[x]) \in Nat
      BY Numbers
    <3>2. ~(Len(held[x]) > 1)
      <4> SUFFICES ASSUME Len(held[x]) > 1 PROVE FALSE
        OBVIOUS
      <4>1. Len(held[x]) < NumRequests(x) /\ held[x] # <<>>
        BY ManyHeld, Numbers
      <4>2. pc[x] # "idle"
        BY <4>1 DEF IInv, HoldsWhatItUses, Outside
      <4>3. job[x] \in Jobs /\ NumRequests(x) \in Nat
        BY <4>2, Busy, Arguments DEF IInv, TypeOK
      <4> QED
        BY <3>1, <4>1, <4>3 DEF NumRequests
    <3>3. DOMAIN held[x] = 1 .. Len(held[x])
      BY CallTypes, LenProperties
    <3>4. Len(held[x]) = 0 \/ Len(held[x]) = 1
      <4>1. \A n \in Nat : ~(n > 1) => n = 0 \/ n = 1
        OBVIOUS
      <4> QED
        BY <3>1, <3>2, <4>1, Zenon
    <3> QED
      BY <3>3, <3>4
  <2>2. \A x \in Calls, c \in Containers : HeldBy(x, c) => x \in Holders /\ c = held[x][1]
    <3> SUFFICES ASSUME NEW x \in Calls, NEW c \in Containers, HeldBy(x, c)
                 PROVE  x \in Holders /\ c = held[x][1]
      OBVIOUS
    <3>1. PICK i \in DOMAIN held[x] : held[x][i] = c
      BY DEF HeldBy
    <3>2. i = 1 /\ held[x] # <<>>
      BY <2>1, <3>1, Numbers
    <3>3. pc[x] \in Inside
      BY <3>2 DEF IInv, TypeOK, HoldsWhatItUses
    <3> QED
      BY <3>1, <3>2, <3>3 DEF Holders, HoldsPermit
  <2> DEFINE f == [c \in ContainersInUse |-> CHOOSE x \in Calls : HeldBy(x, c)]
  <2>3. \A c \in ContainersInUse : c \in Containers /\ f[c] \in Calls /\ HeldBy(f[c], c)
    BY DEF ContainersInUse
  <2>4. f \in Injection(ContainersInUse, Holders)
    <3>1. f \in [ContainersInUse -> Holders]
      BY <2>2, <2>3
    <3>2. ASSUME NEW c \in ContainersInUse, NEW d \in ContainersInUse, f[c] = f[d] PROVE c = d
      BY <2>2, <2>3, <3>2
    <3> QED
      BY <3>1, <3>2 DEF Injection, IsInjective
  <2>5. Cardinality(ContainersInUse) <= Cardinality(Holders) /\ IsFiniteSet(ContainersInUse)
    BY <2>4, HoldersFinite, FS_Injection
  <2>6. Cardinality(ContainersInUse) \in Nat
    BY <2>5, FS_CardinalityType
  <2>7. permits + Cardinality(Holders) = MaxPermits /\ permits \in Nat
    BY DEF PermitsConserved, Holders, IInv, TypeOK
  <2>8. MaxPermits \in Nat
    BY SandboxAssumption DEF SandboxAssumption
  <2> QED
    BY <2>5, <2>6, <2>7, <2>8, HoldersFinite DEF WithinMaximum
<1> QED
  BY <1>1, InvariantIInv, InvariantRInv, PermitsNeverLost, PTL
=============================================================================
