----------------------------- MODULE AnswerProofs -----------------------------
(***************************************************************************)
(* The results of a call answer its own requests, one by one, for any      *)
(* number of calls, chunks and containers, and whatever fails.             *)
(***************************************************************************)
EXTENDS ExecutorProofs

\* A result in Redis is one for the stdin it is stored under.
EntriesMatch ==
  \A e \in Entries : rcache[e] # Missing => rcache[e].stdin = e.stdin

\* Request i of call x has its answer.
Answered(x, i) == out[x][i] # Missing /\ out[x][i].stdin = Stdin(x, i)

AnsweredBelow(x, m) == \A i \in 1 .. NumRequests(x) : i < m => Answered(x, i)

\* The places before the loop over chunks and after it.
Early == {"idle", "acquire", "get", "artifact", "compile", "built", "write", "run"}

\* How far the answers of a call have got: its first request before it takes
\* more containers, the chunks that are done, and those of the current chunk
\* that are neither waiting, running nor failed.
Progress(x) ==
  /\ pc[x] \in Early \cup {"check", "replied"} => loc[x].from = 2
  /\ pc[x] = "check" => Answered(x, 1)
  /\ pc[x] \in {"extend", "runchunk", "drain"} => AnsweredBelow(x, loc[x].from)
  /\ pc[x] = "runchunk" /\ ~loc[x].failed =>
       \A i \in 1 .. NumRequests(x) :
         i < loc[x].from + loc[x].size =>
           Answered(x, i) \/ i \in loc[x].todo \cup loc[x].running
  /\ pc[x] = "drain" => AnsweredBelow(x, loc[x].from + loc[x].size)
  /\ pc[x] \in {"giveback", "replied"} /\ reply[x] = "ok" =>
       /\ Len(out[x]) = NumRequests(x)
       /\ \A i \in 1 .. NumRequests(x) : Answered(x, i)

AInv == EntriesMatch /\ \A x \in Calls : Progress(x)

-----------------------------------------------------------------------------
\* The answers of a call that does not move.
LEMMA SameProgress ==
  ASSUME NEW y \in Calls, Progress(y), Same(y)
  PROVE  Progress(y)'
<1>1. NumRequests(y)' = NumRequests(y) /\ \A i : Answered(y, i)' <=> Answered(y, i)
  BY DEF Same, NumRequests, Answered, Stdin
<1>2. \A m : AnsweredBelow(y, m) <=> \A i \in 1 .. NumRequests(y) : i < m => Answered(y, i)
  BY DEF AnsweredBelow
<1> QED
  BY <1>1, <1>2 DEF Same, Progress, AnsweredBelow

-----------------------------------------------------------------------------
\* Where a call has nothing to show for yet, or ends without success.

\* Before the first request.
LEMMA EarlyProgress ==
  ASSUME NEW x \in Calls, pc'[x] \in Early, loc'[x].from = 2
  PROVE  Progress(x)'
BY DEF Progress, Early

\* An error that still returns its containers.
LEMMA ErrorProgress ==
  ASSUME NEW x \in Calls, pc'[x] = "giveback", reply'[x] # "ok"
  PROVE  Progress(x)'
BY DEF Progress, Early

\* An early end.
LEMMA AbortProgress ==
  ASSUME IInv, NEW x \in Calls, NEW r \in {"err", "panic"}, Abort(x, r)
  PROVE  Progress(x)'
<1>1. pc'[x] = "replied" /\ reply'[x] = r /\ loc'[x] = NoLocals
  BY DEF Abort, Goto, IInv, TypeOK
<1> QED
  BY <1>1 DEF Progress, Early, NoLocals

\* Every request is answered.
LEMMA DoneProgress ==
  ASSUME NEW x \in Calls, pc'[x] = "giveback", job' = job,
         Len(out'[x]) = NumRequests(x),
         \A i \in 1 .. NumRequests(x) : Answered(x, i)'
  PROVE  Progress(x)'
<1>1. NumRequests(x)' = NumRequests(x)
  BY DEF NumRequests
<1> QED
  BY <1>1 DEF Progress, Early

-----------------------------------------------------------------------------
\* An answer, and what it leaves of the others.

\* One place changes.
LEMMA NewAnswer ==
  ASSUME IInv, NEW x \in Calls, pc[x] \in Inside, NEW i \in 1 .. NumRequests(x),
         NEW o \in Outcomes, o.stdin = Stdin(x, i), job' = job,
         out' = [out EXCEPT ![x] = [@ EXCEPT ![i] = o]]
  PROVE  /\ Answered(x, i)'
         /\ \A j \in 1 .. NumRequests(x) : Answered(x, j) => Answered(x, j)'
         /\ Len(out'[x]) = NumRequests(x)
<1>1. /\ out[x] \in Seq(Outcomes \cup {Missing}) /\ Len(out[x]) = NumRequests(x)
      /\ NumRequests(x) \in Nat
  BY Busy, Arguments DEF IInv, TypeOK, Engaged, Inside
<1>2. DOMAIN out[x] = 1 .. NumRequests(x)
  BY <1>1, LenProperties
<1>3. out'[x] = [out[x] EXCEPT ![i] = o]
  BY DEF IInv, TypeOK
<1>4. out'[x][i] = o /\ \A j \in 1 .. NumRequests(x) \ {i} : out'[x][j] = out[x][j]
  BY <1>2, <1>3
<1>5. o # Missing
  BY SandboxAssumption DEF SandboxAssumption
<1>6. Len(out'[x]) = NumRequests(x)
  BY AnswerKeeps
<1> QED
  BY <1>4, <1>5, <1>6 DEF Answered, Stdin

\* An answer from Redis is for the stdin it is asked for.
LEMMA ServeAnswers ==
  ASSUME IInv, EntriesMatch, NEW x \in Calls, pc[x] \in Inside,
         NEW i \in 1 .. NumRequests(x), Serve(x, i), job' = job
  PROVE  /\ Answered(x, i)'
         /\ \A j \in 1 .. NumRequests(x) : Answered(x, j) => Answered(x, j)'
         /\ Len(out'[x]) = NumRequests(x)
<1>1. Entry(x, i) \in Entries
  BY Busy, Arguments DEF IInv, TypeOK, Inside
<1>2. rcache[Entry(x, i)] \in Outcomes /\ rcache[Entry(x, i)] # Missing
  BY <1>1 DEF IInv, TypeOK, Serve, ResultHit
<1>3. rcache[Entry(x, i)].stdin = Stdin(x, i)
  BY <1>1, <1>2 DEF EntriesMatch, Entry
<1> QED
  BY <1>2, <1>3, NewAnswer DEF Serve

\* So is one of a run, and only such an answer gets into Redis.
LEMMA RunAnswers ==
  ASSUME IInv, EntriesMatch, NEW x \in Calls, pc[x] \in Inside, NEW c \in Containers,
         NEW i \in 1 .. NumRequests(x), RunRequest(x, i, c), job' = job
  PROVE  /\ Answered(x, i)'
         /\ \A j \in 1 .. NumRequests(x) : Answered(x, j) => Answered(x, j)'
         /\ Len(out'[x]) = NumRequests(x)
         /\ EntriesMatch'
<1>1. job[x] # NoJob /\ Entry(x, i) \in Entries
  BY Busy, Arguments DEF IInv, TypeOK, Inside
<1>2. PICK o \in RunResults(x, i, c) :
        /\ out' = [out EXCEPT ![x] = [@ EXCEPT ![i] = o]]
        /\ StoreResult(x, i, o)
  BY DEF RunRequest
<1>3. o \in Outcomes
  BY <1>1, RunResultsType DEF IInv
<1>4. o.stdin = Stdin(x, i)
  BY DEF RunResults
<1>5. EntriesMatch'
  BY <1>1, <1>2, <1>4 DEF StoreResult, EntriesMatch, IInv, TypeOK, Entry
<1> QED
  BY <1>2, <1>3, <1>4, <1>5, NewAnswer

-----------------------------------------------------------------------------
\* One lemma per group of actions.

\* The way in and out, the first container, the program.
LEMMA EarlySteps ==
  ASSUME IInv, NEW x \in Calls, Progress(x),
         \/ Begin(x) \/ Collect(x) \/ Cancel(x) \/ Enter(x)
         \/ TakeFirst(x) \/ WriteFile(x) \/ CompilerStep(x)
  PROVE  Progress(x)' /\ rcache' = rcache
<1>1. Early \subseteq Inside \cup Outside /\ NoLocals.from = 2
  BY DEF Early, Inside, Outside, NoLocals
<1>2. ASSUME Begin(x) \/ Collect(x) \/ Cancel(x) PROVE Progress(x)' /\ rcache' = rcache
  <2>1. pc'[x] \in Early /\ loc'[x].from = 2
    BY <1>1, <1>2 DEF Begin, Collect, Cancel, Progress, Early, IInv, TypeOK, Goto
  <2> QED
    BY <1>2, <2>1, EarlyProgress DEF Begin, Collect, Cancel, cacheVars
<1>3. ASSUME Enter(x) PROVE Progress(x)' /\ rcache' = rcache
  <2>1. pc'[x] \in Early /\ loc'[x].from = 2
    BY <1>3 DEF Enter, Progress, Early, IInv, TypeOK, Goto
  <2> QED
    BY <1>3, <2>1, EarlyProgress DEF Enter, cacheVars
<1>4. ASSUME TakeFirst(x) PROVE Progress(x)' /\ rcache' = rcache
  <2>1. CASE loc' = loc /\ (Goto(x, "artifact") \/ Goto(x, "built"))
    <3>1. pc'[x] \in Early /\ loc'[x].from = 2
      BY <1>4, <2>1 DEF TakeFirst, Progress, Early, IInv, TypeOK, Goto
    <3> QED
      BY <1>4, <3>1, EarlyProgress DEF TakeFirst, cacheVars
  <2> QED
    BY <1>4, <2>1, AbortProgress DEF TakeFirst, Fail, cacheVars
<1>5. ASSUME WriteFile(x) PROVE Progress(x)' /\ rcache' = rcache
  <2>1. CASE loc' = loc /\ Goto(x, "run")
    <3>1. pc'[x] \in Early /\ loc'[x].from = 2
      BY <1>5, <2>1 DEF WriteFile, Progress, Early, IInv, TypeOK, Goto
    <3> QED
      BY <1>5, <3>1, EarlyProgress DEF WriteFile, cacheVars
  <2>2. CASE Leave(x, "err")
    <3>1. pc'[x] = "giveback" /\ reply'[x] # "ok"
      BY <2>2 DEF Leave, IInv, TypeOK, Goto
    <3> QED
      BY <1>5, <3>1, ErrorProgress DEF WriteFile, cacheVars
  <2> QED
    BY <1>5, <2>1, <2>2, AbortProgress DEF WriteFile, Fail, cacheVars
<1>6. ASSUME CompilerStep(x) PROVE Progress(x)' /\ rcache' = rcache
  <2>1. loc[x] \in Locals /\ loc[x].from = 2
    BY <1>6 DEF CompilerStep, UseArtifact, WriteProgram, Compile, Progress, Early, IInv,
                TypeOK
  <2>2. \A q : loc' = [loc EXCEPT ![x].build = q] => loc'[x].from = 2
    BY <2>1 DEF IInv, TypeOK, Locals
  <2>3. CASE \E q : Built(x, q)
    <3>1. pc'[x] \in Early /\ loc'[x].from = 2
      BY <2>2, <2>3 DEF Built, Early, IInv, TypeOK, Goto
    <3> QED
      BY <1>6, <3>1, EarlyProgress
         DEF CompilerStep, UseArtifact, WriteProgram, Compile, cacheVars
  <2>4. CASE loc' = loc /\ Goto(x, "compile")
    <3>1. pc'[x] \in Early /\ loc'[x].from = 2
      BY <2>1, <2>4 DEF Early, IInv, TypeOK, Goto
    <3> QED
      BY <1>6, <3>1, EarlyProgress
         DEF CompilerStep, UseArtifact, WriteProgram, Compile, cacheVars
  <2>5. CASE Fail(x)
    BY <1>6, <2>5, AbortProgress
       DEF CompilerStep, UseArtifact, WriteProgram, Compile, Fail, cacheVars
  <2> QED
    BY <1>6, <2>3, <2>4, <2>5 DEF CompilerStep, UseArtifact, WriteProgram, Compile
<1> QED
  BY <1>2, <1>3, <1>4, <1>5, <1>6

\* The containers go back, and the reply with the results.
LEMMA GiveBackProgress ==
  ASSUME IInv, NEW x \in Calls, Progress(x), GiveBack(x)
  PROVE  Progress(x)' /\ rcache' = rcache
<1>1. /\ pc[x] = "giveback" /\ UNCHANGED <<job, out, reply, rcache>>
      /\ \/ pc'[x] = "replied" /\ loc'[x].from = 2
         \/ pc'[x] = "giveback"
  BY DEF GiveBack, IInv, TypeOK, Goto, cacheVars, NoLocals
<1>2. reply[x] = "ok" => /\ Len(out[x]) = NumRequests(x)
                         /\ \A i \in 1 .. NumRequests(x) : Answered(x, i)
  BY <1>1 DEF Progress
<1>3. NumRequests(x)' = NumRequests(x) /\ \A i : Answered(x, i)' <=> Answered(x, i)
  BY <1>1 DEF NumRequests, Answered, Stdin
<1> QED
  BY <1>1, <1>2, <1>3 DEF Progress, Early

\* execute: the one answer is a compiler's message, a cached result or a run.
LEMMA SingleProgress ==
  ASSUME IInv, EntriesMatch, NEW x \in Calls, Progress(x),
         LookupSingle(x) \/ RunSingle(x)
  PROVE  Progress(x)' /\ EntriesMatch'
<1>1. /\ pc[x] \in Inside /\ NumRequests(x) = 1 /\ 1 \in 1 .. NumRequests(x)
      /\ job' = job
  BY SingleArguments
     DEF LookupSingle, RunSingle, Inside, IInv, TypeOK, Fail, Abort
<1>2. ASSUME Answered(x, 1)', Len(out'[x]) = 1, Leave(x, "ok") PROVE Progress(x)'
  <2>1. pc'[x] = "giveback"
    BY <1>2 DEF Leave, Goto, IInv, TypeOK
  <2>2. \A i \in 1 .. NumRequests(x) : i = 1
    BY <1>1
  <2>3. \A i \in 1 .. NumRequests(x) : Answered(x, i)'
    BY <1>2, <2>2
  <2> QED
    BY <1>1, <1>2, <2>1, <2>3, DoneProgress
<1>3. ASSUME LookupSingle(x) PROVE Progress(x)' /\ EntriesMatch'
  <2>1. EntriesMatch'
    BY <1>3 DEF LookupSingle, cacheVars, EntriesMatch
  <2>2. CASE /\ Leave(x, "ok")
             /\ out' = [out EXCEPT ![x] = <<[prog |-> Code(x), stdin |-> Stdin(x, 1),
                                             end |-> "compile_error"]>>]
    <3> DEFINE o == [prog |-> Code(x), stdin |-> Stdin(x, 1), end |-> "compile_error"]
    <3>1. o \in Outcomes
      BY <1>1, Busy, Arguments DEF Outcomes, Programs, IInv, TypeOK, Inside
    <3>2. o # Missing /\ o.stdin = Stdin(x, 1)
      BY <3>1, SandboxAssumption DEF SandboxAssumption
    <3> HIDE DEF o
    <3>3. out'[x] = <<o>>
      BY <2>2 DEF o, IInv, TypeOK
    <3>4. Answered(x, 1)' /\ Len(out'[x]) = 1
      BY <1>1, <3>2, <3>3 DEF Answered, Stdin
    <3> QED
      BY <1>2, <2>1, <2>2, <3>4
  <2>3. CASE Serve(x, 1) /\ Leave(x, "ok")
    BY <1>1, <1>2, <2>1, <2>3, ServeAnswers
  <2>4. CASE loc' = loc /\ (Goto(x, "run") \/ Goto(x, "write"))
    <3>1. pc'[x] \in Early /\ loc'[x].from = 2
      BY <1>3, <2>4 DEF LookupSingle, Progress, Early, IInv, TypeOK, Goto
    <3> QED
      BY <2>1, <3>1, EarlyProgress
  <2> QED
    BY <1>3, <2>2, <2>3, <2>4 DEF LookupSingle
<1>4. ASSUME RunSingle(x) PROVE Progress(x)' /\ EntriesMatch'
  <2>1. held[x] # <<>> /\ held[x][1] \in Containers
    BY <1>4, FirstContainer DEF RunSingle, IInv, HoldsWhatItUses, Inside
  <2>2. CASE RunRequest(x, 1, held[x][1]) /\ Leave(x, "ok")
    BY <1>1, <1>2, <2>1, <2>2, RunAnswers
  <2>3. CASE Leave(x, "err") /\ rcache' = rcache
    <3>1. pc'[x] = "giveback" /\ reply'[x] # "ok"
      BY <2>3 DEF Leave, IInv, TypeOK, Goto
    <3> QED
      BY <2>3, <3>1, ErrorProgress DEF EntriesMatch
  <2>4. CASE Fail(x) /\ rcache' = rcache
    BY <2>4, AbortProgress DEF Fail, EntriesMatch
  <2> QED
    BY <1>4, <2>2, <2>3, <2>4 DEF RunSingle
<1> QED
  BY <1>3, <1>4

\* The first request of a batch, from the cache or by a run.
LEMMA FirstProgress ==
  ASSUME IInv, EntriesMatch, NEW x \in Calls, Progress(x),
         LookupFirst(x) \/ RunFirst(x)
  PROVE  Progress(x)' /\ EntriesMatch'
<1>1. /\ pc[x] \in Inside /\ pc[x] \in Early /\ loc[x].from = 2
      /\ 1 \in 1 .. NumRequests(x) /\ job' = job
  BY Busy, Arguments
     DEF LookupFirst, RunFirst, Inside, Early, Progress, IInv, TypeOK, Fail, Abort
<1>2. ASSUME Answered(x, 1)', Goto(x, "check"), loc' = loc PROVE Progress(x)'
  BY <1>1, <1>2 DEF Progress, Early, Goto, IInv, TypeOK
<1>3. ASSUME LookupFirst(x) PROVE Progress(x)' /\ EntriesMatch'
  <2>1. EntriesMatch' /\ loc' = loc
    BY <1>3 DEF LookupFirst, cacheVars, EntriesMatch
  <2>2. CASE Serve(x, 1) /\ Goto(x, "check")
    BY <1>1, <1>2, <2>1, <2>2, ServeAnswers
  <2>3. CASE Goto(x, "run") \/ Goto(x, "write")
    <3>1. pc'[x] \in Early /\ loc'[x].from = 2
      BY <1>1, <2>1, <2>3 DEF Early, IInv, TypeOK, Goto
    <3> QED
      BY <2>1, <3>1, EarlyProgress
  <2> QED
    BY <1>3, <2>2, <2>3 DEF LookupFirst
<1>4. ASSUME RunFirst(x) PROVE Progress(x)' /\ EntriesMatch'
  <2>1. held[x] # <<>> /\ held[x][1] \in Containers
    BY <1>4, FirstContainer DEF RunFirst, IInv, HoldsWhatItUses, Inside
  <2>2. CASE RunRequest(x, 1, held[x][1]) /\ Goto(x, "check") /\ loc' = loc
    BY <1>1, <1>2, <2>1, <2>2, RunAnswers
  <2>3. CASE Leave(x, "err") /\ rcache' = rcache
    <3>1. pc'[x] = "giveback" /\ reply'[x] # "ok"
      BY <2>3 DEF Leave, IInv, TypeOK, Goto
    <3> QED
      BY <2>3, <3>1, ErrorProgress DEF EntriesMatch
  <2>4. CASE Fail(x) /\ rcache' = rcache
    BY <2>4, AbortProgress DEF Fail, EntriesMatch
  <2> QED
    BY <1>4, <2>2, <2>3, <2>4 DEF RunFirst
<1> QED
  BY <1>3, <1>4

\* A batch that ends with its first request makes up the other answers.
LEMMA CheckFirstProgress ==
  ASSUME IInv, NEW x \in Calls, Progress(x), CheckFirst(x)
  PROVE  Progress(x)' /\ rcache' = rcache
<1>1. /\ pc[x] = "check" /\ job[x] # NoJob /\ job' = job /\ rcache' = rcache
      /\ loc[x].from = 2 /\ loc[x] \in Locals /\ Answered(x, 1)
      /\ Len(out[x]) = NumRequests(x) /\ out[x] \in Seq(Outcomes \cup {Missing})
  BY Busy DEF CheckFirst, Progress, cacheVars, IInv, TypeOK, Engaged
<1>2. /\ NumRequests(x) \in Nat \ {0} /\ DOMAIN out[x] = 1 .. NumRequests(x)
      /\ \A i \in 1 .. NumRequests(x) : Stdin(x, i) \in Stdins
      /\ 1 \in 1 .. NumRequests(x) /\ Code(x) \in Codes
  BY <1>1, Arguments, LenProperties DEF IInv, TypeOK
<1> DEFINE f == IF loc[x].build = "stderr"
                  THEN [prog |-> Code(x), stdin |-> Stdin(x, 1), end |-> "compile_error"]
                  ELSE out[x][1]
           max == Lesser(permits, NumRequests(x) - 1)
<1>3. f # Missing /\ f.stdin = Stdin(x, 1) /\ f \in Outcomes \cup {Missing}
  <2>1. CASE loc[x].build = "stderr"
    <3>1. f \in Outcomes
      BY <1>2, <2>1 DEF Outcomes, Programs
    <3> QED
      BY <2>1, <3>1, SandboxAssumption DEF SandboxAssumption
  <2>2. CASE loc[x].build # "stderr"
    BY <1>1, <1>2, <2>2, ElementOfSeq DEF Answered
  <2> QED
    BY <2>1, <2>2
<1>4. CASE out' = [out EXCEPT ![x] = Answers(x, f)] /\ Leave(x, "ok")
  <2> HIDE DEF f
  <2>1. pc'[x] = "giveback" /\ out'[x] = Answers(x, f)
    BY <1>4 DEF Leave, Goto, IInv, TypeOK
  <2>2. Len(out'[x]) = NumRequests(x)
    BY <1>1, <1>3, <1>4, SkippedResults DEF Answers, Inside
  <2>3. ASSUME NEW i \in 1 .. NumRequests(x) PROVE Answered(x, i)'
    <3>1. Skipped(x, i) \in Outcomes /\ Skipped(x, i).stdin = Stdin(x, i)
      BY <1>2 DEF Skipped, Outcomes, Programs
    <3>2. Skipped(x, i) # Missing
      BY <3>1, SandboxAssumption DEF SandboxAssumption
    <3>3. out'[x][i] = IF i = 1 THEN f ELSE Skipped(x, i)
      BY <1>2, <2>1 DEF Answers
    <3>4. Stdin(x, i)' = Stdin(x, i)
      BY <1>1 DEF Stdin
    <3> QED
      BY <1>3, <3>1, <3>2, <3>3, <3>4 DEF Answered
  <2> QED
    BY <1>1, <2>1, <2>2, <2>3, DoneProgress
<1>5. CASE /\ loc' = [loc EXCEPT ![x].maxPar = max, ![x].left = Iterations(max)]
           /\ Goto(x, "extend")
           /\ UNCHANGED <<out, reply>>
  <2> HIDE DEF max
  <2>1. pc'[x] = "extend" /\ loc'[x].from = 2
    BY <1>1, <1>5 DEF Goto, IInv, TypeOK, Locals
  <2>2. NumRequests(x)' = NumRequests(x) /\ \A i : Answered(x, i)' <=> Answered(x, i)
    BY <1>1, <1>5 DEF NumRequests, Answered, Stdin
  <2>3. \A i \in 1 .. NumRequests(x) : i < 2 => i = 1
    BY <1>2
  <2>4. AnsweredBelow(x, 2)'
    BY <1>1, <2>2, <2>3 DEF AnsweredBelow
  <2>5. AnsweredBelow(x, loc[x].from)'
    BY <2>1, <2>4 DEF AnsweredBelow
  <2> QED
    BY <1>1, <2>1, <2>5 DEF Progress, Early
<1> QED
  BY <1>1, <1>4, <1>5 DEF CheckFirst

\* Nothing that Progress reads of the answers changes.
LEMMA SameAnswers ==
  ASSUME NEW x \in Calls, UNCHANGED <<job, out>>
  PROVE  /\ NumRequests(x)' = NumRequests(x)
         /\ \A i : Answered(x, i)' <=> Answered(x, i)
BY DEF NumRequests, Answered, Stdin

\* The loop that takes containers.
LEMMA ExtendProgress ==
  ASSUME IInv, NEW x \in Calls, Progress(x), Extend(x)
  PROVE  Progress(x)' /\ rcache' = rcache
<1>1. pc[x] = "extend" /\ rcache' = rcache /\ loc[x] \in Locals
  BY DEF Extend, cacheVars, IInv, TypeOK
<1>2. AnsweredBelow(x, loc[x].from)
  BY <1>1 DEF Progress
<1>3. CASE UNCHANGED <<pc, job, out>> /\ loc' = [loc EXCEPT ![x].left = @ - 1]
  <2>1. pc'[x] = "extend" /\ loc'[x].from = loc[x].from
    BY <1>1, <1>3 DEF IInv, TypeOK, Locals
  <2>2. AnsweredBelow(x, loc[x].from)'
    BY <1>2, <1>3, <2>1, SameAnswers DEF AnsweredBelow
  <2> QED
    BY <1>1, <2>1, <2>2 DEF Progress, Early
<1>4. CASE Fail(x)
  BY <1>1, <1>4, AbortProgress DEF Fail
<1> QED
  BY <1>3, <1>4 DEF Extend

\* A chunk starts with all of its requests waiting.
LEMMA StartChunkProgress ==
  ASSUME IInv, NEW x \in Calls, Progress(x), StartChunk(x)
  PROVE  Progress(x)' /\ rcache' = rcache
<1>1. /\ pc[x] = "extend" /\ rcache' = rcache /\ loc[x] \in Locals /\ job[x] # NoJob
      /\ Len(out[x]) = NumRequests(x)
  BY Busy DEF StartChunk, cacheVars, IInv, TypeOK, Engaged
<1>2. /\ AnsweredBelow(x, loc[x].from)
      /\ NumRequests(x) \in Nat \ {0} /\ loc[x].from \in Nat /\ loc[x].size \in Nat
  BY <1>1, Arguments, LocalsTypes DEF Progress, IInv, TypeOK
<1> DEFINE size == IF loc[x].size = 0 THEN Len(held[x]) ELSE loc[x].size
<1>3. size \in Nat
  BY <1>2, CallTypes, LenProperties
<1> HIDE DEF size
<1>4. CASE loc[x].from > NumRequests(x) /\ Leave(x, "ok") /\ UNCHANGED <<job, out>>
  <2>1. pc'[x] = "giveback"
    BY <1>4 DEF Leave, Goto, IInv, TypeOK
  <2>2. \A i \in 1 .. NumRequests(x) : Answered(x, i)'
    BY <1>2, <1>4, SameAnswers DEF AnsweredBelow
  <2> QED
    BY <1>1, <1>4, <2>1, <2>2, DoneProgress
<1>5. CASE /\ loc' = [loc EXCEPT ![x].size = size, ![x].todo = Chunk(x, size)]
           /\ Goto(x, "runchunk")
           /\ UNCHANGED <<job, out>>
  <2>1. /\ pc'[x] = "runchunk" /\ loc'[x].from = loc[x].from /\ loc'[x].size = size
        /\ loc'[x].todo = Chunk(x, size)
    BY <1>1, <1>5 DEF Goto, IInv, TypeOK, Locals
  <2>2. AnsweredBelow(x, loc[x].from)'
    BY <1>2, <1>5, <2>1, SameAnswers DEF AnsweredBelow
  <2>3. ASSUME NEW i \in 1 .. NumRequests(x), i < loc[x].from + size
        PROVE  Answered(x, i)' \/ i \in Chunk(x, size)
    <3>1. CASE i < loc[x].from
      BY <1>2, <1>5, <3>1, SameAnswers DEF AnsweredBelow
    <3>2. CASE ~(i < loc[x].from)
      BY <1>2, <1>3, <2>3, <3>2 DEF Chunk, Lesser
    <3> QED
      BY <3>1, <3>2
  <2> QED
    BY <1>1, <1>5, <2>1, <2>2, <2>3, SameAnswers DEF Progress, Early
<1>6. CASE Abort(x, "panic")
  BY <1>1, <1>6, AbortProgress
<1> QED
  BY <1>4, <1>5, <1>6 DEF StartChunk, size

\* What is to be shown when one request of a chunk moves on.
LEMMA ChunkProgress ==
  ASSUME IInv, NEW x \in Calls, Progress(x), pc[x] = "runchunk", UNCHANGED <<pc, job>>,
         NEW i \in 1 .. NumRequests(x), NEW r \in Locals, loc' = [loc EXCEPT ![x] = r],
         r.from = loc[x].from, r.size = loc[x].size, loc[x].failed => r.failed,
         \A j \in 1 .. NumRequests(x) : Answered(x, j) => Answered(x, j)',
         loc[x].todo \cup loc[x].running \subseteq r.todo \cup r.running \cup {i},
         i \in r.todo \cup r.running \/ r.failed \/ Answered(x, i)'
  PROVE  Progress(x)'
<1>1. pc'[x] = "runchunk" /\ loc'[x] = r /\ NumRequests(x)' = NumRequests(x)
  BY DEF IInv, TypeOK, NumRequests
<1>2. AnsweredBelow(x, loc[x].from)'
  BY <1>1 DEF Progress, AnsweredBelow
<1>3. ASSUME NEW j \in 1 .. NumRequests(x), j < r.from + r.size, ~r.failed
      PROVE  Answered(x, j)' \/ j \in r.todo \cup r.running
  <2>1. Answered(x, j) \/ j \in loc[x].todo \cup loc[x].running
    BY <1>3 DEF Progress
  <2> QED
    BY <1>3, <2>1
<1> QED
  BY <1>1, <1>2, <1>3 DEF Progress, Early

\* A request of the chunk is answered from Redis, or will run.
LEMMA LookupNextProgress ==
  ASSUME IInv, EntriesMatch, NEW x \in Calls, Progress(x), LookupNext(x)
  PROVE  Progress(x)' /\ rcache' = rcache
<1>1. /\ pc[x] = "runchunk" /\ pc[x] \in Inside /\ UNCHANGED <<pc, job, rcache>>
      /\ loc[x] \in Locals
  BY DEF LookupNext, Inside, cacheVars, IInv, TypeOK
<1>2. PICK i \in loc[x].todo :
        \/ Serve(x, i) /\ loc' = [loc EXCEPT ![x].todo = @ \ {i}]
        \/ /\ loc' = [loc EXCEPT ![x].todo = @ \ {i}, ![x].running = @ \cup {i}]
           /\ UNCHANGED out
  BY DEF LookupNext
<1>3. i \in 1 .. NumRequests(x)
  BY <1>1 DEF IInv, ChunkInRange
<1>4. CASE Serve(x, i) /\ loc' = [loc EXCEPT ![x].todo = @ \ {i}]
  <2> DEFINE r == [loc[x] EXCEPT !.todo = @ \ {i}]
  <2>1. /\ r \in Locals /\ r.from = loc[x].from /\ r.size = loc[x].size
        /\ r.failed = loc[x].failed
        /\ loc[x].todo \cup loc[x].running \subseteq r.todo \cup r.running \cup {i}
    BY <1>1 DEF Locals
  <2>2. loc' = [loc EXCEPT ![x] = r]
    BY <1>4 DEF IInv, TypeOK
  <2> HIDE DEF r
  <2> QED
    BY <1>1, <1>3, <1>4, <2>1, <2>2, ServeAnswers, ChunkProgress
<1>5. CASE /\ loc' = [loc EXCEPT ![x].todo = @ \ {i}, ![x].running = @ \cup {i}]
           /\ UNCHANGED out
  <2> DEFINE r == [loc[x] EXCEPT !.todo = @ \ {i}, !.running = @ \cup {i}]
  <2>1. /\ r \in Locals /\ r.from = loc[x].from /\ r.size = loc[x].size
        /\ r.failed = loc[x].failed /\ i \in r.todo \cup r.running
        /\ loc[x].todo \cup loc[x].running \subseteq r.todo \cup r.running \cup {i}
    BY <1>1 DEF Locals
  <2>2. loc' = [loc EXCEPT ![x] = r]
    BY <1>5 DEF IInv, TypeOK
  <2> HIDE DEF r
  <2> QED
    BY <1>1, <1>3, <1>5, <2>1, <2>2, SameAnswers, ChunkProgress
<1> QED
  BY <1>1, <1>2, <1>4, <1>5

\* A request of the chunk runs, or fails.
LEMMA RunNextProgress ==
  ASSUME IInv, EntriesMatch, NEW x \in Calls, Progress(x), RunNext(x)
  PROVE  Progress(x)' /\ EntriesMatch'
<1>1. /\ pc[x] = "runchunk" /\ pc[x] \in Inside /\ UNCHANGED <<pc, job>>
      /\ loc[x] \in Locals /\ held[x] # <<>>
  BY DEF RunNext, Inside, IInv, TypeOK, HoldsWhatItUses
<1>2. PICK i \in loc[x].running :
        \/ /\ RunRequest(x, i, ContainerOf(x, i))
           /\ loc' = [loc EXCEPT ![x].running = @ \ {i}]
        \/ /\ loc' = [loc EXCEPT ![x].running = @ \ {i}, ![x].failed = TRUE]
           /\ UNCHANGED <<out, rcache>>
  BY DEF RunNext
<1>3. i \in 1 .. NumRequests(x) /\ ContainerOf(x, i) \in Containers
  BY <1>1, ContainerOfType, LocalsTypes DEF IInv, ChunkInRange
<1>4. CASE /\ RunRequest(x, i, ContainerOf(x, i))
           /\ loc' = [loc EXCEPT ![x].running = @ \ {i}]
  <2> DEFINE r == [loc[x] EXCEPT !.running = @ \ {i}]
  <2>1. /\ r \in Locals /\ r.from = loc[x].from /\ r.size = loc[x].size
        /\ r.failed = loc[x].failed
        /\ loc[x].todo \cup loc[x].running \subseteq r.todo \cup r.running \cup {i}
    BY <1>1 DEF Locals
  <2>2. loc' = [loc EXCEPT ![x] = r]
    BY <1>4 DEF IInv, TypeOK
  <2> HIDE DEF r
  <2> QED
    BY <1>1, <1>3, <1>4, <2>1, <2>2, RunAnswers, ChunkProgress
<1>5. CASE /\ loc' = [loc EXCEPT ![x].running = @ \ {i}, ![x].failed = TRUE]
           /\ UNCHANGED <<out, rcache>>
  <2> DEFINE r == [loc[x] EXCEPT !.running = @ \ {i}, !.failed = TRUE]
  <2>1. /\ r \in Locals /\ r.from = loc[x].from /\ r.size = loc[x].size /\ r.failed
        /\ loc[x].todo \cup loc[x].running \subseteq r.todo \cup r.running \cup {i}
    BY <1>1 DEF Locals
  <2>2. loc' = [loc EXCEPT ![x] = r]
    BY <1>5 DEF IInv, TypeOK
  <2> HIDE DEF r
  <2>3. EntriesMatch'
    BY <1>5 DEF EntriesMatch
  <2> QED
    BY <1>1, <1>3, <1>5, <2>1, <2>2, <2>3, SameAnswers, ChunkProgress
<1> QED
  BY <1>2, <1>4, <1>5

\* join_all is done: every request of the chunk is answered, or one has failed.
LEMMA EndChunkProgress ==
  ASSUME IInv, NEW x \in Calls, Progress(x), EndChunk(x)
  PROVE  Progress(x)' /\ rcache' = rcache
<1>1. /\ pc[x] = "runchunk" /\ rcache' = rcache /\ job[x] # NoJob
      /\ loc[x].todo = {} /\ loc[x].running = {}
      /\ Len(out[x]) = NumRequests(x)
  BY Busy DEF EndChunk, Joined, cacheVars, IInv, TypeOK, Engaged
<1>2. CASE loc[x].failed /\ Fail(x)
  BY <1>1, <1>2, AbortProgress DEF Fail
<1>3. CASE ~loc[x].failed /\ LastChunk(x) /\ Leave(x, "ok") /\ UNCHANGED <<job, out>>
  <2>1. pc'[x] = "giveback"
    BY <1>3 DEF Leave, Goto, IInv, TypeOK
  <2>2. NumRequests(x) \in Nat /\ loc[x].from + loc[x].size \in Nat
    BY <1>1, Arguments, CallTypes, LocalsTypes DEF IInv, TypeOK
  <2>3. \A i \in 1 .. NumRequests(x) : Answered(x, i)
    BY <1>1, <1>3, <2>2 DEF Progress, LastChunk
  <2> QED
    BY <1>1, <1>3, <2>1, <2>3, SameAnswers, DoneProgress
<1>4. CASE ~loc[x].failed /\ Goto(x, "drain") /\ UNCHANGED <<job, out, loc>>
  <2>1. pc'[x] = "drain"
    BY <1>4 DEF Goto, IInv, TypeOK
  <2>2. AnsweredBelow(x, loc[x].from + loc[x].size) /\ AnsweredBelow(x, loc[x].from)
    BY <1>1, <1>4 DEF Progress, AnsweredBelow
  <2>3. AnsweredBelow(x, loc[x].from + loc[x].size)' /\ AnsweredBelow(x, loc[x].from)'
    BY <1>4, <2>2, SameAnswers DEF AnsweredBelow
  <2> QED
    BY <1>1, <2>1, <2>3 DEF Progress, Early
<1> QED
  BY <1>1, <1>2, <1>3, <1>4 DEF EndChunk

\* The chunk is answered; after the last container the next one is current.
LEMMA DrainProgress ==
  ASSUME IInv, NEW x \in Calls, Progress(x), Drain(x)
  PROVE  Progress(x)' /\ rcache' = rcache
<1>1. /\ pc[x] = "drain" /\ rcache' = rcache /\ loc[x] \in Locals
      /\ UNCHANGED <<job, out, reply>>
  BY DEF Drain, cacheVars, IInv, TypeOK
<1>2. AnsweredBelow(x, loc[x].from + loc[x].size) /\ AnsweredBelow(x, loc[x].from)
  BY <1>1 DEF Progress
<1>3. CASE /\ loc' = [loc EXCEPT ![x].left = loc[x].maxPar, ![x].from = @ + loc[x].size]
           /\ Goto(x, "extend")
  <2>1. pc'[x] = "extend" /\ loc'[x].from = loc[x].from + loc[x].size
    BY <1>1, <1>3 DEF Goto, IInv, TypeOK, Locals
  <2>2. AnsweredBelow(x, loc[x].from)'
    BY <1>1, <1>2, <2>1, SameAnswers DEF AnsweredBelow
  <2> QED
    BY <1>1, <2>1, <2>2 DEF Progress, Early
<1>4. CASE UNCHANGED <<pc, loc>>
  BY <1>1, <1>4, SameProgress DEF Same
<1> QED
  BY <1>1, <1>3, <1>4 DEF Drain

-----------------------------------------------------------------------------
\* Nothing is answered and nothing cached at the start.
LEMMA InitAInv == Init => AInv
BY DEF Init, AInv, EntriesMatch, Progress, NoLocals

\* AInv is inductive relative to IInv.
LEMMA NextAInv == IInv /\ AInv /\ [Next]_vars => AInv'
<1> SUFFICES ASSUME IInv, AInv, [Next]_vars PROVE AInv'
  OBVIOUS
<1> USE DEF AInv
<1>1. ASSUME UNCHANGED callVars, EntriesMatch' PROVE AInv'
  BY <1>1, SameProgress DEF callVars, Same
<1>2. CASE UNCHANGED vars
  BY <1>1, <1>2 DEF vars, cacheVars, EntriesMatch
<1>3. CASE Evict \/ \E c \in Containers : WriteLands(c)
  <2>1. EntriesMatch'
    BY <1>3 DEF Evict, WriteLands, cacheVars, EntriesMatch, IInv, TypeOK
  <2> QED
    BY <1>1, <1>3, <2>1 DEF Evict, WriteLands
<1>4. ASSUME NEW x \in Calls,
             Begin(x) \/ Collect(x) \/ Cancel(x) \/ Acquire(x) \/ Step(x)
      PROVE  AInv'
  <2>1. \A y \in Calls \ {x} : Progress(y)'
    BY <1>4, OthersSame, SameProgress
  <2>2. ASSUME rcache' = rcache PROVE EntriesMatch'
    BY <2>2 DEF EntriesMatch
  <2>3. ASSUME SingleStep(x) \/ BatchStep(x) PROVE Progress(x)' /\ EntriesMatch'
    BY <2>2, <2>3, EarlySteps, SingleProgress, FirstProgress, CheckFirstProgress,
       ExtendProgress, StartChunkProgress, LookupNextProgress, RunNextProgress,
       EndChunkProgress, DrainProgress
       DEF SingleStep, BatchStep, GetSingle, WriteSingle, GetInitial, WriteFirst
  <2>4. Progress(x)' /\ EntriesMatch'
    BY <1>4, <2>2, <2>3, EarlySteps, GiveBackProgress
       DEF Acquire, AcquireSingle, AcquireBatch, Step
  <2> QED
    BY <2>1, <2>4
<1> QED
  BY <1>2, <1>3, <1>4 DEF Next

\* AInv is an invariant.
LEMMA InvariantAInv == Spec => []AInv
BY InitAInv, NextAInv, InvariantIInv, PTL DEF Spec

\* execute and execute_batch return one result per request, in the order of
\* the requests and each for its own stdin, whatever was cached, however the
\* chunks ran and in whichever order their requests ended.
THEOREM AnswersAligned == Spec => []Aligned
<1>1. IInv /\ AInv => Aligned
  <2> SUFFICES ASSUME IInv, AInv, NEW x \in Calls, pc[x] = "replied", reply[x] = "ok"
               PROVE  /\ Len(out[x]) = NumRequests(x)
                      /\ \A i \in DOMAIN out[x] :
                           out[x][i] # Missing /\ out[x][i].stdin = Stdin(x, i)
    BY DEF Aligned
  <2>1. /\ Len(out[x]) = NumRequests(x)
        /\ \A i \in 1 .. NumRequests(x) : Answered(x, i)
    BY DEF AInv, Progress
  <2>2. DOMAIN out[x] = 1 .. Len(out[x])
    BY LenProperties DEF IInv, TypeOK
  <2> QED
    BY <2>1, <2>2 DEF Answered
<1> QED
  BY <1>1, InvariantAInv, InvariantIInv, PTL
=============================================================================
