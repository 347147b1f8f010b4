---------------------------- MODULE ExecuteSingle ----------------------------
(***************************************************************************)
(* CodeExecutor::execute: one request in one container.                    *)
(***************************************************************************)
EXTENDS Compilers

Single(x) == job[x] # NoJob /\ job[x].kind = "single"

AcquireSingle(x) == Single(x) /\ Enter(x)
GetSingle(x) == Single(x) /\ TakeFirst(x)
WriteSingle(x) == Single(x) /\ WriteFile(x)

\* A failed compilation is a result; otherwise the result cache is asked.
LookupSingle(x) ==
  /\ pc[x] = "built" /\ Single(x)
  /\ \/ /\ loc[x].build = "stderr"
        /\ out' = [out EXCEPT ![x] = <<[prog |-> Code(x), stdin |-> Stdin(x, 1),
                                        end |-> "compile_error"]>>]
        /\ Leave(x, "ok")
     \/ /\ loc[x].build # "stderr"
        /\ Serve(x, 1)
        /\ Leave(x, "ok")
     \/ /\ loc[x].build # "stderr"
        /\ ResultMiss(x, 1)
        /\ Goto(x, IF Key(x) \in Compiled THEN "run" ELSE "write")
        /\ UNCHANGED <<out, reply>>
  /\ UNCHANGED <<poolVars, fileVars, cacheVars, job, held, loc>>

\* Run it.  create_exec fails through "?",
\* an error later returns the container.
RunSingle(x) ==
  /\ pc[x] = "run" /\ Single(x)
  /\ \/ /\ RunRequest(x, 1, held[x][1])
        /\ Leave(x, "ok")
        /\ UNCHANGED <<permits, held, job, loc>>
     \/ /\ DockerFails
        /\ Leave(x, "err")
        /\ UNCHANGED <<permits, held, job, loc, out, rcache>>
     \/ /\ DockerFails \/ EmptyCommand(x, 1)
        /\ Fail(x)
        /\ UNCHANGED rcache
  /\ UNCHANGED <<pool, fileVars, acache>>

SingleStep(x) == GetSingle(x) \/ LookupSingle(x) \/ WriteSingle(x) \/ RunSingle(x)
=============================================================================
