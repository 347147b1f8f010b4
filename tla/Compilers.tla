------------------------------ MODULE Compilers ------------------------------
(***************************************************************************)
(* handle_{c,cpp,java}_artifact and compile_{c,cpp,java}: how a call of a  *)
(* compiled language gets its executable into the container it holds.  The *)
(* three languages have the same control; java differs in one write.       *)
(* Every step works on the first container of the call, which nobody else  *)
(* uses meanwhile, and ends in "built", where execute and execute_batch go *)
(* on.  All errors of Docker calls leave through "?" and lose it.          *)
(***************************************************************************)
EXTENDS Sandbox

Built(x, b) ==
  /\ Goto(x, "built")
  /\ loc' = [loc EXCEPT ![x].build = b]
  /\ UNCHANGED <<permits, job, held, out, reply>>

\* A hit: the binary is uploaded.  The java handler also writes the source.
UseArtifact(x) ==
  /\ pc[x] = "artifact"
  /\ ArtifactHit(x)
  /\ \/ /\ Built(x, "ok")
        /\ bin' = [bin EXCEPT ![held[x][1]] = acache[Artifact(x)]]
        /\ WriteSource(held[x][1], Code(x)) \/ UNCHANGED <<src, inflight>>
     \/ /\ DockerFails
        /\ Fail(x)
        /\ UNCHANGED fileVars
  /\ UNCHANGED <<pool, cacheVars>>

\* A miss, or no answer from Redis: write the source file.
WriteProgram(x) ==
  /\ pc[x] = "artifact"
  /\ ArtifactMiss(x)
  /\ \/ /\ Goto(x, "compile")
        /\ WriteSource(held[x][1], Code(x))
        /\ UNCHANGED <<permits, job, held, out, reply, loc>>
     \/ /\ DockerFails
        /\ Fail(x)
        /\ UNCHANGED <<src, inflight>>
  /\ UNCHANGED <<pool, bin, cacheVars>>

\* Mutant of Output: an executable that is there already is not overwritten.
OutputKept(p, b) == IF b # NoCode THEN b ELSE p

\* What the executable of a container holding b is once p is compiled: javac
\* names the class file after the class, an older Main.class stays.
Output(p, b) == IF p \in Nameless THEN b ELSE p

\* Run the compiler on the source file as it is now.  A success is fetched
\* from the container, or the fetch fails on a missing file, and cached under
\* the program the call was made with.
Compile(x) ==
  /\ pc[x] = "compile"
  /\ LET c == held[x][1]
         p == src[c]
         e == Output(p, bin[c])
     IN  \/ /\ p \in Codes \ Broken /\ e # NoCode
            /\ Built(x, "ok")
            /\ bin' = [bin EXCEPT ![c] = e]
            /\ \/ acache' = [acache EXCEPT ![Artifact(x)] = e]
               \/ CacheLossy /\ UNCHANGED acache
         \/ /\ p \notin Codes \ Broken
            /\ Built(x, "stderr")
            /\ UNCHANGED <<bin, acache>>
         \/ /\ DockerFails \/ (p \in Codes \ Broken /\ e = NoCode)
            /\ Fail(x)
            /\ UNCHANGED <<bin, acache>>
         \/ /\ DockerFails
            /\ Built(x, "nocmd")
            /\ UNCHANGED <<bin, acache>>
  /\ UNCHANGED <<pool, src, inflight, rcache>>

CompilerStep(x) == UseArtifact(x) \/ WriteProgram(x) \/ Compile(x)
=============================================================================
