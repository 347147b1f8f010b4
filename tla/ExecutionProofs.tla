--------------------------- MODULE ExecutionProofs ---------------------------
(***************************************************************************)
(* The executor implements ContainerLease, and Execution, by which module  *)
(* Service knows it.  Every step does one of four things to the containers *)
(* (ContainerSteps of ExecutorProofs), and each of them is a step of the   *)
(* leases, because no container is in two places.  PermitProofs follows    *)
(* the permits; the second part sees every step do both to the same call,  *)
(* and a call leave the semaphore with nothing it could still return.      *)
(***************************************************************************)
EXTENDS PermitProofs

\* Who owns a container, while it is in one place only.
LEMMA Owners ==
  ASSUME OnePlace, NEW c \in Containers
  PROVE  /\ InPool(c) => Owner[c] = FreeOwner /\ \A x \in Calls : ~HeldBy(x, c)
         /\ \A x \in Calls : HeldBy(x, c) => Owner[c] = x /\ ~InPool(c)
         /\ ~InPool(c) /\ (\A x \in Calls : ~HeldBy(x, c)) => Owner[c] = LostOwner
         /\ \A x \in Calls : Owner[c] = x => HeldBy(x, c)
<1>1. \A x, y \in Calls : HeldBy(x, c) /\ HeldBy(y, c) => x = y
  BY DEF OnePlace, HeldOnce, HeldBy
<1>2. \A x \in Calls : HeldBy(x, c) => ~InPool(c)
  BY DEF OnePlace, HeldNotPooled, HeldBy, InPool
<1>3. \A x \in Calls : HeldBy(x, c) => (CHOOSE y \in Calls : HeldBy(y, c)) = x
  BY <1>1
<1>4. Owner[c] = IF InPool(c) THEN FreeOwner
                 ELSE IF \E x \in Calls : HeldBy(x, c)
                        THEN CHOOSE x \in Calls : HeldBy(x, c) ELSE LostOwner
  BY DEF Owner
<1> QED
  BY <1>2, <1>3, <1>4, OwnerAssumption DEF OwnerAssumption

\* The same after a step.
LEMMA OwnersNext ==
  ASSUME OnePlace', NEW c \in Containers
  PROVE  /\ InPool(c)' => Owner'[c] = FreeOwner /\ \A x \in Calls : ~HeldBy(x, c)'
         /\ \A x \in Calls : HeldBy(x, c)' => Owner'[c] = x /\ ~InPool(c)'
         /\ ~InPool(c)' /\ (\A x \in Calls : ~HeldBy(x, c)') => Owner'[c] = LostOwner
<1>1. \A x, y \in Calls : HeldBy(x, c)' /\ HeldBy(y, c)' => x = y
  BY DEF OnePlace, HeldOnce, HeldBy
<1>2. \A x \in Calls : HeldBy(x, c)' => ~InPool(c)'
  BY DEF OnePlace, HeldNotPooled, HeldBy, InPool
<1>3. \A x \in Calls : HeldBy(x, c)' => (CHOOSE y \in Calls : HeldBy(y, c)') = x
  BY <1>1
<1>4. Owner'[c] = IF InPool(c)' THEN FreeOwner
                  ELSE IF \E x \in Calls : HeldBy(x, c)'
                         THEN CHOOSE x \in Calls : HeldBy(x, c)' ELSE LostOwner
  BY DEF Owner
<1> QED
  BY <1>2, <1>3, <1>4

\* The refinement mapping is a function on the containers.
LEMMA OwnerFunction == Owner = [c \in Containers |-> Owner[c]]
BY DEF Owner

\* The same after a step.
LEMMA OwnerFunctionNext == Owner' = [c \in Containers |-> Owner'[c]]
BY DEF Owner

\* Two owners are the same when the same places hold the container.
LEMMA SameOwner ==
  ASSUME OnePlace, OnePlace', NEW c \in Containers,
         InPool(c)' <=> InPool(c),
         \A x \in Calls : HeldBy(x, c)' <=> HeldBy(x, c)
  PROVE  Owner'[c] = Owner[c]
<1>1. CASE InPool(c)
  BY <1>1, Owners, OwnersNext
<1>2. ASSUME NEW x \in Calls, HeldBy(x, c) PROVE Owner'[c] = Owner[c]
  BY <1>2, Owners, OwnersNext
<1>3. CASE ~InPool(c) /\ \A x \in Calls : ~HeldBy(x, c)
  BY <1>3, Owners, OwnersNext
<1> QED
  BY <1>1, <1>2, <1>3

-----------------------------------------------------------------------------
\* get_container takes c, and only c, out of the pool.
LEMMA PopOwners ==
  ASSUME IInv, OnePlace, NEW k \in Keys, NEW c \in Containers, Pop(k, c)
  PROVE  /\ InPool(c) /\ ~InPool(c)'
         /\ \A d \in Containers \ {c} : InPool(d)' <=> InPool(d)
<1>1. /\ Len(pool[k]) \in Nat \ {0}
      /\ c = pool[k][Len(pool[k])]
      /\ \A l \in Keys : DOMAIN pool[l] = 1 .. Len(pool[l]) /\ Len(pool[l]) \in Nat
      /\ DOMAIN pool'[k] = 1 .. Len(pool[k]) - 1
      /\ \A i \in 1 .. Len(pool[k]) - 1 : pool'[k][i] = pool[k][i]
      /\ \A l \in Keys \ {k} : pool'[l] = pool[l]
  BY PopContents
<1>2. Len(pool[k]) \in DOMAIN pool[k]
  BY <1>1
<1>3. \A l \in Keys : \A i \in DOMAIN pool'[l] :
        i \in DOMAIN pool[l] /\ pool'[l][i] = pool[l][i]
  BY <1>1
<1>4. \A l \in Keys : \A i \in DOMAIN pool'[l] : pool[l][i] # c
  BY <1>1, <1>2, <1>3 DEF OnePlace, PoolOnce
<1>5. \A l \in Keys : \A i \in DOMAIN pool[l] : pool[l][i] # c => i \in DOMAIN pool'[l]
  BY <1>1
<1> QED
  BY <1>1, <1>2, <1>3, <1>4, <1>5 DEF InPool

\* get_container is a Take, or, if the call ends in the same step and holds
\* nothing after it, an Abandon.
LEMMA TakesLease ==
  ASSUME IInv, OnePlace, OnePlace', NEW x \in Calls, NEW c \in Containers, Takes(x, c)
  PROVE  /\ held'[x] # <<>> => Lease!Take(x, c)
         /\ held'[x] = <<>> => Lease!Abandon(x, {c})
<1>1. /\ InPool(c) /\ ~InPool(c)'
      /\ \A d \in Containers \ {c} : InPool(d)' <=> InPool(d)
  BY PopOwners, Arguments DEF Takes, IInv, TypeOK
<1>2. \A y \in Calls \ {x} : \A d : HeldBy(y, d)' <=> HeldBy(y, d)
  BY DEF Takes, IInv, TypeOK, HeldBy
<1>3. Owner[c] = FreeOwner /\ \A y \in Calls : ~HeldBy(y, c)
  BY <1>1, Owners
<1>4. ASSUME HeldBy(x, c)' /\ \A d \in Containers \ {c} : HeldBy(x, d)' <=> HeldBy(x, d)
      PROVE  Lease!Take(x, c)
  <2>1. Owner'[c] = x
    BY <1>4, OwnersNext
  <2>2. \A d \in Containers \ {c} : Owner'[d] = Owner[d]
    BY <1>1, <1>2, <1>4, SameOwner
  <2>3. Owner' = [Owner EXCEPT ![c] = x]
    BY <2>1, <2>2, OwnerFunction, OwnerFunctionNext
  <2> QED
    BY <1>3, <2>3 DEF Lease!Take
<1>5. ASSUME \A d \in Containers : ~HeldBy(x, d)' PROVE Lease!Abandon(x, {c})
  <2>1. Owner'[c] = LostOwner
    BY <1>1, <1>2, <1>3, <1>5, OwnersNext
  <2>2. ASSUME NEW d \in Containers \ {c}, Owner[d] = x PROVE Owner'[d] = LostOwner
    <3>1. HeldBy(x, d) /\ ~InPool(d) /\ \A y \in Calls \ {x} : ~HeldBy(y, d)
      BY <2>2, Owners
    <3> QED
      BY <1>1, <1>2, <1>5, <3>1, OwnersNext
  <2>3. ASSUME NEW d \in Containers \ {c}, Owner[d] # x PROVE Owner'[d] = Owner[d]
    <3>1. ~HeldBy(x, d)
      BY <2>3, Owners
    <3> QED
      BY <1>1, <1>2, <1>5, <3>1, SameOwner
  <2>4. Owner' = [d \in Containers |-> IF Owner[d] = x \/ d \in {c} THEN LostOwner
                                                                 ELSE Owner[d]]
    BY <2>1, <2>2, <2>3, OwnerFunctionNext
  <2> QED
    BY <1>3, <2>4 DEF Lease!Abandon
<1>6. \/ held'[x] = <<>>
      \/ held[x] = <<>> /\ held'[x] = <<c>>
      \/ held'[x] = Append(held[x], c)
  BY DEF Takes, IInv, TypeOK
<1>7. CASE held'[x] = <<>>
  BY <1>5, <1>7 DEF HeldBy
<1>8. CASE held[x] = <<>> /\ held'[x] = <<c>>
  BY <1>4, <1>8 DEF HeldBy
<1>9. CASE held'[x] = Append(held[x], c)
  <2>1. held[x] \in Seq(Containers)
    BY CallTypes
  <2>2. /\ Append(held[x], c) \in Seq(Containers)
        /\ Len(Append(held[x], c)) = Len(held[x]) + 1
        /\ \A i \in 1 .. Len(held[x]) : Append(held[x], c)[i] = held[x][i]
        /\ Append(held[x], c)[Len(held[x]) + 1] = c
    BY <2>1, AppendProperties
  <2>3. /\ Len(held[x]) \in Nat /\ DOMAIN held[x] = 1 .. Len(held[x])
        /\ DOMAIN held'[x] = 1 .. Len(held[x]) + 1
    BY <1>9, <2>1, <2>2, LenProperties
  <2>4. HeldBy(x, c)' /\ \A d \in Containers \ {c} : HeldBy(x, d)' <=> HeldBy(x, d)
    BY <1>9, <2>2, <2>3 DEF HeldBy
  <2>5. held'[x] # <<>>
    BY <2>3
  <2> QED
    BY <1>4, <2>4, <2>5
<1> QED
  BY <1>6, <1>7, <1>8, <1>9

\* return_container is a Return.
LEMMA ReturnsLease ==
  ASSUME IInv, OnePlace, OnePlace', NEW x \in Calls, Returns(x)
  PROVE  \E c \in Containers : Lease!Return(x, c)
<1> DEFINE k == Key(x)
<1>1. job[x] # NoJob /\ Push(x)
  BY DEF Returns
<1>2. /\ k \in Keys
      /\ Len(held[x]) \in Nat \ {0} /\ Len(pool[k]) \in Nat
      /\ \A y \in Calls : DOMAIN held[y] = 1 .. Len(held[y])
      /\ \A l \in Keys : DOMAIN pool[l] = 1 .. Len(pool[l])
      /\ DOMAIN pool'[k] = 1 .. Len(pool[k]) + 1
      /\ \A i \in 1 .. Len(pool[k]) : pool'[k][i] = pool[k][i]
      /\ pool'[k][Len(pool[k]) + 1] = held[x][1]
      /\ \A l \in Keys \ {k} : pool'[l] = pool[l]
      /\ DOMAIN held'[x] = 1 .. Len(held[x]) - 1
      /\ \A i \in 1 .. Len(held[x]) - 1 : held'[x][i] = held[x][i + 1]
      /\ \A y \in Calls \ {x} : held'[y] = held[y]
  BY <1>1, PushContents
<1>3. 1 \in DOMAIN held[x] /\ held[x][1] \in Containers
  <2>1. 1 \in DOMAIN held[x] /\ held[x] \in Seq(Containers)
    BY <1>2, CallTypes
  <2> QED
    BY <1>2, <2>1, ElementOfSeq
<1>c. PICK c \in Containers : c = held[x][1]
  BY <1>3
<1> HIDE DEF k
<1>4. /\ InPool(c)'
      /\ \A d \in Containers \ {c} : InPool(d)' <=> InPool(d)
  <2>1. InPool(c)'
    <3>1. Len(pool[k]) + 1 \in DOMAIN pool'[k]
      BY <1>2
    <3> QED
      BY <1>2, <1>c, <3>1 DEF InPool
  <2>2. \A l \in Keys : \A i \in DOMAIN pool[l] :
          i \in DOMAIN pool'[l] /\ pool'[l][i] = pool[l][i]
    BY <1>2
  <2>3. \A l \in Keys : \A i \in DOMAIN pool'[l] :
          pool'[l][i] = c \/ (i \in DOMAIN pool[l] /\ pool'[l][i] = pool[l][i])
    BY <1>2, <1>c
  <2> QED
    BY <2>1, <2>2, <2>3 DEF InPool
<1>5. \A y \in Calls \ {x} : \A d : HeldBy(y, d)' <=> HeldBy(y, d)
  BY <1>2 DEF HeldBy
<1>6. \A d \in Containers \ {c} : HeldBy(x, d)' <=> HeldBy(x, d)
  <2>1. \A i \in DOMAIN held'[x] : i + 1 \in DOMAIN held[x] /\ held'[x][i] = held[x][i + 1]
    BY <1>2
  <2>2. \A i \in DOMAIN held[x] :
          held[x][i] = c \/ (i - 1 \in DOMAIN held'[x] /\ held'[x][i - 1] = held[x][i])
    <3> TAKE i \in DOMAIN held[x]
    <3>1. CASE i = 1
      BY <1>c, <3>1
    <3>2. CASE i # 1
      BY <1>2, <3>2
    <3> QED
      BY <3>1, <3>2
  <2> QED
    BY <2>1, <2>2 DEF HeldBy
<1>7. Owner[c] = x
  BY <1>3, <1>c, Owners DEF HeldBy
<1>8. Owner'[c] = FreeOwner
  BY <1>4, OwnersNext
<1>9. \A d \in Containers \ {c} : Owner'[d] = Owner[d]
  BY <1>4, <1>5, <1>6, SameOwner
<1>10. Owner' = [Owner EXCEPT ![c] = FreeOwner]
  BY <1>8, <1>9, OwnerFunction, OwnerFunctionNext
<1> QED
  BY <1>7, <1>10 DEF Lease!Return

\* An early end abandons every lease of the call.
LEMMA DropsLease ==
  ASSUME IInv, OnePlace, OnePlace', NEW x \in Calls, Drops(x)
  PROVE  Lease!Abandon(x, {})
<1>1. /\ pool' = pool /\ held'[x] = <<>> /\ DOMAIN held'[x] = {}
      /\ \A y \in Calls \ {x} : held'[y] = held[y]
  BY DEF Drops, IInv, TypeOK
<1>2. /\ \A d : InPool(d)' <=> InPool(d)
      /\ \A d : ~HeldBy(x, d)'
      /\ \A y \in Calls \ {x} : \A d : HeldBy(y, d)' <=> HeldBy(y, d)
  BY <1>1 DEF InPool, HeldBy
<1>3. ASSUME NEW d \in Containers, Owner[d] = x PROVE Owner'[d] = LostOwner
  <2>1. HeldBy(x, d) /\ ~InPool(d) /\ \A y \in Calls \ {x} : ~HeldBy(y, d)
    BY <1>3, Owners
  <2> QED
    BY <1>2, <2>1, OwnersNext
<1>4. ASSUME NEW d \in Containers, Owner[d] # x PROVE Owner'[d] = Owner[d]
  <2>1. ~HeldBy(x, d)
    BY <1>4, Owners
  <2> QED
    BY <1>2, <2>1, SameOwner
<1>5. Owner' = [d \in Containers |-> IF Owner[d] = x \/ d \in {} THEN LostOwner
                                                               ELSE Owner[d]]
  BY <1>3, <1>4, OwnerFunctionNext
<1> QED
  BY <1>5 DEF Lease!Abandon

\* Every other step leaves the owners alone.
LEMMA KeepsLease ==
  ASSUME OnePlace, OnePlace', Keeps
  PROVE  Owner' = Owner
<1>1. \A d \in Containers : Owner'[d] = Owner[d]
  BY SameOwner DEF Keeps, InPool, HeldBy
<1> QED
  BY <1>1, OwnerFunction, OwnerFunctionNext

\* Every step of the executor is a step of the leases or a stutter.
LEMMA NextLease ==
  IInv /\ OnePlace /\ OnePlace' /\ [Next]_vars => [Lease!Next]_Owner
<1> SUFFICES ASSUME IInv, OnePlace, OnePlace', [Next]_vars
             PROVE  Lease!Next \/ Owner' = Owner
  OBVIOUS
<1>1. CASE Keeps
  BY <1>1, KeepsLease
<1>2. ASSUME NEW x \in Calls, Drops(x) PROVE Lease!Next
  BY <1>2, DropsLease DEF Lease!Next
<1>3. ASSUME NEW x \in Calls, Returns(x) PROVE Lease!Next
  BY <1>3, ReturnsLease DEF Lease!Next
<1>4. ASSUME NEW x \in Calls, NEW c \in Containers, Takes(x, c) PROVE Lease!Next
  BY <1>4, TakesLease DEF Lease!Next
<1> QED
  BY <1>1, <1>2, <1>3, <1>4, ContainerSteps

\* The executor implements the leases: between get_container and
\* return_container a container belongs to one call, nothing hands it from one
\* call to another, and what an early "?" or a dropped future loses is lost.
THEOREM ImplementsLeases == Spec => LeaseSpec
<1>1. Init => Lease!Init
  <2> SUFFICES ASSUME Init PROVE Owner \in [Containers -> {FreeOwner, LostOwner}]
    BY DEF Lease!Init
  <2>1. \A c \in Containers : \A x \in Calls : ~HeldBy(x, c)
    BY DEF Init, HeldBy
  <2>2. \A c \in Containers : Owner[c] \in {FreeOwner, LostOwner}
    BY <2>1 DEF Owner
  <2> QED
    BY <2>2, OwnerFunction
<1>2. []OnePlace /\ []IInv /\ [][Next]_vars => [][Lease!Next]_Owner
  BY NextLease, PTL
<1> QED
  BY <1>1, <1>2, InvariantIInv, ContainersExclusive, PTL DEF Spec, LeaseSpec, Lease!Spec

-----------------------------------------------------------------------------
\* Containers and permits together.

\* The calls inside the semaphore stay there.
NoneMoves == Holders' = Holders

\* x leaves the semaphore.
Leaves(x) == x \in Holders /\ Holders' = Holders \ {x}

\* What a step can be.
JointStep ==
  \/ Keeps /\ NoneMoves
  \/ \E x \in Calls :
       \/ /\ Keeps /\ permits > 0
          /\ x \notin Holders /\ Holders' = Holders \cup {x}
       \/ Drops(x) /\ Leaves(x)
       \/ Returns(x) /\ x \in Holders /\ NoneMoves
       \/ Returns(x) /\ Len(held[x]) = 1 /\ Leaves(x)
       \/ \E c \in Containers :
            \/ Takes(x, c) /\ held'[x] # <<>> /\ x \in Holders /\ NoneMoves
            \/ Takes(x, c) /\ held'[x] = <<>> /\ Leaves(x)

\* A call inside the semaphore stays inside.
LEMMA StaysInside ==
  ASSUME IInv, NEW x \in Calls, pc[x] \in Inside,
         pc' = pc \/ \E l \in Inside : Goto(x, l)
  PROVE  x \in Holders /\ NoneMoves
<1>1. x \in Holders
  BY DEF Holders, HoldsPermit
<1>2. CASE pc' = pc
  BY <1>1, <1>2 DEF NoneMoves, Holders, HoldsPermit
<1>3. CASE \E l \in Inside : Goto(x, l)
  BY <1>1, <1>3, Moves DEF NoneMoves
<1> QED
  BY <1>2, <1>3, <1>1

\* A call that replies, or is dropped, was inside and leaves.
LEMMA LeavesInside ==
  ASSUME IInv, NEW x \in Calls, pc[x] \in Inside,
         Goto(x, "replied") \/ Goto(x, "idle")
  PROVE  Leaves(x)
<1>1. x \in Holders /\ "replied" \notin Inside /\ "idle" \notin Inside
  BY DEF Holders, HoldsPermit, Inside
<1> QED
  BY <1>1, Moves DEF Leaves

\* An early end from inside.
LEMMA AbortJoint ==
  ASSUME IInv, NEW x \in Calls, pc[x] \in Inside, NEW r, Abort(x, r), pool' = pool
  PROVE  JointStep
<1>1. Drops(x)
  BY DEF Drops, Abort
<1>2. Leaves(x)
  BY LeavesInside DEF Abort
<1> QED
  BY <1>1, <1>2 DEF JointStep

\* Every step that moves no container: it stays inside, or it ends early.
LEMMA QuietJoint ==
  ASSUME IInv, NEW x \in Calls, pc[x] \in Inside, pool' = pool,
         \/ UNCHANGED <<held, job>> /\ (pc' = pc \/ \E l \in Inside : Goto(x, l))
         \/ \E r \in {"err", "panic"} : Abort(x, r)
  PROVE  JointStep
<1>1. CASE UNCHANGED <<held, job>> /\ (pc' = pc \/ \E l \in Inside : Goto(x, l))
  <2>1. Keeps
    BY <1>1 DEF Keeps
  <2> QED
    BY <1>1, <2>1, StaysInside DEF JointStep
<1> QED
  BY <1>1, AbortJoint

\* The steps at the border of the semaphore.
LEMMA BorderJoint ==
  ASSUME IInv, NEW x \in Calls, Begin(x) \/ Collect(x) \/ Cancel(x) \/ Enter(x)
  PROVE  JointStep
<1>1. ASSUME Begin(x) \/ Collect(x) PROVE JointStep
  <2>1. /\ pc[x] \notin Inside /\ held[x] = <<>> /\ UNCHANGED <<pool, held>>
        /\ Goto(x, "acquire") \/ Goto(x, "idle")
        /\ "acquire" \notin Inside /\ "idle" \notin Inside
    BY <1>1 DEF Begin, Collect, poolVars, IInv, HoldsWhatItUses, Inside, Outside
  <2>2. \A y \in Calls \ {x} : job'[y] = job[y]
    BY <1>1 DEF Begin, Collect, IInv, TypeOK
  <2>3. NoneMoves
    BY <2>1, Moves DEF NoneMoves, Holders, HoldsPermit
  <2> QED
    BY <2>1, <2>2, <2>3 DEF JointStep, Keeps
<1>2. ASSUME Cancel(x) PROVE JointStep
  <2>1. Drops(x) /\ Goto(x, "idle")
    BY <1>2 DEF Cancel, Drops, IInv, TypeOK
  <2>2. CASE pc[x] \in Inside
    BY <2>1, <2>2, LeavesInside DEF JointStep
  <2>3. CASE pc[x] \notin Inside
    <3>1. held[x] = <<>> /\ "idle" \notin Inside
      BY <1>2, <2>3 DEF Cancel, IInv, HoldsWhatItUses, Inside, Outside
    <3>2. NoneMoves
      BY <2>1, <2>3, <3>1, Moves DEF NoneMoves, Holders, HoldsPermit
    <3>3. Keeps
      BY <2>1, <3>1 DEF Drops, Keeps, IInv, TypeOK
    <3> QED
      BY <3>2, <3>3 DEF JointStep
  <2> QED
    BY <2>2, <2>3
<1>3. ASSUME Enter(x) PROVE JointStep
  <2>1. Keeps /\ permits > 0
    BY <1>3 DEF Enter, Keeps
  <2>2. x \notin Holders /\ Holders' = Holders \cup {x}
    BY <1>3, Moves DEF Enter, Holders, HoldsPermit, Inside
  <2> QED
    BY <2>1, <2>2 DEF JointStep
<1> QED
  BY <1>1, <1>2, <1>3

\* The steps that take or return a container.
LEMMA MovingJoint ==
  ASSUME IInv, NEW x \in Calls,
         TakeFirst(x) \/ Extend(x) \/ Drain(x) \/ GiveBack(x)
  PROVE  JointStep
<1>1. pc[x] \in Inside /\ job[x] # NoJob
  BY Busy DEF TakeFirst, Extend, Drain, GiveBack, Inside
<1>2. ASSUME NEW c \in Containers, Pop(Key(x), c), Fail(x) PROVE JointStep
  <2>1. Takes(x, c) /\ held'[x] = <<>>
    BY <1>1, <1>2 DEF Takes, Fail, Abort, IInv, TypeOK
  <2>2. Leaves(x)
    BY <1>1, <1>2, LeavesInside DEF Fail, Abort
  <2> QED
    BY <2>1, <2>2 DEF JointStep
<1>3. ASSUME TakeFirst(x) PROVE JointStep
  <2>1. held[x] = <<>>
    BY <1>3 DEF TakeFirst, IInv, HoldsWhatItUses
  <2>2. ASSUME NEW c \in Containers, Pop(Key(x), c), held' = [held EXCEPT ![x] = <<c>>],
               Goto(x, "artifact") \/ Goto(x, "built"), job' = job
        PROVE  JointStep
    <3>1. Takes(x, c) /\ held'[x] = <<c>> /\ held'[x] # <<>>
      BY <1>1, <2>1, <2>2 DEF Takes, IInv, TypeOK
    <3>2. x \in Holders /\ NoneMoves
      BY <1>1, <2>2, Places, StaysInside
    <3> QED
      BY <3>1, <3>2 DEF JointStep
  <2>3. ASSUME NEW r \in {"err", "panic"}, Abort(x, r), pool' = pool PROVE JointStep
    BY <1>1, <2>3, AbortJoint
  <2> QED
    BY <1>3, <2>2, <2>3 DEF TakeFirst, Fail
<1>4. ASSUME Extend(x) PROVE JointStep
  <2>1. ASSUME NEW c \in Containers, Pop(Key(x), c),
               held' = [held EXCEPT ![x] = Append(@, c)], UNCHANGED <<pc, job>>
        PROVE  JointStep
    <3>1. Takes(x, c)
      BY <1>1, <2>1 DEF Takes
    <3>2. held'[x] = Append(held[x], c)
      BY <2>1 DEF IInv, TypeOK
    <3>3. held'[x] # <<>>
      <4>1. held[x] \in Seq(Containers)
        BY CallTypes
      <4>2. Len(Append(held[x], c)) = Len(held[x]) + 1 /\ Len(held[x]) \in Nat
        BY <4>1, AppendProperties, LenProperties
      <4>3. Append(held[x], c) # <<>>
        BY <4>2
      <4> QED
        BY <3>2, <4>3
    <3>4. x \in Holders /\ NoneMoves
      BY <1>1, <2>1, StaysInside
    <3> QED
      BY <3>1, <3>3, <3>4 DEF JointStep
  <2>2. CASE UNCHANGED <<pool, pc, job, held>>
    BY <1>1, <2>2, QuietJoint
  <2> QED
    BY <1>2, <1>4, <2>1, <2>2 DEF Extend
<1>5. ASSUME Drain(x) \/ GiveBack(x) PROVE JointStep
  <2>1. Returns(x)
    BY <1>1, <1>5 DEF Drain, GiveBack, Returns
  <2>2. CASE pc' = pc \/ Goto(x, "extend")
    BY <1>1, <2>1, <2>2, Places, StaysInside DEF JointStep
  <2>3. CASE Len(held[x]) = 1 /\ Goto(x, "replied")
    BY <1>1, <2>1, <2>3, LeavesInside DEF JointStep
  <2> QED
    BY <1>5, <2>2, <2>3 DEF Drain, GiveBack
<1> QED
  BY <1>3, <1>4, <1>5

\* The other steps.
LEMMA RestJoint ==
  ASSUME IInv, NEW x \in Calls,
         \/ WriteFile(x) \/ CompilerStep(x) \/ LookupSingle(x) \/ RunSingle(x)
         \/ LookupFirst(x) \/ RunFirst(x) \/ CheckFirst(x)
         \/ StartChunk(x) \/ LookupNext(x) \/ RunNext(x) \/ EndChunk(x)
  PROVE  JointStep
<1> DEFINE Stays == UNCHANGED <<held, job>> /\ (pc' = pc \/ \E l \in Inside : Goto(x, l))
           Ends == \E r \in {"err", "panic"} : Abort(x, r)
<1>1. pc[x] \in Inside
  BY DEF WriteFile, CompilerStep, UseArtifact, WriteProgram, Compile, LookupSingle,
         RunSingle, LookupFirst, RunFirst, CheckFirst, StartChunk, LookupNext, RunNext,
         EndChunk, Inside
<1>2. ASSUME WriteFile(x) \/ CompilerStep(x) PROVE pool' = pool /\ (Stays \/ Ends)
  <2>1. ASSUME WriteFile(x) PROVE pool' = pool /\ (Stays \/ Ends)
    BY <2>1, Places DEF WriteFile, Fail, Leave
  <2>2. ASSUME CompilerStep(x) PROVE pool' = pool /\ (Stays \/ Ends)
    BY <2>2, Places DEF CompilerStep, UseArtifact, WriteProgram, Compile, Built, Fail
  <2> QED
    BY <1>2, <2>1, <2>2
<1>3. ASSUME LookupSingle(x) \/ RunSingle(x) PROVE pool' = pool /\ (Stays \/ Ends)
  BY <1>3, Places DEF LookupSingle, RunSingle, Fail, Leave, poolVars
<1>4. ASSUME LookupFirst(x) \/ RunFirst(x) \/ CheckFirst(x)
      PROVE  pool' = pool /\ (Stays \/ Ends)
  BY <1>4, Places DEF LookupFirst, RunFirst, CheckFirst, Fail, Leave, poolVars
<1>5. ASSUME StartChunk(x) \/ LookupNext(x) PROVE pool' = pool /\ (Stays \/ Ends)
  BY <1>5, Places DEF StartChunk, LookupNext, Leave, poolVars
<1>6. ASSUME RunNext(x) \/ EndChunk(x) PROVE pool' = pool /\ (Stays \/ Ends)
  BY <1>6, Places DEF RunNext, EndChunk, Fail, Leave, poolVars
<1>7. pool' = pool /\ (Stays \/ Ends)
  <2> HIDE DEF Stays, Ends
  <2> QED
    BY <1>2, <1>3, <1>4, <1>5, <1>6
<1> QED
  BY <1>1, <1>7, QuietJoint

\* Every step is one of these.
LEMMA JointSteps == ASSUME IInv, [Next]_vars PROVE JointStep
<1>1. ASSUME UNCHANGED <<pc, pool, held, job>> PROVE JointStep
  BY <1>1 DEF JointStep, Keeps, NoneMoves, Holders, HoldsPermit
<1>2. ASSUME NEW x \in Calls, SingleStep(x) \/ BatchStep(x) PROVE JointStep
  BY <1>2, MovingJoint, RestJoint
     DEF SingleStep, BatchStep, GetSingle, WriteSingle, GetInitial, WriteFirst
<1>3. ASSUME NEW x \in Calls, Step(x) PROVE JointStep
  BY <1>2, <1>3, MovingJoint, RestJoint DEF Step
<1>4. ASSUME NEW x \in Calls, Begin(x) \/ Collect(x) \/ Cancel(x) \/ Acquire(x)
      PROVE  JointStep
  BY <1>4, BorderJoint DEF Acquire, AcquireSingle, AcquireBatch
<1>5. ASSUME Evict \/ (\E c \in Containers : WriteLands(c)) \/ UNCHANGED vars
      PROVE  JointStep
  BY <1>1, <1>5 DEF Evict, WriteLands, vars, callVars, poolVars
<1> QED
  BY <1>3, <1>4, <1>5 DEF Next

-----------------------------------------------------------------------------
\* A permit is free only if fewer than MaxPermits calls are inside.
LEMMA RoomLeft ==
  ASSUME IInv, PermitsConserved, permits > 0
  PROVE  Cardinality(Holders) < MaxPermits
<1>1. permits + Cardinality(Holders) = MaxPermits
  BY DEF PermitsConserved, Holders
<1> QED
  BY <1>1, HoldersFinite DEF IInv, TypeOK

\* The last return of a call is a Finish.
LEMMA LastReturn ==
  ASSUME IInv, OnePlace, NEW x \in Calls, Len(held[x]) = 1,
         NEW c \in Containers, Owner[c] = x
  PROVE  \A d \in Containers : Owner[d] = x => d = c
<1>1. DOMAIN held[x] = {1}
  BY CallTypes, LenProperties
<1>2. \A d \in Containers : Owner[d] = x => d = held[x][1]
  BY <1>1, Owners DEF HeldBy
<1> QED
  BY <1>2

\* Every step of the executor is a step of Execution or a stutter.
LEMMA NextExecution ==
  ASSUME IInv, OnePlace, OnePlace', PermitsConserved, [Next]_vars
  PROVE  Exec!Next \/ (Owner' = Owner /\ Holders' = Holders)
<1> DEFINE Goal == Exec!Next \/ (Owner' = Owner /\ Holders' = Holders)
<1> SUFFICES Goal
  OBVIOUS
<1>1. CASE Keeps /\ NoneMoves
  BY <1>1, KeepsLease DEF NoneMoves
<1>2. ASSUME NEW x \in Calls, Keeps, permits > 0, x \notin Holders,
             Holders' = Holders \cup {x}
      PROVE  Goal
  <2>1. Owner' = Owner
    BY <1>2, KeepsLease
  <2>2. Cardinality(Holders) < MaxPermits
    BY <1>2, RoomLeft
  <2>3. Exec!Cardinality(Holders) < MaxPermits
    BY <2>2 DEF Exec!Cardinality, Cardinality
  <2>4. Exec!Enter(x)
    BY <1>2, <2>1, <2>3 DEF Exec!Enter
  <2> QED
    BY <2>4 DEF Exec!Next
<1>3. ASSUME NEW x \in Calls, Drops(x), Leaves(x) PROVE Goal
  <2>1. Exec!Abort(x, {})
    BY <1>3, DropsLease DEF Leaves, Exec!Abort, Exec!Leases!Abandon, Lease!Abandon
  <2> QED
    BY <2>1 DEF Exec!Next
<1>4. ASSUME NEW x \in Calls, Returns(x), x \in Holders, NoneMoves PROVE Goal
  <2>1. PICK c \in Containers : Lease!Return(x, c)
    BY <1>4, ReturnsLease
  <2>2. Exec!Return(x, c)
    BY <1>4, <2>1 DEF NoneMoves, Exec!Return, Exec!Leases!Return, Lease!Return
  <2> QED
    BY <2>2 DEF Exec!Next
<1>5. ASSUME NEW x \in Calls, Returns(x), Len(held[x]) = 1, Leaves(x) PROVE Goal
  <2>1. PICK c \in Containers : Lease!Return(x, c)
    BY <1>5, ReturnsLease
  <2>2. \A d \in Containers : Owner[d] = x => d = c
    BY <1>5, <2>1, LastReturn DEF Lease!Return
  <2>3. Exec!Finish(x, c)
    BY <1>5, <2>1, <2>2 DEF Leaves, Exec!Finish, Exec!Leases!Return, Lease!Return
  <2> QED
    BY <2>3 DEF Exec!Next
<1>6. ASSUME NEW x \in Calls, NEW c \in Containers, Takes(x, c), held'[x] # <<>>,
             x \in Holders, NoneMoves
      PROVE  Goal
  <2>1. Exec!Take(x, c)
    BY <1>6, TakesLease DEF NoneMoves, Exec!Take, Exec!Leases!Take, Lease!Take
  <2> QED
    BY <2>1 DEF Exec!Next
<1>7. ASSUME NEW x \in Calls, NEW c \in Containers, Takes(x, c), held'[x] = <<>>, Leaves(x)
      PROVE  Goal
  <2>1. Exec!Abort(x, {c})
    BY <1>7, TakesLease DEF Leaves, Exec!Abort, Exec!Leases!Abandon, Lease!Abandon
  <2> QED
    BY <2>1 DEF Exec!Next
<1> HIDE DEF Goal
<1> QED
  BY <1>1, <1>2, <1>3, <1>4, <1>5, <1>6, <1>7, JointSteps DEF JointStep

\* The executor implements Execution: a call takes containers only while it
\* holds a permit, at most MaxPermits calls do, and the permit of a call is free
\* again in the step in which its last container is returned or what it still
\* has is lost (execute and execute_batch return after return_container; "?", a
\* panic and a dropped future release _permit and nothing else).
THEOREM ImplementsExecution == Spec => ExecutionSpec
<1>1. Init => Exec!Init
  <2> SUFFICES ASSUME Init PROVE Exec!Init
    OBVIOUS
  <2>1. \A c \in Containers : \A x \in Calls : ~HeldBy(x, c)
    BY DEF Init, HeldBy
  <2>2. \A c \in Containers : Owner[c] \in {FreeOwner, LostOwner}
    BY <2>1 DEF Owner
  <2>3. Holders = {}
    BY DEF Init, Holders, HoldsPermit, Inside
  <2> QED
    BY <2>2, <2>3, OwnerFunction DEF Exec!Init, Exec!Leases!Init
<1>2. IInv /\ OnePlace /\ OnePlace' /\ PermitsConserved /\ [Next]_vars
        => [Exec!Next]_<<Owner, Holders>>
  BY NextExecution
<1>3. []IInv /\ []OnePlace /\ []PermitsConserved /\ [][Next]_vars
        => [][Exec!Next]_<<Owner, Holders>>
  BY <1>2, PTL
<1> QED
  BY <1>1, <1>3, InvariantIInv, ContainersExclusive, PermitsNeverLost, PTL
     DEF Spec, ExecutionSpec, Exec!Spec
=============================================================================
