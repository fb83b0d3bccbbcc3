-------------------------- MODULE RegistryLockProofs --------------------------
(***************************************************************************)
(* registry_lock is a mutual exclusion lock, and never unlinks a live      *)
(* holder's file, except from an overlap of two reclaims until those who   *)
(* were about then are gone.  Both follow from Inv, which is inductive: an *)
(* old file is either its living owner's, with the owner's pid in it, or a *)
(* leftover; and nobody else touches a leftover between the verdict and    *)
(* the unlink, or the two overlap.  Once everybody is outside and nobody   *)
(* looks at the file, every part of the invariant is true again.           *)
(***************************************************************************)
EXTENDS RegistryLock, TLAPS

LEMMA InitInv == Init => Inv
<1> SUFFICES ASSUME Init PROVE Inv
  OBVIOUS
<1>1. TypeOK
  <2>1. /\ pc \in [Procs -> PCs] /\ lock = NoFile /\ alive \in [Procs -> BOOLEAN]
        /\ late \in [Procs -> BOOLEAN] /\ takes \in [Procs -> Nat]
    BY DEF Init, PCs
  <2>2. muddled \in BOOLEAN
    BY Zenon DEF Init
  <2> QED BY <2>1, <2>2 DEF TypeOK
<1>2. Sound
  BY DEF Init, Sound, OwnerHolds, ContentsTell, VerdictStands, ReclaimsLeftover,
     OneReclaims, Holding, Stale
<1> QED BY <1>1, <1>2 DEF Inv

\* What a step does to `muddled'.
LEMMA MuddledStep ==
    ASSUME [Next]_vars
    PROVE  \/ muddled' = ((muddled \/ Overlap') /\ ~ Calm')
           \/ /\ UNCHANGED <<pc, muddled>>
              /\ GrowOld \/ (\E p \in Procs : GetLate(p)) \/ UNCHANGED vars
BY DEF Next, Step, Waiting, AllGone, vars, Spawn, Exit, Crash, Begin, Create, Busy,
   ReadHolder, FoundStale, TimeOut, WaitMore, Reclaim, WritePid, Unlock, GetLate, GrowOld,
   Goto

\* When nobody is inside or concerned with the file, all is well.
LEMMA CalmSound == ASSUME TypeOK, Calm PROVE Sound
BY DEF TypeOK, Calm, Sound, OwnerHolds, ContentsTell, VerdictStands, ReclaimsLeftover,
   OneReclaims, Holding, Checking, Files

\* Every step keeps the types.
LEMMA TypeStep == ASSUME TypeOK, [Next]_vars PROVE TypeOK'
<1> USE LockAssumption DEF TypeOK, Goto
<1>1. muddled' \in BOOLEAN
  BY MuddledStep, Zenon DEF vars, Overlap, Calm
<1>2. ASSUME NEW p \in Procs, ReadHolder(p) PROVE alive' \in [Procs -> BOOLEAN]
  <2> DEFINE v == lock # NoFile /\ lock.pid # NoPid /\ PidAlive(lock.pid)
  <2>1. alive' = [alive EXCEPT ![p] = v]
    BY <1>2, Zenon DEF ReadHolder
  <2>2. v \in BOOLEAN
    BY DEF PidAlive
  <2> HIDE DEF v
  <2> QED BY <2>1, <2>2, Zenon
<1>3. ASSUME NEW p \in Procs, Create(p) PROVE lock' \in Files
  BY <1>3 DEF Create, Files
<1>4. ASSUME NEW p \in Procs, WritePid(p) PROVE lock' \in Files \cup {NoFile}
  <2>1. CASE lock # NoFile /\ lock.owner = p
    <3>1. lock \in Files /\ lock' = [lock EXCEPT !.pid = PidOf[p]]
      BY <1>4, <2>1 DEF WritePid
    <3> QED BY <3>1 DEF Files
  <2>2. CASE ~ (lock # NoFile /\ lock.owner = p)
    BY <1>4, <2>2 DEF WritePid
  <2> QED BY <2>1, <2>2
<1>5. ASSUME GrowOld PROVE lock' \in Files /\ UNCHANGED <<pc, alive, late, takes>>
  <2>1. lock \in Files /\ lock' = [lock EXCEPT !.old = TRUE]
    BY <1>5 DEF GrowOld
  <2> QED BY <1>5, <2>1 DEF GrowOld, Files
<1>6. ASSUME NEW p \in Procs, Step(p)
      PROVE  /\ pc' \in [Procs -> PCs]
             /\ lock' \in Files \cup {NoFile}
             /\ alive' \in [Procs -> BOOLEAN]
             /\ late' \in [Procs -> BOOLEAN]
             /\ takes' \in [Procs -> Nat]
  <2>1. CASE Spawn(p) \/ Exit(p) \/ Crash(p) \/ Begin(p) \/ GetLate(p)
    <3>1. CASE Spawn(p) \/ Exit(p) \/ Crash(p)
      BY <3>1 DEF Spawn, Exit, Crash, PCs
    <3>2. CASE Begin(p)
      BY <3>2 DEF Begin, PCs
    <3>3. CASE GetLate(p)
      BY <3>3 DEF GetLate
    <3> QED BY <2>1, <3>1, <3>2, <3>3
  <2>2. CASE Create(p) \/ WritePid(p)
    BY <2>2, <1>3, <1>4 DEF Create, WritePid, PCs
  <2>3. CASE Busy(p) \/ FoundStale(p) \/ TimeOut(p) \/ WaitMore(p)
    BY <2>3 DEF Busy, FoundStale, TimeOut, WaitMore, PCs
  <2>4. CASE Reclaim(p) \/ Unlock(p)
    BY <2>4 DEF Reclaim, Unlock, PCs
  <2>5. CASE ReadHolder(p)
    <3>1. pc' = [pc EXCEPT ![p] = "stat"] /\ UNCHANGED <<lock, late, takes>>
      BY <2>5, Zenon DEF ReadHolder
    <3> QED BY <3>1, <1>2, <2>5 DEF PCs
  <2> QED BY <1>6, <2>1, <2>2, <2>3, <2>4, <2>5 DEF Step, Waiting
<1> QED BY <1>1, <1>5, <1>6 DEF Next, AllGone, vars

\* Spawn, Exit and Crash.
LEMMA InvLife ==
    ASSUME TypeOK, TypeOK', Sound, NEW p \in Procs, Spawn(p) \/ Exit(p) \/ Crash(p)
    PROVE  Sound'
<1>1. PICK l \in {"idle", "gone"} :
         /\ pc' = [pc EXCEPT ![p] = l] /\ UNCHANGED <<lock, alive, late, takes>>
  BY DEF Spawn, Exit, Crash, Goto
<1>2. \A q \in Procs : Holding(q)' => Holding(q) /\ q # p /\ pc'[q] = pc[q]
  BY <1>1 DEF Sound, TypeOK, Holding
<1>4. OwnerHolds' /\ VerdictStands' /\ ReclaimsLeftover' /\ OneReclaims'
  BY <1>1, <1>2 DEF Sound, TypeOK, OwnerHolds, VerdictStands, ReclaimsLeftover,
     OneReclaims, Holding, Stale, Files
<1>5. ContentsTell'
  BY <1>1 DEF Sound, TypeOK, ContentsTell, Files
<1> QED BY <1>4, <1>5 DEF Sound

\* The holder's own steps.
LEMMA InvHolder ==
    ASSUME TypeOK, TypeOK', Sound, NEW p \in Procs, Create(p) \/ WritePid(p) \/ Unlock(p)
    PROVE  Sound'
<1> USE LockAssumption DEF Sound, TypeOK, Goto
<1>1. CASE Create(p)
  <2>1. \A q \in Procs : ~ Holding(q) /\ pc[q] # "unlink"
    BY <1>1 DEF Create, OwnerHolds, ReclaimsLeftover
  <2>3. lock' \in Files /\ lock' # NoFile /\ lock'.owner = p /\ ~ lock'.old
    <3>1. lock' = [owner |-> p, pid |-> NoPid, old |-> FALSE]
      BY <1>1 DEF Create
    <3>2. lock' \in Files
      BY <3>1 DEF Files
    <3>3. NoFile \notin Files
      BY LockAssumption DEF Files
    <3> QED BY <3>1, <3>2, <3>3
  <2>4. \A q \in Procs : Holding(q)' => q = p
    BY <1>1, <2>1 DEF Create, Holding
  <2>5. OwnerHolds' /\ ContentsTell'
    BY <1>1, <2>3, <2>4 DEF Create, OwnerHolds, ContentsTell
  <2>6. VerdictStands' /\ ReclaimsLeftover' /\ OneReclaims'
    BY <1>1, <2>1, <2>3 DEF Create, VerdictStands, ReclaimsLeftover, OneReclaims, Stale
  <2> QED BY <2>5, <2>6
<1>2. CASE WritePid(p)
  <2>1. lock # NoFile /\ lock.owner = p /\ ~ lock.old
    BY <1>2 DEF WritePid, OwnerHolds, ContentsTell, Holding
  <2>2. lock' = [lock EXCEPT !.pid = PidOf[p]] /\ lock' \in Files
    BY <1>2, <2>1 DEF WritePid, Files
  <2>3. /\ lock' # NoFile /\ lock'.owner = p /\ lock'.pid = PidOf[p]
        /\ ~ lock'.old
    BY <2>1, <2>2 DEF Files
  <2>5. OwnerHolds' /\ ContentsTell'
    BY <1>2, <2>3 DEF WritePid, OwnerHolds, ContentsTell, Holding
  <2>6. VerdictStands' /\ ReclaimsLeftover' /\ OneReclaims'
    BY <1>2, <2>1, <2>3 DEF WritePid, VerdictStands, ReclaimsLeftover, OneReclaims,
       Stale
  <2> QED BY <2>5, <2>6
<1>3. CASE Unlock(p)
  <2>1. \A q \in Procs : Holding(q) => q = p
    BY <1>3 DEF Unlock, OwnerHolds, Holding
  <2>2. \A q \in Procs : ~ Holding(q)' /\ pc[q] # "unlink" /\ pc'[q] # "unlink"
    BY <1>3, <2>1 DEF Unlock, OwnerHolds, ReclaimsLeftover, Holding
  <2>4. OwnerHolds' /\ ReclaimsLeftover' /\ OneReclaims'
    BY <2>2 DEF OwnerHolds, ReclaimsLeftover, OneReclaims
  <2>5. VerdictStands'
    BY <2>2 DEF VerdictStands, Stale, Files
  <2>6. ContentsTell'
    BY <2>2 DEF ContentsTell, Holding, Files
  <2> QED BY <2>4, <2>5, <2>6
<1> QED BY <1>1, <1>2, <1>3

\* The waiter's steps up to the verdict, and the ones that go back to wait.
LEMMA InvWaiter ==
    ASSUME TypeOK, TypeOK', Sound, NEW p \in Procs,
           Begin(p) \/ Busy(p) \/ ReadHolder(p) \/ TimeOut(p) \/ WaitMore(p) \/ GetLate(p)
    PROVE  Sound'
<1> USE DEF Sound, TypeOK, Goto
<1>1. lock' = lock
  <2>1. CASE ReadHolder(p)
    BY <2>1, Zenon DEF ReadHolder
  <2> QED BY <2>1 DEF Begin, Busy, TimeOut, WaitMore, GetLate
<1>2. \A q \in Procs : Holding(q)' = Holding(q) /\ (pc'[q] = "unlink") = (pc[q] = "unlink")
  BY DEF Begin, Busy, ReadHolder, TimeOut, WaitMore, GetLate, Holding, Waits, Checking
<1>4. OwnerHolds' /\ ReclaimsLeftover' /\ OneReclaims'
  BY <1>1, <1>2 DEF OwnerHolds, ReclaimsLeftover, OneReclaims, Files
<1>5. ContentsTell'
  BY <1>1 DEF ContentsTell, Files, Begin, Busy, ReadHolder, TimeOut, WaitMore, GetLate,
     Waits, Checking
<1>6. ASSUME NEW q \in Procs, pc'[q] = "stat", Stale(q)'
      PROVE  ~ Holding(lock.owner)
  <2>1. lock # NoFile /\ lock.old /\ lock.owner \in Procs
    BY <1>1, <1>6 DEF Stale, Files
  <2>2. CASE ReadHolder(p) /\ q = p
    <3>1. lock.pid = NoPid \/ ~ PidAlive(lock.pid)
      BY <2>1, <2>2, <1>6 DEF ReadHolder, Stale
    <3>2. pc[lock.owner] # "locked"
      BY <3>1, <2>1, LockAssumption DEF ContentsTell, PidAlive, Live
    <3> QED BY <2>1, <3>2 DEF ContentsTell, Holding
  <2>3. CASE ~ (ReadHolder(p) /\ q = p)
    <3>1. pc[q] = "stat" /\ alive'[q] = alive[q]
      BY <2>3, <1>6 DEF Begin, Busy, ReadHolder, TimeOut, WaitMore, GetLate
    <3> QED BY <3>1, <1>1, <1>6 DEF VerdictStands, Stale
  <2> QED BY <2>2, <2>3
<1>7. VerdictStands'
  BY <1>1, <1>2, <1>6 DEF VerdictStands, Stale, Files
<1> QED BY <1>4, <1>5, <1>7

\* The verdict and the unlink.
LEMMA InvReclaim ==
    ASSUME TypeOK, TypeOK', Sound, ~ Overlap', NEW p \in Procs, FoundStale(p) \/ Reclaim(p)
    PROVE  Sound'
<1> USE DEF Sound, TypeOK, Goto
<1>1. CASE FoundStale(p)
  <2>1. \A q \in Procs : Holding(q)' = Holding(q)
    BY <1>1 DEF FoundStale, Holding
  <2>2. ~ Holding(lock.owner) /\ lock # NoFile /\ lock.old
    BY <1>1 DEF FoundStale, VerdictStands, Stale
  <2>4. OwnerHolds' /\ ReclaimsLeftover' /\ OneReclaims' /\ VerdictStands'
    BY <1>1, <2>1, <2>2 DEF FoundStale, OwnerHolds, ReclaimsLeftover, OneReclaims,
       VerdictStands, Stale, Files, Overlap
  <2>5. ContentsTell'
    BY <1>1 DEF FoundStale, ContentsTell, Files
  <2> QED BY <2>4, <2>5
<1>2. CASE Reclaim(p)
  <2>1. lock # NoFile /\ ~ Holding(lock.owner)
    BY <1>2 DEF Reclaim, ReclaimsLeftover
  <2>2. \A q \in Procs : ~ Holding(q) /\ ~ Holding(q)' /\ pc'[q] # "unlink"
    BY <1>2, <2>1 DEF Reclaim, OwnerHolds, OneReclaims, Holding
  <2>4. OwnerHolds' /\ ReclaimsLeftover' /\ OneReclaims'
    BY <2>2 DEF OwnerHolds, ReclaimsLeftover, OneReclaims
  <2>5. VerdictStands' /\ ContentsTell'
    BY <2>2 DEF VerdictStands, ContentsTell, Stale, Holding, Files
  <2> QED BY <2>4, <2>5
<1> QED BY <1>1, <1>2

LEMMA InvOld == ASSUME TypeOK, TypeOK', Sound, GrowOld PROVE Sound'
<1> USE DEF Sound, TypeOK
<1>1. lock # NoFile /\ lock \in Files /\ lock' = [lock EXCEPT !.old = TRUE]
  BY DEF GrowOld
<1>2. lock' \in Files /\ lock'.owner = lock.owner /\ lock'.pid = lock.pid /\ lock' # NoFile
  BY <1>1, LockAssumption DEF Files
<1>3. \A p \in Procs : pc[p] \notin {"created", "reading", "stat", "unlink"}
  BY DEF GrowOld, Prompt, Checking
<1>5. OwnerHolds' /\ ContentsTell'
  BY <1>1, <1>2, <1>3 DEF GrowOld, OwnerHolds, ContentsTell, Holding, Files
<1>6. VerdictStands' /\ ReclaimsLeftover' /\ OneReclaims'
  BY <1>3 DEF GrowOld, VerdictStands, ReclaimsLeftover, OneReclaims
<1> QED BY <1>5, <1>6

LEMMA SoundStep == ASSUME TypeOK, TypeOK', Sound, ~ Overlap', [Next]_vars PROVE Sound'
<1>1. CASE UNCHANGED vars
  BY <1>1 DEF vars, Sound, OwnerHolds, ContentsTell, VerdictStands, ReclaimsLeftover,
     OneReclaims, Holding, Stale, Files, TypeOK
<1>2. CASE GrowOld
  BY <1>2, InvOld
<1>3. ASSUME NEW p \in Procs, Step(p) PROVE Sound'
  BY <1>3, InvLife, InvHolder, InvWaiter, InvReclaim DEF Step, Waiting
<1> QED BY <1>1, <1>2, <1>3 DEF Next, AllGone

LEMMA InvStep == ASSUME Inv, [Next]_vars PROVE Inv'
<1>1. TypeOK /\ TypeOK'
  BY TypeStep DEF Inv
<1>2. ASSUME ~ muddled' PROVE Sound'
  <2>1. CASE Calm'
    <3>1. (TypeOK /\ Calm => Sound)'
      BY CalmSound, PTL
    <3> QED BY <1>1, <2>1, <3>1
  <2>2. CASE ~ Calm' /\ Overlap'
    <3>1. UNCHANGED <<pc, muddled>>
      BY <1>2, <2>2, MuddledStep
    <3>2. Sound /\ Overlap
      BY <1>2, <2>2, <3>1 DEF Inv, Overlap
    <3> QED BY <3>2 DEF Sound, Overlap, OneReclaims
  <2>3. CASE ~ Calm' /\ ~ Overlap'
    <3>1. ~ muddled
      BY <1>2, <2>3, MuddledStep
    <3> QED BY <1>1, <2>3, <3>1, SoundStep DEF Inv
  <2> QED BY <2>1, <2>2, <2>3
<1> QED BY <1>1, <1>2 DEF Inv

\* Inv holds in every state: types, and unless reclaims have overlapped, the file is
\* its holder's own, and a reclaim unlinks only what a process outside has left.
THEOREM InvHolds == Spec => []Inv
BY InitInv, InvStep, PTL DEF Spec

-----------------------------------------------------------------------------

\* When two reclaims begin to overlap nobody is inside.
LEMMA OverlapOutside ==
    ASSUME Inv, [Next]_vars, ~ muddled, muddled', NEW p \in Procs
    PROVE  ~ Holding(p)
<1>1. Overlap'
  BY MuddledStep DEF vars
<1>2. PICK x \in Procs, y \in Procs : x # y /\ pc'[x] = "unlink" /\ pc'[y] = "unlink"
  BY <1>1 DEF Overlap
<1>3. pc' = pc \/ \E r \in Procs, l \in PCs : pc' = [pc EXCEPT ![r] = l]
  BY DEF Next, Step, Waiting, AllGone, vars, Spawn, Exit, Crash, Begin, Create, Busy,
     ReadHolder, FoundStale, TimeOut, WaitMore, Reclaim, WritePid, Unlock, GetLate, GrowOld,
     Goto, PCs
<1>4. pc[x] = "unlink" \/ pc[y] = "unlink"
  BY <1>2, <1>3 DEF Inv, TypeOK
<1> QED BY <1>4 DEF Inv, Sound, OwnerHolds, ReclaimsLeftover

\* registry_lock is a mutual exclusion lock for every set of processes, with crashes,
\* leftovers, reused pids, and unlinks that fail or find somebody else's file: the
\* processes inside while reclaims have not overlapped are at most one, and enter and
\* leave as a mutex has it.
THEOREM LockIsMutex == Spec => LockImplementsMutex
<1> DEFINE h == {p \in Procs : Holding(p) /\ ~ muddled}
<1>1. Init => M!Init
  BY DEF Init, M!Init, M!Free, Holding
<1>2. ASSUME Inv, [Next]_vars PROVE [M!Next]_h
  <2>0. CASE muddled
    <3>1. h = {}
      BY <2>0
    <3>2. muddled' \/ Calm'
      BY <1>2, <2>0, MuddledStep DEF vars
    <3>3. h' = {}
      BY <3>2 DEF Calm
    <3> QED BY <3>1, <3>3
  <2>1. CASE ~ muddled /\ muddled'
    <3>1. h = {} /\ h' = {}
      BY <1>2, <2>1, OverlapOutside
    <3> QED BY <3>1
  <2>2. CASE ~ muddled /\ ~ muddled'
    <3> USE <1>2, <2>2 DEF Inv, Sound, TypeOK, Goto
    <3>1. CASE UNCHANGED vars \/ GrowOld
      BY <3>1 DEF vars, GrowOld, Holding
    <3>2. ASSUME NEW p \in Procs, Create(p) PROVE M!Enter(p)
      <4>1. h = {}
        BY <3>2 DEF OwnerHolds, Create
      <4>2. h' = {p}
        BY <4>1, <3>2 DEF Create, Holding
      <4> QED BY <4>1, <4>2 DEF M!Enter, M!Free
    <3>3. ASSUME NEW p \in Procs, Unlock(p) \/ (Crash(p) /\ Holding(p)) PROVE M!Leave(p)
      <4>1. h = {p}
        BY <3>3 DEF OwnerHolds, Unlock, Holding
      <4>2. h' = {}
        BY <4>1, <3>3 DEF Unlock, Crash, Holding
      <4> QED BY <4>1, <4>2 DEF M!Leave
    <3>4. ASSUME NEW p \in Procs,
                 \/ Spawn(p) \/ Exit(p) \/ (Crash(p) /\ ~ Holding(p)) \/ Begin(p)
                 \/ Busy(p) \/ ReadHolder(p) \/ FoundStale(p) \/ TimeOut(p)
                 \/ WaitMore(p) \/ Reclaim(p) \/ WritePid(p) \/ GetLate(p)
          PROVE  h' = h
      BY <3>4 DEF Holding, Spawn, Exit, Crash, Begin, Busy, ReadHolder, FoundStale,
         TimeOut, WaitMore, Reclaim, WritePid, GetLate
    <3> QED
      BY <3>1, <3>2, <3>3, <3>4 DEF Next, Step, Waiting, AllGone, M!Next
  <2> QED BY <2>0, <2>1, <2>2
<1> QED
  BY <1>1, <1>2, InvHolds, PTL DEF Spec, LockImplementsMutex, M!Spec

\* A lock file whose owner is inside the with block after the step is not unlinked by
\* the step, however long the owner has been inside, unless reclaims have overlapped.
THEOREM LiveHolderKeptHolds == Spec => LiveHolderKeptOrMuddled
<1>1. ASSUME Inv, [Next]_vars, ~ muddled, NEW p \in Procs, Unlinked(p)
      PROVE  ~ Holding(p)'
  <2> USE DEF Unlinked
  <2>1. PICK q \in Procs : Unlock(q) \/ Reclaim(q)
    BY <1>1, LockAssumption DEF Next, Step, Waiting, AllGone, vars, Spawn, Exit, Crash,
       Begin, Create, Busy, ReadHolder, FoundStale, TimeOut, WaitMore, WritePid, GetLate,
       GrowOld, Inv, TypeOK, Files
  <2>2. CASE Unlock(q)
    BY <1>1, <2>2 DEF Inv, Sound, TypeOK, OwnerHolds, Unlock, Goto, Holding
  <2>3. CASE Reclaim(q)
    BY <1>1, <2>3 DEF Inv, Sound, TypeOK, ReclaimsLeftover, Reclaim, Goto, Holding
  <2> QED BY <2>1, <2>2, <2>3
<1> DEFINE Kept == \A p \in Procs : Unlinked(p) => ~ Holding(p)' \/ muddled
<1>2. ASSUME Inv, [Next]_vars PROVE [Kept]_vars
  BY <1>1, <1>2
<1> QED BY <1>2, InvHolds, PTL DEF Spec, LiveHolderKeptOrMuddled
=============================================================================
