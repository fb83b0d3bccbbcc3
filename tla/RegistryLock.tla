----------------------------- MODULE RegistryLock -----------------------------
(***************************************************************************)
(* registry_lock of celestia_devtools/env/ports.py: an O_EXCL lock file,   *)
(* one system call per step.  A waiter reads the holder's pid, asks        *)
(* whether it is alive, asks for the file's age, and unlinks the file when *)
(* it is old and its holder is not alive: four steps on a file that other  *)
(* processes may unlink and create again between them.                     *)
(***************************************************************************)
EXTENDS Naturals

CONSTANTS
    Procs,          \* every process that ever takes the lock
    Pids,           \* pids; a pid is reused once its process is gone
    PidOf,          \* the pid of a process
    NoFile,         \* the lock file does not exist
    NoPid,          \* its contents are empty: holder = 0
    DeleteShared,   \* may a file be unlinked while another process reads it
                    \* (POSIX; Windows refuses)
    MaxTakes        \* bound: how often a process takes the lock

ASSUME LockAssumption ==
    /\ PidOf \in [Procs -> Pids]
    /\ NoPid \notin Pids
    /\ NoFile \notin [owner : Procs, pid : Pids \cup {NoPid}, old : BOOLEAN]
    /\ DeleteShared \in BOOLEAN
    /\ MaxTakes \in Nat

VARIABLES
    pc,        \* where a process is
    lock,      \* the lock file: who created it, its contents, and whether it is
               \* older than LOCK_STALE
    alive,     \* a waiter's holder_alive
    late,      \* has a waiter waited longer than LOCK_TIMEOUT
    takes,     \* how often a process has begun to take the lock
    muddled    \* history: two processes were about to unlink the file at once, and
               \* since then some process was inside or looked at the file

vars == <<pc, lock, alive, late, takes, muddled>>

Files == [owner : Procs, pid : Pids \cup {NoPid}, old : BOOLEAN]

PCs == {"unborn", "idle", "try", "created", "locked", "reading", "stat", "unlink",
        "gone"}

TypeOK ==
    /\ pc \in [Procs -> PCs]
    /\ lock \in Files \cup {NoFile}
    /\ alive \in [Procs -> BOOLEAN]
    /\ late \in [Procs -> BOOLEAN]
    /\ takes \in [Procs -> Nat]
    /\ muddled \in BOOLEAN

Live(p)      == pc[p] \notin {"unborn", "gone"}
PidAlive(n)  == \E p \in Procs : Live(p) /\ PidOf[p] = n
Holding(p)   == pc[p] \in {"created", "locked"}
Checking(p)  == pc[p] \in {"reading", "stat", "unlink"}
Waits(p)     == pc[p] = "try" \/ Checking(p)

\* Two reclaims overlap; nobody is inside or concerned with the file.
Overlap == \E p, q \in Procs : p # q /\ pc[p] = "unlink" /\ pc[q] = "unlink"
Calm    == \A p \in Procs : ~ Holding(p) /\ ~ Checking(p)

Goto(p, l) ==
    /\ pc' = [pc EXCEPT ![p] = l]
    /\ muddled' = ((muddled \/ Overlap') /\ ~ Calm')

-----------------------------------------------------------------------------
(* Processes come and go; a pid has one process at a time. *)

Spawn(p) ==
    /\ pc[p] = "unborn"
    /\ ~ PidAlive(PidOf[p])
    /\ Goto(p, "idle")
    /\ UNCHANGED <<lock, alive, late, takes>>

Exit(p) ==
    /\ pc[p] = "idle"
    /\ Goto(p, "gone")
    /\ UNCHANGED <<lock, alive, late, takes>>

\* A kill or a power cut, anywhere: the lock file stays as it is.
Crash(p) ==
    /\ Live(p)
    /\ pc[p] # "idle"
    /\ Goto(p, "gone")
    /\ UNCHANGED <<lock, alive, late, takes>>

-----------------------------------------------------------------------------
(* registry_lock *)

Begin(p) ==
    /\ pc[p] = "idle"
    /\ takes[p] < MaxTakes
    /\ Goto(p, "try")
    /\ late' = [late EXCEPT ![p] = FALSE]
    /\ takes' = [takes EXCEPT ![p] = @ + 1]
    /\ UNCHANGED <<lock, alive>>

\* os.open(O_CREAT | O_EXCL) succeeds; the file is empty until the pid is written.
Create(p) ==
    /\ pc[p] = "try"
    /\ lock = NoFile
    /\ lock' = [owner |-> p, pid |-> NoPid, old |-> FALSE]
    /\ Goto(p, "created")
    /\ UNCHANGED <<alive, late, takes>>

\* The write goes to the file that was created, even if it is unlinked by now.
WritePid(p) ==
    /\ pc[p] = "created"
    /\ lock' = IF lock # NoFile /\ lock.owner = p
               THEN [lock EXCEPT !.pid = PidOf[p]] ELSE lock
    /\ Goto(p, "locked")
    /\ UNCHANGED <<alive, late, takes>>

\* Variant: the waiter's clock starts anew on every round.
Busy_Restart(p) ==
    /\ pc[p] = "try"
    /\ lock # NoFile
    /\ Goto(p, "reading")
    /\ late' = [late EXCEPT ![p] = FALSE]
    /\ UNCHANGED <<lock, alive, takes>>

\* FileExistsError: the waiter opens the file to read the pid in it.
Busy(p) ==
    /\ pc[p] = "try"
    /\ lock # NoFile
    /\ Goto(p, "reading")
    /\ UNCHANGED <<lock, alive, late, takes>>

\* Variant: the holder's liveness is not asked.
ReadHolder_AgeOnly(p) ==
    /\ pc[p] = "reading"
    /\ alive' = [alive EXCEPT ![p] = FALSE]
    /\ Goto(p, "stat")
    /\ UNCHANGED <<lock, late, takes>>

\* An empty, unreadable or vanished file counts as holder 0, which is not alive.
ReadHolder(p) ==
    /\ pc[p] = "reading"
    /\ alive' = [alive EXCEPT ![p] =
                    lock # NoFile /\ lock.pid # NoPid /\ PidAlive(lock.pid)]
    /\ Goto(p, "stat")
    /\ UNCHANGED <<lock, late, takes>>

Stale(p) == lock # NoFile /\ lock.old /\ ~ alive[p]

FoundStale(p) ==
    /\ pc[p] = "stat"
    /\ Stale(p)
    /\ Goto(p, "unlink")
    /\ UNCHANGED <<lock, alive, late, takes>>

TimeOut(p) ==
    /\ pc[p] = "stat"
    /\ ~ Stale(p)
    /\ late[p]
    /\ Goto(p, "gone")
    /\ UNCHANGED <<lock, alive, late, takes>>

WaitMore(p) ==
    /\ pc[p] = "stat"
    /\ ~ Stale(p)
    /\ ~ late[p]
    /\ Goto(p, "try")
    /\ UNCHANGED <<lock, alive, late, takes>>

\* Can the file be unlinked by p while others have it open?
Unlinkable(p) == DeleteShared \/ \A q \in Procs \ {p} : pc[q] # "reading"

Reclaim(p) ==
    /\ pc[p] = "unlink"
    /\ lock' = IF Unlinkable(p) THEN NoFile ELSE lock
    /\ Goto(p, "try")
    /\ UNCHANGED <<alive, late, takes>>

\* Variant: the file is unlinked twice.
Unlock_Again(p) ==
    /\ pc[p] \in {"locked", "idle"}
    /\ lock' = NoFile
    /\ Goto(p, "idle")
    /\ UNCHANGED <<alive, late, takes>>

\* Leaving the with block: whatever is there under the lock's name is unlinked,
\* and a failure to unlink it is ignored.
Unlock(p) ==
    /\ pc[p] = "locked"
    /\ lock' = IF Unlinkable(p) THEN NoFile ELSE lock
    /\ Goto(p, "idle")
    /\ UNCHANGED <<alive, late, takes>>

-----------------------------------------------------------------------------
(* Time.  Nobody stalls for a minute between two system calls of the protocol; *)
(* a holder may well take that long inside the with block.                     *)

Prompt == \A p \in Procs : pc[p] # "created" /\ ~ Checking(p)

GrowOld ==
    /\ lock # NoFile
    /\ ~ lock.old
    /\ Prompt
    /\ lock' = [lock EXCEPT !.old = TRUE]
    /\ UNCHANGED <<pc, alive, late, takes, muddled>>

GetLate(p) ==
    /\ Waits(p)
    /\ ~ late[p]
    /\ late' = [late EXCEPT ![p] = TRUE]
    /\ UNCHANGED <<pc, lock, alive, takes, muddled>>

-----------------------------------------------------------------------------

Init ==
    /\ pc = [p \in Procs |-> "unborn"]
    /\ lock = NoFile
    /\ alive = [p \in Procs |-> FALSE]
    /\ late = [p \in Procs |-> FALSE]
    /\ takes = [p \in Procs |-> 0]
    /\ muddled = FALSE

Waiting(p) == Create(p) \/ Busy(p) \/ ReadHolder(p) \/ FoundStale(p) \/ TimeOut(p)
                \/ WaitMore(p) \/ Reclaim(p)

Step(p) == \/ Spawn(p) \/ Exit(p) \/ Crash(p) \/ Begin(p) \/ Waiting(p)
           \/ WritePid(p) \/ Unlock(p) \/ GetLate(p)

AllGone == (\A p \in Procs : pc[p] = "gone") /\ UNCHANGED vars

Next == GrowOld \/ (\E p \in Procs : Step(p)) \/ AllGone

\* A waiter is scheduled and its clock runs; nothing is assumed of a holder, which
\* may stay inside for ever, nor of the file, which need not grow old.
Fairness == \A p \in Procs : WF_vars(Waiting(p)) /\ WF_vars(GetLate(p))

Spec == Init /\ [][Next]_vars /\ Fairness

-----------------------------------------------------------------------------
(* The invariant the properties rest on.  Nothing in the code keeps two reclaims *)
(* from overlapping: what is true then is said by `muddled'.                     *)

OwnerHolds == \A p \in Procs : Holding(p) => lock # NoFile /\ lock.owner = p

\* An empty file is young, and a written one has its owner's pid.
ContentsTell == lock # NoFile =>
    /\ pc[lock.owner] = "created" => ~ lock.old
    /\ pc[lock.owner] = "locked" => lock.pid = PidOf[lock.owner]

\* "Not alive", when it was read of a file that is old, is still true of its owner.
VerdictStands == \A p \in Procs :
    pc[p] = "stat" /\ Stale(p) => ~ Holding(lock.owner)

ReclaimsLeftover == \A p \in Procs :
    pc[p] = "unlink" => lock # NoFile /\ lock.old /\ ~ Holding(lock.owner)

OneReclaims == \A p, q \in Procs : pc[p] = "unlink" /\ pc[q] = "unlink" => p = q

Sound == OwnerHolds /\ ContentsTell /\ VerdictStands /\ ReclaimsLeftover /\ OneReclaims

\* What every state satisfies: types and, unless two reclaims have overlapped and the
\* processes of that time are still about, the lock file is the holder's own and a
\* waiter unlinks only what a process that is not inside has left behind.
Inv == TypeOK /\ (muddled \/ Sound)

-----------------------------------------------------------------------------
(* Properties *)

\* The processes inside, as long as reclaims have not overlapped.
M == INSTANCE Mutex WITH holder <- {p \in Procs : Holding(p) /\ ~ muddled}

\* The lock file implements a mutual exclusion lock, with crashes, leaked files,
\* reused pids, reclaimed leftovers and unlinks of whatever is there: it stops to be
\* one only when two reclaims overlap, at a moment at which nobody is inside, and is
\* one again as soon as everybody of that time has left.
LockImplementsMutex == M!Spec

Unlinked(p) == lock # NoFile /\ lock.owner = p /\ lock' = NoFile

\* What there is of the rule below: a lock file disappears only when its owner is
\* outside, or else two reclaims have overlapped.
LiveHolderKeptOrMuddled ==
    [][\A p \in Procs : Unlinked(p) => ~ Holding(p)' \/ muddled]_vars

\* "A LIVE holder that merely ran longer than LOCK_STALE must never be unlinked":
\* a lock file disappears only when its owner is outside.
LiveHolderKept == [][\A p \in Procs : Unlinked(p) => ~ Holding(p)']_vars

\* "Waiting longer than LOCK_TIMEOUT is an error": a process that starts to wait
\* gets the lock, or gives up, or dies; it does not wait for ever.
NoEndlessWait ==
    \A p \in Procs : pc[p] = "try" ~> ~ Waits(p)

\* "The lock would leak and deadlock every later registry command": a process
\* outside the with block has left no lock file of its own behind.
NoLeak == \A p \in Procs : pc[p] = "idle" => (lock # NoFile => lock.owner # p)
=============================================================================
