------------------------------- MODULE Janitor -------------------------------
(***************************************************************************)
(* The orphan janitor of a CI machine (tools/ci_orphan_janitor.py).  Each  *)
(* slot of the machine runs one job at a time in a Worker; build processes *)
(* of a job may leave its tree and outlive it.  A timer starts the         *)
(* janitor: it restarts the runner of a slot whose Worker ignored a        *)
(* cancellation, then looks for orphans and kills them one by one, while   *)
(* jobs start and end and pids are given out again.  (A dry run is a sweep *)
(* that leaves out the restarts and the kills, and is not modelled.)       *)
(***************************************************************************)
EXTENDS Naturals, FiniteSets

CONSTANTS
    Slots,          \* runner homes; slot s is served by unit s
    BuildPids,      \* pids of build processes
    GRACE,          \* --grace
    CANCEL_GRACE,   \* --cancel-grace
    MaxClock,       \* bound: how long the machine is watched
    NoBuild         \* no process has the pid

ASSUME JanitorAssumption ==
    /\ 0 \notin Slots
    /\ GRACE \in Nat \ {0} /\ CANCEL_GRACE \in Nat /\ MaxClock \in Nat \ {0}

Clock == 1..MaxClock

\* A build process: its slot by its cwd, when it started, whether its ancestors
\* reach a runner, and whether the job that started it is the one that runs.
Builds == [slot : Slots, born : Clock, attached : BOOLEAN, live : BOOLEAN]

ASSUME BuildsAssumption == NoBuild \notin Builds

VARIABLES
    clock,
    worker,       \* when a slot's Worker started; 0: no job runs
    cancel,       \* the newest cancellation request in a slot's log; 0: none
    build,        \* the build process that has a pid
    sweep,        \* where the janitor is
    checked,      \* the slots whose zombie check is still to come
    suspect,      \* the Worker that was judged a zombie, by slot and start
    workersSeen,  \* live_worker_starts, read before the processes are
    sighted,      \* when that was
    victims       \* the processes to kill, by pid and start

machine == <<clock, worker, cancel, build>>
cycle   == <<sweep, checked, suspect, workersSeen, sighted, victims>>
janitorVars == <<machine, cycle>>

NoSuspect == <<0, 0>>

JanitorTypeOK ==
    /\ clock \in Clock
    /\ worker \in [Slots -> Clock \cup {0}] /\ cancel \in [Slots -> Clock \cup {0}]
    /\ build \in [BuildPids -> Builds \cup {NoBuild}]
    /\ sweep \in {"idle", "zombies", "restart", "scan", "kill"}
    /\ checked \subseteq Slots
    /\ suspect \in (Slots \X Clock) \cup {NoSuspect}
    /\ workersSeen \in [Slots -> Clock \cup {0}]
    /\ sighted \in Clock \cup {0}
    /\ victims \subseteq (BuildPids \X Clock)

-----------------------------------------------------------------------------
(* The machine.                                                             *)

\* The processes are scanned in less than GRACE of time.
ClockTicks ==
    /\ clock < MaxClock
    /\ sweep = "scan" => clock + 1 < sighted + GRACE
    /\ clock' = clock + 1
    /\ UNCHANGED <<worker, cancel, build, cycle>>

JobStarts(s) ==
    /\ worker[s] = 0
    /\ worker' = [worker EXCEPT ![s] = clock]
    /\ UNCHANGED <<clock, cancel, build, cycle>>

BuildStarts(s, p) ==
    /\ worker[s] # 0
    /\ build[p] = NoBuild
    /\ \E attached \in BOOLEAN :
          build' = [build EXCEPT ![p] = [slot |-> s, born |-> clock, attached |-> attached,
                                         live |-> TRUE]]
    /\ UNCHANGED <<clock, worker, cancel, cycle>>

BuildExits(p) ==
    /\ build[p] # NoBuild
    /\ build' = [build EXCEPT ![p] = NoBuild]
    /\ UNCHANGED <<clock, worker, cancel, cycle>>

OfJob(s) == {p \in BuildPids : build[p] # NoBuild /\ build[p].slot = s /\ build[p].live}
Orphaned(b) == [b EXCEPT !.attached = FALSE, !.live = FALSE]

\* The runner takes the job's tree down with it; what has left the tree stays.
JobEnds(s) ==
    /\ worker[s] # 0
    /\ worker' = [worker EXCEPT ![s] = 0]
    /\ build' = [p \in BuildPids |->
                   IF p \notin OfJob(s) THEN build[p]
                   ELSE IF build[p].attached THEN NoBuild ELSE Orphaned(build[p])]
    /\ UNCHANGED <<clock, cancel, cycle>>

CancelRequested(s) ==
    /\ worker[s] # 0
    /\ cancel' = [cancel EXCEPT ![s] = clock]
    /\ UNCHANGED <<clock, worker, build, cycle>>

-----------------------------------------------------------------------------
(* main: the zombie checks, then reap.                                      *)

SweepStarts ==
    /\ sweep = "idle"
    /\ sweep' = "zombies"
    /\ checked' = Slots
    /\ UNCHANGED <<machine, suspect, workersSeen, sighted, victims>>

\* slot_units: the unit the home's registration names, if it is loaded and its
\* working directory is this home; else the one systemd says serves the home.
ServesHome(unit, s) == unit = s
SlotUnit(s, named, loaded) ==
    IF named \in loaded /\ ServesHome(named, s) THEN named
    ELSE IF s \in loaded THEN s ELSE 0

\* zombie_worker_check: the request is old enough, and the slot's Worker is older.
IsZombie(s) ==
    /\ cancel[s] # 0
    /\ clock - cancel[s] >= CANCEL_GRACE
    /\ worker[s] # 0
    /\ worker[s] < cancel[s]

CheckSlot(s) ==
    /\ sweep = "zombies"
    /\ s \in checked
    /\ \E named \in Slots \cup {0}, loaded \in SUBSET Slots :
          LET unit == SlotUnit(s, named, loaded)
          IN  IF unit # 0 /\ IsZombie(s)
              THEN /\ suspect' = <<unit, worker[s]>>
                   /\ sweep' = "restart"
              ELSE UNCHANGED <<suspect, sweep>>
    /\ checked' = checked \ {s}
    /\ UNCHANGED <<machine, workersSeen, sighted, victims>>

\* systemctl try-restart: it ends the Worker that runs by then, or fails.
Restarts ==
    /\ sweep = "restart"
    /\ LET s == suspect[1]
       IN  \/ UNCHANGED <<worker, build>>
           \/ /\ worker' = [worker EXCEPT ![s] = 0]
              /\ build' = [p \in BuildPids |-> IF p \in OfJob(s) THEN Orphaned(build[p])
                                               ELSE build[p]]
    /\ sweep' = "zombies"
    /\ suspect' = NoSuspect
    /\ UNCHANGED <<clock, cancel, checked, workersSeen, sighted, victims>>

LookForWorkers ==
    /\ sweep = "zombies"
    /\ checked = {}
    /\ sweep' = "scan"
    /\ workersSeen' = worker
    /\ sighted' = clock
    /\ UNCHANGED <<machine, checked, suspect, victims>>

\* Variant: without criterion 5.
IsOrphan_AnyWorker(b) == ~b.attached /\ clock - b.born >= GRACE

\* Criteria 3, 4 and 5 of the module's head; the first two are in Builds.
IsOrphan(b) ==
    /\ ~b.attached
    /\ clock - b.born >= GRACE
    /\ workersSeen[b.slot] # 0 => b.born < workersSeen[b.slot]

\* orphan_candidates.  A process that cannot be read is spared.
ScanBuilds ==
    /\ sweep = "scan"
    /\ sweep' = "kill"
    /\ victims' \in SUBSET {<<p, build[p].born>> :
                              p \in {q \in BuildPids : build[q] # NoBuild /\ IsOrphan(build[q])}}
    /\ workersSeen' = [s \in Slots |-> 0]
    /\ sighted' = 0
    /\ UNCHANGED <<machine, checked, suspect>>

\* os.kill goes by the pid alone.
KillNext ==
    /\ sweep = "kill"
    /\ \E v \in victims :
          /\ build' = [build EXCEPT ![v[1]] = NoBuild]
          /\ victims' = victims \ {v}
    /\ UNCHANGED <<clock, worker, cancel, sweep, checked, suspect, workersSeen, sighted>>

SweepEnds ==
    /\ sweep = "kill"
    /\ victims = {}
    /\ sweep' = "idle"
    /\ UNCHANGED <<machine, checked, suspect, workersSeen, sighted, victims>>

Machine ==
    \/ ClockTicks
    \/ \E s \in Slots : JobStarts(s) \/ JobEnds(s) \/ CancelRequested(s)
    \/ \E s \in Slots, p \in BuildPids : BuildStarts(s, p)
    \/ \E p \in BuildPids : BuildExits(p)

Sweep ==
    \/ SweepStarts \/ \E s \in Slots : CheckSlot(s)
    \/ Restarts \/ LookForWorkers \/ ScanBuilds \/ KillNext \/ SweepEnds

JanitorInit ==
    /\ clock = 1
    /\ worker = [s \in Slots |-> 0] /\ cancel = [s \in Slots |-> 0]
    /\ build = [p \in BuildPids |-> NoBuild]
    /\ sweep = "idle" /\ checked = {} /\ suspect = NoSuspect
    /\ workersSeen = [s \in Slots |-> 0] /\ sighted = 0 /\ victims = {}

JanitorNext == Machine \/ Sweep

JanitorSpec == JanitorInit /\ [][JanitorNext]_janitorVars

-----------------------------------------------------------------------------
(* A wrong kill or a wrong restart costs a live job (the module's head).    *)
(* No process of the job that runs is killed, unless it took the pid of a   *)
(* victim after the scan; and a unit is restarted only for a Worker of its  *)
(* own slot that has ignored a cancellation for CANCEL_GRACE.               *)
LiveJobsKept ==
    /\ \A v \in victims : build[v[1]] # NoBuild /\ build[v[1]].born = v[2]
                        /\ build'[v[1]] = NoBuild => ~build[v[1]].live
    /\ suspect' \notin {suspect, NoSuspect} =>
          LET s == suspect'[1]
          IN  /\ worker[s] = suspect'[2]
              /\ cancel[s] > worker[s] /\ clock - cancel[s] >= CANCEL_GRACE

LiveJobSpared == [][LiveJobsKept]_janitorVars
=============================================================================
