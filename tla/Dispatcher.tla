------------------------------ MODULE Dispatcher ------------------------------
(***************************************************************************)
(* The CI overflow daemon, tools/ci_dispatcherd.py, for one watched        *)
(* repository.  Each loop loads the persisted state, takes a census of the *)
(* queued farm runs, spills some of them to CNB (a dev-quota workspace on  *)
(* a lane host, or else a build), and resolves the spills it tracks.  The  *)
(* state is written after every spill and at the end of the loop; a crash  *)
(* or a failed write throws what was not written away, but not what CNB    *)
(* and GitHub were asked for.                                              *)
(***************************************************************************)
EXTENDS Integers, FiniteSets

CONSTANTS
    Runs,         \* farm runs: numbers, newer ones larger
    Shas,         \* commits
    Commits,      \* the ways in which runs may share commits
    Hosts,        \* the lane hosts of the repository: numbers, in pool order
    Cancelable,   \* the runs whose workflow is in DISPATCH_CANCELABLE
    Threshold,    \* DISPATCH_THRESHOLD
    Batch,        \* SPILL_BATCH_PER_LOOP
    Grace,        \* WS_STAGE_GRACE_SEC, in ticks
    SpillTTL,     \* SPILL_TTL_SEC, in ticks
    RecentTTL,    \* RECENT_TTL_SEC, in ticks
    FailedTTL,    \* FAILED_TTL_SEC, in ticks
    NoRec, NoJob, NoHost, NoRun,
    MaxJobs,      \* bound: how many workspaces and builds are ever started
    MaxFaults     \* bound: how often the daemon crashes or cannot write its state

ASSUME DispatcherAssumption ==
    /\ Runs \subseteq Nat /\ IsFiniteSet(Runs)
    /\ Commits \subseteq [Runs -> Shas]
    /\ Hosts \subseteq Nat
    /\ Cancelable \subseteq Runs
    /\ Threshold \in Nat /\ Batch \in Nat \ {0}
    /\ Grace \in Nat /\ SpillTTL \in Nat \ {0} /\ Grace < SpillTTL
    /\ RecentTTL \in Nat \ {0} /\ FailedTTL \in Nat \ {0}
    /\ MaxJobs \in Nat /\ MaxFaults \in Nat
    /\ NoHost \notin Hosts /\ NoRun \notin Runs

VARIABLES
    sha,        \* GitHub: head_sha of a farm run, which never changes
    run,        \* GitHub: the status of a farm run
    jobs,       \* CNB: the workspaces and builds that were started, by sn
    disk,       \* state.json
    mem,        \* the dict `state' of this loop
    pc,         \* where the loop is
    todo,       \* the entries q[:excess] it has yet to visit
    started,    \* how many spills this loop has started
    spilled,    \* spilled_shas
    checking,   \* the records resolve() has yet to visit
    acting,     \* the run that is being cancelled, or that is being spilled
    faults

vars == <<sha, run, jobs, disk, mem, pc, todo, started, spilled, checking, acting, faults>>

world == <<sha, run, disk, faults>>
loop  == <<todo, started, spilled>>

Sns     == 1..MaxJobs
Records == [mode : {"ws", "build"}, host : Hosts \cup {NoHost}, sn : Sns,
            left : 0..SpillTTL]

\* check is "absent" for a ref whose pipeline has no such stage; slot: CNB keeps the
\* workspace running; slip: history, its sn or a request to stop it was lost.
Jobs    == [sha : Shas, host : Hosts \cup {NoHost}, slot : BOOLEAN, slip : BOOLEAN,
            check : {"absent", "running", "success", "failure"}]

ASSUME AbsentAssumption == NoRec \notin Records /\ NoJob \notin Jobs

\* left, recent and failed hold the ticks until the TTL of an entry runs out.
States == [rec : [Runs -> Records \cup {NoRec}], recent : [Shas -> 0..RecentTTL],
           failed : [Shas -> 0..FailedTTL]]

TypeOK ==
    /\ sha \in [Runs -> Shas]
    /\ run \in [Runs -> {"queued", "taken", "cancelled"}]
    /\ jobs \in [Sns -> Jobs \cup {NoJob}]
    /\ disk \in States
    /\ mem \in States
    /\ pc \in {"sleep", "spill", "fallback", "persist", "resolve", "cancel"}
    /\ todo \subseteq Runs
    /\ started \in 0..Batch
    /\ spilled \subseteq Shas
    /\ checking \subseteq Runs
    /\ acting \in Runs \cup {NoRun}
    /\ acting # NoRun <=> pc \in {"fallback", "persist", "cancel"}
    /\ faults \in 0..MaxFaults
    /\ \A r \in Runs : mem.rec[r] # NoRec => jobs[mem.rec[r].sn].sha = sha[r]

Tracked(st) == {r \in Runs : st.rec[r] # NoRec}

-----------------------------------------------------------------------------
(* Bookkeeping *)

Remember(st, r)    == [st EXCEPT !.recent[sha[r]] = RecentTTL]
NoteFailure(st, r) == [st EXCEPT !.failed[sha[r]] = FailedTTL]

\* Variant: the record is deleted, and its commit is not remembered.
Untrack_Forgets(st, r) == [st EXCEPT !.rec[r] = NoRec]

Untrack(st, r) == [Remember(st, r) EXCEPT !.rec[r] = NoRec]

\* Variant: a host is free unless a build runs on it.
BusyHosts_Never(st) == {}

BusyHosts(st) == {st.rec[r].host : r \in {x \in Tracked(st) : st.rec[x].mode = "ws"}}

FreeHost(h) ==
    /\ h \in Hosts \ BusyHosts(mem)
    /\ \A g \in Hosts \ BusyHosts(mem) : h <= g

\* An exception in the loop, or the end of the process: what CNB runs and only mem
\* knew of is lost.
Unknown == {mem.rec[r].sn : r \in Tracked(mem)} \ {disk.rec[r].sn : r \in Tracked(disk)}

LoopError ==
    /\ jobs' = [n \in Sns |-> IF n \in Unknown THEN [jobs[n] EXCEPT !.slip = TRUE]
                              ELSE jobs[n]]
    /\ mem' = disk
    /\ pc' = "sleep"
    /\ todo' = {} /\ started' = 0 /\ spilled' = {} /\ checking' = {} /\ acting' = NoRun
    /\ UNCHANGED <<sha, run, disk>>

-----------------------------------------------------------------------------
(* load_state and census *)

\* The newest len(q) - THRESHOLD runs of the queue.
Excess(q) == {r \in q : Cardinality({x \in q : x > r}) + Threshold < Cardinality(q)}

\* Any queued run may be missing from the census: it is not there yet, or GitHub
\* does not answer.
Poll ==
    /\ pc = "sleep"
    /\ \E q \in SUBSET {r \in Runs : run[r] = "queued"} : todo' = Excess(q)
    /\ spilled' = {sha[r] : r \in Tracked(mem)}
    /\ started' = 0
    /\ pc' = "spill"
    /\ UNCHANGED <<world, jobs, mem, checking, acting>>

\* Variant: without the check of spilled_shas.
Skipped_NotBySha(r) ==
    \/ r \in Tracked(mem)
    \/ mem.recent[sha[r]] > 0
    \/ mem.failed[sha[r]] > 0

\* Tracked, or recently resolved, or recently failed.
Skipped(r) ==
    \/ sha[r] \in spilled \/ r \in Tracked(mem)
    \/ mem.recent[sha[r]] > 0
    \/ mem.failed[sha[r]] > 0

Visiting(r) ==
    /\ pc = "spill"
    /\ started < Batch
    /\ r \in todo
    /\ \A x \in todo : x <= r

Skip(r) ==
    /\ Visiting(r)
    /\ Skipped(r)
    /\ todo' = todo \ {r}
    /\ UNCHANGED <<world, jobs, mem, pc, started, spilled, checking, acting>>

-----------------------------------------------------------------------------
(* spill: the dev-quota lane *)

\* Every host is busy, or the pool is used up or its usage unknown.
Defer(r) ==
    /\ Visiting(r)
    /\ ~ Skipped(r)
    /\ todo' = todo \ {r}
    /\ UNCHANGED <<world, jobs, mem, pc, started, spilled, checking, acting>>

NewJob(n, job) ==
    /\ jobs[n] = NoJob
    /\ \A m \in Sns : m < n => jobs[m] # NoJob
    /\ jobs' = [jobs EXCEPT ![n] = job]

\* CNB allows one workspace per repository.
Vacant(h) == \A n \in Sns : jobs[n] # NoJob /\ jobs[n].slot => jobs[n].host # h

Workspace(r, h, check, slip) ==
    [sha |-> sha[r], host |-> h, slot |-> TRUE, slip |-> slip, check |-> check]

Build(r, check, slip) ==
    [sha |-> sha[r], host |-> NoHost, slot |-> FALSE, slip |-> slip, check |-> check]

Track(r, mode, h, n) ==
    mem' = [mem EXCEPT !.rec[r] = [mode |-> mode, host |-> h, sn |-> n, left |-> SpillTTL]]

StartWorkspace(r) ==
    /\ Visiting(r)
    /\ ~ Skipped(r)
    /\ \E h \in Hosts, n \in Sns, check \in {"absent", "running"} :
          /\ FreeHost(h)
          /\ Vacant(h)
          /\ NewJob(n, Workspace(r, h, check, FALSE))
          /\ Track(r, "ws", h, n)
    /\ acting' = r
    /\ pc' = "persist"
    /\ UNCHANGED <<world, loop, checking>>

\* A mirror push, the lane ref or workspace/start fails; the last may have been
\* carried out all the same (nobody will ask for the check of that workspace).
WorkspaceFails(r) ==
    /\ Visiting(r)
    /\ ~ Skipped(r)
    /\ \E h \in Hosts :
          /\ FreeHost(h)
          /\ \/ UNCHANGED jobs
             \/ Vacant(h) /\ \E n \in Sns : NewJob(n, Workspace(r, h, "absent", TRUE))
    /\ mem' = NoteFailure(mem, r)
    /\ acting' = r
    /\ pc' = "fallback"
    /\ UNCHANGED <<world, loop, checking>>

-----------------------------------------------------------------------------
(* spill: the build lane *)

BuildDefers ==
    /\ pc = "fallback"
    /\ pc' = "spill"
    /\ todo' = todo \ {acting}
    /\ acting' = NoRun
    /\ UNCHANGED <<world, jobs, mem, started, spilled, checking>>

StartBuild ==
    /\ pc = "fallback"
    /\ \E n \in Sns : NewJob(n, Build(acting, "running", FALSE)) /\ Track(acting, "build", NoHost, n)
    /\ pc' = "persist"
    /\ UNCHANGED <<world, loop, checking, acting>>

BuildFails ==
    /\ pc = "fallback"
    /\ UNCHANGED jobs \/ \E n \in Sns : NewJob(n, Build(acting, "absent", TRUE))
    /\ mem' = NoteFailure(mem, acting)
    /\ pc' = "spill"
    /\ todo' = todo \ {acting}
    /\ acting' = NoRun
    /\ UNCHANGED <<world, started, spilled, checking>>

\* A response without sn: r["sn"] raises in the main loop.
BuildWithoutSn ==
    /\ pc = "fallback"
    /\ LoopError
    /\ UNCHANGED faults

Persist ==
    /\ pc = "persist"
    /\ disk' = mem
    /\ started' = started + 1
    /\ spilled' = spilled \cup {sha[acting]}
    /\ todo' = todo \ {acting}
    /\ acting' = NoRun
    /\ pc' = "spill"
    /\ UNCHANGED <<sha, run, jobs, mem, checking, faults>>

EnterResolve ==
    /\ pc = "spill"
    /\ todo = {} \/ started = Batch
    /\ pc' = "resolve"
    /\ checking' = Tracked(mem)
    /\ todo' = {} /\ started' = 0 /\ spilled' = {}
    /\ UNCHANGED <<world, jobs, mem, acting>>

-----------------------------------------------------------------------------
(* resolve *)

Resolving(r) == pc = "resolve" /\ r \in checking

Sn(r)  == mem.rec[r].sn
Job(r) == jobs[Sn(r)]

Expired(r) == mem.rec[r].left = 0

\* ws_stop, whose failure is logged and passed over; builds are not stopped.
TryStop(r) ==
    IF mem.rec[r].mode = "ws"
    THEN jobs' \in {[jobs EXCEPT ![Sn(r)].slot = FALSE],
                    [jobs EXCEPT ![Sn(r)].slip = TRUE]}
    ELSE UNCHANGED jobs

\* Variant: the check of the TTL comes after the poll, which may fail for ever.
TtlExpired_AfterPoll(r) ==
    /\ Resolving(r)
    /\ Expired(r)
    /\ Job(r).check # "running"
    /\ TryStop(r)
    /\ mem' = Untrack(mem, r)
    /\ checking' = checking \ {r}
    /\ UNCHANGED <<world, loop, pc, acting>>

TtlExpired(r) ==
    /\ Resolving(r)
    /\ Expired(r)
    /\ TryStop(r)
    /\ mem' = Untrack(mem, r)
    /\ checking' = checking \ {r}
    /\ UNCHANGED <<world, loop, pc, acting>>

\* The poll fails, or the check has not ended.
KeepWaiting(r) ==
    /\ Resolving(r)
    /\ ~ Expired(r)
    /\ checking' = checking \ {r}
    /\ UNCHANGED <<world, loop, jobs, mem, pc, acting>>

StageMissing(r) ==
    /\ Resolving(r)
    /\ ~ Expired(r)
    /\ mem.rec[r].mode = "ws"
    /\ Job(r).check = "absent"
    /\ mem.rec[r].left + Grace < SpillTTL

\* Variant: the record is dropped, and the workspace not stopped.
GraceRelease_NoStop(r) ==
    /\ StageMissing(r)
    /\ mem' = Untrack(mem, r)
    /\ checking' = checking \ {r}
    /\ UNCHANGED <<world, loop, jobs, pc, acting>>

GraceRelease(r) ==
    /\ StageMissing(r)
    /\ jobs' = [jobs EXCEPT ![Sn(r)].slot = FALSE]
    /\ mem' = Untrack(mem, r)
    /\ checking' = checking \ {r}
    /\ UNCHANGED <<world, loop, pc, acting>>

\* ws_stop fails (it may have been carried out): the record is kept.
GraceStopFails(r) ==
    /\ StageMissing(r)
    /\ jobs' \in {jobs, [jobs EXCEPT ![Sn(r)].slot = FALSE]}
    /\ checking' = checking \ {r}
    /\ UNCHANGED <<world, loop, mem, pc, acting>>

\* Variant: any end of the check is taken for a success.
Passed_Ended(r) == Job(r).check \in {"success", "failure"}

Passed(r) == Job(r).check = "success"

\* The check has ended; no cancellation follows: it is red, or the run has left the
\* queue, or its workflow is not allowlisted, or GitHub does not answer.
Settle(r) ==
    /\ Resolving(r)
    /\ ~ Expired(r)
    /\ Job(r).check \in {"success", "failure"}
    /\ TryStop(r)
    /\ mem' = Untrack(mem, r)
    /\ checking' = checking \ {r}
    /\ UNCHANGED <<world, loop, pc, acting>>

\* A green spill, and a run that is found queued and may be cancelled.
FindCancelable(r) ==
    /\ Resolving(r)
    /\ ~ Expired(r)
    /\ Passed(r)
    /\ run[r] = "queued"
    /\ r \in Cancelable
    /\ TryStop(r)
    /\ mem' = Remember(mem, r)
    /\ acting' = r
    /\ pc' = "cancel"
    /\ UNCHANGED <<world, loop, checking>>

\* By now the run may have been taken by a runner; the request may fail.
Cancel ==
    /\ pc = "cancel"
    /\ \/ UNCHANGED run
       \/ run[acting] \in {"queued", "taken"} /\ run' = [run EXCEPT ![acting] = "cancelled"]
    /\ mem' = Untrack(mem, acting)
    /\ checking' = checking \ {acting}
    /\ acting' = NoRun
    /\ pc' = "resolve"
    /\ UNCHANGED <<sha, disk, faults, loop, jobs>>

SaveState ==
    /\ pc = "resolve"
    /\ checking = {}
    /\ disk' = mem
    /\ pc' = "sleep"
    /\ UNCHANGED <<sha, run, faults, loop, jobs, mem, checking, acting>>

-----------------------------------------------------------------------------
(* Faults and the environment *)

\* The process is killed, or a write of the state fails.
Crash ==
    /\ pc # "sleep"
    /\ faults < MaxFaults
    /\ faults' = faults + 1
    /\ LoopError

\* A farm runner takes a queued run.
Take(r) ==
    /\ run[r] = "queued"
    /\ run' = [run EXCEPT ![r] = "taken"]
    /\ UNCHANGED <<sha, jobs, disk, faults, mem, pc, loop, checking, acting>>

CheckEnds ==
    /\ \E n \in Sns, end \in {"success", "failure"} :
          /\ jobs[n] # NoJob
          /\ jobs[n].check = "running"
          /\ jobs' = [jobs EXCEPT ![n].check = end]
    /\ UNCHANGED <<world, mem, pc, loop, checking, acting>>

\* Variant: an entry whose time has run out goes on counting.
Less_Negative(t) == t - 1

Less(t) == IF t = 0 THEN 0 ELSE t - 1

Older(st) ==
    [rec    |-> [r \in Runs |-> IF st.rec[r] = NoRec THEN NoRec
                                ELSE [st.rec[r] EXCEPT !.left = Less(@)]],
     recent |-> [s \in Shas |-> Less(st.recent[s])],
     failed |-> [s \in Shas |-> Less(st.failed[s])]]

Tick ==
    /\ pc \in {"sleep", "spill", "fallback", "persist"}
    /\ mem' = Older(mem)
    /\ disk' = Older(disk)
    /\ UNCHANGED <<sha, run, jobs, faults, pc, loop, checking, acting>>

-----------------------------------------------------------------------------

Blank == [rec |-> [r \in Runs |-> NoRec], recent |-> [s \in Shas |-> 0],
          failed |-> [s \in Shas |-> 0]]

Init ==
    /\ sha \in Commits
    /\ run = [r \in Runs |-> "queued"]
    /\ jobs = [n \in Sns |-> NoJob]
    /\ disk = Blank
    /\ mem = Blank
    /\ pc = "sleep"
    /\ todo = {} /\ started = 0 /\ spilled = {}
    /\ checking = {}
    /\ acting = NoRun
    /\ faults = 0

Spill == \/ \E r \in Runs : Skip(r) \/ Defer(r) \/ StartWorkspace(r) \/ WorkspaceFails(r)
         \/ BuildDefers \/ StartBuild \/ BuildFails \/ BuildWithoutSn \/ Persist

Resolve == \/ \E r \in Runs : TtlExpired(r) \/ KeepWaiting(r) \/ GraceRelease(r)
                                \/ GraceStopFails(r) \/ Settle(r) \/ FindCancelable(r)
           \/ Cancel \/ SaveState

Daemon == Poll \/ Spill \/ EnterResolve \/ Resolve

Next == Daemon \/ Crash \/ (\E r \in Runs : Take(r)) \/ CheckEnds \/ Tick

\* The daemon keeps looping, and time passes; no run need be taken by the farm, CNB
\* need not answer and no check need end.
Fairness == WF_vars(Daemon) /\ SF_vars(Tick)

Spec == Init /\ [][Next]_vars /\ Fairness

-----------------------------------------------------------------------------
(* Properties *)

\* A commit is checked by one spill at a time, however many runs carry it.
OneSpillPerSha ==
    \A st \in {mem, disk} : \A r, x \in Tracked(st) : sha[r] = sha[x] => r = x

\* "CNB allows one workspace per repository": no two tracked workspaces are on the
\* same host.
OneWorkspacePerHost ==
    \A st \in {mem, disk} : \A r, x \in Tracked(st) :
        st.rec[r].mode = "ws" /\ st.rec[x].mode = "ws" /\ st.rec[r].host = st.rec[x].host
            => r = x

\* A workspace that holds its slot is tracked, on disk or on the way there, unless the
\* reply to its start or a request to stop it was lost, or the daemon failed between
\* the start and the write.
NoSilentLeak ==
    \A n \in Sns : jobs[n] # NoJob /\ jobs[n].slot /\ ~ jobs[n].slip =>
        \E st \in {mem, disk} : \E r \in Tracked(st) : st.rec[r].sn = n

\* "Only after the CNB build proved green, and only when the run's workflow is
\* explicitly allowlisted": every run the daemon cancels has such a spill.
CancelVouched ==
    [][\A r \in Runs : run[r] # "cancelled" /\ run'[r] = "cancelled" =>
          /\ r \in Cancelable
          /\ \E n \in Sns : jobs[n] # NoJob /\ jobs[n].sha = sha[r]
                              /\ jobs[n].check = "success"]_vars

\* No churn: what the persisted state stops tracking it remembers, and what it
\* remembers it does not spill again.
NoChurn ==
    [][\A r \in Runs :
         /\ disk.rec[r] # NoRec /\ disk'.rec[r] = NoRec => disk'.recent[sha[r]] > 0
         /\ disk.rec[r] = NoRec /\ disk'.rec[r] # NoRec => disk.recent[sha[r]] = 0]_vars

\* Every spill is untracked in the end, also if CNB never answers, no check ends and the
\* farm takes no run; except that build replies without an sn, time and again, can end
\* every loop before it comes to resolve().
EventuallyUntracked ==
    \/ \A r \in Runs : disk.rec[r] # NoRec ~> disk.rec[r] = NoRec
    \/ []<><<BuildWithoutSn>>_vars /\ <>[](pc # "resolve")

\* "Dropping the record here would abandon it with nothing left to retry": a workspace
\* whose record is dropped has been stopped.
NoAbandonedSlot ==
    [][\A r \in Runs :
         disk.rec[r] # NoRec /\ disk.rec[r].mode = "ws" /\ disk'.rec[r] = NoRec
             => ~ jobs[disk.rec[r].sn].slot]_vars
=============================================================================
