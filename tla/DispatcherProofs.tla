--------------------------- MODULE DispatcherProofs ---------------------------
(***************************************************************************)
(* Proofs about Dispatcher, for every set of runs, commits, hosts and      *)
(* every choice of the thresholds and times to live.                       *)
(***************************************************************************)
EXTENDS Dispatcher, TLAPS

\* Every record names a job that was started for its commit, and a build has no slot.
Sound(st, js) ==
    \A r \in Tracked(st) :
        /\ js[st.rec[r].sn] # NoJob
        /\ js[st.rec[r].sn].sha = sha[r]
        /\ st.rec[r].mode = "build" => ~ js[st.rec[r].sn].slot

\* While the loop spills, spilled_shas holds the commits of all records but the one
\* that is about to be written.
SpillGuarded ==
    /\ pc \in {"spill", "fallback"} => \A r \in Tracked(mem) : sha[r] \in spilled
    /\ pc = "persist" => \A r \in Tracked(mem) \ {acting} : sha[r] \in spilled
    /\ pc \in {"fallback", "persist"} => sha[acting] \notin spilled /\ started < Batch

\* How what the loop holds differs from what is on disk.
InStep ==
    /\ pc \in {"sleep", "spill", "fallback"} => Tracked(mem) = Tracked(disk)
    /\ pc = "persist" => Tracked(mem) = Tracked(disk) \cup {acting}
    /\ pc \in {"resolve", "cancel"} =>
          /\ checking \subseteq Tracked(mem)
          /\ Tracked(mem) \subseteq Tracked(disk)
          /\ \A r \in Tracked(disk) \ Tracked(mem) : mem.recent[sha[r]] = RecentTTL
    /\ pc \notin {"resolve", "cancel"} => mem.recent = disk.recent
    /\ pc \in {"fallback", "persist"} => mem.recent[sha[acting]] = 0

\* The slots that nothing was lost about are those of records that the loop holds.
Accounted ==
    \A n \in Sns : jobs[n] # NoJob /\ jobs[n].slot /\ ~ jobs[n].slip =>
        \E r \in Tracked(mem) : mem.rec[r].sn = n

\* The run that is about to be cancelled has a green job, which no longer needs a record.
Vouched ==
    pc = "cancel" =>
        /\ acting \in Tracked(mem) \cap Cancelable
        /\ jobs[mem.rec[acting].sn].check = "success"
        /\ jobs[mem.rec[acting].sn].slot => jobs[mem.rec[acting].sn].slip

\* OneSpillPerSha and OneWorkspacePerHost, of one state.
OneSpill(st) == \A r, x \in Tracked(st) : sha[r] = sha[x] => r = x

OneWorkspace(st) ==
    \A r, x \in Tracked(st) :
        st.rec[r].mode = "ws" /\ st.rec[x].mode = "ws" /\ st.rec[r].host = st.rec[x].host
            => r = x

Good(st, js) == Sound(st, js) /\ OneSpill(st) /\ OneWorkspace(st)

Inv == TypeOK /\ Good(mem, jobs) /\ Good(disk, jobs) /\ SpillGuarded /\ InStep /\ Accounted /\ Vouched

-----------------------------------------------------------------------------
(* What the bookkeeping returns *)

LEMMA RememberIs ==
    ASSUME NEW st \in States, NEW r \in Runs, sha \in [Runs -> Shas]
    PROVE  /\ Remember(st, r) \in States
           /\ Remember(st, r).rec = st.rec
           /\ Remember(st, r).recent = [st.recent EXCEPT ![sha[r]] = RecentTTL]
           /\ Remember(st, r).failed = st.failed
  BY DispatcherAssumption DEF Remember, States

LEMMA NoteFailureIs ==
    ASSUME NEW st \in States, NEW r \in Runs, sha \in [Runs -> Shas]
    PROVE  /\ NoteFailure(st, r) \in States
           /\ NoteFailure(st, r).rec = st.rec
           /\ NoteFailure(st, r).recent = st.recent
  BY DispatcherAssumption DEF NoteFailure, States

LEMMA UntrackIs ==
    ASSUME NEW st \in States, NEW r \in Runs, sha \in [Runs -> Shas]
    PROVE  /\ Untrack(st, r) \in States
           /\ Untrack(st, r).rec = [st.rec EXCEPT ![r] = NoRec]
           /\ Untrack(st, r).recent = [st.recent EXCEPT ![sha[r]] = RecentTTL]
           /\ Tracked(Untrack(st, r)) = Tracked(st) \ {r}
<1> DEFINE m == Remember(st, r)
<1>1. m \in States /\ m.rec = st.rec /\ m.recent = [st.recent EXCEPT ![sha[r]] = RecentTTL]
  BY RememberIs
<1>2. Untrack(st, r) = [m EXCEPT !.rec[r] = NoRec]
  BY DEF Untrack
<1> HIDE DEF m
<1>3. /\ Untrack(st, r) \in States
      /\ Untrack(st, r).rec = [m.rec EXCEPT ![r] = NoRec]
      /\ Untrack(st, r).recent = m.recent
  BY <1>1, <1>2 DEF States
<1>4. QED
  BY <1>1, <1>3 DEF Tracked, States

LEMMA OlderIs ==
    ASSUME NEW st \in States
    PROVE  /\ Older(st) \in States
           /\ Tracked(Older(st)) = Tracked(st)
           /\ \A r \in Tracked(st) : /\ Older(st).rec[r].sn = st.rec[r].sn
                                     /\ Older(st).rec[r].mode = st.rec[r].mode
                                     /\ Older(st).rec[r].host = st.rec[r].host
           /\ \A s \in Shas : Older(st).recent[s] = Less(st.recent[s])
<1>1. \A n \in Nat : \A t \in 0..n : Less(t) \in 0..n
  BY DEF Less
<1>2. ASSUME NEW r \in Runs, st.rec[r] # NoRec
      PROVE  /\ [st.rec[r] EXCEPT !.left = Less(@)] \in Records
             /\ [st.rec[r] EXCEPT !.left = Less(@)] # NoRec
             /\ [st.rec[r] EXCEPT !.left = Less(@)].sn = st.rec[r].sn
             /\ [st.rec[r] EXCEPT !.left = Less(@)].mode = st.rec[r].mode
             /\ [st.rec[r] EXCEPT !.left = Less(@)].host = st.rec[r].host
  <2>1. st.rec[r] \in Records
    BY <1>2 DEF States
  <2>2. Less(st.rec[r].left) \in 0..SpillTTL
    BY <2>1, <1>1, DispatcherAssumption DEF Records
  <2>3. QED
    BY <2>1, <2>2, AbsentAssumption DEF Records
<1>3. /\ Older(st).rec = [r \in Runs |-> IF st.rec[r] = NoRec THEN NoRec
                                         ELSE [st.rec[r] EXCEPT !.left = Less(@)]]
      /\ Older(st).recent = [s \in Shas |-> Less(st.recent[s])]
      /\ Older(st).failed = [s \in Shas |-> Less(st.failed[s])]
      /\ Older(st) = [rec |-> Older(st).rec, recent |-> Older(st).recent,
                      failed |-> Older(st).failed]
  BY DEF Older
<1>4. Older(st).rec \in [Runs -> Records \cup {NoRec}]
  BY <1>2, <1>3
<1>5. /\ Older(st).recent \in [Shas -> 0..RecentTTL]
      /\ Older(st).failed \in [Shas -> 0..FailedTTL]
  BY <1>1, <1>3, DispatcherAssumption DEF States
<1>6. Older(st) \in States
  BY <1>3, <1>4, <1>5 DEF States
<1>7. QED
  BY <1>2, <1>3, <1>6 DEF Tracked

LEMMA TrackIs ==
    ASSUME NEW r \in Runs, NEW mode \in {"ws", "build"}, NEW h \in Hosts \cup {NoHost},
           NEW n \in Sns, mem \in States, Track(r, mode, h, n)
    PROVE  /\ mem' \in States
           /\ mem'.recent = mem.recent
           /\ Tracked(mem') = Tracked(mem) \cup {r}
           /\ mem'.rec[r].mode = mode /\ mem'.rec[r].host = h /\ mem'.rec[r].sn = n
           /\ \A x \in Runs \ {r} : mem'.rec[x] = mem.rec[x]
<1> DEFINE new == [mode |-> mode, host |-> h, sn |-> n, left |-> SpillTTL]
<1>1. new \in Records /\ new # NoRec
  BY DispatcherAssumption, AbsentAssumption DEF Records
<1>2. mem'.rec = [mem.rec EXCEPT ![r] = new] /\ mem'.recent = mem.recent /\ mem' \in States
  BY <1>1 DEF Track, States
<1>3. QED
  BY <1>1, <1>2 DEF Tracked, States

-----------------------------------------------------------------------------
(* What a step does to the jobs and to the records *)

\* From the jobs js to the jobs ks: none vanishes, none gets its slot back, and
\* what was lost about one, and the outcome of its check, stays.
Kept(js, ks) ==
    \A n \in Sns : js[n] # NoJob =>
        /\ ks[n] # NoJob
        /\ ks[n].sha = js[n].sha
        /\ ks[n].slot => js[n].slot
        /\ js[n].slip => ks[n].slip
        /\ js[n].check = "success" => ks[n].check = "success"

\* The records of tt are among those of st.
Fewer(tt, st) ==
    /\ Tracked(tt) \subseteq Tracked(st)
    /\ \A r \in Tracked(tt) : /\ tt.rec[r].sn = st.rec[r].sn
                              /\ tt.rec[r].mode = st.rec[r].mode
                              /\ tt.rec[r].host = st.rec[r].host

LEMMA GoodKept ==
    ASSUME NEW st \in States, NEW tt \in States, NEW js, NEW ks,
           Good(st, js), Kept(js, ks), Fewer(tt, st)
    PROVE  Good(tt, ks)
<1>1. \A r \in Tracked(st) : st.rec[r].sn \in Sns
  BY DEF Tracked, States, Records
<1>2. Sound(tt, ks)
  BY <1>1 DEF Good, Sound, Kept, Fewer
<1>3. OneSpill(tt)
  BY DEF Good, OneSpill, Fewer
<1>4. OneWorkspace(tt)
  BY DEF Good, OneWorkspace, Fewer
<1>5. QED
  BY <1>2, <1>3, <1>4 DEF Good

LEMMA FewerStates ==
    ASSUME sha \in [Runs -> Shas], NEW st \in States
    PROVE  /\ Fewer(st, st)
           /\ Fewer(Older(st), st)
           /\ \A r \in Runs : /\ Fewer(Untrack(st, r), st)
                              /\ Fewer(Remember(st, r), st)
                              /\ Fewer(NoteFailure(st, r), st)
<1>1. Fewer(st, st)
  BY DEF Fewer
<1>2. Fewer(Older(st), st)
  BY OlderIs DEF Fewer
<1>3. ASSUME NEW r \in Runs
      PROVE  /\ Fewer(Untrack(st, r), st)
             /\ Fewer(Remember(st, r), st)
             /\ Fewer(NoteFailure(st, r), st)
  <2>1. Fewer(Untrack(st, r), st)
    <3>1. \A x \in Runs \ {r} : Untrack(st, r).rec[x] = st.rec[x]
      <4>1. Untrack(st, r).rec = [st.rec EXCEPT ![r] = NoRec]
        BY UntrackIs
      <4>2. QED
        BY <4>1 DEF States
    <3>2. Tracked(Untrack(st, r)) = Tracked(st) \ {r} /\ Tracked(st) \subseteq Runs
      BY UntrackIs DEF Tracked
    <3>3. QED
      BY <3>1, <3>2 DEF Fewer
  <2>2. Fewer(Remember(st, r), st)
    BY RememberIs DEF Fewer, Tracked
  <2>3. Fewer(NoteFailure(st, r), st)
    BY NoteFailureIs DEF Fewer, Tracked
  <2>4. QED
    BY <2>1, <2>2, <2>3
<1>4. QED
  BY <1>1, <1>2, <1>3

LEMMA NewJobKept ==
    ASSUME TypeOK, NEW n \in Sns, NEW job \in Jobs, NewJob(n, job)
    PROVE  /\ jobs' \in [Sns -> Jobs \cup {NoJob}]
           /\ Kept(jobs, jobs')
           /\ jobs[n] = NoJob /\ jobs'[n] = job /\ job # NoJob
           /\ \A m \in Sns \ {n} : jobs'[m] = jobs[m]
  BY AbsentAssumption DEF NewJob, TypeOK, Kept

\* A job that is stopped, or that is to be stopped, no longer needs a record.
Released(n) ==
    /\ jobs' \in [Sns -> Jobs \cup {NoJob}]
    /\ Kept(jobs, jobs')
    /\ jobs'[n].slot => jobs'[n].slip
    /\ \A m \in Sns \ {n} : jobs'[m] = jobs[m]

LEMMA StopKept ==
    ASSUME TypeOK, NEW n \in Sns, jobs[n] # NoJob,
           \/ jobs' = [jobs EXCEPT ![n].slot = FALSE]
           \/ jobs' = [jobs EXCEPT ![n].slip = TRUE]
    PROVE  Released(n)
<1>1. jobs[n] \in Jobs
  BY DEF TypeOK
<1>2. PICK new \in Jobs :
         /\ jobs' = [jobs EXCEPT ![n] = new]
         /\ new.sha = jobs[n].sha /\ new.check = jobs[n].check
         /\ \/ new.slot = FALSE /\ new.slip = jobs[n].slip
            \/ new.slot = jobs[n].slot /\ new.slip = TRUE
  <2>1. CASE jobs' = [jobs EXCEPT ![n].slot = FALSE]
    <3> DEFINE new == [jobs[n] EXCEPT !.slot = FALSE]
    <3>1. /\ new \in Jobs /\ new.sha = jobs[n].sha /\ new.check = jobs[n].check
          /\ new.slot = FALSE /\ new.slip = jobs[n].slip
      BY <1>1 DEF Jobs
    <3>2. jobs' = [jobs EXCEPT ![n] = new]
      BY <2>1
    <3> HIDE DEF new
    <3>3. QED
      BY <3>1, <3>2
  <2>2. CASE jobs' = [jobs EXCEPT ![n].slip = TRUE]
    <3> DEFINE new == [jobs[n] EXCEPT !.slip = TRUE]
    <3>1. /\ new \in Jobs /\ new.sha = jobs[n].sha /\ new.check = jobs[n].check
          /\ new.slot = jobs[n].slot /\ new.slip = TRUE
      BY <1>1 DEF Jobs
    <3>2. jobs' = [jobs EXCEPT ![n] = new]
      BY <2>2
    <3> HIDE DEF new
    <3>3. QED
      BY <3>1, <3>2
  <2>3. QED
    BY <2>1, <2>2
<1>3. jobs' \in [Sns -> Jobs \cup {NoJob}] /\ jobs'[n] = new /\ new # NoJob
  BY <1>2, AbsentAssumption DEF TypeOK
<1>4. \A m \in Sns \ {n} : jobs'[m] = jobs[m]
  BY <1>2 DEF TypeOK
<1>5. QED
  BY <1>2, <1>3, <1>4 DEF Released, Kept

LEMMA TryStopKept ==
    ASSUME TypeOK, Good(mem, jobs), NEW r \in Tracked(mem), TryStop(r)
    PROVE  Released(Sn(r))
<1>1. Sn(r) \in Sns /\ jobs[Sn(r)] # NoJob /\ mem.rec[r].mode \in {"ws", "build"}
  BY DEF Good, Sound, Sn, TypeOK, States, Records, Tracked
<1>2. CASE mem.rec[r].mode = "ws"
  BY <1>1, <1>2, StopKept DEF TryStop
<1>3. CASE mem.rec[r].mode = "build"
  <2>1. jobs' = jobs /\ ~ jobs[Sn(r)].slot
    BY <1>3 DEF TryStop, Good, Sound, Sn
  <2>2. QED
    BY <2>1, <1>1 DEF Released, Kept, TypeOK
<1>4. QED
  BY <1>1, <1>2, <1>3

LEMMA CheckEndsKept ==
    ASSUME TypeOK, CheckEnds
    PROVE  /\ jobs' \in [Sns -> Jobs \cup {NoJob}]
           /\ Kept(jobs, jobs')
           /\ \A n \in Sns : jobs'[n] # NoJob /\ jobs'[n].slot /\ ~ jobs'[n].slip =>
                 jobs[n] # NoJob /\ jobs[n].slot /\ ~ jobs[n].slip
           /\ \A n \in Sns : jobs'[n] # NoJob =>
                 jobs'[n].slot = jobs[n].slot /\ jobs'[n].slip = jobs[n].slip
<1>1. PICK n \in Sns, end \in {"success", "failure"} :
         /\ jobs[n] # NoJob
         /\ jobs[n].check = "running"
         /\ jobs' = [jobs EXCEPT ![n].check = end]
  BY DEF CheckEnds
<1>2. jobs[n] \in Jobs /\ [jobs[n] EXCEPT !.check = end] \in Jobs
  BY <1>1 DEF TypeOK, Jobs
<1>3. jobs' = [jobs EXCEPT ![n] = [jobs[n] EXCEPT !.check = end]]
  BY <1>1
<1>4. QED
  BY <1>1, <1>2, <1>3, AbsentAssumption DEF Kept, TypeOK, Jobs

LEMMA LoopErrorKept ==
    ASSUME TypeOK, Good(mem, jobs), LoopError
    PROVE  /\ jobs' \in [Sns -> Jobs \cup {NoJob}]
           /\ Kept(jobs, jobs')
           /\ \A n \in Sns : jobs'[n] # NoJob /\ jobs'[n].slot /\ ~ jobs'[n].slip =>
                 jobs[n] # NoJob /\ jobs[n].slot /\ ~ jobs[n].slip /\ n \notin Unknown
<1>1. ASSUME NEW n \in Unknown
      PROVE  /\ n \in Sns /\ jobs[n] \in Jobs
             /\ [jobs[n] EXCEPT !.slip = TRUE] \in Jobs
  <2>1. n \in Sns /\ jobs[n] # NoJob
    BY <1>1 DEF Unknown, Good, Sound, TypeOK, States, Records, Tracked
  <2>2. QED
    BY <2>1 DEF TypeOK, Jobs
<1>2. jobs' = [n \in Sns |-> IF n \in Unknown THEN [jobs[n] EXCEPT !.slip = TRUE]
                             ELSE jobs[n]]
  BY DEF LoopError
<1>3. jobs' \in [Sns -> Jobs \cup {NoJob}]
  BY <1>1, <1>2 DEF TypeOK
<1>4. ASSUME NEW n \in Sns
      PROVE  /\ n \in Unknown => /\ jobs'[n] # NoJob
                                 /\ jobs'[n] = [jobs[n] EXCEPT !.slip = TRUE]
                                 /\ jobs[n] \in Jobs
             /\ n \notin Unknown => jobs'[n] = jobs[n]
  BY <1>1, <1>2, AbsentAssumption
<1>5. QED
  BY <1>3, <1>4 DEF Kept, Jobs

-----------------------------------------------------------------------------
(* The inductive invariant, one lemma per kind of step *)

\* The steps that touch no job and no record.
LEMMA InvQuiet ==
    ASSUME Inv,
           \/ Poll \/ BuildDefers \/ EnterResolve
           \/ \E r \in Runs : Skip(r) \/ Defer(r) \/ KeepWaiting(r) \/ Take(r)
    PROVE  Inv'
<1>1. UNCHANGED <<sha, jobs, mem, disk, faults>>
  BY DEF Poll, BuildDefers, EnterResolve, Skip, Defer, KeepWaiting, Take, world
<1>2. Good(mem, jobs)' /\ Good(disk, jobs)' /\ Accounted' /\ Tracked(mem)' = Tracked(mem)
      /\ Tracked(disk)' = Tracked(disk) /\ Tracked(mem) \subseteq Runs
  BY <1>1 DEF Inv, Good, Sound, OneSpill, OneWorkspace, Accounted, Tracked
<1>3. CASE Poll
  <2>1. todo' \subseteq Runs
    BY <1>3 DEF Poll, Excess
  <2>2. spilled' = {sha[r] : r \in Tracked(mem)} /\ spilled' \subseteq Shas
    BY <1>3, <1>2 DEF Poll, Inv, TypeOK
  <2>3. TypeOK'
    BY <1>1, <1>3, <2>1, <2>2, DispatcherAssumption DEF Inv, TypeOK, Poll, world
  <2>4. SpillGuarded' /\ InStep' /\ Vouched'
    BY <1>1, <1>2, <1>3, <2>2 DEF Inv, SpillGuarded, InStep, Vouched, Poll, world
  <2>5. QED
    BY <1>2, <2>3, <2>4 DEF Inv
<1>4. CASE BuildDefers \/ \E r \in Runs : Skip(r) \/ Defer(r)
  <2>1. TypeOK'
    BY <1>1, <1>4 DEF Inv, TypeOK, BuildDefers, Skip, Defer, Visiting, world
  <2>2. SpillGuarded' /\ InStep' /\ Vouched'
    BY <1>1, <1>2, <1>4 DEF Inv, SpillGuarded, InStep, Vouched, BuildDefers, Skip, Defer,
                            Visiting, world
  <2>3. QED
    BY <1>2, <2>1, <2>2 DEF Inv
<1>5. CASE EnterResolve
  <2>1. TypeOK'
    BY <1>1, <1>2, <1>5, DispatcherAssumption DEF Inv, TypeOK, EnterResolve, world
  <2>2. SpillGuarded' /\ InStep' /\ Vouched'
    BY <1>1, <1>2, <1>5 DEF Inv, SpillGuarded, InStep, Vouched, EnterResolve, world
  <2>3. QED
    BY <1>2, <2>1, <2>2 DEF Inv
<1>6. CASE \E r \in Runs : KeepWaiting(r) \/ Take(r)
  <2>1. TypeOK'
    BY <1>1, <1>6 DEF Inv, TypeOK, KeepWaiting, Take, Resolving, world, loop
  <2>2. SpillGuarded' /\ InStep' /\ Vouched'
    BY <1>1, <1>2, <1>6 DEF Inv, SpillGuarded, InStep, Vouched, KeepWaiting, Take, Resolving,
                            world, loop
  <2>3. QED
    BY <1>2, <2>1, <2>2 DEF Inv
<1>7. QED
  BY <1>3, <1>4, <1>5, <1>6

\* A spill is started for a commit that no record has, on a host that none has.
LEMMA InvStart ==
    ASSUME Inv, NEW r \in Runs, NEW n \in Sns, NEW job \in Jobs,
           NEW mode \in {"ws", "build"}, NEW h \in Hosts \cup {NoHost},
           NewJob(n, job), Track(r, mode, h, n),
           job.sha = sha[r], mode = "build" => ~ job.slot,
           mode = "ws" => h \in Hosts \ BusyHosts(mem),
           pc \in {"spill", "fallback"}, started < Batch,
           sha[r] \notin spilled, r \notin Tracked(mem), mem.recent[sha[r]] = 0,
           acting' = r, pc' = "persist", UNCHANGED <<world, loop, checking>>
    PROVE  Inv'
<1>1. /\ jobs' \in [Sns -> Jobs \cup {NoJob}]
      /\ Kept(jobs, jobs')
      /\ jobs[n] = NoJob /\ jobs'[n] = job /\ job # NoJob
      /\ \A m \in Sns \ {n} : jobs'[m] = jobs[m]
  BY NewJobKept DEF Inv
<1>2. /\ mem' \in States
      /\ mem'.recent = mem.recent
      /\ Tracked(mem') = Tracked(mem) \cup {r}
      /\ mem'.rec[r].mode = mode /\ mem'.rec[r].host = h /\ mem'.rec[r].sn = n
      /\ \A x \in Runs \ {r} : mem'.rec[x] = mem.rec[x]
  BY TrackIs DEF Inv, TypeOK
<1>3. Tracked(mem) \subseteq Runs /\ Tracked(mem)' = Tracked(mem')
  BY DEF Tracked
<1>4. Good(disk, jobs)'
  <2>1. Good(disk, jobs')
    BY <1>1, GoodKept, FewerStates DEF Inv, TypeOK
  <2>2. QED
    BY <2>1 DEF Good, Sound, OneSpill, OneWorkspace, Tracked, world
<1>5. Sound(mem, jobs)'
  <2>1. \A x \in Tracked(mem) : mem.rec[x].sn \in Sns
    BY DEF Inv, TypeOK, Tracked, States, Records
  <2>2. QED
    BY <1>1, <1>2, <1>3, <2>1 DEF Inv, Good, Sound, Kept, world
<1>6. OneSpill(mem)'
  BY <1>2, <1>3 DEF Inv, Good, OneSpill, SpillGuarded, world
<1>7. OneWorkspace(mem)'
  <2>1. \A x \in Tracked(mem) : mem.rec[x].mode = "ws" /\ mode = "ws" => mem.rec[x].host # h
    BY DEF BusyHosts
  <2>2. QED
    BY <1>2, <1>3, <2>1 DEF Inv, Good, OneWorkspace
<1>8. TypeOK'
  <2>1. \A x \in Runs : mem'.rec[x] # NoRec => jobs'[mem'.rec[x].sn].sha = sha[x]
    BY <1>3, <1>5 DEF Sound, Tracked, world
  <2>2. acting' # NoRun
    BY DispatcherAssumption
  <2>3. QED
    BY <1>1, <1>2, <2>1, <2>2 DEF Inv, TypeOK, world, loop
<1>9. SpillGuarded'
  BY <1>2, <1>3 DEF Inv, SpillGuarded, world, loop
<1>10. InStep'
  BY <1>2, <1>3 DEF Inv, InStep, Tracked, world
<1>11. Accounted'
  BY <1>1, <1>2, <1>3 DEF Inv, Accounted, Tracked
<1>12. QED
  BY <1>4, <1>5, <1>6, <1>7, <1>8, <1>9, <1>10, <1>11 DEF Inv, Good, Vouched

LEMMA InvStartWorkspace ==
    ASSUME Inv, NEW r \in Runs, StartWorkspace(r)
    PROVE  Inv'
<1>1. PICK h \in Hosts, n \in Sns, check \in {"absent", "running"} :
         /\ FreeHost(h)
         /\ NewJob(n, Workspace(r, h, check, FALSE))
         /\ Track(r, "ws", h, n)
  BY DEF StartWorkspace
<1>2. Workspace(r, h, check, FALSE) \in Jobs /\ Workspace(r, h, check, FALSE).sha = sha[r]
  BY DEF Workspace, Jobs, Inv, TypeOK
<1>3. /\ pc = "spill" /\ started < Batch /\ sha[r] \notin spilled /\ r \notin Tracked(mem)
      /\ acting' = r /\ pc' = "persist" /\ UNCHANGED <<world, loop, checking>>
  BY DEF StartWorkspace, Visiting, Skipped
<1>4. mem.recent[sha[r]] = 0
  BY DispatcherAssumption DEF StartWorkspace, Skipped, Inv, TypeOK, States
<1>5. QED
  BY <1>1, <1>2, <1>3, <1>4, InvStart DEF FreeHost

LEMMA InvStartBuild ==
    ASSUME Inv, StartBuild
    PROVE  Inv'
<1>1. PICK n \in Sns : /\ NewJob(n, Build(acting, "running", FALSE))
                       /\ Track(acting, "build", NoHost, n)
  BY DEF StartBuild
<1>2. pc = "fallback" /\ acting \in Runs
  BY DEF StartBuild, Inv, TypeOK
<1>3. /\ Build(acting, "running", FALSE) \in Jobs
      /\ Build(acting, "running", FALSE).sha = sha[acting]
      /\ ~ Build(acting, "running", FALSE).slot
  BY <1>2 DEF Build, Jobs, Inv, TypeOK
<1>4. /\ started < Batch /\ sha[acting] \notin spilled /\ acting \notin Tracked(mem)
      /\ mem.recent[sha[acting]] = 0
  BY <1>2 DEF Inv, SpillGuarded, InStep
<1>5. acting' = acting /\ pc' = "persist" /\ UNCHANGED <<world, loop, checking>>
  BY DEF StartBuild
<1>6. QED
  BY <1>1, <1>2, <1>3, <1>4, <1>5, InvStart

\* A spill that failed: a failure is noted, and perhaps a job is left that nobody knows.
LEMMA InvSpillFails ==
    ASSUME Inv, NEW r \in Runs, mem' = NoteFailure(mem, r),
           UNCHANGED jobs \/ \E n \in Sns, job \in Jobs : job.slip /\ NewJob(n, job),
           UNCHANGED <<world, checking>>
    PROVE  /\ Good(mem, jobs)' /\ Good(disk, jobs)' /\ Accounted'
           /\ jobs' \in [Sns -> Jobs \cup {NoJob}] /\ mem' \in States
           /\ \A x \in Runs : mem'.rec[x] # NoRec => jobs'[mem'.rec[x].sn].sha = sha[x]
           /\ Tracked(mem') = Tracked(mem) /\ mem'.recent = mem.recent
<1>1. /\ mem' \in States /\ mem'.rec = mem.rec /\ mem'.recent = mem.recent
      /\ Tracked(mem') = Tracked(mem) /\ Fewer(mem', mem)
  BY NoteFailureIs, FewerStates DEF Inv, TypeOK, Tracked
<1>2. /\ jobs' \in [Sns -> Jobs \cup {NoJob}]
      /\ Kept(jobs, jobs')
      /\ \A n \in Sns : jobs'[n] # NoJob /\ jobs'[n].slot /\ ~ jobs'[n].slip =>
            jobs'[n] = jobs[n]
  <2>1. CASE UNCHANGED jobs
    BY <2>1 DEF Inv, TypeOK, Kept
  <2>2. CASE \E n \in Sns, job \in Jobs : job.slip /\ NewJob(n, job)
    BY <2>2, NewJobKept DEF Inv
  <2>3. QED
    BY <2>1, <2>2
<1>3. Good(mem', jobs') /\ Good(disk, jobs')
  BY <1>1, <1>2, GoodKept, FewerStates DEF Inv, TypeOK
<1>4. Good(mem, jobs)' /\ Good(disk, jobs)'
  BY <1>3 DEF Good, Sound, OneSpill, OneWorkspace, Tracked, world
<1>5. Accounted'
  BY <1>1, <1>2 DEF Inv, Accounted, Tracked
<1>6. QED
  BY <1>1, <1>2, <1>3, <1>4, <1>5 DEF Good, Sound, Tracked

LEMMA InvWorkspaceFails ==
    ASSUME Inv, NEW r \in Runs, WorkspaceFails(r)
    PROVE  Inv'
<1>1. \A h \in Hosts : Workspace(r, h, "absent", TRUE) \in Jobs
                         /\ Workspace(r, h, "absent", TRUE).slip
  BY DEF Workspace, Jobs, Inv, TypeOK
<1>2. UNCHANGED jobs \/ \E n \in Sns, job \in Jobs : job.slip /\ NewJob(n, job)
  BY <1>1 DEF WorkspaceFails
<1>3. /\ pc = "spill" /\ started < Batch /\ sha[r] \notin spilled /\ r \notin Tracked(mem)
      /\ mem' = NoteFailure(mem, r)
      /\ acting' = r /\ pc' = "fallback" /\ UNCHANGED <<world, loop, checking>>
  BY DEF WorkspaceFails, Visiting, Skipped
<1>4. mem.recent[sha[r]] = 0
  BY DispatcherAssumption DEF WorkspaceFails, Skipped, Inv, TypeOK, States
<1>5. /\ Good(mem, jobs)' /\ Good(disk, jobs)' /\ Accounted'
      /\ jobs' \in [Sns -> Jobs \cup {NoJob}] /\ mem' \in States
      /\ \A x \in Runs : mem'.rec[x] # NoRec => jobs'[mem'.rec[x].sn].sha = sha[x]
      /\ Tracked(mem') = Tracked(mem) /\ mem'.recent = mem.recent
  BY <1>2, <1>3, InvSpillFails
<1>6. TypeOK'
  BY <1>3, <1>5, DispatcherAssumption DEF Inv, TypeOK, world, loop
<1>7. SpillGuarded' /\ InStep' /\ Vouched'
  BY <1>3, <1>4, <1>5 DEF Inv, SpillGuarded, InStep, Vouched, Tracked, world, loop
<1>8. QED
  BY <1>5, <1>6, <1>7 DEF Inv

LEMMA InvBuildFails ==
    ASSUME Inv, BuildFails
    PROVE  Inv'
<1>1. pc = "fallback" /\ acting \in Runs
  BY DEF BuildFails, Inv, TypeOK
<1>2. Build(acting, "absent", TRUE) \in Jobs /\ Build(acting, "absent", TRUE).slip
  BY <1>1 DEF Build, Jobs, Inv, TypeOK
<1>3. UNCHANGED jobs \/ \E n \in Sns, job \in Jobs : job.slip /\ NewJob(n, job)
  BY <1>2 DEF BuildFails
<1>4. /\ mem' = NoteFailure(mem, acting) /\ pc' = "spill" /\ acting' = NoRun
      /\ todo' \subseteq todo
      /\ UNCHANGED <<world, started, spilled, checking>>
  BY DEF BuildFails
<1>5. /\ Good(mem, jobs)' /\ Good(disk, jobs)' /\ Accounted'
      /\ jobs' \in [Sns -> Jobs \cup {NoJob}] /\ mem' \in States
      /\ \A x \in Runs : mem'.rec[x] # NoRec => jobs'[mem'.rec[x].sn].sha = sha[x]
      /\ Tracked(mem') = Tracked(mem) /\ mem'.recent = mem.recent
  BY <1>1, <1>3, <1>4, InvSpillFails
<1>6. TypeOK'
  BY <1>4, <1>5 DEF Inv, TypeOK, world
<1>7. SpillGuarded' /\ InStep' /\ Vouched'
  BY <1>1, <1>4, <1>5 DEF Inv, SpillGuarded, InStep, Vouched, Tracked, world
<1>8. QED
  BY <1>5, <1>6, <1>7 DEF Inv

LEMMA InvLoopError ==
    ASSUME Inv, LoopError, faults' \in 0..MaxFaults
    PROVE  Inv'
<1>1. /\ jobs' \in [Sns -> Jobs \cup {NoJob}]
      /\ Kept(jobs, jobs')
      /\ \A n \in Sns : jobs'[n] # NoJob /\ jobs'[n].slot /\ ~ jobs'[n].slip =>
            jobs[n] # NoJob /\ jobs[n].slot /\ ~ jobs[n].slip /\ n \notin Unknown
  BY LoopErrorKept DEF Inv
<1>2. /\ mem' = disk /\ pc' = "sleep" /\ acting' = NoRun
      /\ todo' = {} /\ started' = 0 /\ spilled' = {} /\ checking' = {}
      /\ UNCHANGED <<sha, run, disk>>
  BY DEF LoopError
<1>3. Good(disk, jobs')
  BY <1>1, GoodKept, FewerStates DEF Inv, TypeOK
<1>4. Good(mem, jobs)' /\ Good(disk, jobs)'
  BY <1>2, <1>3 DEF Good, Sound, OneSpill, OneWorkspace, Tracked
<1>5. \A r \in Runs : disk.rec[r] # NoRec => jobs'[disk.rec[r].sn].sha = sha[r]
  BY <1>3 DEF Good, Sound, Tracked
<1>6. TypeOK'
  BY <1>1, <1>2, <1>5, DispatcherAssumption DEF Inv, TypeOK
<1>7. SpillGuarded' /\ InStep' /\ Vouched'
  BY <1>2 DEF SpillGuarded, InStep, Vouched, Tracked
<1>8. Accounted'
  <2>1. ASSUME NEW n \in Sns, jobs'[n] # NoJob, jobs'[n].slot, ~ jobs'[n].slip
        PROVE  \E r \in Tracked(disk) : disk.rec[r].sn = n
    <3>1. jobs[n] # NoJob /\ jobs[n].slot /\ ~ jobs[n].slip /\ n \notin Unknown
      BY <1>1, <2>1
    <3>2. n \in {mem.rec[r].sn : r \in Tracked(mem)}
      BY <3>1 DEF Inv, Accounted
    <3>3. QED
      BY <3>1, <3>2 DEF Unknown
  <2>2. QED
    BY <1>2, <2>1 DEF Accounted, Tracked
<1>9. QED
  BY <1>4, <1>6, <1>7, <1>8 DEF Inv

\* What the loop holds is written.
LEMMA InvWrite ==
    ASSUME Inv, Persist \/ SaveState
    PROVE  Inv'
<1>1. /\ disk' = mem /\ UNCHANGED <<sha, run, jobs, mem, faults, checking>>
      /\ acting' = NoRun
  BY DEF Persist, SaveState, loop, Inv, TypeOK
<1>2. Good(mem, jobs)' /\ Good(disk, jobs)' /\ Accounted'
  BY <1>1 DEF Inv, Good, Sound, OneSpill, OneWorkspace, Accounted, Tracked
<1>3. Tracked(mem)' = Tracked(mem) /\ Tracked(disk)' = Tracked(mem)
  BY <1>1 DEF Tracked
<1>4. CASE Persist
  <2>1. /\ pc = "persist" /\ pc' = "spill" /\ started < Batch /\ acting \in Runs
        /\ started' = started + 1 /\ todo' \subseteq todo
        /\ spilled' = spilled \cup {sha[acting]} /\ sha[acting] \in Shas
    BY <1>4 DEF Persist, Inv, SpillGuarded, TypeOK
  <2>2. started' \in 0..Batch
    BY <2>1, DispatcherAssumption DEF Inv, TypeOK
  <2>3. TypeOK'
    BY <1>1, <2>1, <2>2 DEF Inv, TypeOK
  <2>4. SpillGuarded' /\ InStep' /\ Vouched'
    BY <1>1, <1>3, <2>1 DEF Inv, SpillGuarded, InStep, Vouched
  <2>5. QED
    BY <1>2, <2>3, <2>4 DEF Inv
<1>5. CASE SaveState
  <2>1. pc' = "sleep" /\ UNCHANGED loop
    BY <1>5 DEF SaveState
  <2>2. TypeOK'
    BY <1>1, <2>1 DEF Inv, TypeOK, loop
  <2>3. SpillGuarded' /\ InStep' /\ Vouched'
    BY <1>1, <1>3, <2>1 DEF SpillGuarded, InStep, Vouched
  <2>4. QED
    BY <1>2, <2>2, <2>3 DEF Inv
<1>6. QED
  BY <1>4, <1>5

\* A record whose job needs none any more is deleted, and its commit remembered.
LEMMA InvUntrack ==
    ASSUME Inv, NEW r \in Tracked(mem), Released(Sn(r)),
           pc \in {"resolve", "cancel"}, pc' = "resolve",
           mem' = Untrack(mem, r), checking' = checking \ {r}, acting' = NoRun,
           run' \in [Runs -> {"queued", "taken", "cancelled"}],
           UNCHANGED <<sha, disk, faults, loop>>
    PROVE  Inv'
<1>1. r \in Runs /\ mem \in States /\ sha \in [Runs -> Shas]
  BY DEF Tracked, Inv, TypeOK
<1>2. /\ mem' \in States
      /\ mem'.rec = [mem.rec EXCEPT ![r] = NoRec]
      /\ mem'.recent = [mem.recent EXCEPT ![sha[r]] = RecentTTL]
      /\ Tracked(mem') = Tracked(mem) \ {r}
  BY <1>1, UntrackIs
<1>3. Good(mem', jobs') /\ Good(disk, jobs')
  BY <1>1, <1>2, GoodKept, FewerStates DEF Inv, TypeOK, Released
<1>4. Good(mem, jobs)' /\ Good(disk, jobs)'
  BY <1>3 DEF Good, Sound, OneSpill, OneWorkspace, Tracked
<1>5. TypeOK'
  <2>1. \A x \in Runs : mem'.rec[x] # NoRec => jobs'[mem'.rec[x].sn].sha = sha[x]
    BY <1>3 DEF Good, Sound, Tracked
  <2>2. QED
    BY <1>2, <2>1 DEF Inv, TypeOK, Released, loop
<1>6. InStep'
  <2>1. checking' \subseteq Tracked(mem')
    BY <1>2 DEF Inv, InStep
  <2>2. Tracked(mem') \subseteq Tracked(disk)
    BY <1>2 DEF Inv, InStep
  <2>3. ASSUME NEW x \in Tracked(disk) \ Tracked(mem')
        PROVE  mem'.recent[sha[x]] = RecentTTL
    <3>1. CASE x = r
      BY <1>1, <1>2, <3>1 DEF States
    <3>2. CASE x # r
      <4>1. mem.recent[sha[x]] = RecentTTL /\ x \in Runs
        BY <1>2, <2>3, <3>2 DEF Inv, InStep, Tracked
      <4>2. QED
        BY <1>1, <1>2, <4>1 DEF States
    <3>3. QED
      BY <3>1, <3>2
  <2>4. QED
    BY <2>1, <2>2, <2>3 DEF InStep, Tracked
<1>7. Accounted'
  <2>1. ASSUME NEW n \in Sns, jobs'[n] # NoJob, jobs'[n].slot, ~ jobs'[n].slip
        PROVE  \E x \in Tracked(mem') : mem'.rec[x].sn = n
    <3>1. n # Sn(r) /\ jobs'[n] = jobs[n]
      BY <2>1 DEF Released
    <3>2. PICK x \in Tracked(mem) : mem.rec[x].sn = n
      BY <2>1, <3>1 DEF Inv, Accounted
    <3>3. x # r /\ x \in Runs
      BY <3>1, <3>2 DEF Sn, Tracked
    <3>4. QED
      BY <1>1, <1>2, <3>2, <3>3 DEF States
  <2>2. QED
    BY <2>1 DEF Accounted, Tracked
<1>8. QED
  BY <1>4, <1>5, <1>6, <1>7 DEF Inv, SpillGuarded, Vouched

LEMMA InvResolve ==
    ASSUME Inv, NEW r \in Runs, TtlExpired(r) \/ GraceRelease(r) \/ Settle(r)
    PROVE  Inv'
<1>1. /\ pc = "resolve" /\ r \in checking
      /\ mem' = Untrack(mem, r) /\ checking' = checking \ {r}
      /\ UNCHANGED <<world, loop, pc, acting>>
  BY DEF TtlExpired, GraceRelease, Settle, StageMissing, Resolving
<1>2. r \in Tracked(mem) /\ acting = NoRun
  BY <1>1 DEF Inv, InStep, TypeOK
<1>3. Sn(r) \in Sns /\ jobs[Sn(r)] # NoJob
  BY <1>2 DEF Inv, Good, Sound, Sn, TypeOK, States, Records, Tracked
<1>4. Released(Sn(r))
  <2>1. CASE GraceRelease(r)
    BY <2>1, <1>3, StopKept DEF GraceRelease, Inv
  <2>2. CASE TtlExpired(r) \/ Settle(r)
    BY <2>2, <1>2, TryStopKept DEF TtlExpired, Settle, Inv
  <2>3. QED
    BY <2>1, <2>2
<1>5. QED
  BY <1>1, <1>2, <1>4, InvUntrack DEF world, Inv, TypeOK

LEMMA InvCancel ==
    ASSUME Inv, Cancel
    PROVE  Inv'
<1>1. /\ pc = "cancel" /\ pc' = "resolve" /\ acting' = NoRun
      /\ mem' = Untrack(mem, acting) /\ checking' = checking \ {acting}
      /\ UNCHANGED <<sha, disk, faults, loop, jobs>>
  BY DEF Cancel
<1>2. acting \in Tracked(mem) /\ (jobs[Sn(acting)].slot => jobs[Sn(acting)].slip)
  BY <1>1 DEF Inv, Vouched, Sn
<1>3. Released(Sn(acting))
  BY <1>1, <1>2 DEF Released, Kept, Inv, TypeOK
<1>4. run' \in [Runs -> {"queued", "taken", "cancelled"}]
  BY DEF Cancel, Inv, TypeOK
<1>5. QED
  BY <1>1, <1>2, <1>3, <1>4, InvUntrack

\* A job changes, and no record with it: a stop that may have failed, or its check ends.
LEMMA InvJobs ==
    ASSUME Inv, jobs' \in [Sns -> Jobs \cup {NoJob}], Kept(jobs, jobs'),
           \A n \in Sns : jobs'[n] # NoJob /\ jobs'[n].slot /\ ~ jobs'[n].slip =>
               jobs[n] # NoJob /\ jobs[n].slot /\ ~ jobs[n].slip,
           \A n \in Sns : jobs'[n] # NoJob /\ pc = "cancel" =>
               jobs'[n].slot = jobs[n].slot /\ jobs'[n].slip = jobs[n].slip,
           checking' \subseteq checking,
           UNCHANGED <<world, mem, pc, loop, acting>>
    PROVE  Inv'
<1>1. Good(mem, jobs') /\ Good(disk, jobs')
  BY GoodKept, FewerStates DEF Inv, TypeOK
<1>2. Good(mem, jobs)' /\ Good(disk, jobs)'
  BY <1>1 DEF Good, Sound, OneSpill, OneWorkspace, Tracked, world
<1>3. TypeOK'
  <2>1. \A x \in Runs : mem.rec[x] # NoRec => jobs'[mem.rec[x].sn].sha = sha[x]
    BY <1>1 DEF Good, Sound, Tracked
  <2>2. QED
    BY <2>1 DEF Inv, TypeOK, world, loop
<1>4. SpillGuarded' /\ InStep' /\ Accounted'
  BY DEF Inv, SpillGuarded, InStep, Accounted, Tracked, world, loop
<1>5. Vouched'
  <2>1. SUFFICES ASSUME pc = "cancel" PROVE Vouched'
    BY DEF Vouched
  <2>2. /\ acting \in Tracked(mem) \cap Cancelable /\ mem.rec[acting].sn \in Sns
        /\ jobs[mem.rec[acting].sn] # NoJob
    BY <2>1 DEF Inv, Vouched, Good, Sound, TypeOK, States, Records, Tracked
  <2>3. QED
    BY <2>1, <2>2 DEF Inv, Vouched, Kept, Tracked
<1>6. QED
  BY <1>2, <1>3, <1>4, <1>5 DEF Inv

LEMMA InvGraceStopFails ==
    ASSUME Inv, NEW r \in Runs, GraceStopFails(r)
    PROVE  Inv'
<1>1. /\ pc = "resolve" /\ r \in checking /\ checking' = checking \ {r}
      /\ jobs' \in {jobs, [jobs EXCEPT ![Sn(r)].slot = FALSE]}
      /\ UNCHANGED <<world, mem, pc, loop, acting>>
  BY DEF GraceStopFails, StageMissing, Resolving
<1>2. Sn(r) \in Sns /\ jobs[Sn(r)] # NoJob
  BY <1>1 DEF Inv, InStep, Good, Sound, Sn, TypeOK, States, Records, Tracked
<1>3. CASE jobs' = jobs
  BY <1>1, <1>3, InvJobs DEF Inv, TypeOK, Kept
<1>4. CASE jobs' = [jobs EXCEPT ![Sn(r)].slot = FALSE]
  <2>1. Released(Sn(r))
    BY <1>2, <1>4, StopKept DEF Inv
  <2>2. QED
    BY <1>1, <1>2, <2>1, InvJobs DEF Released
<1>5. QED
  BY <1>1, <1>3, <1>4

LEMMA InvFindCancelable ==
    ASSUME Inv, NEW r \in Runs, FindCancelable(r)
    PROVE  Inv'
<1>1. /\ pc = "resolve" /\ pc' = "cancel" /\ r \in checking /\ acting' = r
      /\ jobs[Sn(r)].check = "success" /\ r \in Cancelable
      /\ mem' = Remember(mem, r)
      /\ UNCHANGED <<world, loop, checking>>
  BY DEF FindCancelable, Resolving, Passed, Job
<1>2. r \in Tracked(mem) /\ mem \in States /\ sha \in [Runs -> Shas]
  BY <1>1 DEF Inv, InStep, TypeOK
<1>3. Sn(r) \in Sns /\ jobs[Sn(r)] # NoJob
  BY <1>2 DEF Inv, Good, Sound, Sn, TypeOK, States, Records, Tracked
<1>4. Released(Sn(r))
  BY <1>2, TryStopKept DEF FindCancelable, Inv
<1>5. /\ mem' \in States /\ mem'.rec = mem.rec /\ Tracked(mem') = Tracked(mem)
      /\ mem'.recent = [mem.recent EXCEPT ![sha[r]] = RecentTTL]
  BY <1>1, <1>2, RememberIs DEF Tracked
<1>6. Good(mem', jobs') /\ Good(disk, jobs')
  BY <1>1, <1>2, <1>4, <1>5, GoodKept, FewerStates DEF Inv, TypeOK, Released
<1>7. Good(mem, jobs)' /\ Good(disk, jobs)'
  BY <1>1, <1>6 DEF Good, Sound, OneSpill, OneWorkspace, Tracked, world
<1>8. TypeOK'
  <2>1. \A x \in Runs : mem'.rec[x] # NoRec => jobs'[mem'.rec[x].sn].sha = sha[x]
    BY <1>6 DEF Good, Sound, Tracked
  <2>2. QED
    BY <1>1, <1>4, <1>5, <2>1, DispatcherAssumption DEF Inv, TypeOK, Released, world, loop
<1>9. InStep'
  <2>1. ASSUME NEW x \in Tracked(disk) \ Tracked(mem)
        PROVE  mem'.recent[sha[x]] = RecentTTL
    <3>1. mem.recent[sha[x]] = RecentTTL
      BY <1>1, <2>1 DEF Inv, InStep
    <3>2. QED
      BY <1>2, <1>5, <2>1, <3>1 DEF States, Tracked
  <2>2. QED
    BY <1>1, <1>5, <2>1 DEF Inv, InStep, Tracked, world
<1>10. Accounted'
  <2>1. \A n \in Sns : jobs'[n] # NoJob /\ jobs'[n].slot /\ ~ jobs'[n].slip => jobs'[n] = jobs[n]
    BY <1>4 DEF Released
  <2>2. QED
    BY <1>5, <2>1 DEF Inv, Accounted, Tracked
<1>11. Vouched'
  BY <1>1, <1>2, <1>3, <1>4, <1>5 DEF Vouched, Released, Kept, Sn, Tracked
<1>12. QED
  BY <1>1, <1>7, <1>8, <1>9, <1>10, <1>11 DEF Inv, SpillGuarded

\* Time passes, on disk as in the loop.
LEMMA InvTick ==
    ASSUME Inv, Tick
    PROVE  Inv'
<1>1. /\ mem' = Older(mem) /\ disk' = Older(disk)
      /\ pc \in {"sleep", "spill", "fallback", "persist"}
      /\ UNCHANGED <<sha, run, jobs, faults, pc, loop, checking, acting>>
  BY DEF Tick
<1>2. mem \in States /\ disk \in States
  BY DEF Inv, TypeOK
<1>3. /\ mem' \in States /\ Tracked(mem') = Tracked(mem) /\ Fewer(mem', mem)
      /\ disk' \in States /\ Tracked(disk') = Tracked(disk) /\ Fewer(disk', disk)
  BY <1>1, <1>2, OlderIs, FewerStates DEF Inv, TypeOK
<1>4. Good(mem', jobs) /\ Good(disk', jobs)
  BY <1>2, <1>3, GoodKept DEF Inv, Kept
<1>5. Good(mem, jobs)' /\ Good(disk, jobs)'
  BY <1>1, <1>4 DEF Good, Sound, OneSpill, OneWorkspace, Tracked
<1>6. TypeOK'
  <2>1. \A x \in Runs : mem'.rec[x] # NoRec => jobs[mem'.rec[x].sn].sha = sha[x]
    BY <1>4 DEF Good, Sound, Tracked
  <2>2. QED
    BY <1>1, <1>3, <2>1 DEF Inv, TypeOK, loop
<1>7. mem'.recent = disk'.recent /\ \A s \in Shas : mem.recent[s] = 0 => mem'.recent[s] = 0
  <2>1. mem.recent = disk.recent
    BY <1>1 DEF Inv, InStep
  <2>2. mem'.recent = [s \in Shas |-> Less(mem.recent[s])]
        /\ disk'.recent = [s \in Shas |-> Less(disk.recent[s])]
    BY <1>1 DEF Older
  <2>3. QED
    BY <2>1, <2>2 DEF Less
<1>8. SpillGuarded'
  BY <1>1, <1>3 DEF Inv, SpillGuarded, Tracked, loop
<1>9. InStep'
  <2>1. pc \in {"fallback", "persist"} => sha[acting] \in Shas
    BY DEF Inv, TypeOK
  <2>2. QED
    BY <1>1, <1>3, <1>7, <2>1 DEF Inv, InStep, Tracked
<1>10. Accounted'
  <2>1. \A r \in Tracked(mem) : mem'.rec[r].sn = mem.rec[r].sn
    BY <1>3 DEF Fewer
  <2>2. QED
    BY <1>1, <1>3, <2>1 DEF Inv, Accounted, Tracked
<1>11. QED
  BY <1>1, <1>5, <1>6, <1>8, <1>9, <1>10 DEF Inv, Vouched

LEMMA InvInit == Init => Inv
<1> SUFFICES ASSUME Init PROVE Inv
  OBVIOUS
<1>1. Blank \in States /\ Tracked(Blank) = {}
  BY DispatcherAssumption DEF Blank, States, Tracked
<1>2. mem = Blank /\ disk = Blank /\ pc = "sleep" /\ acting = NoRun /\ checking = {}
  BY DEF Init
<1>3. TypeOK
  <2>1. \A r \in Runs : mem.rec[r] = NoRec
    BY <1>2 DEF Blank
  <2>2. QED
    BY <1>1, <1>2, <2>1, DispatcherAssumption DEF Init, TypeOK
<1>4. QED
  BY <1>1, <1>2, <1>3 DEF Init, Inv, Good, Sound, OneSpill, OneWorkspace, SpillGuarded,
                          InStep, Accounted, Vouched

LEMMA InvNext == Inv /\ [Next]_vars => Inv'
<1> SUFFICES ASSUME Inv, [Next]_vars PROVE Inv'
  OBVIOUS
<1>1. CASE Poll \/ BuildDefers \/ EnterResolve
           \/ \E r \in Runs : Skip(r) \/ Defer(r) \/ KeepWaiting(r) \/ Take(r)
  BY <1>1, InvQuiet
<1>2. CASE \E r \in Runs : StartWorkspace(r) \/ WorkspaceFails(r)
  BY <1>2, InvStartWorkspace, InvWorkspaceFails
<1>3. CASE StartBuild \/ BuildFails
  BY <1>3, InvStartBuild, InvBuildFails
<1>4. CASE BuildWithoutSn \/ Crash
  <2>1. LoopError /\ faults' \in 0..MaxFaults
    BY <1>4, DispatcherAssumption DEF BuildWithoutSn, Crash, Inv, TypeOK
  <2>2. QED
    BY <2>1, InvLoopError
<1>5. CASE Persist \/ SaveState
  BY <1>5, InvWrite
<1>6. CASE \E r \in Runs : TtlExpired(r) \/ GraceRelease(r) \/ Settle(r)
                           \/ GraceStopFails(r) \/ FindCancelable(r)
  BY <1>6, InvResolve, InvGraceStopFails, InvFindCancelable
<1>7. CASE Cancel
  BY <1>7, InvCancel
<1>8. CASE CheckEnds
  BY <1>8, CheckEndsKept, InvJobs DEF CheckEnds, Inv
<1>9. CASE Tick
  BY <1>9, InvTick
<1>10. CASE UNCHANGED vars
  BY <1>10 DEF vars, Inv, TypeOK, Good, Sound, OneSpill, OneWorkspace, SpillGuarded,
               InStep, Accounted, Vouched, Tracked
<1>11. QED
  BY <1>1, <1>2, <1>3, <1>4, <1>5, <1>6, <1>7, <1>8, <1>9, <1>10
     DEF Next, Daemon, Spill, Resolve

-----------------------------------------------------------------------------

\* Whatever the daemon does, and wherever it fails, its state and its loop are
\* well-formed, and every record it holds is of a job for that run's commit.
THEOREM TypeCorrect == Spec => []TypeOK
<1>1. Inv => TypeOK
  BY DEF Inv
<1>2. QED
  BY <1>1, InvInit, InvNext, PTL DEF Spec

\* spilled_shas and the checks of skip() let no commit have two spills, in the loop
\* or on disk.
THEOREM OneSpillPerShaHolds == Spec => []OneSpillPerSha
<1>1. Inv => OneSpillPerSha
  BY DEF Inv, Good, OneSpill, OneSpillPerSha
<1>2. QED
  BY <1>1, InvInit, InvNext, PTL DEF Spec

\* busy_hosts lets no two tracked workspaces be on one lane host.
THEOREM OneWorkspacePerHostHolds == Spec => []OneWorkspacePerHost
<1>1. Inv => OneWorkspacePerHost
  BY DEF Inv, Good, OneWorkspace, OneWorkspacePerHost
<1>2. QED
  BY <1>1, InvInit, InvNext, PTL DEF Spec

\* A workspace keeps its slot without a record only where a reply or a stop was lost.
THEOREM NoSilentLeakHolds == Spec => []NoSilentLeak
<1>1. Inv => NoSilentLeak
  BY DEF Inv, Accounted, NoSilentLeak
<1>2. QED
  BY <1>1, InvInit, InvNext, PTL DEF Spec

\* maybe_cancel is only reached for a run of an allowlisted workflow whose job is green.
THEOREM CancelVouchedHolds == Spec => CancelVouched
<1>1. Inv /\ [Next]_vars =>
        [\A r \in Runs : run[r] # "cancelled" /\ run'[r] = "cancelled" =>
           /\ r \in Cancelable
           /\ \E n \in Sns : jobs[n] # NoJob /\ jobs[n].sha = sha[r]
                               /\ jobs[n].check = "success"]_vars
  <2> SUFFICES ASSUME Inv, Next, NEW r \in Runs, run[r] # "cancelled", run'[r] = "cancelled"
               PROVE  /\ r \in Cancelable
                      /\ \E n \in Sns : jobs[n] # NoJob /\ jobs[n].sha = sha[r]
                                          /\ jobs[n].check = "success"
    OBVIOUS
  <2>1. run' # run
    OBVIOUS
  <2>2. Cancel \/ \E x \in Runs : Take(x)
    BY <2>1 DEF Next, Daemon, Poll, Spill, Skip, Defer, StartWorkspace, WorkspaceFails,
           BuildDefers, StartBuild, BuildFails, BuildWithoutSn, Persist, EnterResolve,
           Resolve, TtlExpired, KeepWaiting, GraceRelease, GraceStopFails, Settle,
           FindCancelable, SaveState, Crash, CheckEnds, Tick, LoopError, world
  <2>3. ~ \E x \in Runs : Take(x)
    BY DEF Take, Inv, TypeOK
  <2>4. pc = "cancel" /\ r = acting
    BY <2>1, <2>2, <2>3 DEF Cancel, Inv, TypeOK
  <2>5. /\ acting \in Tracked(mem) \cap Cancelable
        /\ jobs[mem.rec[acting].sn].check = "success"
    BY <2>4 DEF Inv, Vouched
  <2>6. /\ mem.rec[acting].sn \in Sns /\ jobs[mem.rec[acting].sn] # NoJob
        /\ jobs[mem.rec[acting].sn].sha = sha[acting]
    BY <2>5 DEF Inv, Good, Sound, TypeOK, States, Records, Tracked
  <2>7. QED
    BY <2>4, <2>5, <2>6
<1>2. QED
  BY <1>1, InvInit, InvNext, PTL DEF Spec, CancelVouched

\* What a write drops it remembers; what it adds, no commit remembered was.
THEOREM NoChurnHolds == Spec => NoChurn
<1>1. Inv /\ [Next]_vars =>
        [\A r \in Runs :
           /\ disk.rec[r] # NoRec /\ disk'.rec[r] = NoRec => disk'.recent[sha[r]] > 0
           /\ disk.rec[r] = NoRec /\ disk'.rec[r] # NoRec => disk.recent[sha[r]] = 0]_vars
  <2> SUFFICES ASSUME Inv, Next, NEW r \in Runs
               PROVE  /\ disk.rec[r] # NoRec /\ disk'.rec[r] = NoRec => disk'.recent[sha[r]] > 0
                      /\ disk.rec[r] = NoRec /\ disk'.rec[r] # NoRec => disk.recent[sha[r]] = 0
    OBVIOUS
  <2>1. CASE disk' = disk
    BY <2>1
  <2>2. CASE Tick
    <3>1. disk' = Older(disk) /\ disk \in States
      BY <2>2 DEF Tick, Inv, TypeOK
    <3>2. Tracked(disk') = Tracked(disk)
      BY <3>1, OlderIs
    <3>3. QED
      BY <3>2 DEF Tracked
  <2>3. CASE Persist
    <3>1. pc = "persist" /\ disk' = mem
      BY <2>3 DEF Persist
    <3>2. /\ Tracked(mem) = Tracked(disk) \cup {acting}
          /\ mem.recent = disk.recent /\ mem.recent[sha[acting]] = 0
      BY <3>1 DEF Inv, InStep
    <3>3. QED
      BY <3>1, <3>2 DEF Tracked
  <2>4. CASE SaveState
    <3>1. pc = "resolve" /\ disk' = mem
      BY <2>4 DEF SaveState
    <3>2. /\ Tracked(mem) \subseteq Tracked(disk)
          /\ \A x \in Tracked(disk) \ Tracked(mem) : mem.recent[sha[x]] = RecentTTL
      BY <3>1 DEF Inv, InStep
    <3>3. QED
      BY <3>1, <3>2, DispatcherAssumption DEF Tracked
  <2>5. disk' = disk \/ Tick \/ Persist \/ SaveState
    BY DEF Next, Daemon, Poll, Spill, Skip, Defer, StartWorkspace, WorkspaceFails,
           BuildDefers, StartBuild, BuildFails, BuildWithoutSn, EnterResolve,
           Resolve, TtlExpired, KeepWaiting, GraceRelease, GraceStopFails, Settle,
           FindCancelable, Cancel, Crash, Take, CheckEnds, LoopError, world
  <2>6. QED
    BY <2>1, <2>2, <2>3, <2>4, <2>5
<1>2. QED
  BY <1>1, InvInit, InvNext, PTL DEF Spec, NoChurn
=============================================================================
