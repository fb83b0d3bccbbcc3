# celestia-devtools: specifications and proofs

TLA+ modules for the parts of celestia-devtools that run concurrently, survive
crashes, or keep state between commands; TLC configurations that check them on
small instances; and TLAPS proofs of what matters most for every instance.
Paths below are relative to `src/src/celestia_devtools/` unless they start with
`tools/`. `PROJECT.json` maps every definition to the lines it stands for.

    tlc -workers 2 -config MCScheduler.cfg MCScheduler
    tlapm SchedulerProofs.tla

The proof modules take from seconds (`RegistryLockProofs`) to about seven minutes
(`OperationProofs`) when nothing has been proved before.

## 1. Inventory

| part | state | operations | what makes it correct |
|---|---|---|---|
| **DAG scheduler** `core/scheduler.py` | `remaining`, `statuses`, `futures` of one call | `run_dag`: validate, dispatch pass, wait, give up; worker threads; Ctrl-C, `SystemExit` | dependencies end first; every step reported once; a failure reaches exactly the dependents; it ends, and leaves no command behind |
| **gate** `build/gate_graph.py`, `gate_cli.py` | none of its own | builds the step graphs of rust, web and python, merges them, runs them, exits | merged modes do not disturb each other; exit code 0 means that it was all run |
| **ports registry** `env/ports.py` | `ports.json`, and the lock file beside it | `acquire`, `claim`, `release`, `list`; `registry_lock` | mutual exclusion across processes and crashes; no lost update; two apps never get one port; a claim lives as long as its app |
| **app-drive** `env/app_drive*.py` | one state file per app | `launch` (`--replace`), `close` (`--force`, `--discard-stale`) | a signal follows a look that found the recorded process; no app is forgotten; commands end |
| **CI overflow dispatcher** `tools/ci_dispatcherd.py` | `state.json`: spills, `_recent`, `_failed`; workspaces and builds at CNB; runs at GitHub | census, spill, resolve, save, each loop | one spill per commit, one workspace per host, no slot leaked, no churn, cancellation only on a green check |
| **CDP client** `env/cdp.py` | request id, event list, socket | `connect_page`, `wait_for_page`, `request`, `close` | a reply is given to its own request, whole |
| **heartbeat referee** `tools/ci_farm_heartbeat_referee.py` | `state.json`: stale polls, reverts, cooldown | a round: decide, revert, rearm, save | budget and cooldown hold across lost rounds and dry runs |
| **orphan janitor** `tools/ci_orphan_janitor.py` | none; `/proc` | the zombie check, scan, kill | never a process of a running job |
| **deploy lifecycle** `deploy/lifecycle.py`, `backup.py` | installed binary, `.prev`, `.failed`, schema, ledger, dumps | `upgrade`, `rollback`, `backup`, `restore` | a way back is kept; the ledger is true |
| **deploy front end** `deploy/bootstrap.py`, `stages_more.py`, `ops.py` | account, env and URL files, first administrator | the stages of a bootstrap; `uninstall` | exit 0 is real; a dry run changes nothing |
| **supervision judge** `judge/*` | samples, a report, an approval | `judge-fleet`, `judge-fleet act` | silence is no health; one restart per approval |
| **engine drop** `tools/engine_drop.py` | staging worktrees, drops, pull requests | `sweep`, `apply` | no edit of the engine is lost |
| **sibling links** `npm/link_siblings.py` | links, a state file | overlay, `--remove` | what was replaced comes back |
| **publishing** `publish/crates.py`, `release_notes.py` | the registry's index, a release | `publish_all`; walk and upsert | "all published" is true; notes miss nothing |
| **branch sweep, worktrees** `vcs/branch_sweep.py`, `worktree.py` | branches, patches | create, remove, sweep | no work that master never had is deleted |
| **development environment** `env/daemon.py`, `serve.py`, `e2e_sandbox.py`, `pglite.py`, `devenv.py` | pid files, children, boxes, sidecars, `devenv.toml` | start, stop, reap, sweep | nothing is orphaned or shot by mistake |
| **cache guard, gate sweep** `build/` | `target/` and its sidecar; checkouts | guard; credential scan | green means all of it was read |
| **proxy detection** `core/netproxy.py` | none | the cascade, a child's environment | the first usable place wins |
| **version tools** `repo/family_versions.py`, `verify_versions.py`, `register_patches.py` | manifests, locks, `~/.cargo/config.toml` | checks; register | green means one line; blame is deserved |
| **callers and audits** `repo/init.py`, `vcs/hook.py`, `ci/workflow_audit.py`, `repo/fleet_audit.py` | generated workflows, a hook, a staged justfile | `init`, `--check`, hook install, audits | regeneration settles; releases stay green |
| **gates** `lint/type_escapes.py`, `lint/p0_gate.py`, `lint/domain_leak.py`, `ci/job_timeouts.py` | two ratchets, a ledger, workflow texts | check, acknowledge, fix, prune, hooks | green means answered, and looked at |
| **layout check and fix** `lint/py_style*.py` | python files | check, `--fix`, import cycles | a fix keeps the meaning; a cycle is found if there is one |
| **radar** `radar/radar.py` | one scan's cache | probes | one answer per scan |
| **engine pack, external review, runner credentials** `tools/` | an env prefix and unit; sealed packs; files of the runners | install; pack, review, record; apply | repeats finish what was cut |
| not modelled | | npm packaging, docs, mobile, brand, workflows, fleet scripts | functions of files; configuration |

The parts meet in few places. The gate builds steps and calls the scheduler
(`Gate` EXTENDS `Scheduler`). `app-drive` acquires a port for itself before it
spawns, and hands the claim to the app afterwards, through the ports registry;
every registry command runs under `registry_lock` (`PortRegistry` uses `Mutex`,
which `RegistryLock` implements). The dispatcher talks to GitHub and CNB, which
answer, fail or stay silent. Bootstrap and the lifecycle commands change one
host (`Bootstrap` EXTENDS `Lifecycle`); the audits read what init generates (both in
`RepoInit`); the family check rests on what a requirement admits (both in
`VersionGates`). The other tools share no state
with one another, but each shares its files with whoever else writes them: an
operator, a developer, CI, another run of itself.

What is hard here: threads that finish during a dispatch pass; processes that
take, lose and reclaim a lock file with several system calls each; pids that
change hands between a check and a signal; a daemon that dies between a request
and the write that records it; retries, cooldowns and TTLs that meet late
answers. `PROJECT.json` lists these hazards at their lines, with the properties
that cover them, or with the reason why none does yet.

## 2. The modules

### Scheduler: `run_dag`

`pc` is where the main thread is, `todo` is what is left of the snapshot
`sorted(remaining)` of the present pass, `future[s]` is a step's future from
submission to collection, `statuses` and `remaining` are the variables of the
same name. `Reject` and `Accept` are the validation; `LoopAgain` to `Submit` one
pass; `Await` the blocking `wait` and `GiveUp` the branch that settles what can
never run; `Harvest` records any non-empty set of futures that have finished.
`Start` and `Finish` are the threads of the pool, which move at any time, also
between two steps of a pass. `Interrupt` is Ctrl-C, `HarvestExit` a `SystemExit`
that leaves a runner; `Raise` is the executor's exit, which waits, and
`InterruptJoin` a second Ctrl-C during that wait: run_dag then raises at once and
the pool goes on, so `NoStepOutlivesRun` excepts this end. `GiveUp` walks the
remaining steps in one action: the pool is empty then, and nobody else moves.
The cycle search of `validate_steps` is stated as what it decides (`Cyclic`).

### Gate

The three builders are tuples of step names, because each builder chains its
steps; `Merged` is the call that `gate_cli.main` makes. Names keep the order
that `sorted()` gives them as strings, since the scheduler's verdict on steps
behind a step without a command depends on it. `ExitCode` is `_run`'s.

### Mutex and RegistryLock

`Mutex` is the abstract lock: at most one holder. `RegistryLock` is the O_EXCL
file with one action per system call: `Create` (open), `WritePid`, the waiter's
`Busy` (open fails), `ReadHolder` (contents and `pid_alive`), `FoundStale` (age),
`Reclaim` (unlink), `TimeOut`, `WaitMore`, and the holder's `Unlock`. Processes
crash anywhere, are born and go, and a pid is reused. `GrowOld` lets the file
pass LOCK_STALE; a file is old only if nothing touched it that long, so not
while a process is between its creation and the write of its pid or between two
steps of a check. The file keeps an `owner`, which the code does not know: it
tells what a reclaim really removes.

Two waiters may be about to unlink one file (`Overlap`), and nothing in the code
prevents it. `muddled` is history: it becomes true with an overlap and false again
once nobody is inside or looks at the file. The properties of the run `lock` are of
the time that is not muddled; `lock_reclaim` states the rule as the code's comment
has it. `DeleteShared` says whether an open file can be unlinked (POSIX).

### PortRegistry

One command per CLI process: it takes the lock (`Mutex`), reads the file and
drops what `_gc` drops (`Load`), tries ports one connect at a time (`Probe`), writes
and unlocks (`Save`). A launch does this twice, `acquire` and then, once it has
spawned the app and written its state file (`Spawn`, `Record`), `claim` for the
app; an aborted launch that cannot stop its app claims once more (`keep`).
Apps boot and listen after a while, die, and programs outside celestia listen on
ports of the window. Commands are killed anywhere, between spawn and claim too, and
overlap as they like. Nothing in the code guards against two commands for one app at
once, against an acquire or a release for an app that runs, or against a launcher that
ends with its app unclaimed: all of it happens in the model, and the history variable
`astray` marks the commands and apps it happens to. The properties speak of the others:
what goes wrong with one app must not reach an app to which nothing of the kind happened.
`ClaimSurvivesAcquire` forgives less, and the run `ports_claim` refutes it.

### AppDrive

`launch` and `close` of one app, one command after the other, against an
environment in which any process dies and any pid is given to another program
between two steps. A process has an image and a creation token, as the
identity probe reads them, and may be hidden from inspection. `Ask` is the double
verification of `terminate_verified`; `Send`, `Exited`, `Recheck`, `RefuseKill`, `Kill` and
`CloseFailed` are `terminate_tree`; `why` tells on whose behalf it runs (`close`,
`force`, `replace` or `abort`), which decides what follows. To verify and to signal are
two steps of the code, and of the model: between them the pid can change hands, and the
signal then reaches its new owner. No look can close that gap, so
`OnlyRecordedSignalled` says how small it is: who is signalled is the recorded process
or started after the verification right before the signal (`seen` is how many
processes there had been by then), never during the grace before the kill; and a launch
that ends its own child, whose pid it owns, reaches no other process. `launched`, `excused`,
`seen` and `strayed` are history. The claim kept beside the state is `PortRegistry`'s concern.

### Dispatcher

The daemon's loop over one repository: `Poll` (load and census, of which GitHub
may withhold any part), the spill of one entry at a time (`Skip`, `Defer`,
`StartWorkspace`, `WorkspaceFails`, then the build lane), `Persist` after
each spill, `resolve` over the records (`TtlExpired`, `KeepWaiting`,
`GraceRelease`, `GraceStopFails`, `Settle`, `FindCancelable`, `Cancel`) and
`SaveState`. `jobs` is what CNB really runs, `disk` the file and `mem` the
dict of this loop. A request may be carried out although its reply is lost. An
exception in the loop, or a kill, makes `mem` the file again (`LoopError`,
`Crash`). The timestamps are counted down (`Older`): only whether a TTL has
passed is ever asked. `Tick` may happen during the spills, which take minutes each,
but not inside `resolve`, whose TTL checks read the clock once per record.

### Deployment and operation

- **Lifecycle.** `bin`, `prev`, `failedCopy` are the binaries on disk, `running`
  the one in service, `schema` what the migrations made of the database, `dumped`
  the backups, `ledger` its last line. `Upgrade` and `Rollback` go write by write
  (`doing` is the next); a write is `os.replace`, so it is one step. `Cut` is a kill, or an
  exception that leaves the command: the 600 s limit of a migration, too.
- **Bootstrap.** One action per stage, in order (`Run`), over the same host;
  `options` are the flags, `outcome` the results so far. Lifecycle commands,
  `Uninstall` and an operator's start come between runs.
- **Referee.** A round is `RoundStarts`, `Judge` of each guest in order, `Revert`,
  `Rearm`, `SaveRound`; `LoseRound` ends it before the save. `saved` is the file,
  `mem` the round's dict; `reverted` and `lost` are history. Time is kept as ages: a list
  of reverts has the oldest first and keeps the last few (`LastReverts`, ten in the code), and a round visits the guests least name first.
- **Janitor.** The machine starts, cancels and ends jobs and gives out pids anew
  (`Machine`); the janitor scans and kills one by one (`Sweep`).
- **Judge.** `MalkuthNext` is the supervised worker, `CollectNext` the samples and the
  predicates over them, `ActNext` the approval and its execution, whose calls time out
  before or after they were served. The one `--probe-url` asks this worker or another of
  the fleet (`probed`): then any answer may come, and the report may be worse for the
  others' sake (`Render`).
- **EngineDrop.** The engine edits and commits in its worktree, master moves, a
  sweep goes through `Stage`, `Copy`, `Gates`, `AddWorktree`, `Commit`,
  `PushUpstream`, `OpenPull`, `RemoveWorktree`, `Recycle`; each fails or is killed.
- **Credentials.** `ApplySteps` is the script each runner is sent; `HostCut` cuts the
  connection at any step, `RunnerChanges` is what happens to a runner besides.
- **EnginePack, ExternalReview.** The six steps of an installation over whatever an
  earlier one left; a pack written, sealed, read and recorded while others write to it.
- **DevProcesses, Sandbox, Pglite, ChildEnvs.** The daemon's and the server's processes
  (`DevProcesses`), boxes, sidecars, and what a child's environment is made of: proxies and
  the profiles of `devenv` (`ChildEnvs`). Pid files whose number is given to
  others, children of a manager, boxes and their two sweeps, servers with sidecars,
  and profiles overridden line by line. One action per system call where two commands
  may interleave.

### Building, publishing, branches

- **CargoTools**, the cache guard. `Guard` is one run: measure or believe the sidecar,
  clean, sweep.
- **SiblingLinks.** Worktrees share a `node_modules` and its state file; a run goes
  link by link (`apply_link`) and may be killed between two.
- **Crates.** `CheckVersion`, `PublishOne`, `PublishFails`, `WaitIndex` for each crate
  in dependency order; `IndexShows` is the index, which is late.
- **ReleaseNotes.** `WalkPage` reads a page of a history that grows; a release whose tag
  is lost is walked from its target branch, which is another at each page.
- **Branches.** `StartBroom` lists, `PickBranch` judges one branch, by a `git diff` that
  may fail and so name no file, `WritePatch` and `DeleteBranch` act, while others commit,
  merge and push. `unread` is history: that diff had failed.
- **CargoTools**, register-patches. Runs of several repositories over one user-level config.
- **Cdp.** The list of targets, the handshake, then messages of the app in fragments,
  in any order with control frames; one outstanding request (an evaluation or a
  screenshot); late replies stay unread for the next request to skip. A frame refused at
  its header leaves its payload in the stream of a connection that stays open (`garbled`):
  what is read after it can say anything (`Misread`).

### Gates and audits

- **VersionGates**, the family check. The half-open interval the code computes beside
  what the operators of a requirement mean; declarations, the line, locks and the weld
  window with its day.
- **VersionGates**, verify-versions. The slots of three tracks and `.versions.toml`;
  `VerifyFamily` is the gate.
- **RepoInit.** `Init_` and `InitCut` stage and generate, file by file in the code's order
  (`Ensured`), `InitCheck` is the gate, `Release` moves common.just and the anchor on and
  may change templates (`edition`); people edit callers, and rename and copy them onto one
  another. `CiAudit` and `FleetScan` read the result, here or at the remote branch.
- **LedgerGates.** Three gates that keep a file of what was judged before: the ratchet
  of `type_escapes`, the ledger of `p0_gate`, and the baseline of `domain_leak` with its
  full scan, `--update`, `--prune` and the three hooks, which see another part of the
  repository each, and of that only what git shows them: a name it quotes is out of their
  scope (`HookScope`), a file it fails to show is empty (`Shown`); `overlooked` keeps both.
- **PyStyle.** `check` and `--fix` over a few files: reading, resolving the policy, a fixer
  that gives up or changes the meaning in memory, the tokens compared, the write in place,
  which may be cut (`EndTearing`); developers edit in between. Beside it the import graph
  and its depth-first search, one visit per step.
- **JobTimeouts.** A workflow is the sequence of its lines, classed as the scanner tells
  them apart; a fix reads all files (`FixReads`) and writes them one by one (`FixWrites`,
  `FixKilled`) while authors save others. `reached` and `spoiled` are history: the jobs that
  fixes wrote to since the author's last save, and the files cut or overwritten since.
- **GateSweep, Radar, ChildEnvs.** One run is one action where the tool only
  reads; where it writes or walks, one action per write or item, with edits between.

### MCTools: the composition that is checked

The thirty-two parts above share no state, so their product would multiply states
and show nothing. `ToolsInit` picks one (`part`), starts it from its own `Init`, and
leaves the variables of the others `Off`; `ToolsNext` has one disjunct per part, and
`Rest` says that nothing else moves. Modules that do interact are one part: `deploy`
is `Lifecycle` with `Bootstrap`, `fleet` is generation with the audits. The
properties are stated in the component's module and joined, by what they promise, in
`MCTools`.

## 3. The runs

| run | shows |
|---|---|
| `scheduler` | all eight properties of `Scheduler`, for every list of three steps |
| `gate_modes` | `ModesIndependent`: merged modes end as they would alone |
| `gate_coverage` | *violated* `GreenMeansRan`: with `--coverage` and no cargo-deny installed, `coverage` is skipped as SKIP_DEP, nothing failed, exit code 0 |
| `lock` | `Inv`, `LockImplementsMutex` (refinement), `LiveHolderKeptOrMuddled`, `NoEndlessWait` |
| `lock_reclaim` | *violated* `LiveHolderKept`: two reclaims overlap |
| `lock_windows` | *violated* `NoLeak` when an open file cannot be removed |
| `ports` | `NoCrossWiring`, `ClaimLastsWithApp`, `PortStable`, `NoLostUpdate` |
| `ports_claim` | *violated* `ClaimSurvivesAcquire`: the claim is lost when `acquire` is called for an app that runs |
| `app_drive` | `OnlyRecordedSignalled`, `NoSilentOrphan`, `CommandEnds` |
| `dispatcher` | `OneSpillPerSha`, `OneWorkspacePerHost`, `NoSilentLeak`, `CancelVouched`, `NoChurn`, `EventuallyUntracked` |
| `dispatcher_leak` | *violated* `NoAbandonedSlot`: a failed stop after the check or at the TTL drops the record |
| `tools` | the thirty-two parts of `MCTools`, with the properties below |

| property of `tools` | says |
|---|---|
| `ToolsTypeOK` | each part keeps its types |
| `WayBackKept` | unless a command was cut between two writes, the last good binary is on the host |
| `DeployTellsTruth` | `LedgerIsTrue`; `SuccessIsReal` (exit 0 of a bootstrap); `DryRunIsIdle` |
| `LiveWorkSpared` | `LiveJobsKept` (Janitor); `SweptWorkKept` (Branches): master had what a deleted branch touched, unless git failed to say what that is or quotes the name, and the backup always names the commit |
| `EditsSurvive` | `ContentSurvives` (EngineDrop): what the engine wrote last is in its worktree until it is in a pull request; `FixKeepsMeaning` (PyStyle): a file means what its developer wrote last, but for the one file a cut write tore |
| `HealthJudgedRightly` | `SilenceIsNotHealth`; `RecoveredNotBlamed`; `OneRestartPerApproval` (Judge) |
| `RepairsRationed` | `RevertsRationed` (Referee; one more per lost round, no other, for budgets the file can count), `TimeoutsLandWhole` (JobTimeouts), `ConfiguredMeansWhole` (Credentials) |
| `DoneMeansDone` | `ReplyIsWhole` (Cdp; until a frame is refused at its header), `SuccessMeansIndexed` (Crates), `ShutdownEndsAll` (DevProcesses), `NotesWhole` (ReleaseNotes) |
| `GreenMeansExamined` | `GreenAuditLooked` (RepoInit), `GreenMeansOneLine`, `BlameIsDeserved` (VersionGates), `ClearMeansAnswered`, `LeakGreenLooked` (LedgerGates), `StrictGreenMissesNothing` (GateSweep), `CyclesFoundIfAny` (PyStyle) |
| `RepeatsAgree` | `RegenerationSettles` (RepoInit): what a regeneration leaves to complain of is exactly the callers that stood under other names only, and the next run generates those; `OneAnswerPerScan` (Radar) |
| `ReleasesStayGreen` | a release reddens a checkout only by a template it changes, or for a caller that stands under another name (`ReleaseIsQuiet`, RepoInit) |

For `SiblingLinks`, the daemon of `DevProcesses`, `CargoTools`, `Sandbox`, `Pglite`,
`ChildEnvs`, the ratchet of `LedgerGates`, `ExternalReview` and
`EnginePack` the run
shows types only: what their documents promise, the code does not keep in some
interleaving that the model has (section 5), and what remains would restate a guard.
Their models are there to be asked.

The violations are disagreements of the code with its own comments and
documents, quoted in `PROJECT.json` under "findings". Findings there without a
run were read off the code while it was modelled; the model has the behaviour.

**Bounds, and why they are enough.**
- `scheduler`: three steps, one or two workers. Every list with at most
  one dependency per step (unknown names, self loops, cycles, repeated names, no
  worker), and every acyclic one with up to two in either order: chains, forks,
  joins, and a step that depends on two that fail differently. With three steps
  a step can be ahead of, between and behind its dependencies in sorted order.
- `gate_modes`: all modes alone and all pairs, two workers. `gate_modes`
  leaves `--coverage` out, since `gate_coverage` shows what it does.
- `lock*`: four processes over three pids, each takes the lock once. A
  leftover, a live holder and two waiters are there at the same time, and one
  of them may have the dead holder's pid.
- `ports*`: three commands, two keys, two ports both keys want: two apps
  compete and a third command collects garbage, or two commands overlap on one app
  beside another. Commands are symmetric, and so are apps.
- `app_drive`: two pids, two images, three processes over time: an app,
  its successor, and a stranger in either's place.
- `dispatcher`: two runs of one commit or of two, one lane host, two
  workspaces or builds in all, one crash or failed write; the TTL is two ticks,
  the grace period less than one, cooldowns one. One host for two
  runs makes the host the scarce resource; two jobs allow a
  second spill of what has been forgotten.
- `tools`: per part, the smallest instance in which every action fires and every
  mutant of `PROJECT.json` is caught; `Tools.cfg` names each bound. Three commands of two
  versions: fewer never reach a rollback of a failed upgrade. One guest, a window of
  four ticks, a budget of one revert, one lost round: the window passes, and a
  second revert is asked for within it. Two slots and one build pid that is given
  out again. Two restarts of a worker and two samples to see them. Two paths, two
  edits, two sweeps: a second sweep meets what the first left. Three crates, of
  which one needs both others; two runs. A page of two commits, so that a walk
  has a full page, a short one and a boundary between. Two anchors, a release that changes one
  template or none, two inits, one edit by a person. One ordinary file and one whose name
  git quotes. One cell of damage (`MaxTampers`, `MaxMishaps`, `MaxTreeEdits`) each: the
  promises are about one thing going wrong at a time. Five bounds are guards: the
  engine of `EngineDrop` writes only while another sweep may follow or is under
  way (`BetweenSweeps`), a ledger of `p0_gate` is edited once per run of the
  gate (`NotGated`), the hooks of `domain_leak` run in the first workspace with four
  baselines (`HookRuns`) and at most one file that git keeps from them (`FewFiles`), and
  ci-audit, which reads the checkout alone, runs before a push (`NothingPushed`).

**Fairness.** Scheduler: the main thread is scheduled, a free worker takes
queued work, a command ends; the code has no timeout, so `Terminates` assumes
the last. Lock: waiters are scheduled and their clocks run; nothing is assumed
of a holder, nor that the file grows old, so `NoEndlessWait` rests on the
timeout alone. AppDrive: the command is scheduled; processes need do nothing.
Dispatcher: the daemon loops, time passes (strongly fair, since it stands still
inside `resolve`); neither GitHub nor CNB need answer, no check need end, no run
need be taken by the farm. What `EventuallyUntracked` cannot promise without the last
is written into it: build replies without an `sn` may end every loop before `resolve`.
`PortRegistry` and the parts of `tools` state safety only; what is waited for there
ends by a timeout that the model takes as an alternative.

Deadlock is checked in every run but `tools`, where a tool that has ended stops: in
the others a finished system stutters explicitly (`Stopped`, `AllGone`, `AllDone`).

## 4. The proofs

TLC checks each property on the instance of section 3; the theorems below hold for every
value of the constants, under the assumptions the modules name (`...Assumption`) and
TLC evaluates on every run. Hardly a property is inductive, and few of the types are; each proof module
defines the invariant that is, and TLC checked those of the properties before they were proved. The lemmas of a step
have one case per action. PROJECT.json lists the theorems one by one.

**`SchedulerProofs`**, for every set of names, every list of steps, any dependencies, any
number of workers and any behaviour of the runner: `TypeCorrect`, `DepsSatisfiedFirstHolds`,
`CompleteAtReturnHolds`, `NoStepOutlivesRunHolds`, `FailureContainedHolds`,
`RecordedOnceHolds`. `Inv` adds what relates the three pieces of state: a
remaining step has neither status nor future; a step without a status is
remaining or in flight; one in flight has none; PASS and FAIL come from a
collected future; and what was started, or settled other than by SKIP_DEP, has
its dependencies satisfied. If no runner itself answers SKIP_DEP (`RunnerSilent`),
`SkipRootedHolds` and `PartsIndependentHolds` follow from a second invariant, `SkipInv`: a pass
goes through the steps in sorted order (`PassInOrder`), so that, where every step without
a command sorts before what depends on it (`SkipsInOrder`), a step that is postponed waits for one
that is still pending, or was itself passed over since. That a well-formed graph has no cycle is used on the
SKIP_DEP steps upstream of the one in question. `ModesIndependentHolds` then is about the gate's
own graphs, which are finite: `SkipsInOrder` is read off the names of every merge (`GateInOrder`),
and each mode is a part closed under dependencies. It excludes `--coverage`, where
`coverage` sorts before `deny` and `gate_coverage` shows a step skipped with nothing failed.

**`RegistryLockProofs`**, for every set of processes and pids: `Inv` is
inductive, the lock file implements `Mutex` (`LockIsMutex`) and a live
holder is never evicted (`LiveHolderKeptHolds`), except while `muddled`: nothing is
assumed of the order of reclaims. When an overlap begins nobody is inside
(`OverlapOutside`), and when all who were about are gone every part of the invariant is
true again (`CalmSound`), so that the exception is a window and no more. `Inv` is needed because the verdict of a waiter is read in three
steps: "old and not alive", once read, stays true of the file's
owner (`VerdictStands`), and a waiter about to unlink names a leftover
(`ReclaimsLeftover`). The refinement maps every step to `Enter`,
`Leave` or a stutter.

**`DispatcherProofs`**, for every set of runs, commits and hosts, every threshold and time to
live, with a crash anywhere: all six safety properties. `Inv` relates the three copies of the
state. What holds of a table of records holds of memory and of the file (`Good`: each
record names a job of its commit, no commit and no host twice); while the loop spills,
`spilled_shas` guards every record but the one about to be written (`SpillGuarded`); how
memory is ahead of the file at each place of the loop (`InStep`), so that a crash, which makes
one the other, loses neither; every slot is a record's unless a reply was lost
(`Accounted`); and the run about to be cancelled has a green job of its own (`Vouched`).

**`PortRegistryProofs`**, for every set of commands, keys and windows: `TypeCorrect` and
`NoLostUpdateHolds` from `Base` (one command is inside the lock; what a
command has read differs from the file only in its own key and in claims of the dead).
`NoCrossWiringHolds`, `ClaimLastsWithAppHolds` and `PortStableHolds` are of what is not
astray, and assume nothing of what is: `Inv` adds, for commands and apps that are not, that claims of
the living have different ports, in the file and in every view of it, that no two
commands but acquires are busy with one app, and whose claim stands for an app at each
step of its launch; and that being astray is shared by all who are busy with one app (`Alone`).

**`AppDriveProofs`**, for every set of pids and images, any reuse of pids, any failure:
`OnlyRecordedSignalledHolds` and `NoSilentOrphanHolds`. Creation tokens are never reused and an app that was
launched can be inspected (`TokensBorn`); the target of every termination is the state file's
process or the child's (`Roles`); and whoever must answer for an app is known, by the file or,
while a launch is under way, by its child (`AppsKnown`). `LookedFor` is what a look leaves: until
the next one whoever has the pid is the recorded process or came after it.

**`ToolsProofs`**: every property of the run `tools`. `OfPart` takes a step of the composition to a
step of the part that runs; that a part keeps its invariant is proved in
`OperationProofs` and `RepositoryProofs`. What carries each proof:

- *WayBackKept, DeployTellsTruth* (`DeployInv`): where the good binary is at each of the writes of
  a command (`BinaryKept`), what an upgrade (`UpgradeSound`) and a
  bootstrap (`RunSound`) have done by each of their steps.
- *EditsSurvive*: from its look at the worktree on, a sweep that will recycle has
  what the engine last wrote in its drop or upstream (`DropSound`); a fix writes nothing before it has
  read all, no file twice (`WritesRationed`), and a text that waits to be written, whose file nobody has touched since, means
  what the author meant (`WaitingSound`; finitely many files).
- *HealthJudgedRightly*: each start of a worker has a number of its own, and a bundle that was used names one that is gone (`NumbersSound`,
  `BundleSound`); what ran well, or has hung, since the first sample shows so in each (`SoundKept`, `WedgedKept`),
  and what has hung grows older with the same log (`SilentKept`).
- *LiveWorkSpared*: a process of a running job is no older than its Worker (`BuildsSound`), so that what the scan means to
  kill is of no job that runs, or its number has changed hands (`ScanSound`); of what a sweep has judged
  to be nothing of its own, by a diff that did not fail, master has had each file whose name is not quoted, and the
  patch is of the branch's tip, unless something was committed after the list was made (`ListedSound`).
- *RepairsRationed*: the referee's file and the round's copy of it, entry by entry, count every revert but those of lost
  rounds, for every age up to the window and up to what the file keeps (`CountsSound`), and keep them a cooldown apart; a file that is not spoiled reads
  as its author and the fixes since mean it (`FlowsWhole`), and a fix in progress leaves nothing
  to add to the files it has passed (`FixEnds`); what a script has done by each step is true of
  the runner's files, unless they were cut or a restart is owed (`RunnersInv`).
- *DoneMeansDone*: fragments come in order and of one message while the stream is at a frame boundary (`CdpInv`); what precedes a crate in the order is
  in the index (`CratesInv`, on the order being a permutation of the crates); the children still to reap (`ServeInv`); the pages
  read so far are the newest part of the history (`NotesInv`).
- *GreenMeansExamined*: `P0Inv`, `SweepInv`, `LeakInv`, `VersionsInv` say what a scan has seen by each step;
  `GreenAuditLooked` is itself inductive. `BlameIsDeserved` rests on
  the interval of a comparator being the meaning of its operator, part by part (`OneComparator`). For the cycles, a
  ranking: modules that the search has done with import only modules of lower rank unless a cycle was reported
  (`DoneIsRanked`), so that a cycle, which would have a least rank, has been found (`CyclesFoundIfAny`; finitely many modules).
- *ToolsTypeOK* (`OperationTyped`, `RepositoryTyped`, `EnvironmentTyped`): a type is not inductive where a handler
  reads an entry or a field that some earlier step must have left: what is packed once a packer runs
  (`ReviewTyped`), the prefix an installation has got by its third step (`PackSound`), the files a fix has read among
  those it lists (`ReadListed`), the message of a frame that continues (`CdpTyped`), and for eleven parts the
  invariant of the part itself.
- *RepeatsAgree, ReleasesStayGreen*: file by file, a run leaves each name with the bytes of its template, but
  for the parked ones (`EnsuredOneIs`, `RegeneratesAllButParked`), and for those nothing stands in
  the way of the next run (`SecondRunSettles`); each row of a scan says what this scan has been told (`AnswersKept`).

`TimeoutsLandWhole` rests on `FixIsRight`: what the fixer makes of each text that an author and earlier
fixes can leave. The texts are finitely many and have no constant in them, `Inserted` is a fold over
their lines, and TLC decides the assumption by going through them; what is proved is that no order of
edits, readings, writes and kills brings a file out of this set unnoticed.

**What the proofs corrected.** Failed attempts found these, now in the models: a fetch that fails
in a sweep took the wrong branch of `EngineDrop`; `Frozen` of `Judge` compared the digests that could be
read with the latest sample's, which may have none; a publication of no crate, a runner list of none, and a history shorter than three commits were admitted by the
assumptions; texts and baselines that no file can have were admitted by those of `LedgerGates`, `VersionGates` and
`PyStyle`; that `NoPrefix` is no prefix, `NoPack` no pack and a repository's name a string was nowhere said; the referee's lists had no order; and `TimeoutsLandWhole` held only because the tool ran once: after a second
fix with other flags, a cut write or an edit that was overwritten, the text is another,
which the history variables `reached` and `spoiled` now say, with two runs.

**Only model-checked**: liveness (`Terminates`, `NoEndlessWait`, `CommandEnds`,
`EventuallyUntracked`), which is out of the prover's reach.

## 5. Where the code does not do what it says

The models behave as the code does. These promises of its documents are therefore
stated nowhere as properties, or with the exception written into them:

- *Deploy.* A dry run of the bootstrap on a fresh host ends in FAIL at the install
  stage, and a fresh install cannot exit 0; a second run registers again
  (`bootstrap.py:11-12`); a crash between registering and printing loses the
  password. A retry after a crash that follows the swap writes over `.prev`. A backup
  without a dump is accepted. A migration's timeout leaves `upgrade` midway.
- *Farm.* The referee saves once per round, so a lost round frees budget; a dry run stores
  the reset of its count. It keeps the last ten reverts of a guest (`reverts[-10:]`,
  line 356), so a budget above ten is none (`RevertsRationed` is of budgets up to that). The janitor kills by pid alone, and a Worker it cannot read
  takes the exception from the other slots. The judge asks one endpoint and
  applies the answers to every worker (`fleet.py:397-404`): one that is quiet and well is
  blamed C1 for another's endpoint, and a hung one behind no endpoint is only found by its
  log (both excepted in `HealthJudgedRightly`). A worker that is replaced between
  `check_target` and the call is restarted all the same, by its name. The judge reports a hung worker
  that drains early as ok, and a restart that timed out as unavailable, and the stdio session goes on after a timeout
  although `mcp_stdio.py` calls it dead. A drop-in that is in
  place is believed active; a cut append leaves BEGIN without END and the next strip
  takes what follows with it; cargo's config is rewritten in place; a failing summary
  leaves the packages out.
  A build reply without `sn` raises in the dispatcher's loop (`ci_dispatcherd.py:647`),
  past `note_failure`: while the run stays queued every loop ends so, nothing is
  resolved and no TTL is looked at (`EventuallyUntracked` excepts exactly this).
- *Engine.* "The engine writes a round, the sweep collects a round"
  (`engine_drop.py:879`), but nothing makes them take turns: an edit that is made
  between the copy and the reset is reset away. Deletions are not collected (`tools/README.md:155-156`); a dry sweep makes
  the next `--apply` say already staged, and a kill before MANIFEST burns the id. An
  env is used again whatever its python (`engine_pack.py:27-28`). A review is
  recorded against today's pack unless told; a kill leaves half a pack unsealed.
- *Environment.* A CDP frame that is refused at its header (`cdp.py:126-158`) leaves its payload unread and the
  connection open, and the next request takes those bytes for frames. The daemon and pglite trust a pid that may be another's, and two
  starts orphan one server; pglite waits for READY beyond its 30 s in `readline`, and
  `--force` leaves the old server; package.json is written before an install that may
  fail. `serve` signals only the leader, and a second signal leaves its shutdown
  (`ShutdownEndsAll` is of leaders and of shutdowns that end). The sandbox
  sweeps by the box's own mtime, also a box in use. A custom profile of `devenv`
  without a base fails with KeyError.
- *Layout.* The fixer of `py-style` writes in place, so a kill may truncate the one file it
  is at. A cycle of imports is reported per back edge of the search, neither once each
  nor all of them; `from .pkg import sub` does not count `sub` as a module, the absolute form does.
- *Links and patches.* An overlay killed before `save_state`, and the second worktree of
  one `node_modules`, have no original to go back to. Without any sibling dependency
  `register_patches` takes all siblings, one repository's run drops another's patches,
  and a manual block survives one run only. The cache guard sweeps again while its
  sidecar is stale.
- *Branches.* `a/b` and `a__b` share a patch file; a commit between the diff and
  `branch -D` is lost. A `git diff` that fails, for want of a merge base or of the `--base`
  that was asked for, reads as no file touched, and a name that git quotes (a tab, a quote)
  as identical: such a branch is deleted, with a patch that names its tip and may say
  nothing else (`branch_sweep.py:138-180`).
- *Gates.* A requirement with `||` is the hull of its parts, and `<=` of a partial version is
  too narrow (`BlameIsDeserved` leaves the latter out). Packages that are exempt vote
  in the npm majority, python members without a root line are no track, and a root
  with both a workspace and a package line is judged by one of them.
  `--update-baseline` takes new escapes in, and an unreadable file reads as clean. A list
  flush with its key is misread by `job_timeouts`; an edit between its scan and
  its write is lost. A caller under another name is missing once the anchor has
  moved, and a second one is installed. One whose bytes stand under the name of a later
  caller is passed by for its alias, which the same `init --force` then overwrites: `--check`
  stays red until a second run (`init.py:983-1001`). A release that changes a template
  reddens every checkout that has the former bytes, as `init.py:28-34` means it to. The audit
  lets a job without a timeout pass whose runner a variable names (`workflow_audit.py:328-330`), and
  says that this is deliberate; `GreenAuditLooked` is of jobs that name the farm. The hooks of `domain_leak` look into directories
  the full scan prunes (`_in_scope` says that scope is shared, `domain_leak.py:284`), skip
  what git quotes and read as empty what `git show` fails to show (lines 334-358; both
  excepted by name in `LeakGreenLooked`), and compare the end points of a push only; no scan tells of a
  file it could not read. A lenient sweep of nothing is green. A
  failure of one probe is cached as no release. Without a previous tag the
  notes list a page at most, and newest first.

## 6. What is not modelled

- Scheduler: the search for a cycle as an algorithm; it is stated as what it decides.
- Ports: a forced `launch --port`, which does not ask the registry; pids that
  are reused in the registry file; a read of the file that fails for a
  moment; a stale lock that cannot be unlinked at all.
- AppDrive: two commands for one app at the same time, which nothing
  guards; `targets`, `eval` and `screenshot`, which keep no state.
- Dispatcher: several repositories and their pools (a spill may be deferred
  at any time); the mirror push (it may fail at any time); the census order
  is newest first.
- Deploy: the wizard, the doctor and the probes' reports, which change nothing;
  fetching an artifact is a choice of a version. EngineDrop: the gates are one
  verdict. Credentials: the command for one runner is the case of a list of one.
- Parsers and texts: YAML, TOML, markdown, log lines and reports are classes of
  what the rules tell apart.
- Left out altogether: npm packaging, the single rules and fixers of py-style and
  ts-policy, cache-policy, prefetch, cross_deps, toml_sort, documentation, mobile,
  brand, agent, shim. Each is a function of files, run once: nothing
  interleaves, nothing is kept. Workflows and the shell scripts of machines are configuration
  that is run elsewhere.

## 7. Plan

*Done*: the modules of section 2, the runs of section 3, and a theorem for each
property that is an invariant or says what a step may not do (section 4).

What is left, in the order of its worth:

1. A model of two commands of `app-drive` for one app at a time, the hazard that no
   property covers yet, with a run that shows what is lost.
2. Several repositories in `Dispatcher`, which compete for the hosts of the lane.
3. `PortRegistry` with reads of the file that fail for a moment.
4. Where the code is changed to keep one of the promises of section 5, the model follows,
   the exception leaves the property, and its proof is done again.
