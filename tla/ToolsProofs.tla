----------------------------- MODULE ToolsProofs -----------------------------
(***************************************************************************)
(* The properties of MCTools as theorems, for every value of the constants *)
(* of the tools.  OfPart reduces a step of ToolsNext to a step of one      *)
(* tool; that a tool keeps its inductive invariant is proved in            *)
(* OperationProofs and RepositoryProofs.                                   *)
(***************************************************************************)
EXTENDS MCTools, OperationProofs, RepositoryProofs

\* A step of the tools is a step of the part that runs, or none of it.
LEMMA OfPart ==
    ASSUME [ToolsNext]_toolsVars
    PROVE  /\ part' = part
           /\ part = "deploy" => [BootstrapNext]_bootstrapVars
           /\ part = "judge" => [JudgeNext]_judgeVars
           /\ part = "drop" => [EngineDropNext]_dropVars
           /\ part = "janitor" => [JanitorNext]_janitorVars
           /\ part = "branches" => [BranchesNext]_branchVars
           /\ part = "style" => [PyStyleNext]_styleVars
           /\ part = "fleet" => [FleetNext]_fleetVars
           /\ part = "radar" => [RadarNext]_radarVars
           /\ part = "crates" => [CratesNext]_cratesVars
           /\ part = "serve" => [ServeNext]_serveVars
           /\ part = "cdp" => [CdpNext]_cdpVars
           /\ part = "notes" => [NotesNext]_notesVars
           /\ part = "p0" => [P0Next]_p0Vars
           /\ part = "gates" => [SweepNext]_sweepVars
           /\ part = "leaks" => [LeakNext]_leakVars
           /\ part = "imports" => [ImportsNext]_importVars
           /\ part = "family" => [FamilyVersionsNext]_familyVars
           /\ part = "versions" => [VersionsNext]_versionVars
           /\ part = "referee" => [RefereeNext]_refereeVars
           /\ part = "timeouts" => [TimeoutsNext]_timeoutVars
           /\ part = "runners" => [CredentialsNext]_credVars
<1>1. CASE ToolsNext
  BY <1>1, Zenon
     DEF ToolsNext, Rest, DeployPart, RefereePart, JanitorPart, JudgePart, DropPart, CdpPart,
     LinksPart, CratesPart, BranchesPart, DaemonPart, CachePart, ServePart, SandboxPart,
     PglitePart, DevenvPart, PatchesPart, FamilyPart, ProxyPart, EscapesPart, TimeoutsPart,
     FleetPart, VersionsPart, ReviewPart, EnginePart, P0Part, GatesPart, NotesPart, RadarPart,
     RunnersPart, LeaksPart, StylePart, ImportsPart
<1>2. CASE UNCHANGED toolsVars
  BY <1>2 DEF toolsVars
<1>3. QED
  BY <1>1, <1>2

\* The same of the parts that only ToolsTypeOK is about.
LEMMA OfOtherPart ==
    ASSUME [ToolsNext]_toolsVars
    PROVE  /\ part' = part
           /\ part = "links" => [SiblingLinksNext]_linkVars
           /\ part = "daemon" => [DaemonNext]_daemonVars
           /\ part = "cache" => [CacheGuardNext]_cacheVars
           /\ part = "sandbox" => [SandboxNext]_sandboxVars
           /\ part = "pglite" => [PgliteNext]_pgliteVars
           /\ part = "devenv" => [DevenvNext]_devenvVars
           /\ part = "patches" => [RegisterPatchesNext]_patchVars
           /\ part = "proxy" => [NetproxyNext]_proxyVars
           /\ part = "escapes" => [TypeEscapesNext]_escapeVars
           /\ part = "review" => [ReviewNext]_reviewVars
           /\ part = "engine" => [PackNext]_packVars
<1>1. CASE ToolsNext
  BY <1>1, Zenon
     DEF ToolsNext, Rest, DeployPart, RefereePart, JanitorPart, JudgePart, DropPart, CdpPart,
     LinksPart, CratesPart, BranchesPart, DaemonPart, CachePart, ServePart, SandboxPart,
     PglitePart, DevenvPart, PatchesPart, FamilyPart, ProxyPart, EscapesPart, TimeoutsPart,
     FleetPart, VersionsPart, ReviewPart, EnginePart, P0Part, GatesPart, NotesPart, RadarPart,
     RunnersPart, LeaksPart, StylePart, ImportsPart
<1>2. CASE UNCHANGED toolsVars
  BY <1>2 DEF toolsVars
<1>3. QED
  BY <1>1, <1>2

LEMMA DeployInvHolds == ToolsSpec => [](part = "deploy" => DeployInv)
<1>1. ToolsInit => (part = "deploy" => DeployInv)
  BY DeployStart DEF ToolsInit
<1>2. (part = "deploy" => DeployInv) /\ [ToolsNext]_toolsVars => (part = "deploy" => DeployInv)'
  BY OfPart, DeployTypeStep, BinaryKeptStep, UpgradeSoundStep, RunSoundStep DEF DeployInv
<1>3. QED
  BY <1>1, <1>2, PTL DEF ToolsSpec

(* The way back is kept: whatever upgrades, rollbacks and bootstrap runs    *)
(* fail, the binary that the last successful command left in service is     *)
(* still on the host, as long as no command was cut between two of its      *)
(* writes or replaced a binary without keeping it (lifecycle.py).           *)
THEOREM WayBackKeptHolds == ToolsSpec => []WayBackKept
<1>1. (part = "deploy" => DeployInv) => WayBackKept
  BY DEF WayBackKept, LastGoodKept, DeployInv, BinaryKept, BootstrapTypeOK, LifecycleTypeOK, Steps
<1>2. QED
  BY <1>1, DeployInvHolds, PTL

(* What the deployment says of itself is so: an upgrade's line in the       *)
(* ledger, ok or failed, tells which binary is in place and that the schema *)
(* is not behind it; a bootstrap run that exits 0 and is no plan has left   *)
(* all of the host in place; a dry run writes nothing (lifecycle.py,        *)
(* bootstrap.py, cli.py).                                                   *)
THEOREM DeployTellsTruthHolds == ToolsSpec => DeployTellsTruth
<1>1. (part = "deploy" => DeployInv) /\ [ToolsNext]_toolsVars
        => [part = "deploy" => LedgerIsTrue /\ SuccessIsReal /\ DryRunIsIdle]_toolsVars
  <2>1. SUFFICES ASSUME part = "deploy" => DeployInv, ToolsNext, part = "deploy"
                 PROVE  LedgerIsTrue /\ SuccessIsReal /\ DryRunIsIdle
    OBVIOUS
  <2>2. [BootstrapNext]_bootstrapVars
    BY <2>1, OfPart
  <2>3. QED
    BY <2>1, <2>2, LedgerIsTrueStep, SuccessIsRealStep, DryRunIsIdleStep
<1>2. QED
  BY <1>1, DeployInvHolds, PTL DEF ToolsSpec, DeployTellsTruth

(* What was last written outlasts the tools that touch it: the engine's     *)
(* edit is in its worktree until it is in a pull request, whichever step of *)
(* a sweep or of an apply fails or is killed, and whatever the engine       *)
(* writes meanwhile (_sweep_one); a file means what its developer wrote     *)
(* last, whatever the fixers make of it in memory and wherever the fix is   *)
(* cut, unless it changed between its reading and its writing               *)
(* (run_fix_command).                                                       *)
THEOREM EditsSurviveHolds == ToolsSpec => []EditsSurvive
<1> DEFINE Inv == (part = "drop" => DropInv) /\ (part = "style" => StyleInv)
<1>1. ToolsInit => Inv
  <2>1. SUFFICES ASSUME ToolsInit PROVE Inv
    OBVIOUS
  <2>2. (part = "drop" => EngineDropInit) /\ (part = "style" => PyStyleInit)
    BY <2>1 DEF ToolsInit
  <2>3. QED
    BY <2>2, DropStart, StyleStart
<1>2. Inv /\ [ToolsNext]_toolsVars => Inv'
  BY OfPart, DropInvStep, StyleInvStep, PyStyleAssumption
<1>3. Inv => EditsSurvive
  BY DEF EditsSurvive, DropInv, StyleInv
<1>4. QED
  BY <1>1, <1>2, <1>3, PTL DEF ToolsSpec

(* The judge does not report a worker healthy that has hung since the first *)
(* sample, nor give a critical finding to one that has run well since then, *)
(* whatever malkuth keeps of its past and but for what the endpoint of      *)
(* another worker makes of it (fleet.evaluate, cli._collect); and           *)
(* however often the executor is run with one approved bundle, after a call *)
(* that timed out and was served all the same too, it restarts the worker   *)
(* at most once (act.check_target).                                         *)
THEOREM HealthJudgedRightlyHolds == ToolsSpec => []HealthJudgedRightly
<1> DEFINE Inv == part = "judge" => JudgeInv /\ HealthInv
<1>1. ToolsInit => Inv
  BY JudgeStart, HealthStart DEF ToolsInit
<1>2. Inv /\ [ToolsNext]_toolsVars => Inv'
  <2>1. SUFFICES ASSUME JudgeInv, HealthInv, [JudgeNext]_judgeVars PROVE JudgeInv' /\ HealthInv'
    BY OfPart
  <2>2. JudgeInv'
    BY <2>1, SamplesStep, NumbersStep, BundleStep DEF JudgeInv
  <2>3. HealthInv'
    BY <2>1, HealthStep, SilentStep, SilenceStep DEF HealthInv
  <2>4. QED
    BY <2>2, <2>3
<1>3. Inv => HealthJudgedRightly
  <2>1. SUFFICES ASSUME JudgeInv, HealthInv
                 PROVE  SilenceIsNotHealth /\ RecoveredNotBlamed /\ OneRestartPerApproval
    BY DEF HealthJudgedRightly
  <2>2. OneRestartPerApproval
    BY <2>1 DEF OneRestartPerApproval, JudgeInv, BundleSound
  <2>3. QED
    BY <2>1, <2>2, RecoveredIsNotBlamed DEF HealthInv
<1>4. QED
  BY <1>1, <1>2, <1>3, PTL DEF ToolsSpec

LEMMA LiveInv == ToolsSpec => [](/\ part = "janitor" => JanitorInv
                                 /\ part = "branches" => BranchesInv)
<1> DEFINE Inv == /\ part = "janitor" => JanitorInv
                  /\ part = "branches" => BranchesInv
<1>1. ToolsInit => Inv
  BY JanitorStart, BranchesStart DEF ToolsInit
<1>2. Inv /\ [ToolsNext]_toolsVars => Inv'
  <2> SUFFICES ASSUME Inv, [ToolsNext]_toolsVars
               PROVE  Inv'
    OBVIOUS
  <2>1. part = "janitor" => JanitorInv'
    BY OfPart, JanitorTypeStep, JanitorSoundStep DEF JanitorInv
  <2>2. part = "branches" => BranchesInv'
    BY OfPart, BranchesSoundStep, ListedSoundStep DEF BranchesInv
  <2>3. QED
    BY <2>1, <2>2, OfPart
<1>3. QED
  BY <1>1, <1>2, PTL DEF ToolsSpec

(* What is at work is left alone: the janitor ends no build whose job runs  *)
(* and names no worker a zombie that was not asked to stop a grace ago      *)
(* (ci_orphan_janitor.py), and the branch sweep deletes no branch with work *)
(* master never had, though master, pull requests and developers move       *)
(* between its listing and its delete, except where git could not say what  *)
(* the branch touched, or quotes the name: then, as always, the patch names *)
(* the commit (branch_sweep.py).                                            *)
THEOREM LiveWorkSparedHolds == ToolsSpec => LiveWorkSpared
<1>1. /\ (part = "janitor" => JanitorInv) /\ (part = "branches" => BranchesInv)
      /\ [ToolsNext]_toolsVars
      => [(part = "janitor" => LiveJobsKept) /\ (part = "branches" => SweptWorkKept)]_toolsVars
  BY OfPart, LiveJobsKeptStep, SweptWorkKeptStep
<1>2. QED
  BY <1>1, LiveInv, PTL DEF ToolsSpec, LiveWorkSpared

LEMMA AgreeInv == ToolsSpec => [](/\ part = "fleet" => FleetInv
                                  /\ part = "radar" => AnswersKept)
<1> DEFINE Inv == /\ part = "fleet" => FleetInv
                  /\ part = "radar" => AnswersKept
<1>1. ToolsInit => Inv
  BY FleetStart, RadarStart DEF ToolsInit
<1>2. Inv /\ [ToolsNext]_toolsVars => Inv'
  BY OfPart, FleetInvStep, AnswersStep
<1>3. QED
  BY <1>1, <1>2, PTL DEF ToolsSpec

(* Doing it again says the same: whatever people and releases have done to  *)
(* a checkout, --check complains after an init --force --with-workflows of  *)
(* the callers alone that stood under the names of others only, and after   *)
(* another run of none (repo/init.py); and a scan gives one answer for a    *)
(* name, whatever is released while it runs (radar/radar.py).               *)
THEOREM RepeatsAgreeHolds == ToolsSpec => []RepeatsAgree
<1>1. (part = "radar" => AnswersKept) => (part = "radar" => OneAnswerPerScan)
  BY DEF AnswersKept, OneAnswerPerScan
<1>2. /\ part = "fleet" => FleetInv
      /\ part = "radar" => AnswersKept
      => RepeatsAgree
  BY <1>1 DEF RepeatsAgree, FleetInv
<1>3. QED
  BY <1>2, AgreeInv, PTL

(* A new release of the package alone gives a checkout no drift problem     *)
(* that it did not have but for the templates which the release changes,    *)
(* and for a caller that stands under another name (caller_render_state in  *)
(* repo/init.py), for any history of anchors and of templates.              *)
THEOREM ReleasesStayGreenHolds == ToolsSpec => ReleasesStayGreen
<1>1. (part = "fleet" => FleetInv) /\ [ToolsNext]_toolsVars
      => [part = "fleet" => ReleaseIsQuiet]_toolsVars
  BY OfPart, ReleaseIsQuietStep
<1>2. QED
  BY <1>1, AgreeInv, PTL DEF ToolsSpec, ReleasesStayGreen

(* What reports its end has ended, and whole: the answer of a request is    *)
(* one whole message of the app, until a frame is refused at its header     *)
(* (Cdp), all crates are in the index when they are said to be published    *)
(* (Crates), no child is alive after the shutdown (DevProcesses), and the   *)
(* notes of a release name what lies between the two tags, those of a lost  *)
(* tag no less than was there at the start and no more than is there in     *)
(* the end (ReleaseNotes).                                                  *)
THEOREM DoneMeansDoneHolds == ToolsSpec => []DoneMeansDone
<1> DEFINE Inv == /\ part = "cdp" => CdpInv
                  /\ part = "crates" => CratesInv
                  /\ part = "serve" => ServeInv
                  /\ part = "notes" => NotesInv
<1>1. ToolsInit => Inv
  BY CdpStart, CratesStart, ServeStart, NotesStart DEF ToolsInit
<1>2. Inv /\ [ToolsNext]_toolsVars => Inv'
  BY OfPart, CdpInvStep, CratesInvStep, ServeInvStep, NotesInvStep
<1>3. Inv => DoneMeansDone
  <2>1. CdpInv => ReplyIsWhole
    BY DEF CdpInv, CdpSound, ReplyIsWhole
  <2>2. CratesInv => SuccessMeansIndexed
    BY DEF CratesInv, SuccessMeansIndexed
  <2>3. ServeInv => ShutdownEndsAll
    BY DEF ServeInv, ShutdownEndsAll
  <2>4. NotesInv => NotesWhole
    BY DEF NotesInv
  <2>5. QED
    BY <2>1, <2>2, <2>3, <2>4 DEF DoneMeansDone
<1>4. QED
  BY <1>1, <1>2, <1>3, PTL DEF ToolsSpec

(* A gate that is green has looked, and one that blames is right: green,    *)
(* p0-gate has read every manifest and found nothing open that it does not  *)
(* tell, the credential sweep misses no literal that was there throughout   *)
(* it, verify-versions has compared every slot of one line, domain-leak     *)
(* knows what leaks in the files that git shows it, and an audit has looked *)
(* at all it vouches for, which is every job that names the farm itself; a  *)
(* requirement that family-versions blames admits no version of the line,   *)
(* and one of a single branch that admits none is blamed                    *)
(* (family_versions.py); and py-style reports a cycle of imports if and     *)
(* only if there is one (check_import_cycles).                              *)
THEOREM GreenMeansExaminedHolds == ToolsSpec => []GreenMeansExamined
<1> DEFINE Inv == /\ part = "fleet" => GreenAuditLooked
                  /\ part = "versions" => VersionsInv
                  /\ part = "family" => FamilyInv
                  /\ part = "p0" => P0Inv
                  /\ part = "gates" => SweepInv
                  /\ part = "leaks" => LeakInv
                  /\ part = "imports" => ImportsInv
<1>1. ToolsInit => Inv
  <2>1. SUFFICES ASSUME ToolsInit PROVE Inv
    OBVIOUS
  <2>2. /\ part = "fleet" => FleetInit
        /\ part = "versions" => VersionsInit
        /\ part = "family" => FamilyVersionsInit
        /\ part = "p0" => P0Init
        /\ part = "gates" => SweepInit
        /\ part = "leaks" => LeakInit
        /\ part = "imports" => ImportsInit
    BY <2>1 DEF ToolsInit
  <2>3. QED
    BY <2>2, AuditLookedStart, VersionsStart, FamilyStart, P0Start, SweepStart, LeakStart,
       ImportsStart
<1>2. Inv /\ [ToolsNext]_toolsVars => Inv'
  <2> SUFFICES ASSUME Inv, [ToolsNext]_toolsVars
               PROVE  Inv'
    OBVIOUS
  <2>1. part = "fleet" => GreenAuditLooked'
    BY OfPart, AuditLookedStep
  <2>2. part = "versions" => VersionsInv'
    BY OfPart, VersionsInvStep
  <2>3. part = "family" => FamilyInv'
    BY OfPart, FamilyInvStep
  <2>4. (part = "p0" => P0Inv') /\ (part = "gates" => SweepInv')
    BY OfPart, P0Step, SweepStep
  <2>5. part = "leaks" => LeakInv'
    BY OfPart, LeakInvStep
  <2>6. part = "imports" => ImportsInv'
    BY OfPart, ImportsInvStep, ImportsAssumption
  <2>7. QED
    BY <2>1, <2>2, <2>3, <2>4, <2>5, <2>6, OfPart
<1>3. Inv => GreenMeansExamined
  <2>1. VersionsInv => GreenMeansOneLine
    BY DEF VersionsInv, OneLine, GreenMeansOneLine
  <2>2. FamilyInv => BlameIsDeserved
    BY BlameDeserved
  <2>3. (P0Inv => ClearMeansAnswered) /\ (SweepInv => StrictGreenMissesNothing)
    BY DEF P0Inv, SweepInv
  <2>4. LeakInv => LeakGreenLooked
    BY DEF LeakInv
  <2>5. ImportsInv => CyclesFoundIfAny
    BY CyclesAreFound
  <2>6. QED
    BY <2>1, <2>2, <2>3, <2>4, <2>5 DEF GreenMeansExamined
<1>4. QED
  BY <1>1, <1>2, <1>3, PTL DEF ToolsSpec

(* What repairs by itself keeps within its rations and does the whole of    *)
(* what it reports: the referee reverts a guest no more often within a day  *)
(* than its budget allows, if that is no more than its file keeps, and not  *)
(* again before the cooldown, but for rounds that were lost before their    *)
(* state was written (ci_farm_heartbeat_referee.process_vm); a fix of the timeouts that       *)
(* reports its count has given each job in scope its own and left every     *)
(* other line alone, whatever authors save and wherever earlier fixes were  *)
(* cut (job_timeouts._run_fix); and a host reported configured has every    *)
(* setting of every runner, once (ci_runner_credentials).                   *)
THEOREM RepairsRationedHolds == ToolsSpec => []RepairsRationed
<1> DEFINE Inv == /\ part = "referee" => RefereeInv
                  /\ part = "timeouts" => TimeoutsInv
                  /\ part = "runners" => RunnersInv
<1>1. ToolsInit => Inv
  BY RefereeStart, TimeoutsStart, RunnersStart DEF ToolsInit
<1>2. Inv /\ [ToolsNext]_toolsVars => Inv'
  BY OfPart, RefereeStep, TimeoutsStep, RunnersStep
<1>3. Inv => RepairsRationed
  BY RationedWell, LandedWhole, ConfiguredWhole DEF RepairsRationed
<1>4. QED
  BY <1>1, <1>2, <1>3, PTL DEF ToolsSpec

-----------------------------------------------------------------------------
(* Types: npm sibling links *)

LEMMA LinksTypeStart == SiblingLinksInit => SiblingLinksTypeOK
  BY SiblingLinksAssumption DEF SiblingLinksInit, SiblingLinksTypeOK, NoLinks, Files, LinkStates,
     Keys, Targets, Recorded

LEMMA LinksTypeStep ==
    ASSUME SiblingLinksTypeOK, [SiblingLinksNext]_linkVars
    PROVE  SiblingLinksTypeOK'
<1>1. ASSUME NEW v \in RegistryVersions, InstallSiblings(v) PROVE SiblingLinksTypeOK'
  BY <1>1, SiblingLinksAssumption DEF InstallSiblings, SiblingLinksTypeOK, Files, LinkStates,
     Targets, Keys, Recorded
<1>2. ASSUME NEW d \in Deps, MoveCheckout(d) PROVE SiblingLinksTypeOK'
  BY <1>2, SiblingLinksAssumption DEF MoveCheckout, SiblingLinksTypeOK, Files, LinkStates, Targets,
     Keys, Recorded
<1>3. ASSUME NEW d \in Deps, Unpack(d) PROVE SiblingLinksTypeOK'
  BY <1>3, SiblingLinksAssumption DEF Unpack, SiblingLinksTypeOK, Files, LinkStates, Targets, Keys,
     Recorded
<1>4. ASSUME NEW w \in Worktrees, NEW force \in BOOLEAN,
             StartOverlay(w, force)
      PROVE  SiblingLinksTypeOK'
  BY <1>4, SiblingLinksAssumption DEF StartOverlay, SiblingLinksTypeOK, PlannedLinks, Files,
     LinkStates, Targets, Keys, Recorded
<1>5. ASSUME NEW w \in Worktrees, NEW d \in Deps, apply_link(w, d) PROVE SiblingLinksTypeOK'
  <2>0. Entry(w, d) \in Recorded /\ Replaces(w, d) \in Recorded
    BY SiblingLinksAssumption DEF SiblingLinksTypeOK, Entry, Replaces, Recorded, LinkStates, Keys,
       Targets, Files
  <2>1. ASSUME NEW e \in Recorded, Records(w, d, e) PROVE links' \in [Worktrees -> LinkStates]
    BY <2>1 DEF SiblingLinksTypeOK, Records, LinkStates, Keys
  <2>2. links' \in [Worktrees -> LinkStates]
    BY <1>5, <2>0, <2>1 DEF SiblingLinksTypeOK, apply_link
  <2>3. placed' \in [Deps -> Files]
    BY <1>5 DEF SiblingLinksTypeOK, apply_link, Files, Targets
  <2>4. ASSUME NEW changes \in BOOLEAN, Applied(w, d, changes)
        PROVE  /\ state' \in LinkStates /\ linking' \in [Worktrees -> SUBSET Deps]
               /\ dirty' \in [Worktrees -> BOOLEAN]
    BY <2>2, <2>4 DEF SiblingLinksTypeOK, Applied
  <2>5. QED
    BY <1>5, <2>2, <2>3, <2>4 DEF SiblingLinksTypeOK, apply_link
<1>6. ASSUME NEW w \in Worktrees, OverlayKilled(w) PROVE SiblingLinksTypeOK'
  BY <1>6, SiblingLinksAssumption DEF OverlayKilled, SiblingLinksTypeOK, Files, LinkStates, Targets,
     Keys, Recorded
<1>7. ASSUME NEW w \in Worktrees, RemoveLinks(w) PROVE SiblingLinksTypeOK'
  BY <1>7, SiblingLinksAssumption DEF RemoveLinks, SiblingLinksTypeOK, Own, Restored, Keys, Files,
     LinkStates, Targets, Recorded
<1>8. CASE UNCHANGED linkVars
  BY <1>8, SiblingLinksAssumption DEF linkVars, SiblingLinksTypeOK, Files, LinkStates, Targets,
     Keys, Recorded
<1>9. QED
  BY <1>1, <1>2, <1>3, <1>4, <1>5, <1>6, <1>7, <1>8 DEF SiblingLinksNext

-----------------------------------------------------------------------------
(* Types: the external review *)

PackThere == packer # 0 => packs[reviewDay] # NoPack
ReviewTyped == DOMAIN packs = ReviewDays /\ DOMAIN reports = ReviewDays /\ PackThere

LEMMA ReviewPacks ==
    /\ Len(PackOrder) = 3 /\ EmptyPack \in PackContents
    /\ \A files \in PackContents : WrittenSeal(files) \in Seals
    /\ \A p \in Packed : p # NoPack
    /\ \A i \in 1..3 : PackOrder[i] \in PackNames
<1>1. Len(PackOrder) = 3
  BY DEF PackOrder
<1>2. EmptyPack \in PackContents /\ \A files \in PackContents : PackFiles(files) \in PackContents
  BY DEF EmptyPack, PackContents, PackFiles, Content
<1>3. QED
  BY <1>1, <1>2, NoPackAssumption DEF WrittenSeal, Seals, PackNames

LEMMA ReviewTypeStart == ReviewInit => ReviewTypeOK /\ ReviewTyped
<1>1. \A b \in BOOLEAN : [overdue |-> b, note |-> b] \in [overdue : BOOLEAN, note : BOOLEAN]
  OBVIOUS
<1>2. ReviewInit => due \in [overdue : BOOLEAN, note : BOOLEAN]
  BY <1>1 DEF ReviewInit
<1>3. ReviewInit => /\ \A d \in ReviewDays : packs[d] = NoPack /\ reports[d] = NoReview
                    /\ packer \in 0..Len(PackOrder) + 1 /\ reviewDay \in ReviewDays /\ tampers \in 0..MaxTampers
                    /\ reviewAnswer = NoAnswer /\ ReviewTyped
  BY ExternalReviewAssumption, ReviewPacks DEF ReviewInit, ReviewTyped, PackThere, ReviewDays
<1>4. QED
  BY <1>2, <1>3 DEF ReviewTypeOK

LEMMA ReviewTypeStep ==
    ASSUME ReviewTypeOK, ReviewTyped, [ReviewNext]_reviewVars
    PROVE  ReviewTypeOK' /\ ReviewTyped'
<1>1. CASE PackStart
  <2>1. [files |-> EmptyPack, seal |-> NoSeal] \in Packed
    BY ReviewPacks DEF Packed
  <2>2. QED
    BY <1>1, <2>1, ReviewPacks DEF PackStart, ReviewTypeOK, ReviewTyped, PackThere
<1>2. CASE PackWrite
  <2>1. ASSUME Voided PROVE ReviewTypeOK' /\ ReviewTyped'
    BY <1>2, <2>1 DEF PackWrite, Voided, ReviewTypeOK, ReviewTyped, PackThere
  <2>2. ASSUME ~Voided PROVE ReviewTypeOK' /\ ReviewTyped'
    <3>1. /\ packs' = [packs EXCEPT ![reviewDay].files[PackOrder[packer]] = "packed"]
          /\ packer \in 1..3 /\ packer' = packer + 1 /\ reviewDay \in ReviewDays
          /\ UNCHANGED <<reviewAnswer, reports, reviewDay, due, tampers>>
      BY <1>2, <2>2, ReviewPacks DEF PackWrite, ReviewTypeOK
    <3> DEFINE pack == packs[reviewDay]
               files == [pack.files EXCEPT ![PackOrder[packer]] = "packed"]
    <3>2. pack \in Packed
      BY <3>1 DEF ReviewTyped, PackThere, ReviewTypeOK
    <3>3. files \in PackContents
      BY <3>2 DEF Packed, PackContents, Content
    <3>4. packs' = [packs EXCEPT ![reviewDay] = [pack EXCEPT !.files = files]]
      BY <3>1
    <3> HIDE DEF files, pack
    <3>5. [pack EXCEPT !.files = files] \in Packed
      BY <3>2, <3>3 DEF Packed
    <3>6. ASSUME NEW q \in Packed, packs' = [packs EXCEPT ![reviewDay] = q]
          PROVE  ReviewTypeOK' /\ ReviewTyped'
      BY <3>1, <3>6, ReviewPacks DEF ReviewTypeOK, ReviewTyped, PackThere
    <3>7. QED
      BY <3>4, <3>5, <3>6, ReviewPacks DEF ReviewTypeOK, ReviewTyped, PackThere
  <2>3. QED
    BY <2>1, <2>2
<1>3. CASE WriteSeal
  <2>1. ASSUME Voided PROVE ReviewTypeOK' /\ ReviewTyped'
    BY <1>3, <2>1 DEF WriteSeal, Voided, ReviewTypeOK, ReviewTyped, PackThere
  <2>2. ASSUME ~Voided PROVE ReviewTypeOK' /\ ReviewTyped'
    <3> DEFINE pack == packs[reviewDay]
    <3>1. /\ packs' = [packs EXCEPT ![reviewDay] = [pack EXCEPT !.seal = WrittenSeal(pack.files)]]
          /\ packer # 0 /\ packer' = 0 /\ reviewDay \in ReviewDays
          /\ UNCHANGED <<reviewAnswer, reports, reviewDay, due, tampers>>
      BY <1>3, <2>2, ReviewPacks DEF WriteSeal, ReviewTypeOK
    <3>2. pack \in Packed
      BY <3>1 DEF ReviewTyped, PackThere, ReviewTypeOK
    <3>3. WrittenSeal(pack.files) \in Seals
      BY <3>2, ReviewPacks DEF Packed
    <3> HIDE DEF pack
    <3>4. [pack EXCEPT !.seal = WrittenSeal(pack.files)] \in Packed
      BY <3>2, <3>3 DEF Packed
    <3>5. QED
      BY <3>1, <3>4 DEF ReviewTypeOK, ReviewTyped, PackThere
  <2>3. QED
    BY <2>1, <2>2
<1>4. CASE PackKilled
  BY <1>4 DEF PackKilled, ReviewTypeOK, ReviewTyped, PackThere
<1>5. CASE Tamper
  <2>1. PICK on \in ReviewDays :
          /\ packs[on] # NoPack
          /\ \/ \E f \in PackNames, c \in Content \ {"packed"} : packs' = [packs EXCEPT ![on].files[f] = c]
             \/ /\ packs[on].seal # NoSeal
                /\ packs' = [packs EXCEPT ![on].seal.entries = PackFiles(packs[on].files)]
             \/ /\ packer = 0 \/ on # reviewDay
                /\ packs' = [packs EXCEPT ![on] = NoPack]
    BY <1>5 DEF Tamper
  <2>2. /\ tampers' \in 0..MaxTampers
        /\ UNCHANGED <<packer, reviewAnswer, reports, reviewDay, due>>
    BY <1>5, ExternalReviewAssumption DEF Tamper, ReviewTypeOK
  <2> DEFINE pack == packs[on]
  <2>3. pack \in Packed
    BY <2>1 DEF ReviewTypeOK
  <2>4. ASSUME NEW q \in Packed, packs' = [packs EXCEPT ![on] = q]
        PROVE  ReviewTypeOK' /\ ReviewTyped'
    BY <2>2, <2>4, ReviewPacks DEF ReviewTypeOK, ReviewTyped, PackThere
  <2>5. ASSUME NEW f \in PackNames, NEW c \in Content, packs' = [packs EXCEPT ![on].files[f] = c]
        PROVE  ReviewTypeOK' /\ ReviewTyped'
    <3> DEFINE files == [pack.files EXCEPT ![f] = c]
    <3>1. files \in PackContents
      BY <2>3 DEF Packed, PackContents
    <3>2. packs' = [packs EXCEPT ![on] = [pack EXCEPT !.files = files]]
      BY <2>5
    <3> HIDE DEF files, pack
    <3>3. [pack EXCEPT !.files = files] \in Packed
      BY <2>3, <3>1 DEF Packed
    <3>4. QED
      BY <2>4, <3>2, <3>3
  <2>6. ASSUME packs[on].seal # NoSeal,
               packs' = [packs EXCEPT ![on].seal.entries = PackFiles(packs[on].files)]
        PROVE  ReviewTypeOK' /\ ReviewTyped'
    <3> DEFINE seal == [pack.seal EXCEPT !.entries = PackFiles(pack.files)]
    <3>1. pack.seal \in Seals /\ PackFiles(pack.files) \in PackContents
      BY <2>3, <2>6 DEF Packed, PackFiles, PackContents, Content
    <3>2. seal \in Seals
      BY <3>1 DEF Seals
    <3>3. packs' = [packs EXCEPT ![on] = [pack EXCEPT !.seal = seal]]
      BY <2>6
    <3> HIDE DEF seal, pack
    <3>4. [pack EXCEPT !.seal = seal] \in Packed
      BY <2>3, <3>2 DEF Packed
    <3>5. QED
      BY <2>4, <3>3, <3>4
  <2>7. ASSUME packer = 0 \/ on # reviewDay, packs' = [packs EXCEPT ![on] = NoPack]
        PROVE  ReviewTypeOK' /\ ReviewTyped'
    BY <2>2, <2>7 DEF ReviewTypeOK, ReviewTyped, PackThere
  <2>8. QED
    BY <2>1, <2>5, <2>6, <2>7
<1>6. CASE Review
  BY <1>6 DEF Review, ReviewTypeOK, ReviewTyped, PackThere
<1>7. CASE Status
  <2>1. due' \in [overdue : BOOLEAN, note : BOOLEAN]
    <3>1. \A b, c \in BOOLEAN : [overdue |-> b, note |-> c] \in [overdue : BOOLEAN, note : BOOLEAN]
      OBVIOUS
    <3>2. LegacyNote \in BOOLEAN /\ (LastReview = 0 \/ CycleDaysLeft(reviewDay) <= 0) \in BOOLEAN
      BY DEF LegacyNote
    <3>3. QED
      BY <1>7, <3>1, <3>2, Zenon DEF Status
  <2>2. QED
    BY <1>7, <2>1 DEF Status, ReviewTypeOK, ReviewTyped, PackThere
<1>8. CASE NextReviewDay
  BY <1>8, ExternalReviewAssumption DEF NextReviewDay, ReviewTypeOK, ReviewTyped, PackThere,
     ReviewDays
<1>9. ASSUME NEW named \in ReviewDays, NEW allowUnsealed \in BOOLEAN,
             Record(named, allowUnsealed)
      PROVE  ReviewTypeOK' /\ ReviewTyped'
  <2>1. PICK b \in BOOLEAN : reports' = [reports EXCEPT ![reviewDay] = [of |-> reviewAnswer, pack |-> named, stamped |-> b]]
    BY <1>9 DEF Record
  <2>2. [of |-> reviewAnswer, pack |-> named, stamped |-> b] \in [of : ReviewDays, pack : ReviewDays, stamped : BOOLEAN]
    BY <1>9 DEF Record, ReviewTypeOK
  <2>3. QED
    BY <1>9, <2>1, <2>2 DEF Record, ReviewTypeOK, ReviewTyped, PackThere
<1>10. CASE UNCHANGED reviewVars
  BY <1>10 DEF reviewVars, ReviewTypeOK, ReviewTyped, PackThere
<1>11. QED
  BY <1>1, <1>2, <1>3, <1>4, <1>5, <1>6, <1>7, <1>8, <1>9, <1>10 DEF ReviewNext

-----------------------------------------------------------------------------
(* Types: the engine pack *)

PackRuns == [at : 0..6, env : EnvSpec \cup {NoEnvSection}, force : BOOLEAN]

\* The step of the packages finds an env.
PackSound == installing.at > 2 /\ ~Native => prefix # NoPrefix

LEMMA PackStepsAre ==
    /\ Len(PackSteps) = 6
    /\ PackSteps[1] = "conda" /\ PackSteps[2] = "env" /\ PackSteps[3] = "pip"
    /\ PackSteps[4] = "unit" /\ PackSteps[5] = "service" /\ PackSteps[6] = "health"
    /\ 0..Len(PackSteps) = 0..6 /\ 1..Len(PackSteps) = 1..6
BY DEF PackSteps

\* What an install may be, and what a step that has passed makes of it.
LEMMA PackInstalls ==
    /\ Idle \in PackRuns /\ Idle.at = 0
    /\ \A e \in EnvSpec \cup {NoEnvSection}, f \in BOOLEAN : [at |-> 1, env |-> e, force |-> f] \in PackRuns
    /\ PackTypeOK => /\ installing \in PackRuns
                     /\ [installing EXCEPT !.force = FALSE] \in PackRuns
                     /\ installing.at < 6 => [installing EXCEPT !.at = installing.at + 1] \in PackRuns
<1>1. Idle \in PackRuns /\ Idle.at = 0
  BY DEF Idle, PackRuns
<1>2. \A e \in EnvSpec \cup {NoEnvSection}, f \in BOOLEAN : [at |-> 1, env |-> e, force |-> f] \in PackRuns
  BY DEF PackRuns
<1>3. ASSUME PackTypeOK
      PROVE  /\ installing \in PackRuns
             /\ [installing EXCEPT !.force = FALSE] \in PackRuns
             /\ installing.at < 6 => [installing EXCEPT !.at = installing.at + 1] \in PackRuns
  <2>1. installing \in PackRuns
    BY <1>3, PackStepsAre DEF PackTypeOK, PackRuns
  <2>2. \A b \in BOOLEAN : [installing EXCEPT !.force = b] \in PackRuns
    BY <2>1 DEF PackRuns
  <2>3. \A i \in 0..6 : [installing EXCEPT !.at = i] \in PackRuns
    BY <2>1 DEF PackRuns
  <2>4. installing.at \in 0..6
    BY <2>1 DEF PackRuns
  <2>5. [installing EXCEPT !.force = FALSE] \in PackRuns
    BY <2>2, Zenon
  <2>6. installing.at < 6 => [installing EXCEPT !.at = installing.at + 1] \in PackRuns
    BY <2>3, <2>4
  <2>7. QED
    BY <2>1, <2>5, <2>6
<1>4. QED
  BY <1>1, <1>2, <1>3

LEMMA PackPasses ==
    ASSUME PackTypeOK, installing.at < 6, Passed
    PROVE  installing' \in PackRuns /\ installing'.at = installing.at + 1 /\ Native' = Native
BY PackInstalls DEF Passed, Native, PackRuns

\* An env that was created, or removed, is one that may be there.
LEMMA PackPrefixes ==
    ASSUME PackTypeOK
    PROVE  /\ \A whole \in BOOLEAN : ~Native => Created(whole) \in Prefix
           /\ EnvExists => Removed \subseteq Prefix \cup {NoPrefix}
<1>1. ASSUME NEW whole \in BOOLEAN, ~Native PROVE Created(whole) \in Prefix
  <2>1. installing.env \in EnvSpec
    BY <1>1 DEF PackTypeOK, Native
  <2>2. installing.env.python \in Pythons
    BY <2>1 DEF EnvSpec
  <2>3. CASE prefix = NoPrefix
    BY <2>2, <2>3 DEF Created, Prefix
  <2>4. CASE prefix # NoPrefix
    BY <2>2, <2>4 DEF Created, Prefix, PackTypeOK
  <2>5. QED
    BY <2>3, <2>4
<1>2. ASSUME EnvExists PROVE Removed \subseteq Prefix \cup {NoPrefix}
  BY <1>2 DEF EnvExists, Removed, Prefix, PackTypeOK
<1>3. QED
  BY <1>1, <1>2

LEMMA PackTypeStart == PackInit => PackTypeOK /\ PackSound
<1>1. PackInit => meta \in Meta
  <2>1. \A m \in [env : EnvSpec \cup {NoEnvSection}, valid : {TRUE}] : m \in Meta
    BY DEF Meta
  <2>2. QED
    BY <2>1 DEF PackInit
<1>2. PackInit => installing \in PackRuns /\ PackSound
  BY PackInstalls DEF PackInit, PackSound, PackRuns
<1>3. QED
  BY <1>1, <1>2, PackStepsAre DEF PackInit, PackTypeOK, PackRuns

LEMMA PackTypeStep ==
    ASSUME PackTypeOK, PackSound, [PackNext]_packVars
    PROVE  PackTypeOK' /\ PackSound'
<1>1. CASE StartInstall
  <2>1. installing' \in PackRuns
    BY <1>1, PackInstalls DEF StartInstall, PackTypeOK, Meta
  <2>2. PackSound'
    BY <1>1 DEF StartInstall, PackSound, Idle, Native
  <2>3. QED
    BY <1>1, <2>1, <2>2, PackStepsAre DEF StartInstall, PackTypeOK, PackRuns
<1>2. CASE EnsureMiniforge
  <2>1. installing.at = 1
    BY <1>2, PackStepsAre DEF EnsureMiniforge, AtStep
  <2>2. CASE Failed
    BY <1>2, <2>2, PackStepsAre, PackInstalls DEF EnsureMiniforge, Failed, PackTypeOK, PackSound,
       PackRuns
  <2>3. CASE Passed
    <3>1. installing' \in PackRuns /\ installing'.at = 2
      BY <2>1, <2>3, PackPasses
    <3>2. QED
      BY <1>2, <2>3, <3>1, PackStepsAre DEF EnsureMiniforge, Passed, PackTypeOK, PackSound, PackRuns
  <2>4. QED
    BY <1>2, <2>2, <2>3 DEF EnsureMiniforge
<1>3. CASE EnsureEnv
  <2>1. installing.at = 2
    BY <1>3, PackStepsAre DEF EnsureEnv, AtStep
  <2>2. prefix' \in Prefix \cup {NoPrefix}
    BY <1>3, PackPrefixes DEF EnsureEnv, PackTypeOK
  <2>3. CASE Failed
    BY <1>3, <2>2, <2>3, PackStepsAre, PackInstalls DEF EnsureEnv, Failed, PackTypeOK, PackSound,
       PackRuns
  <2>4. CASE Passed /\ (~Native => prefix' # NoPrefix)
    <3>1. installing' \in PackRuns /\ Native' = Native
      BY <2>1, <2>4, PackPasses
    <3>2. QED
      BY <1>3, <2>2, <2>4, <3>1, PackStepsAre DEF EnsureEnv, Passed, PackTypeOK, PackSound, PackRuns
  <2>5. CASE installing' = [installing EXCEPT !.force = FALSE] /\ UNCHANGED packOutcome
    <3>1. installing' \in PackRuns /\ installing'.at = 2
      BY <2>1, <2>5, PackInstalls DEF PackRuns
    <3>2. QED
      BY <1>3, <2>2, <2>5, <3>1, PackStepsAre DEF EnsureEnv, PackTypeOK, PackSound, PackRuns
  <2>6. EnvExists => prefix # NoPrefix
    BY DEF EnvExists
  <2>7. ~Native => Created(TRUE) # NoPrefix
    BY PackPrefixes, NoPrefixAssumption
  <2>8. QED
    BY <1>3, <2>3, <2>4, <2>5, <2>6, <2>7 DEF EnsureEnv
<1>4. CASE EnsurePip
  <2>1. installing.at = 3
    BY <1>4, PackStepsAre DEF EnsurePip, AtStep
  <2>2. ASSUME ~Native, NEW some \in SUBSET installing.env.packages
        PROVE  /\ [prefix EXCEPT !.packages = @ \cup some] \in Prefix
               /\ [prefix EXCEPT !.packages = @ \cup installing.env.packages,
                                 !.record = installing.env.packages] \in Prefix
    <3>1. prefix \in Prefix
      BY <2>1, <2>2 DEF PackSound, PackTypeOK
    <3>2. installing.env.packages \in SUBSET Packages
      BY <2>2 DEF PackTypeOK, Native, EnvSpec
    <3>3. QED
      BY <2>2, <3>1, <3>2 DEF Prefix
  <2>3. prefix' = prefix \/ (~Native /\ prefix' \in Prefix)
    BY <1>4, <2>2 DEF EnsurePip
  <2>4. CASE Failed
    BY <1>4, <2>3, <2>4, PackStepsAre, PackInstalls DEF EnsurePip, Failed, PackTypeOK, PackSound,
       PackRuns
  <2>5. CASE Passed
    <3>1. installing' \in PackRuns /\ Native' = Native
      BY <2>1, <2>5, PackPasses
    <3>2. PackSound'
      BY <2>1, <2>3, <3>1, NoPrefixAssumption DEF PackSound
    <3>3. QED
      BY <1>4, <2>3, <2>5, <3>1, <3>2, PackStepsAre DEF EnsurePip, Passed, PackTypeOK, PackRuns
  <2>6. QED
    BY <1>4, <2>4, <2>5 DEF EnsurePip
<1>5. CASE WriteUnit
  <2>1. installing.at = 4
    BY <1>5, PackStepsAre DEF WriteUnit, AtStep
  <2>2. installing' \in PackRuns /\ Native' = Native
    BY <1>5, <2>1, PackPasses DEF WriteUnit
  <2>3. PackSound'
    BY <1>5, <2>1, <2>2 DEF WriteUnit, PackSound
  <2>4. QED
    BY <1>5, <2>2, <2>3, PackStepsAre DEF WriteUnit, Passed, PackTypeOK, PackRuns
<1>6. CASE Activate
  <2>1. installing.at = 5
    BY <1>6, PackStepsAre DEF Activate, AtStep
  <2>2. service' \in {"stopped", "serving", "failing"}
    BY <1>6 DEF Activate, PackTypeOK
  <2>3. CASE Failed
    BY <1>6, <2>2, <2>3, PackStepsAre, PackInstalls DEF Activate, Failed, PackTypeOK, PackSound,
       PackRuns
  <2>4. CASE Passed
    <3>1. installing' \in PackRuns /\ Native' = Native
      BY <2>1, <2>4, PackPasses
    <3>2. PackSound'
      BY <1>6, <2>1, <3>1 DEF Activate, PackSound
    <3>3. QED
      BY <1>6, <2>2, <2>4, <3>1, <3>2, PackStepsAre DEF Activate, Passed, PackTypeOK, PackRuns
  <2>5. QED
    BY <1>6, <2>3, <2>4 DEF Activate
<1>7. CASE WaitForHealth
  BY <1>7, PackStepsAre, PackInstalls DEF WaitForHealth, PackTypeOK, PackSound, PackRuns
<1>8. CASE VerifyHealth
  BY <1>8 DEF VerifyHealth, PackTypeOK, PackSound, Native
<1>9. CASE InstallCut
  <2>1. prefix' \in Prefix \cup {NoPrefix}
    BY <1>9, PackPrefixes DEF InstallCut, PackTypeOK
  <2>2. QED
    BY <1>9, <2>1, PackStepsAre, PackInstalls DEF InstallCut, PackTypeOK, PackSound, PackRuns
<1>10. CASE EditPack
  BY <1>10 DEF EditPack, PackTypeOK, PackSound, Native
<1>11. CASE UNCHANGED packVars
  BY <1>11 DEF packVars, PackTypeOK, PackSound, Native
<1>12. QED
  BY <1>1, <1>2, <1>3, <1>4, <1>5, <1>6, <1>7, <1>8, <1>9, <1>10, <1>11 DEF PackNext

-----------------------------------------------------------------------------
(* Types: sandboxes *)

LEMMA SandboxTypeStart == SandboxInit => SandboxTypeOK
  BY SandboxAssumption DEF SandboxInit, SandboxTypeOK

LEMMA SandboxTypeStep ==
    ASSUME SandboxTypeOK, [SandboxNext]_sandboxVars
    PROVE  SandboxTypeOK'
<1>1. CASE BoxAges
  BY <1>1, SandboxAssumption DEF BoxAges, SandboxTypeOK
<1>2. ASSUME NEW r \in Wrappers, NewSandbox(r) PROVE SandboxTypeOK'
  BY <1>2, SandboxAssumption DEF NewSandbox, SandboxTypeOK, WrapperGoes
<1>3. ASSUME NEW r \in Wrappers, RunCommand(r) PROVE SandboxTypeOK'
  <2>1. \A b \in BOOLEAN : [leader |-> b, others |-> FALSE] \in [leader : BOOLEAN, others : BOOLEAN]
    OBVIOUS
  <2>2. PICK b \in BOOLEAN : command' = command \/ command' = [command EXCEPT ![r] = [leader |-> b, others |-> FALSE]]
    BY <1>3 DEF RunCommand
  <2>3. command' \in [Wrappers -> [leader : BOOLEAN, others : BOOLEAN]]
    BY <2>1, <2>2 DEF SandboxTypeOK
  <2>4. QED
    BY <1>3, <2>3 DEF SandboxTypeOK, RunCommand, WrapperGoes
<1>4. ASSUME NEW r \in Wrappers, CommandForks(r) PROVE SandboxTypeOK'
  BY <1>4, SandboxAssumption DEF CommandForks, SandboxTypeOK
<1>5. ASSUME NEW r \in Wrappers, CommandExits(r) PROVE SandboxTypeOK'
  BY <1>5, SandboxAssumption DEF CommandExits, SandboxTypeOK
<1>6. ASSUME NEW r \in Wrappers, OthersExit(r) PROVE SandboxTypeOK'
  BY <1>6, SandboxAssumption DEF OthersExit, SandboxTypeOK
<1>7. ASSUME NEW r \in Wrappers, SeesExit(r) PROVE SandboxTypeOK'
  BY <1>7, SandboxAssumption DEF SeesExit, SandboxTypeOK, WrapperGoes
<1>8. ASSUME NEW r \in Wrappers, TimesOut(r) PROVE SandboxTypeOK'
  BY <1>8, SandboxAssumption DEF TimesOut, SandboxTypeOK, WrapperGoes
<1>9. ASSUME NEW r \in Wrappers, Interrupted(r) PROVE SandboxTypeOK'
  BY <1>9, SandboxAssumption DEF Interrupted, SandboxTypeOK, WrapperGoes
<1>10. ASSUME NEW r \in Wrappers, LeaderEnded(r) PROVE SandboxTypeOK'
  BY <1>10, SandboxAssumption DEF LeaderEnded, SandboxTypeOK, WrapperGoes
<1>11. ASSUME NEW r \in Wrappers, CleansUp(r) PROVE SandboxTypeOK'
  BY <1>11, SandboxAssumption DEF CleansUp, SandboxTypeOK, WrapperGoes
<1>12. ASSUME NEW r \in Wrappers, WrapperKilled(r) PROVE SandboxTypeOK'
  BY <1>12, SandboxAssumption DEF WrapperKilled, SandboxTypeOK, WrapperGoes
<1>13. ASSUME NEW r \in Wrappers, SweepBoxes(r) PROVE SandboxTypeOK'
  BY <1>13, SandboxAssumption DEF SweepBoxes, SandboxTypeOK
<1>14. CASE UNCHANGED sandboxVars
  BY <1>14, SandboxAssumption DEF sandboxVars, SandboxTypeOK
<1>15. QED
  BY <1>1, <1>2, <1>3, <1>4, <1>5, <1>6, <1>7, <1>8, <1>9, <1>10, <1>11, <1>12, <1>13, <1>14 DEF
     SandboxNext

-----------------------------------------------------------------------------
(* Types: pglite *)

LEMMA PgliteTypeStart == PgliteInit => PgliteTypeOK
<1>1. 0 \in 0..MaxPgliteCommands
  BY PgliteAssumption
<1>2. /\ Nobody \in [is : {"none", "stranger", "boots", "ready", "stops"}, of : Instances \cup {NoServer}]
      /\ NoCall \in [step : {"none", "start", "spawn", "wait", "stop", "stopping"},
                     of : Instances \cup {NoServer}, pid : ServerPids \cup {NoServer}]
  BY DEF Nobody, NoCall
<1>3. PgliteInit => /\ pgSidecar \in [Instances -> ServerPids \cup {NoServer}] /\ packages \in BOOLEAN
                    /\ pgliteCommands \in 0..MaxPgliteCommands
  BY <1>1 DEF PgliteInit
<1>4. QED
  BY <1>2, <1>3 DEF PgliteInit, PgliteTypeOK

LEMMA PgliteTypeStep ==
    ASSUME PgliteTypeOK, [PgliteNext]_pgliteVars
    PROVE  PgliteTypeOK'
<1>1. ASSUME NEW c \in Callers, EnsureNodePackages(c) PROVE PgliteTypeOK'
  <2>1. Does(c, [call[c] EXCEPT !.step = "spawn"]) \/ Does(c, NoCall)
    BY <1>1 DEF EnsureNodePackages
  <2>2. call' \in [Callers -> [step : {"none", "start", "spawn", "wait", "stop", "stopping"},
                               of : Instances \cup {NoServer}, pid : ServerPids \cup {NoServer}]]
    BY <2>1 DEF PgliteTypeOK, Does, NoCall
  <2>3. QED
    BY <1>1, <2>2 DEF PgliteTypeOK, EnsureNodePackages
<1>2. ASSUME NEW c \in Callers, SpawnServer(c) PROVE PgliteTypeOK'
  <2>1. PICK p \in ServerPids : /\ servers' = [servers EXCEPT ![p] = [is |-> "boots", of |-> call[c].of]]
                                /\ Does(c, [call[c] EXCEPT !.step = "wait", !.pid = p])
    BY <1>2 DEF SpawnServer
  <2>2. call[c] \in [step : {"none", "start", "spawn", "wait", "stop", "stopping"},
                     of : Instances \cup {NoServer}, pid : ServerPids \cup {NoServer}]
    BY DEF PgliteTypeOK
  <2>3. call' \in [Callers -> [step : {"none", "start", "spawn", "wait", "stop", "stopping"},
                               of : Instances \cup {NoServer}, pid : ServerPids \cup {NoServer}]]
    BY <2>1, <2>2 DEF PgliteTypeOK, Does
  <2>4. servers' \in [ServerPids -> [is : {"none", "stranger", "boots", "ready", "stops"},
                                     of : Instances \cup {NoServer}]]
    BY <2>1, <2>2 DEF PgliteTypeOK
  <2>5. QED
    BY <1>2, <2>3, <2>4 DEF PgliteTypeOK, SpawnServer
<1>3. ASSUME NEW c \in Callers, ReadReady(c) PROVE PgliteTypeOK'
  BY <1>3, PgliteAssumption DEF ReadReady, PgliteTypeOK, Does, NoCall
<1>4. ASSUME NEW c \in Callers, NotReady(c) PROVE PgliteTypeOK'
  BY <1>4, PgliteAssumption DEF NotReady, PgliteTypeOK, Nobody, Does, NoCall
<1>5. ASSUME NEW c \in Callers, TermServer(c) PROVE PgliteTypeOK'
  <2>1. PICK p : servers' = [servers EXCEPT ![p] = IF @ \in {Nobody, Stranger} THEN Nobody
                                                   ELSE [@ EXCEPT !.is = "stops"]]
    BY <1>5 DEF TermServer
  <2>2. servers' \in [ServerPids -> [is : {"none", "stranger", "boots", "ready", "stops"},
                                     of : Instances \cup {NoServer}]]
    <3> DEFINE Server == [is : {"none", "stranger", "boots", "ready", "stops"},
                          of : Instances \cup {NoServer}]
    <3>1. Nobody \in Server /\ \A s \in Server : [s EXCEPT !.is = "stops"] \in Server
      BY DEF Nobody
    <3>2. servers \in [ServerPids -> Server]
      BY DEF PgliteTypeOK
    <3> HIDE DEF Server
    <3>3. servers' \in [ServerPids -> Server]
      BY <2>1, <3>1, <3>2
    <3>4. QED
      BY <3>3 DEF Server
  <2>3. call' \in [Callers -> [step : {"none", "start", "spawn", "wait", "stop", "stopping"},
                               of : Instances \cup {NoServer}, pid : ServerPids \cup {NoServer}]]
    BY <1>5 DEF PgliteTypeOK, TermServer, Does
  <2>4. QED
    BY <1>5, <2>2, <2>3 DEF PgliteTypeOK, TermServer
<1>6. ASSUME NEW c \in Callers, ClearSidecar(c) PROVE PgliteTypeOK'
  BY <1>6, PgliteAssumption DEF ClearSidecar, PgliteTypeOK, Does, NoCall
<1>7. ASSUME NEW c \in Callers, NEW i \in Instances, PgliteStart(c, i) PROVE PgliteTypeOK'
  BY <1>7, PgliteAssumption DEF PgliteStart, PgliteTypeOK, NoCall, Does, ProcAlive, Nobody
<1>8. ASSUME NEW c \in Callers, NEW i \in Instances, PgliteStop(c, i) PROVE PgliteTypeOK'
  BY <1>8, PgliteAssumption DEF PgliteStop, PgliteTypeOK, NoCall, ProcAlive, Does, Nobody
<1>9. ASSUME NEW p \in ServerPids, ServerReady(p) PROVE PgliteTypeOK'
  BY <1>9, PgliteAssumption DEF ServerReady, PgliteTypeOK
<1>10. ASSUME NEW p \in ServerPids, ServerEnds(p) PROVE PgliteTypeOK'
  BY <1>10, PgliteAssumption DEF ServerEnds, PgliteTypeOK, Nobody
<1>11. ASSUME NEW p \in ServerPids, NumberReused(p) PROVE PgliteTypeOK'
  BY <1>11, PgliteAssumption DEF NumberReused, PgliteTypeOK, Nobody, Stranger
<1>12. CASE UNCHANGED pgliteVars
  BY <1>12, PgliteAssumption DEF pgliteVars, PgliteTypeOK
<1>13. QED
  BY <1>1, <1>2, <1>3, <1>4, <1>5, <1>6, <1>7, <1>8, <1>9, <1>10, <1>11, <1>12 DEF PgliteNext

-----------------------------------------------------------------------------
(* Types: the build-cache guard, and the registering of patches *)

\* Both kinds of artifacts are sizes: what a build leaves behind was there.
TargetTyped == target \in [live : 0..DISK, stale : 0..DISK]

LEMMA CacheTypes ==
    /\ CacheGuardInit => CacheGuardTypeOK /\ TargetTyped
    /\ CacheGuardTypeOK /\ TargetTyped /\ [CacheGuardNext]_cacheVars => CacheGuardTypeOK' /\ TargetTyped'
<1> USE CacheGuardAssumption DEF CacheGuardTypeOK, TargetTyped, cacheVars, Size, Free
<1>1. CacheGuardInit => CacheGuardTypeOK /\ TargetTyped
  BY DEF CacheGuardInit
<1>2. ASSUME CacheGuardTypeOK, TargetTyped, CacheGuardNext PROVE CacheGuardTypeOK' /\ TargetTyped'
  <2>1. CASE Build
    BY <1>2, <2>1 DEF Build
  <2>2. CASE OthersUse \/ TimePasses
    BY <1>2, <2>2 DEF OthersUse, TimePasses
  <2>3. CASE Guard
    <3>1. /\ target' = target \/ target' = [live |-> 0, stale |-> 0] \/ target' = [target EXCEPT !.stale = 0]
          /\ others' = others /\ guarded' \in {"skip", "none", "cargo-clean", "soft-clean"}
      BY <2>3 DEF Guard, CargoClean
    <3>2. TargetTyped' /\ target'.live + target'.stale <= target.live + target.stale
      BY <1>2, <3>1
    <3>3. sidecar' = sidecar \/ sidecar' = NoSidecar \/ sidecar' = [size |-> Size, age |-> 0]
      BY <2>3 DEF Guard, CargoClean, Measured
    <3>4. (sidecar = NoSidecar \/ sidecar \in [size : 0..DISK, age : 0..RECHECK_INTERVAL])'
      BY <1>2, <3>3
    <3>5. QED
      BY <1>2, <3>1, <3>2, <3>4
  <2>4. QED
    BY <1>2, <2>1, <2>2, <2>3 DEF CacheGuardNext
<1>3. QED
  BY <1>1, <1>2

LEMMA PatchesTypes ==
    /\ RegisterPatchesInit => RegisterPatchesTypeOK
    /\ RegisterPatchesTypeOK /\ [RegisterPatchesNext]_patchVars => RegisterPatchesTypeOK'
<1> USE RegisterPatchesAssumption DEF RegisterPatchesTypeOK, patchVars, CargoConfig, NoRegister, Registers
<1>1. RegisterPatchesInit => RegisterPatchesTypeOK
  BY DEF RegisterPatchesInit
<1>2. ASSUME RegisterPatchesTypeOK, RegisterPatchesNext PROVE RegisterPatchesTypeOK'
  <2>1. ASSUME NEW r \in Repos, StartRegister(r) PROVE RegisterPatchesTypeOK'
    <3>1. registers' \in 0..MaxRegisters
      BY <1>2, <2>1 DEF StartRegister
    <3>2. \A d \in SUBSET Siblings : Sections(d) \subseteq Siblings
      BY <1>2 DEF Sections
    <3>3. register' \in [Repos -> [step : {"none", "read", "write"}, sections : SUBSET Siblings,
                                   read : CargoConfig]]
      <4>1. CASE UNCHANGED register
        BY <1>2, <4>1
      <4>2. CASE \E d \in SUBSET Siblings :
                    Registers(r, [NoRegister EXCEPT !.step = "read", !.sections = Sections(d)])
        <5>1. PICK d \in SUBSET Siblings :
                 Registers(r, [NoRegister EXCEPT !.step = "read", !.sections = Sections(d)])
          BY <4>2
        <5> DEFINE record == [NoRegister EXCEPT !.step = "read", !.sections = Sections(d)]
        <5>2. record \in [step : {"none", "read", "write"}, sections : SUBSET Siblings, read : CargoConfig]
          BY <3>2
        <5> HIDE DEF record
        <5>3. register' = [register EXCEPT ![r] = record]
          BY <5>1, Zenon DEF record
        <5>4. QED
          BY <1>2, <5>2, <5>3
      <4>3. \A d \in {UsedBy[r], {}} : d \subseteq Siblings
        OBVIOUS
      <4>4. QED
        BY <2>1, <4>1, <4>2, <4>3 DEF StartRegister
    <3>4. QED
      BY <1>2, <2>1, <3>1, <3>3 DEF StartRegister
  <2>2. ASSUME NEW r \in Repos, CleanStale(r) PROVE RegisterPatchesTypeOK'
    <3> DEFINE cleaned == [cargoConfig EXCEPT !.outside = @ \cap cargoManifests]
               record == [register[r] EXCEPT !.step = "write", !.read = cleaned]
    <3>1. cleaned \in CargoConfig
      BY <1>2
    <3>2. register[r] \in [step : {"none", "read", "write"}, sections : SUBSET Siblings,
                            read : CargoConfig]
      BY <1>2
    <3>3. register' = [register EXCEPT ![r] = record] /\ cargoConfig' \in {cleaned, cargoConfig}
          /\ UNCHANGED <<cargoManifests, registers>>
      BY <2>2, Zenon DEF CleanStale
    <3> HIDE DEF cleaned
    <3>4. record \in [step : {"none", "read", "write"}, sections : SUBSET Siblings,
                      read : CargoConfig]
      BY <3>1, <3>2
    <3> HIDE DEF record
    <3>5. QED
      BY <1>2, <3>1, <3>3, <3>4
  <2>3. ASSUME NEW r \in Repos, WriteConfig(r) PROVE RegisterPatchesTypeOK'
    BY <1>2, <2>3 DEF WriteConfig, Stripped
  <2>4. CASE UserEdits \/ CheckoutMoves
    BY <1>2, <2>4 DEF UserEdits, CheckoutMoves
  <2>5. QED
    BY <1>2, <2>1, <2>2, <2>3, <2>4 DEF RegisterPatchesNext
<1>3. QED
  BY <1>1, <1>2

-----------------------------------------------------------------------------
(* Types: the environments of child processes *)

LEMMA DevenvTypes ==
    /\ DevenvInit => DevenvTypeOK
    /\ DevenvTypeOK /\ [DevenvNext]_devenvVars => DevenvTypeOK'
<1> USE DEF DevenvTypeOK, devenvVars
<1>1. DevenvInit => DevenvTypeOK
  <2>1. SUFFICES ASSUME DevenvInit PROVE DevenvTypeOK
    OBVIOUS
  <2>2. DOMAIN toml = {}
    BY <2>1 DEF DevenvInit
  <2>3. devenv.exit = "none" /\ devenv.env = [v \in Variables |-> "unset"]
    BY <2>1 DEF DevenvInit
  <2>4. callers = {} /\ unknownSvc = FALSE
    BY <2>1 DEF DevenvInit
  <2>5. QED
    BY <2>2, <2>3, <2>4
<1>2. ASSUME DevenvTypeOK, DevenvNext PROVE DevenvTypeOK'
  <2>1. CASE EditToml
    <3>1. PICK p \in Profiles, s \in Gateways, v \in Values :
             toml' = [q \in {p} \cup DOMAIN toml |->
                         IF q = p THEN WithEntry(p, s, v) ELSE toml[q]]
      BY <2>1 DEF EditToml
    <3> DEFINE had == IF p \in DOMAIN toml THEN toml[p] ELSE [x \in {} |-> x]
    <3>2. DOMAIN had \subseteq Gateways /\ \A x \in DOMAIN had : had[x] \in Values
      BY <1>2 DEF Range
    <3>3. WithEntry(p, s, v) = [x \in {s} \cup DOMAIN had |-> IF x = s THEN v ELSE had[x]]
      BY DEF WithEntry, OwnEntries
    <3> HIDE DEF had
    <3>4. DOMAIN WithEntry(p, s, v) \subseteq Gateways /\ Range(WithEntry(p, s, v)) \subseteq Values
      BY <3>2, <3>3 DEF Range
    <3>5. \A q \in DOMAIN toml' : /\ q \in Profiles
                                  /\ DOMAIN toml'[q] \subseteq Gateways
                                  /\ Range(toml'[q]) \subseteq Values
      BY <1>2, <3>1, <3>4
    <3>6. QED
      BY <1>2, <2>1, <3>5 DEF EditToml
  <2>2. CASE NameUnknownService \/ CallerExports
    BY <1>2, <2>2 DEF NameUnknownService, CallerExports
  <2>3. ASSUME NEW p \in Profiles, NEW extra \in SUBSET Variables, RunWith(p, extra)
        PROVE  DevenvTypeOK'
    <3>1. ASSUME NEW v \in Variables, DOMAIN PortsOf(p) = Gateways
          PROVE  PortsOf(p)[ServiceOf[v]] \in {"default", "toml"}
      BY <3>1 DEF PortsOf, Gateways, Variables, Range
    <3>2. /\ devenv'.exit \in {"none", "ran", "refused", "KeyError"}
          /\ devenv'.env \in [Variables -> {"unset", "caller", "set", "default", "toml"}]
      BY <2>3, <3>1 DEF RunWith
    <3>3. QED
      BY <1>2, <2>3, <3>2 DEF RunWith
  <2>4. QED
    BY <1>2, <2>1, <2>2, <2>3 DEF DevenvNext
<1>3. QED
  BY <1>1, <1>2

LEMMA PlacesAre == Len(Places) \in Nat /\ DOMAIN Places = 1..Len(Places)
<1> DEFINE S == STRING \cup {"explicit", "git", "wpad"}
<1>1. \A x \in S : <<x>> \in Seq(S)
  <2> HIDE DEF S
  <2>1. QED
    OBVIOUS
<1>2. EnvNames \in Seq(S) /\ Addresses \in Seq(S)
  <2>1. \A v \in Seq(STRING) : v \in Seq(S)
    OBVIOUS
  <2>2. QED
    BY <2>1, NetproxyAssumption
<1>3. \A u, v \in Seq(S) : u \o v \in Seq(S)
  <2> HIDE DEF S
  <2>1. QED
    BY ConcatProperties
<1>4. "explicit" \in S /\ "git" \in S /\ "wpad" \in S
  OBVIOUS
<1> HIDE DEF S
<1>5. Places \in Seq(S)
  BY <1>1, <1>2, <1>3, <1>4 DEF Places
<1>6. QED
  BY <1>5

\* The place that is found is one of those asked.
LEMMA FirstProxyIs == FirstProxy # 0 => FirstProxy \in DOMAIN Places
<1> DEFINE found == {i \in 1..Len(Places) : IsProxy(Places[i])}
<1>1. FirstProxy = IF found # {} THEN Min(found) ELSE 0
  BY DEF FirstProxy, SelectInSeq
<1>2. ASSUME found # {} PROVE Min(found) \in found
  <2>1. Len(Places) \in Nat
    BY PlacesAre
  <2>2. found \subseteq Nat
    BY <2>1
  <2>3. \E i \in found : \A j \in found : i <= j
    <3> HIDE DEF found
    <3>1. QED
      BY <1>2, <2>2, HasLeast
  <2>4. QED
    BY <2>3 DEF Min
<1>3. QED
  <2>1. DOMAIN Places = 1..Len(Places)
    BY PlacesAre
  <2>2. QED
    BY <1>1, <1>2, <2>1

LEMMA NetproxyTypes ==
    /\ NetproxyInit => NetproxyTypeOK
    /\ NetproxyTypeOK /\ [NetproxyNext]_proxyVars => NetproxyTypeOK'
<1> USE DEF NetproxyTypeOK, proxyVars
<1>1. NetproxyInit => NetproxyTypeOK
  BY DEF NetproxyInit
<1>2. ASSUME NetproxyTypeOK, NetproxyNext PROVE NetproxyTypeOK'
  <2>1. CASE Offer \/ Flags \/ ChildEnv
    BY <1>2, <2>1 DEF Offer, Flags, ChildEnv
  <2>2. CASE Detect
    <3>1. IsProxy("explicit") => "explicit" \in PlaceNames
      <4>1. Places[1] = "explicit" /\ 1 \in DOMAIN Places
        BY NetproxyAssumption DEF Places
      <4>2. QED
        BY <4>1 DEF PlaceNames, Range
    <3>2. FirstProxy # 0 => Places[FirstProxy] \in PlaceNames
      <4>1. FirstProxy # 0 => FirstProxy \in DOMAIN Places
        BY FirstProxyIs
      <4>2. QED
        BY <4>1 DEF PlaceNames, Range
    <3>3. QED
      BY <1>2, <2>2, <3>1, <3>2 DEF Detect
  <2>3. QED
    BY <1>2, <2>1, <2>2 DEF NetproxyNext
<1>3. QED
  BY <1>1, <1>2

-----------------------------------------------------------------------------
(* Every tool keeps its types *)

\* The tools that operate a host keep their types.  A type is inductive only
\* beside what its lemma asks for: which variables are functions on what, and
\* the invariant of the part when a handler reads a field of what another
\* wrote.
OperationTyped ==
    /\ part = "judge" => JudgeTypeOK /\ JudgeTyped /\ JudgeInv
    /\ part = "drop" => EngineDropTypeOK /\ DropPlaces /\ DropInv
    /\ part = "cdp" => CdpTypeOK /\ CdpTyped /\ CdpInv
    /\ part = "branches" => BranchesTypeOK
    /\ part = "referee" => RefereeTypeOK /\ RefereeInv
    /\ part = "daemon" => DaemonTypeOK
    /\ part = "serve" => ServeTypeOK
    /\ part = "timeouts" => JobTimeoutsTypeOK /\ TimeoutsInv
    /\ part = "runners" => CredentialsTypeOK /\ RunnersInv

LEMMA OperationTypes == ToolsSpec => []OperationTyped
<1>1. ToolsInit => OperationTyped
  <2>1. SUFFICES ASSUME ToolsInit PROVE OperationTyped
    OBVIOUS
  <2>2. /\ part = "judge" => JudgeInit
        /\ part = "drop" => EngineDropInit
        /\ part = "cdp" => CdpInit
        /\ part = "branches" => BranchesInit
        /\ part = "referee" => RefereeInit
        /\ part = "daemon" => DaemonInit
        /\ part = "serve" => ServeInit
        /\ part = "timeouts" => TimeoutsInit
        /\ part = "runners" => CredentialsInit
    BY <2>1, Zenon DEF ToolsInit
  <2>3. QED
    BY <2>2, JudgeTypeStart, JudgeStart, DropTypeStart, DropStart, CdpTypeStart, CdpStart,
       BranchesTypeStart, RefereeTypeStart, RefereeStart, DaemonTypeStart, ServeTypeStart,
       TimeoutsTypeStart, TimeoutsStart, CredTypeStart, RunnersStart, Zenon DEF OperationTyped
<1>2. OperationTyped /\ [ToolsNext]_toolsVars => OperationTyped'
  <2> SUFFICES ASSUME OperationTyped, [ToolsNext]_toolsVars PROVE OperationTyped'
    OBVIOUS
  <2>0. /\ part' = part
        /\ part = "judge" => [JudgeNext]_judgeVars
        /\ part = "drop" => [EngineDropNext]_dropVars
        /\ part = "cdp" => [CdpNext]_cdpVars
        /\ part = "branches" => [BranchesNext]_branchVars
        /\ part = "referee" => [RefereeNext]_refereeVars
        /\ part = "daemon" => [DaemonNext]_daemonVars
        /\ part = "serve" => [ServeNext]_serveVars
        /\ part = "timeouts" => [TimeoutsNext]_timeoutVars
        /\ part = "runners" => [CredentialsNext]_credVars
    BY OfPart, OfOtherPart, Zenon
  <2>1. part = "judge" => JudgeTypeOK' /\ JudgeTyped' /\ JudgeInv'
    BY <2>0, JudgeTypeStep, SamplesStep, NumbersStep, BundleStep, Zenon DEF OperationTyped, JudgeInv
  <2>2. part = "drop" => EngineDropTypeOK' /\ DropPlaces' /\ DropInv'
    BY <2>0, DropTypeStep, DropInvStep, Zenon DEF OperationTyped
  <2>3. part = "cdp" => CdpTypeOK' /\ CdpTyped' /\ CdpInv'
    BY <2>0, CdpTypeStep, CdpInvStep, Zenon DEF OperationTyped
  <2>4. part = "branches" => BranchesTypeOK'
    BY <2>0, BranchesTypeStep, Zenon DEF OperationTyped
  <2>5. part = "referee" => RefereeTypeOK' /\ RefereeInv'
    BY <2>0, RefereeTypeStep, RefereeStep, Zenon DEF OperationTyped
  <2>6. part = "daemon" => DaemonTypeOK'
    BY <2>0, DaemonTypeStep, Zenon DEF OperationTyped
  <2>7. part = "serve" => ServeTypeOK'
    BY <2>0, ServeTypeStep, Zenon DEF OperationTyped
  <2>8. part = "timeouts" => JobTimeoutsTypeOK' /\ TimeoutsInv'
    BY <2>0, TimeoutsTypeStep, TimeoutsStep, Zenon DEF OperationTyped
  <2>9. part = "runners" => CredentialsTypeOK' /\ RunnersInv'
    BY <2>0, CredTypeStep, RunnersStep, Zenon DEF OperationTyped
  <2>10. QED
    BY <2>0, <2>1, <2>2, <2>3, <2>4, <2>5, <2>6, <2>7, <2>8, <2>9, Zenon DEF OperationTyped
<1>3. QED
  BY <1>1, <1>2, PTL DEF ToolsSpec

\* The tools that check and publish a repository keep theirs.
RepositoryTyped ==
    /\ part = "crates" => CratesTypeOK /\ CratesInv
    /\ part = "family" => FamilyVersionsTypeOK
    /\ part = "versions" => VersionsTypeOK
    /\ part = "p0" => P0TypeOK
    /\ part = "leaks" => LeakTypeOK
    /\ part = "gates" => SweepTypeOK /\ SweepInv
    /\ part = "notes" => NotesTypeOK /\ ReleasesKnown /\ NotesInv
    /\ part = "radar" => RadarTypeOK /\ RadarTyped
    /\ part = "style" => PyStyleTypeOK /\ ReadListed /\ StyleInv
    /\ part = "imports" => ImportsTypeOK
    /\ part = "fleet" => FleetTypeOK /\ FleetInv

LEMMA RepositoryTypes == ToolsSpec => []RepositoryTyped
<1>1. ToolsInit => RepositoryTyped
  <2>1. SUFFICES ASSUME ToolsInit PROVE RepositoryTyped
    OBVIOUS
  <2>2. /\ part = "crates" => CratesInit
        /\ part = "family" => FamilyVersionsInit
        /\ part = "versions" => VersionsInit
        /\ part = "p0" => P0Init
        /\ part = "leaks" => LeakInit
        /\ part = "gates" => SweepInit
        /\ part = "notes" => NotesInit
        /\ part = "radar" => RadarInit
        /\ part = "style" => PyStyleInit
        /\ part = "imports" => ImportsInit
        /\ part = "fleet" => FleetInit
    BY <2>1, Zenon DEF ToolsInit
  <2>3. QED
    BY <2>2, CratesTypeStart, CratesStart, FamilyTypeStart, VersionsTypeStart, P0TypeStart,
       LeakTypeStart, SweepTypeStart, SweepStart, NotesTypeStart, NotesStart, RadarTypeStart,
       StyleTypeStart, StyleStart, ImportsTypeStart, FleetTypeStart, FleetStart, Zenon DEF RepositoryTyped
<1>2. RepositoryTyped /\ [ToolsNext]_toolsVars => RepositoryTyped'
  <2> SUFFICES ASSUME RepositoryTyped, [ToolsNext]_toolsVars PROVE RepositoryTyped'
    OBVIOUS
  <2>0. /\ part' = part
        /\ part = "crates" => [CratesNext]_cratesVars
        /\ part = "family" => [FamilyVersionsNext]_familyVars
        /\ part = "versions" => [VersionsNext]_versionVars
        /\ part = "p0" => [P0Next]_p0Vars
        /\ part = "leaks" => [LeakNext]_leakVars
        /\ part = "gates" => [SweepNext]_sweepVars
        /\ part = "notes" => [NotesNext]_notesVars
        /\ part = "radar" => [RadarNext]_radarVars
        /\ part = "style" => [PyStyleNext]_styleVars
        /\ part = "imports" => [ImportsNext]_importVars
        /\ part = "fleet" => [FleetNext]_fleetVars
    BY OfPart, OfOtherPart, Zenon
  <2>1. part = "crates" => CratesTypeOK' /\ CratesInv'
    BY <2>0, CratesTypeStep, CratesInvStep, Zenon DEF RepositoryTyped
  <2>2. part = "family" => FamilyVersionsTypeOK'
    BY <2>0, FamilyTypeStep, Zenon DEF RepositoryTyped
  <2>3. part = "versions" => VersionsTypeOK'
    BY <2>0, VersionsTypeStep, Zenon DEF RepositoryTyped
  <2>4. part = "p0" => P0TypeOK'
    BY <2>0, P0TypeStep, Zenon DEF RepositoryTyped
  <2>5. part = "leaks" => LeakTypeOK'
    BY <2>0, LeakTypeStep, Zenon DEF RepositoryTyped
  <2>6. part = "gates" => SweepTypeOK' /\ SweepInv'
    BY <2>0, SweepTypeStep, SweepStep, Zenon DEF RepositoryTyped
  <2>7. part = "notes" => NotesTypeOK' /\ ReleasesKnown' /\ NotesInv'
    BY <2>0, NotesTypeStep, NotesInvStep, Zenon DEF RepositoryTyped
  <2>8. part = "radar" => RadarTypeOK' /\ RadarTyped'
    BY <2>0, RadarTypeStep, Zenon DEF RepositoryTyped
  <2>9. part = "style" => PyStyleTypeOK' /\ ReadListed' /\ StyleInv'
    BY <2>0, StyleTypeStep, StyleInvStep, PyStyleAssumption, Zenon DEF RepositoryTyped
  <2>10. part = "imports" => ImportsTypeOK'
    BY <2>0, ImportsTypeStep, Zenon DEF RepositoryTyped
  <2>11. part = "fleet" => FleetTypeOK' /\ FleetInv'
    BY <2>0, FleetTypeStep, FleetInvStep, Zenon DEF RepositoryTyped
  <2>12. QED
    BY <2>0, <2>1, <2>2, <2>3, <2>4, <2>5, <2>6, <2>7, <2>8, <2>9, <2>10, <2>11, Zenon DEF RepositoryTyped
<1>3. QED
  BY <1>1, <1>2, PTL DEF ToolsSpec

\* So do those that build, review and prepare what is built, and the gate of
\* the type escapes.
EnvironmentTyped ==
    /\ part = "links" => SiblingLinksTypeOK
    /\ part = "sandbox" => SandboxTypeOK
    /\ part = "pglite" => PgliteTypeOK
    /\ part = "review" => ReviewTypeOK /\ ReviewTyped
    /\ part = "engine" => PackTypeOK /\ PackSound
    /\ part = "cache" => CacheGuardTypeOK /\ TargetTyped
    /\ part = "patches" => RegisterPatchesTypeOK
    /\ part = "devenv" => DevenvTypeOK
    /\ part = "proxy" => NetproxyTypeOK
    /\ part = "escapes" => TypeEscapesTypeOK

LEMMA EnvironmentTypes == ToolsSpec => []EnvironmentTyped
<1>1. ToolsInit => EnvironmentTyped
  <2>1. SUFFICES ASSUME ToolsInit PROVE EnvironmentTyped
    OBVIOUS
  <2>2. /\ part = "links" => SiblingLinksInit
        /\ part = "sandbox" => SandboxInit
        /\ part = "pglite" => PgliteInit
        /\ part = "review" => ReviewInit
        /\ part = "engine" => PackInit
        /\ part = "cache" => CacheGuardInit
        /\ part = "patches" => RegisterPatchesInit
        /\ part = "devenv" => DevenvInit
        /\ part = "proxy" => NetproxyInit
        /\ part = "escapes" => TypeEscapesInit
    BY <2>1, Zenon DEF ToolsInit
  <2>3. QED
    BY <2>2, LinksTypeStart, SandboxTypeStart, PgliteTypeStart, ReviewTypeStart, PackTypeStart,
       CacheTypes, PatchesTypes, DevenvTypes, NetproxyTypes, EscapesTypeStart, Zenon DEF EnvironmentTyped
<1>2. EnvironmentTyped /\ [ToolsNext]_toolsVars => EnvironmentTyped'
  <2> SUFFICES ASSUME EnvironmentTyped, [ToolsNext]_toolsVars PROVE EnvironmentTyped'
    OBVIOUS
  <2>0. /\ part' = part
        /\ part = "links" => [SiblingLinksNext]_linkVars
        /\ part = "sandbox" => [SandboxNext]_sandboxVars
        /\ part = "pglite" => [PgliteNext]_pgliteVars
        /\ part = "review" => [ReviewNext]_reviewVars
        /\ part = "engine" => [PackNext]_packVars
        /\ part = "cache" => [CacheGuardNext]_cacheVars
        /\ part = "patches" => [RegisterPatchesNext]_patchVars
        /\ part = "devenv" => [DevenvNext]_devenvVars
        /\ part = "proxy" => [NetproxyNext]_proxyVars
        /\ part = "escapes" => [TypeEscapesNext]_escapeVars
    BY OfPart, OfOtherPart, Zenon
  <2>1. part = "links" => SiblingLinksTypeOK'
    BY <2>0, LinksTypeStep, Zenon DEF EnvironmentTyped
  <2>2. part = "sandbox" => SandboxTypeOK'
    BY <2>0, SandboxTypeStep, Zenon DEF EnvironmentTyped
  <2>3. part = "pglite" => PgliteTypeOK'
    BY <2>0, PgliteTypeStep, Zenon DEF EnvironmentTyped
  <2>4. part = "review" => ReviewTypeOK' /\ ReviewTyped'
    BY <2>0, ReviewTypeStep, Zenon DEF EnvironmentTyped
  <2>5. part = "engine" => PackTypeOK' /\ PackSound'
    BY <2>0, PackTypeStep, Zenon DEF EnvironmentTyped
  <2>6. part = "cache" => CacheGuardTypeOK' /\ TargetTyped'
    BY <2>0, CacheTypes, Zenon DEF EnvironmentTyped
  <2>7. part = "patches" => RegisterPatchesTypeOK'
    BY <2>0, PatchesTypes, Zenon DEF EnvironmentTyped
  <2>8. part = "devenv" => DevenvTypeOK'
    BY <2>0, DevenvTypes, Zenon DEF EnvironmentTyped
  <2>9. part = "proxy" => NetproxyTypeOK'
    BY <2>0, NetproxyTypes, Zenon DEF EnvironmentTyped
  <2>10. part = "escapes" => TypeEscapesTypeOK'
    BY <2>0, EscapesTypeStep, Zenon DEF EnvironmentTyped
  <2>11. QED
    BY <2>0, <2>1, <2>2, <2>3, <2>4, <2>5, <2>6, <2>7, <2>8, <2>9, <2>10, Zenon DEF EnvironmentTyped
<1>3. QED
  BY <1>1, <1>2, PTL DEF ToolsSpec

(* Every tool, in whatever state its runs, the host and other people leave  *)
(* it, has in each of its variables what the code keeps there: no handler   *)
(* reads a field, an entry or a process that no earlier step has left       *)
(* there, for every number of guests, files, repositories and runs (all     *)
(* modules that MCTools composes).                                          *)
THEOREM ToolsTypeOKHolds == ToolsSpec => []ToolsTypeOK
<1>1. /\ part = "deploy" => DeployInv
      /\ part = "janitor" => JanitorInv
      /\ OperationTyped /\ RepositoryTyped /\ EnvironmentTyped
      => ToolsTypeOK
  BY DEF ToolsTypeOK, DeployInv, JanitorInv, OperationTyped, RepositoryTyped, EnvironmentTyped
<1>2. QED
  BY <1>1, DeployInvHolds, LiveInv, OperationTypes, RepositoryTypes, EnvironmentTypes, PTL

=============================================================================
