------------------------------ MODULE MCTools ------------------------------
(***************************************************************************)
(* The instance TLC checks of the tools that share no state with another:  *)
(* deployment and operation (Bootstrap, Referee, Janitor, Judge,           *)
(* EngineDrop, DevProcesses, Sandbox, Pglite, ChildEnvs), building and     *)
(* publishing (CargoTools, SiblingLinks, Crates, ReleaseNotes), the gates  *)
(* and audits (VersionGates, LedgerGates, PyStyle, JobTimeouts, RepoInit,  *)
(* GateSweep, Radar, ExternalReview) and the rest.                         *)
(*                                                                         *)
(* No two of them ever run into each other, so their product would only    *)
(* multiply the states.  A behaviour therefore takes one of them, named by *)
(* part, and leaves the variables of the others off.                       *)
(***************************************************************************)
EXTENDS Bootstrap, Referee, Janitor, Judge, EngineDrop, Cdp, SiblingLinks, Crates
    , Branches, DevProcesses, CargoTools, PyStyle, Sandbox, Pglite, ChildEnvs
    , VersionGates, LedgerGates, JobTimeouts, RepoInit
    , ExternalReview, EnginePack, GateSweep, ReleaseNotes, Radar, Credentials

CONSTANTS
    Checked, \* the parts that are checked
    Off      \* what a variable of another part holds

VARIABLE part

(* The instance: the parameters that are functions or sequences. *)
CrateNames    == <<"a", "b", "c">>
CrateDeps     == [a |-> {"b"}, b |-> {}, c |-> {"a", "b"}]
PatchFiles    == [x \in Topics |-> x]
ServiceNames  == [DEBUG_CHEST_URL |-> "chest", SHITTIM_CHEST_URL |-> "chest", DEBUG_ARONA_URL |-> "arona"]
CratesUsed    == [r \in Repos |-> {"a"}]
FamilyLine    == <<0, 1>>
ProxyEnv      == <<"HTTPS_PROXY">>
ProxyGuesses  == <<"gateway">>
TsProfiles    == [f |-> "src", g |-> "dts"]
AnchorHistory == <<"r1", "r2">>
ChangedTemplates == {{}, {"ci-cache"}}
RadarRepos    == <<"x", "y">>
FarmRunners   == <<"h1", "h2">>
LeakPlaces    == [a |-> "core", s |-> "skipped", z |-> "zone"]

Directed(rules, reason) == [rules |-> rules, reason |-> reason]
Text_(means, breaks, header, inline) ==
    [kind |-> "python", means |-> means, breaks |-> breaks, header |-> header, inline |-> inline]
PySources ==
    { Text_("m", {"l", "o"}, NoDirective, Directed({"o"}, TRUE))
    , Text_("n", {"l"}, Directed({"l"}, FALSE), NoDirective)
    , Text_("m", {"l"}, Directed({"l", "o"}, TRUE), NoDirective)
    , [Text_("m", {}, NoDirective, NoDirective) EXCEPT !.kind = "broken"]
    , [Text_("m", {"o"}, NoDirective, NoDirective) EXCEPT !.kind = "binary"] }
PyConfigs ==
    { [DefaultConfig EXCEPT !.exempt = {<<"f", "parse-error">>}, !.warnings = {"l", "parse-error"}]
    , [DefaultConfig EXCEPT !.select = {"l"}, !.exclude = {"g"}] }
PyModules == {<<"p", "a">>, <<"p", "b">>, <<"c">>}
ImportOf(from, level, module, names) ==
    [from |-> from, level |-> level, module |-> module, names |-> names]
PyImports ==
    { ImportOf(FALSE, 0, <<"c">>, {}), ImportOf(FALSE, 0, <<"p", "a">>, {})
    , ImportOf(TRUE, 1, <<>>, {"a", "b"}), ImportOf(TRUE, 1, <<"b">>, {"x"}) }

-----------------------------------------------------------------------------
DeployOff == bin = Off /\ prev = Off /\ failedCopy = Off /\ running = Off
    /\ schema = Off /\ dumped = Off /\ ledger = Off /\ doing = Off /\ entry = Off
    /\ commands = Off /\ good = Off /\ entered = Off /\ unprotected = Off
    /\ account = Off /\ envFile = Off /\ urlFile = Off /\ admin = Off /\ told = Off
    /\ stage = Off /\ options = Off /\ incoming = Off /\ outcome = Off
RefereeOff == guest = Off /\ beatAge = Off /\ saved = Off /\ mem = Off /\ at = Off
    /\ todo = Off /\ dryRun = Off /\ failStreak = Off /\ backoff = Off /\ reverted = Off
    /\ lost = Off
JanitorOff == clock = Off /\ worker = Off /\ cancel = Off /\ build = Off /\ sweep = Off
    /\ checked = Off /\ suspect = Off /\ workersSeen = Off /\ sighted = Off
    /\ victims = Off
JudgeOff == phase = Off /\ incarnation = Off /\ uptime = Off /\ restarts = Off
    /\ lastError = Off /\ draining = Off /\ log = Off /\ age = Off /\ probed = Off /\ hung = Off
    /\ ticks = Off /\ sampling = Off /\ unevaluated = Off /\ judging = Off
    /\ verdictReport = Off /\ sound = Off /\ wedged = Off /\ bundle = Off
    /\ expired = Off /\ acting = Off /\ acts = Off /\ exit = Off /\ restarted = Off
DropOff == master = Off /\ base = Off /\ head = Off /\ workingTree = Off /\ title = Off
    /\ note = Off /\ drops = Off /\ manifests = Off /\ branches = Off /\ worktrees = Off
    /\ pulls = Off /\ dropStep = Off /\ dropCmd = Off /\ drop = Off /\ sweeps = Off
    /\ edited = Off /\ edits = Off
CdpOff == targets = Off /\ page = Off /\ socket = Off /\ next_id = Off /\ method = Off
    /\ enabled = Off /\ fragments = Off /\ in_message = Off /\ answer = Off /\ garbled = Off
    /\ events = Off /\ sending = Off /\ sent = Off /\ content = Off /\ taken = Off
LinksOff == placed = Off /\ sibling = Off /\ state = Off /\ linking = Off /\ links = Off
    /\ forced = Off /\ dirty = Off /\ linkRuns = Off
CratesOff == uploaded = Off /\ indexed = Off /\ publishing = Off /\ at_crate = Off
    /\ failed = Off /\ publishDry = Off /\ publishExit = Off /\ publishRuns = Off
BranchesOff == baseBranch = Off /\ onBase = Off /\ topicBranches = Off
    /\ checkedOut = Off /\ written = Off /\ broom = Off /\ patches = Off
    /\ branchSweeps = Off
DaemonOff == processes = Off /\ pidFile = Off /\ shell = Off /\ pidRead = Off
    /\ daemonConfig = Off /\ daemonCommands = Off
CacheOff == target = Off /\ others = Off /\ sidecar = Off /\ guarded = Off
ServeOff == child = Off /\ ready = Off /\ manager = Off /\ toEnd = Off
    /\ serveStarts = Off
SandboxOff == box = Off /\ wrapper = Off /\ command = Off
PgliteOff == servers = Off /\ pgSidecar = Off /\ packages = Off /\ call = Off
    /\ pgliteCommands = Off
DevenvOff == toml = Off /\ unknownSvc = Off /\ callers = Off /\ devenv = Off
PatchesOff == cargoManifests = Off /\ cargoConfig = Off /\ register = Off
    /\ registers = Off
FamilyOff == declared = Off /\ range = Off /\ locked = Off /\ day = Off
    /\ weldUntil = Off /\ report = Off
ProxyOff == offers = Off /\ proxyFlag = Off /\ detected = Off /\ childEnv = Off
EscapesOff == tree = Off /\ ledgerFile = Off /\ gateRun = Off /\ tsEdits = Off
    /\ tsRuns = Off
TimeoutsOff == author = Off /\ savedFlow = Off /\ fixing = Off /\ fixScope = Off
    /\ timeoutRun = Off /\ reached = Off /\ spoiled = Off /\ flowEdits = Off /\ timeoutRuns = Off
FleetOff == release = Off /\ edition = Off /\ work = Off /\ staged = Off /\ ignored = Off
    /\ justfile = Off /\ hook = Off /\ initRun = Off /\ repoEdits = Off
    /\ initRuns = Off /\ origin = Off /\ verdict = Off
VersionsOff == cargoRoot = Off /\ crates = Off /\ npmRoot = Off /\ versionSlots = Off
    /\ pyRoot = Off /\ dists = Off /\ versionsToml = Off /\ gate = Off
    /\ slotEdits = Off
ReviewOff == packs = Off /\ packer = Off /\ reviewAnswer = Off /\ reports = Off
    /\ reviewDay = Off /\ due = Off /\ tampers = Off
EngineOff == meta = Off /\ miniforge = Off /\ prefix = Off /\ unit = Off
    /\ service = Off /\ stranger = Off /\ installing = Off /\ packOutcome = Off
    /\ packEdits = Off /\ packInstalls = Off
P0Off == ledgers = Off /\ pinnedByEnv = Off /\ p0Verdict = Off /\ ledgerEdits = Off
GatesOff == checkouts = Off /\ trees = Off /\ gateReport = Off /\ treeEdits = Off
    /\ sweepRuns = Off
NotesOff == tip = Off /\ direct = Off /\ tagged = Off /\ releases = Off /\ notes = Off
    /\ notesEdits = Off /\ notesRuns = Off
RadarOff == radarDeclared = Off /\ latest = Off /\ scanning = Off /\ radarQueue = Off
    /\ asked = Off /\ rows = Off /\ upstream = Off
LeaksOff == leakTrees = Off /\ leakBaseline = Off /\ leakScan = Off
    /\ leakVerdict = Off /\ struckOff = Off /\ overlooked = Off /\ leakEdits = Off
StyleOff == sources = Off /\ linked = Off /\ authored = Off /\ style = Off
    /\ styleVerdict = Off /\ overtaken = Off /\ styleEdits = Off
ImportsOff == importLines = Off /\ visited = Off /\ importPath = Off
    /\ targetsLeft = Off /\ cyclesFound = Off
RunnersOff == runner = Off /\ applying = Off /\ refused = Off /\ credExit = Off
    /\ applies = Off /\ mishaps = Off

\* The parts that are not checked in this behaviour are off in all of it.
ToolsInit ==
    /\ part \in Checked
    /\ IF part = "deploy" THEN BootstrapInit ELSE DeployOff
    /\ IF part = "referee" THEN RefereeInit ELSE RefereeOff
    /\ IF part = "janitor" THEN JanitorInit ELSE JanitorOff
    /\ IF part = "judge" THEN JudgeInit ELSE JudgeOff
    /\ IF part = "drop" THEN EngineDropInit ELSE DropOff
    /\ IF part = "cdp" THEN CdpInit ELSE CdpOff
    /\ IF part = "links" THEN SiblingLinksInit ELSE LinksOff
    /\ IF part = "crates" THEN CratesInit ELSE CratesOff
    /\ IF part = "branches" THEN BranchesInit ELSE BranchesOff
    /\ IF part = "daemon" THEN DaemonInit ELSE DaemonOff
    /\ IF part = "cache" THEN CacheGuardInit ELSE CacheOff
    /\ IF part = "serve" THEN ServeInit ELSE ServeOff
    /\ IF part = "sandbox" THEN SandboxInit ELSE SandboxOff
    /\ IF part = "pglite" THEN PgliteInit ELSE PgliteOff
    /\ IF part = "devenv" THEN DevenvInit ELSE DevenvOff
    /\ IF part = "patches" THEN RegisterPatchesInit ELSE PatchesOff
    /\ IF part = "family" THEN FamilyVersionsInit ELSE FamilyOff
    /\ IF part = "proxy" THEN NetproxyInit ELSE ProxyOff
    /\ IF part = "escapes" THEN TypeEscapesInit ELSE EscapesOff
    /\ IF part = "timeouts" THEN TimeoutsInit ELSE TimeoutsOff
    /\ IF part = "fleet" THEN FleetInit ELSE FleetOff
    /\ IF part = "versions" THEN VersionsInit ELSE VersionsOff
    /\ IF part = "review" THEN ReviewInit ELSE ReviewOff
    /\ IF part = "engine" THEN PackInit ELSE EngineOff
    /\ IF part = "p0" THEN P0Init ELSE P0Off
    /\ IF part = "gates" THEN SweepInit ELSE GatesOff
    /\ IF part = "notes" THEN NotesInit ELSE NotesOff
    /\ IF part = "radar" THEN RadarInit ELSE RadarOff
    /\ IF part = "runners" THEN CredentialsInit ELSE RunnersOff
    /\ IF part = "leaks" THEN LeakInit ELSE LeaksOff
    /\ IF part = "style" THEN PyStyleInit ELSE StyleOff
    /\ IF part = "imports" THEN ImportsInit ELSE ImportsOff

Rest(p) ==
    /\ UNCHANGED part
    /\ p # "deploy" => UNCHANGED bootstrapVars
    /\ p # "referee" => UNCHANGED refereeVars
    /\ p # "janitor" => UNCHANGED janitorVars
    /\ p # "judge" => UNCHANGED judgeVars
    /\ p # "drop" => UNCHANGED dropVars
    /\ p # "cdp" => UNCHANGED cdpVars
    /\ p # "links" => UNCHANGED linkVars
    /\ p # "crates" => UNCHANGED cratesVars
    /\ p # "branches" => UNCHANGED branchVars
    /\ p # "daemon" => UNCHANGED daemonVars
    /\ p # "cache" => UNCHANGED cacheVars
    /\ p # "serve" => UNCHANGED serveVars
    /\ p # "sandbox" => UNCHANGED sandboxVars
    /\ p # "pglite" => UNCHANGED pgliteVars
    /\ p # "devenv" => UNCHANGED devenvVars
    /\ p # "patches" => UNCHANGED patchVars
    /\ p # "family" => UNCHANGED familyVars
    /\ p # "proxy" => UNCHANGED proxyVars
    /\ p # "escapes" => UNCHANGED escapeVars
    /\ p # "timeouts" => UNCHANGED timeoutVars
    /\ p # "fleet" => UNCHANGED fleetVars
    /\ p # "versions" => UNCHANGED versionVars
    /\ p # "review" => UNCHANGED reviewVars
    /\ p # "engine" => UNCHANGED packVars
    /\ p # "p0" => UNCHANGED p0Vars
    /\ p # "gates" => UNCHANGED sweepVars
    /\ p # "notes" => UNCHANGED notesVars
    /\ p # "radar" => UNCHANGED radarVars
    /\ p # "runners" => UNCHANGED credVars
    /\ p # "leaks" => UNCHANGED leakVars
    /\ p # "style" => UNCHANGED styleVars
    /\ p # "imports" => UNCHANGED importVars

DeployPart == part = "deploy" /\ BootstrapNext /\ Rest("deploy")
RefereePart == part = "referee" /\ RefereeNext /\ Rest("referee")
JanitorPart == part = "janitor" /\ JanitorNext /\ Rest("janitor")
JudgePart == part = "judge" /\ JudgeNext /\ Rest("judge")
DropPart == part = "drop" /\ EngineDropNext /\ Rest("drop")
CdpPart == part = "cdp" /\ CdpNext /\ Rest("cdp")
LinksPart == part = "links" /\ SiblingLinksNext /\ Rest("links")
CratesPart == part = "crates" /\ CratesNext /\ Rest("crates")
BranchesPart == part = "branches" /\ BranchesNext /\ Rest("branches")
DaemonPart == part = "daemon" /\ DaemonNext /\ Rest("daemon")
CachePart == part = "cache" /\ CacheGuardNext /\ Rest("cache")
ServePart == part = "serve" /\ ServeNext /\ Rest("serve")
SandboxPart == part = "sandbox" /\ SandboxNext /\ Rest("sandbox")
PglitePart == part = "pglite" /\ PgliteNext /\ Rest("pglite")
DevenvPart == part = "devenv" /\ DevenvNext /\ Rest("devenv")
PatchesPart == part = "patches" /\ RegisterPatchesNext /\ Rest("patches")
FamilyPart == part = "family" /\ FamilyVersionsNext /\ Rest("family")
ProxyPart == part = "proxy" /\ NetproxyNext /\ Rest("proxy")
EscapesPart == part = "escapes" /\ TypeEscapesNext /\ Rest("escapes")
TimeoutsPart == part = "timeouts" /\ TimeoutsNext /\ Rest("timeouts")
FleetPart == part = "fleet" /\ FleetNext /\ Rest("fleet")
VersionsPart == part = "versions" /\ VersionsNext /\ Rest("versions")
ReviewPart == part = "review" /\ ReviewNext /\ Rest("review")
EnginePart == part = "engine" /\ PackNext /\ Rest("engine")
P0Part == part = "p0" /\ P0Next /\ Rest("p0")
GatesPart == part = "gates" /\ SweepNext /\ Rest("gates")
NotesPart == part = "notes" /\ NotesNext /\ Rest("notes")
RadarPart == part = "radar" /\ RadarNext /\ Rest("radar")
RunnersPart == part = "runners" /\ CredentialsNext /\ Rest("runners")
LeaksPart == part = "leaks" /\ LeakNext /\ Rest("leaks")
StylePart == part = "style" /\ PyStyleNext /\ Rest("style")
ImportsPart == part = "imports" /\ ImportsNext /\ Rest("imports")

ToolsNext == DeployPart \/ RefereePart \/ JanitorPart \/ JudgePart \/ DropPart
    \/ CdpPart \/ LinksPart \/ CratesPart \/ BranchesPart \/ DaemonPart \/ CachePart
    \/ ServePart \/ SandboxPart \/ PglitePart \/ DevenvPart \/ PatchesPart \/ FamilyPart
    \/ ProxyPart \/ EscapesPart \/ TimeoutsPart \/ FleetPart \/ VersionsPart
    \/ ReviewPart \/ EnginePart \/ P0Part \/ GatesPart \/ NotesPart \/ RadarPart
    \/ RunnersPart \/ LeaksPart \/ StylePart \/ ImportsPart

toolsVars == <<part, bootstrapVars, refereeVars, janitorVars, judgeVars, dropVars
    , cdpVars, linkVars, cratesVars, branchVars, daemonVars, cacheVars, serveVars
    , sandboxVars, pgliteVars, devenvVars, patchVars, familyVars, proxyVars, escapeVars
    , timeoutVars, fleetVars, versionVars, reviewVars, packVars, p0Vars, sweepVars
    , notesVars, radarVars, credVars, leakVars, styleVars, importVars>>

ToolsSpec == ToolsInit /\ [][ToolsNext]_toolsVars

----------------------------------------------------------------------------
(* Every part keeps the types its own module declares. *)
ToolsTypeOK ==
    /\ part = "deploy" => BootstrapTypeOK
    /\ part = "referee" => RefereeTypeOK
    /\ part = "janitor" => JanitorTypeOK
    /\ part = "judge" => JudgeTypeOK
    /\ part = "drop" => EngineDropTypeOK
    /\ part = "cdp" => CdpTypeOK
    /\ part = "links" => SiblingLinksTypeOK
    /\ part = "crates" => CratesTypeOK
    /\ part = "branches" => BranchesTypeOK
    /\ part = "daemon" => DaemonTypeOK
    /\ part = "cache" => CacheGuardTypeOK
    /\ part = "serve" => ServeTypeOK
    /\ part = "sandbox" => SandboxTypeOK
    /\ part = "pglite" => PgliteTypeOK
    /\ part = "devenv" => DevenvTypeOK
    /\ part = "patches" => RegisterPatchesTypeOK
    /\ part = "family" => FamilyVersionsTypeOK
    /\ part = "proxy" => NetproxyTypeOK
    /\ part = "escapes" => TypeEscapesTypeOK
    /\ part = "timeouts" => JobTimeoutsTypeOK
    /\ part = "fleet" => FleetTypeOK
    /\ part = "versions" => VersionsTypeOK
    /\ part = "review" => ReviewTypeOK
    /\ part = "engine" => PackTypeOK
    /\ part = "p0" => P0TypeOK
    /\ part = "gates" => SweepTypeOK
    /\ part = "notes" => NotesTypeOK
    /\ part = "radar" => RadarTypeOK
    /\ part = "runners" => CredentialsTypeOK
    /\ part = "leaks" => LeakTypeOK
    /\ part = "style" => PyStyleTypeOK
    /\ part = "imports" => ImportsTypeOK

(* The way back is kept: whatever upgrades and rollbacks fail, the binary   *)
(* that the last successful command left in service is still on the host,   *)
(* unless a command was cut between two of its writes (Lifecycle).          *)
WayBackKept == part = "deploy" => LastGoodKept

(* What the deployment says of itself is so: the ledger of an upgrade, the  *)
(* exit status 0 of a bootstrap, and the plan that changes nothing          *)
(* (Lifecycle, Bootstrap).                                                  *)
DeployTellsTruth ==
    [][part = "deploy" => LedgerIsTrue /\ SuccessIsReal /\ DryRunIsIdle]_toolsVars

(* Those who clean up take nothing that is in use: the janitor no process   *)
(* of a running job and no unit but that of a job which ignores its         *)
(* cancellation, the branch sweep no work that master never had, as far as  *)
(* git tells it what a branch touched.                                      *)
LiveWorkSpared ==
    [][(part = "janitor" => LiveJobsKept) /\ (part = "branches" => SweptWorkKept)]_toolsVars

(* What was last written to a file outlasts the tools that touch the file:  *)
(* the engine's edit is in its worktree until it is in a pull request,      *)
(* whichever step of a drop fails (EngineDrop), and a source whose layout   *)
(* is fixed means what its developer meant, wherever the fix is cut         *)
(* (PyStyle).                                                               *)
EditsSurvive ==
    /\ part = "drop"  => ContentSurvives
    /\ part = "style" => FixKeepsMeaning

(* The judge neither takes silence for health nor holds what a worker has   *)
(* gone through before against one that runs well, as far as an endpoint    *)
(* that may be another worker's lets it; and its executor restarts a worker *)
(* once for one approval, calls that time out included (Judge).             *)
HealthJudgedRightly ==
    part = "judge" => SilenceIsNotHealth /\ RecoveredNotBlamed /\ OneRestartPerApproval

(* What repairs by itself keeps within its rations and does the whole of    *)
(* what it reports: reverts in a window, rounds that are lost included      *)
(* (Referee), the timeouts of a workflow's jobs (JobTimeouts), the settings *)
(* of all runners (Credentials).                                            *)
RepairsRationed ==
    /\ part = "referee"  => RevertsRationed
    /\ part = "timeouts" => TimeoutsLandWhole
    /\ part = "runners"  => ConfiguredMeansWhole

(* What reports its end has ended, and whole: a reply put together from     *)
(* fragments, up to a refused frame (Cdp), a publication in parts (Crates), *)
(* the shutdown of the children (DevProcesses), the notes of a release read *)
(* page by page (ReleaseNotes).                                             *)
DoneMeansDone ==
    /\ part = "cdp"    => ReplyIsWhole
    /\ part = "crates" => SuccessMeansIndexed
    /\ part = "serve"  => ShutdownEndsAll
    /\ part = "notes"  => NotesWhole

(* A gate that is green has looked, and one that blames is right: the pins  *)
(* and workflows of the fleet (RepoInit), the versions of a family          *)
(* (VersionGates), the open findings of a release and the words of the      *)
(* industry (LedgerGates), the literals in every checkout (GateSweep), the  *)
(* cycles among the imports (PyStyle).                                      *)
GreenMeansExamined ==
    /\ part = "fleet"    => GreenAuditLooked
    /\ part = "versions" => GreenMeansOneLine
    /\ part = "family"   => BlameIsDeserved
    /\ part = "p0"       => ClearMeansAnswered
    /\ part = "gates"    => StrictGreenMissesNothing
    /\ part = "leaks"    => LeakGreenLooked
    /\ part = "imports"  => CyclesFoundIfAny

(* Doing it again says the same: a checkout that was regenerated passes its *)
(* check, at the latest after a second run (RepoInit), and one scan gives two repositories that pin the same  *)
(* version the same answer, whatever is released meanwhile (Radar).         *)
RepeatsAgree ==
    /\ part = "fleet" => RegenerationSettles
    /\ part = "radar" => OneAnswerPerScan

(* A release of the package alone turns no checkout red that is untouched,  *)
(* but for the templates that it changes (RepoInit).                        *)
ReleasesStayGreen == [][part = "fleet" => ReleaseIsQuiet]_toolsVars
=============================================================================
