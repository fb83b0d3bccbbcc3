SPECIFICATION ToolsSpec
CONSTANTS
    Checked = {"deploy", "referee", "janitor", "judge", "drop", "cdp", "links", "crates",
        "branches", "daemon", "cache", "serve", "sandbox", "pglite", "devenv", "patches",
        "family", "proxy", "escapes", "timeouts", "fleet", "versions", "review", "engine",
        "p0", "gates", "notes", "radar", "runners", "leaks", "style", "imports"}
    Off = Off
    \* Lifecycle, Bootstrap
    MaxVersion = 2
    MaxCommands = 3
    NoBinary = NoBinary
    NoDump = NoDump
    NoLine = NoLine
    \* Referee
    Guests = {1}
    STALE_AGE = 1
    STALE_ROUNDS = 2
    REVERT_BUDGET = 1
    KEPT_REVERTS = 1
    WINDOW = 4
    COOLDOWN = 1
    MaxBackoff = 2
    MaxLost = 1
    \* Janitor
    Slots = {1, 2}
    BuildPids = {1}
    GRACE = 2
    CANCEL_GRACE = 1
    MaxClock = 3
    NoBuild = NoBuild
    \* Judge
    TICKS = 2
    STALL_TICKS = 2
    READINESS_TICKS = 2
    DRAIN_TICKS = 2
    CRASH_DELTA = 2
    CRASH_ABSOLUTE = 2
    CRASH_EVERY = 2
    OSCILLATION = 1
    STALL_UPTIME = 1
    HANG_UPTIME = 1
    MaxRestarts = 2
    MaxActs = 2
    NoDigest = NoDigest
    \* EngineDrop
    Paths = {p, q}
    MaxEdits = 2
    MaxSweeps = 2
    Original = Original
    Upstream = Upstream
    MissingFile = MissingFile
    RefusedDrop = RefusedDrop
    \* Cdp
    MaxRequests = 2
    MaxMessages = 3
    MAX_MESSAGE = 2
    EVENT_LIMIT = 2
    EVENT_CUT = 1
    \* SiblingLinks
    Worktrees = {w1, w2}
    Deps = {d}
    RegistryVersions = {r1, r2}
    Checkouts = {c1, c2}
    Nothing = Nothing
    Directory = Directory
    NoEntry = NoEntry
    MaxLinkRuns = 4
    \* Crates
    Names <- CrateNames
    DependsOn <- CrateDeps
    MaxPublishRuns = 2
    \* Branches
    Topics = {a}
    Tracked = {f, q}
    QuotedPaths = {q}
    PatchName <- PatchFiles
    NoBranch = NoBranch
    MaxContents = 3
    MaxBranchSweeps = 1
    \* DevProcesses
    Shells = {s1, s2}
    DaemonPids = {p1, p2}
    NoPid = NoPid
    MaxDaemonCommands = 3
    Tags = {t1, t2}
    MaxServeStarts = 3
    \* CacheGuard
    DISK = 6
    MIN_FREE = 1
    SOFT_THRESHOLD = 3
    RECHECK_INTERVAL = 2
    NoSidecar = NoSidecar
    \* Sandbox
    Wrappers = {u1, u2}
    MAX_AGE = 2
    Keepers = {u2}
    \* Pglite
    Instances = {i1, i2}
    Callers = {k1, k2}
    ServerPids = {p1, p2}
    NoServer = NoServer
    MaxPgliteCommands = 3
    \* ChildEnvs: devenv
    BuiltIn = {native}
    NewProfiles = {mine}
    ServiceOf <- ServiceNames
    MaxEntries = 1
    \* RegisterPatches
    Repos = {x, y}
    Siblings = {"a", "b"}
    UsedBy <- CratesUsed
    MaxRegisters = 2
    \* FamilyVersions
    MaxPart = 1
    AnyPart = AnyPart
    Line <- FamilyLine
    MaxDay = 1
    PinsAllowed = FALSE
    \* ChildEnvs: netproxy
    EnvNames <- ProxyEnv
    Addresses <- ProxyGuesses
    \* LedgerGates: type-escapes
    TsFiles = {"f", "g"}
    TsProfile <- TsProfiles
    MaxCasts = 2
    MaxTsEdits = 1
    MaxTsRuns = 2
    NoTsFile = NoTsFile
    NoLedger = NoLedger
    \* JobTimeouts
    Workflows = {"w"}
    MaxFlowEdits = 1
    MaxTimeoutRuns = 2
    \* RepoInit
    Anchors <- AnchorHistory
    TemplateChanges <- ChangedTemplates
    MaxRepoEdits = 1
    MaxInits = 2
    NoText = NoText
    \* VerifyVersions
    MaxLine = 2
    MaxSlotEdits = 2
    Unversioned = Unversioned
    Inherits = Inherits
    Unusable = Unusable
    Corrupt = Corrupt
    Absent = Absent
    \* ExternalReview
    REVIEW_DAYS = 1
    LastDay = 2
    MaxTampers = 1
    NoPack = NoPack
    NoSeal = NoSeal
    NoAnswer = NoAnswer
    NoReview = NoReview
    \* EnginePack
    Pythons = {"3.11", "3.12"}
    Packages = {p}
    MaxPackEdits = 1
    MaxPackInstalls = 2
    NoPrefix = NoPrefix
    NoEnvRecord = NoEnvRecord
    NoUnit = NoUnit
    NoEnvSection = NoEnvSection
    \* LedgerGates: p0-gate
    P0Findings = {"P0-A", "OPS-1"}
    MarkerIds = {"P0-A"}
    P0Repos = {"x", "y"}
    MaxLedgerEdits = 1
    NoP0Ledger = NoP0Ledger
    BadLedger = BadLedger
    Because = "because"
    \* GateSweep
    SweepRepos = {"r", "s"}
    SweepPaths = {"a"}
    MaxTreeEdits = 1
    MaxSweepRuns = 1
    \* ReleaseNotes
    PAGE = 2
    MaxHistory = 6
    MaxNotesEdits = 2
    MaxNotesRuns = 1
    NoRelease = NoRelease
    \* Radar
    WatchedRepos <- RadarRepos
    RadarDeps = {"d"}
    MaxReleases = 2
    MaxUpstream = 1
    NotAsked = NotAsked
    \* Credentials
    Runners <- FarmRunners
    MaxApplies = 2
    MaxMishaps = 1
    \* LedgerGates: domain-leak
    LeakRepos = {"x", "y"}
    OtherRepo = "other"
    LeakFiles = {"a", "s", "z"}
    LeakPlace <- LeakPlaces
    TermNames = {"s"}
    QuotedNames = {"s"}
    MaxLeakEdits = 2
    NoCheckout = NoCheckout
    NoBase = NoBase
    UnknownBase = UnknownBase
    BadBaseline = BadBaseline
    \* PyStyle
    StyleFiles = {"f", "g"}
    StyleRules = {"l", "o"}
    Fixable = {"l"}
    StyleTexts <- PySources
    StyleConfigs <- PyConfigs
    UnknownRule = "unknown"
    MAX_FIX_FILES = 1
    MaxStyleEdits = 1
    NoSource = NoSource
    ALink = ALink
    NoConfig = NoConfig
    BadConfig = BadConfig
    NoDirective = NoDirective
    StyleModules <- PyModules
    ImportLines <- PyImports
    MaxImportLines = 2
INVARIANTS
    ToolsTypeOK
    WayBackKept
    EditsSurvive
    HealthJudgedRightly
    RepairsRationed
    DoneMeansDone
    GreenMeansExamined
    RepeatsAgree
PROPERTIES
    DeployTellsTruth
    LiveWorkSpared
    ReleasesStayGreen
CHECK_DEADLOCK FALSE
