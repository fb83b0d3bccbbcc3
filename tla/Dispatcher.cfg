\* Two runs, of one commit or of two, and one lane host.
SPECIFICATION Spec
CONSTANTS
    Runs = {1, 2}
    Shas = {x, y}
    x = x
    y = y
    Commits <- MCCommits
    Hosts = {1}
    Cancelable = {1}
    Threshold = 0
    Batch = 2
    Grace = 0
    SpillTTL = 2
    RecentTTL = 1
    FailedTTL = 1
    NoRec = NoRec
    NoJob = NoJob
    NoHost = NoHost
    NoRun = NoRun
    MaxJobs = 2
    MaxFaults = 1
INVARIANTS
    TypeOK
    OneSpillPerSha
    OneWorkspacePerHost
    NoSilentLeak
PROPERTIES
    CancelVouched
    NoChurn
    EventuallyUntracked
