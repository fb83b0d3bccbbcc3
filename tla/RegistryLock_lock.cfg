\* Four processes, two with one pid; any of them may reclaim, also at once.
SPECIFICATION Spec
CONSTANTS
    a = a
    b = b
    c = c
    d = d
    Procs = {a, b, c, d}
    Pids = {1, 2, 3}
    PidOf <- MCPidOf
    NoFile = NoFile
    NoPid = NoPid
    DeleteShared = TRUE
    MaxTakes = 1
INVARIANT
    Inv
PROPERTIES
    LockImplementsMutex
    LiveHolderKeptOrMuddled
    NoEndlessWait
