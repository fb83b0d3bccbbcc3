\* The rule that the code states, without the exception for overlapping reclaims.
SPECIFICATION Spec
CONSTANTS
    a = a
    b = b
    c = c
    d = d
    Procs = {a, b, c, d}
    Pids = {1, 2, 3}
    PidOf <- MCPidOf
    NoFile = NoFile
    NoPid = NoPid
    DeleteShared = TRUE
    MaxTakes = 1
PROPERTY
    LiveHolderKept
