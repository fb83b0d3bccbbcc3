\* A file that is open elsewhere cannot be unlinked.
SPECIFICATION Spec
CONSTANTS
    a = a
    b = b
    c = c
    d = d
    Procs = {a, b, c, d}
    Pids = {1, 2, 3}
    PidOf <- MCPidOf
    NoFile = NoFile
    NoPid = NoPid
    DeleteShared = FALSE
    MaxTakes = 1
INVARIANT
    NoLeak
