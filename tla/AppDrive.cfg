\* Two pids, two images, and three processes over time: an app, the one that
\* is launched next, and another that gets a pid of theirs.
SPECIFICATION Spec
CONSTANTS
    Pids = {1, 2}
    Images = {x, y}
    MaxBorn = 3
    NoProc = NoProc
    NoState = NoState
INVARIANTS
    TypeOK
    OnlyRecordedSignalled
    NoSilentOrphan
PROPERTY
    CommandEnds
