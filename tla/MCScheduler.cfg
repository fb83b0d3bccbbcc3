\* Three steps, with and without commands: every list with at most one
\* dependency per step, malformed lists and a zero worker cap included, and every
\* acyclic list with at most two dependencies per step, in either order.
SPECIFICATION Spec
CONSTANTS
    Unknown = 0
    NumSteps = 3
    MaxDeps = 2
    JobChoices = {1, 2}
    ResultChoices = {"PASS", "FAIL", "SKIP", "garbage", "raises", "exits"}
    Names <- MCNames
    Rank <- MCRank
    RunnerResults <- MCResults
    Inputs <- AnyCall
INVARIANTS
    TypeOK
    DepsSatisfiedFirst
    CompleteAtReturn
    FailureContained
    SkipRootedInFailure
    NoStepOutlivesRun
PROPERTIES
    RecordedOnce
    Terminates
