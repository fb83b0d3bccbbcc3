SPECIFICATION Spec
CONSTANTS
    JobChoices = {2}
    MaxModes = 2
    CoverageChoices = {FALSE}
    Names <- GateNames
    Rank <- GateRank
    RunnerResults <- GateResults
    Inputs <- GateCalls
INVARIANTS
    ModesIndependent
