\* An acquire for an app that runs.
SPECIFICATION Spec
CONSTANTS
    Clis = {c1, c2, c3}
    Keys = {k1, k2}
    Window <- MCWindow
    NoClaim = NoClaim
SYMMETRY Symmetry
INVARIANT
    ClaimSurvivesAcquire
