\* Three commands on two apps, with everything that commands do to each other.
SPECIFICATION Spec
CONSTANTS
    Clis = {c1, c2, c3}
    Keys = {k1, k2}
    Window <- MCWindow
    NoClaim = NoClaim
SYMMETRY Symmetry
INVARIANTS
    TypeOK
    NoCrossWiring
    ClaimLastsWithApp
PROPERTIES
    PortStable
    NoLostUpdate
