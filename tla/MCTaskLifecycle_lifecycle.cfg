SPECIFICATION Spec
CONSTANTS
    Actors = {a1, a2}
    Approvals = {p1, p2, p3}
    StaleAfter = 1
    Skew = 1
    MaxClock = 3
    MaxCheckpoints = 7
    NoApproval = NoApproval
SYMMETRY Symmetry
CHECK_DEADLOCK FALSE
PROPERTY ImplementsContract
PROPERTY ClaimIsStaleAndFences
