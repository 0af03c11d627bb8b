SPECIFICATION Spec
CONSTANTS
    Actors = {a1, a2}
    Approvals = {p1}
    StaleAfter = 1
    Skew = 0
    MaxClock = 2
    MaxCheckpoints = 5
    NoApproval = NoApproval
SYMMETRY Symmetry
CHECK_DEADLOCK FALSE
INVARIANT SoleOwner
