SPECIFICATION Spec
CONSTANTS
    c1 = c1
    c2 = c2
    p1 = p1
    p2 = p2
    p3 = p3
    Calls = {c1, c2}
    Approvals = {p1, p2, p3}
    Actors = {a1, a2}
    CallOf <- MCRivalCallOf
    Mode <- MCRivalMode
    StaleAfter = 1
    Skew = 0
    MaxClock = 1
    NoCall = NoCall
    NoApproval = NoApproval
SYMMETRY Symmetry
INVARIANT OneApprovalPerCall
INVARIANT NoneAtMostOnce
INVARIANT NoneFailedMeansNoEffect
