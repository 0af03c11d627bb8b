SPECIFICATION Spec
CONSTANTS
    c1 = c1
    c2 = c2
    p1 = p1
    p2 = p2
    p3 = p3
    Calls = {c1}
    Approvals = {p1}
    Actors = {a1, a2}
    CallOf <- MCOneCallOf
    Mode <- MCKey
    StaleAfter = 1
    Skew = 0
    MaxClock = 2
    NoCall = NoCall
    NoApproval = NoApproval
SYMMETRY Symmetry
INVARIANT FailedMeansNoEffect
