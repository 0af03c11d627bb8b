SPECIFICATION Spec
CONSTANTS
    c1 = c1
    c2 = c2
    p1 = p1
    p2 = p2
    p3 = p3
    Calls = {c1}
    Approvals = {p1}
    Actors = {a1, a2, a3}
    CallOf <- MCOneCallOf
    Mode <- MCKey
    StaleAfter = 1
    Skew = 1
    MaxClock = 2
    NoCall = NoCall
    NoApproval = NoApproval
SYMMETRY Symmetry
INVARIANT RowTellsLatestAttempt
INVARIANT DistinctClaims
INVARIANT ReturnedResultIsDurable
PROPERTY TakeoverIsStaleAndFences
PROPERTY ImplementsDurableExecution
