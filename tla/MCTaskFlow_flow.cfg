SPECIFICATION Spec
CONSTANTS
    keyed = keyed
    once = once
    Threads = {t1, t2}
    Calls = {keyed, once}
    Mode <- MCMode
    Approvals = {p1, p2}
    MaxSteps = 3
    MaxCrashes = 2
    MaxSuspicions = 2
    NoCall = NoCall
    NoApproval = NoApproval
SYMMETRY Symmetry
CHECK_DEADLOCK FALSE
INVARIANT TranscriptTellsLedger
INVARIANT ApprovedCallsRan
INVARIANT HealthyTaskLeftAlone
 
INVARIANT OneHandPerTask
INVARIANT SucceededIsAtEnd
 
PROPERTY RowsKeepTheirWord
PROPERTY ImplementsContract
PROPERTY RequestsRunDown
