SPECIFICATION FairSpec
CONSTANTS
    keyed = keyed
    once = once
    Threads = {t1, t2}
    Calls = {keyed}
    Mode <- MCKeyed
    Approvals = {p1, p2}
    MaxSteps = 2
    MaxCrashes = 2
    MaxSuspicions = 1
    NoCall = NoCall
    NoApproval = NoApproval
CHECK_DEADLOCK FALSE
PROPERTY RunningIsLeft
PROPERTY PendingIsLeft
PROPERTY ReviewIsLeft
