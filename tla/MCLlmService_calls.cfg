SPECIFICATION FairSpec
CONSTANTS
    Threads = {t1, t2}
    Runtimes = {rt1, rt2, rt3}
    MaxAttempts = 3
    DelayTenth = 1
    Jitters <- SomeJitters
    Bodies <- AllBodies
    NoRuntime = NoRuntime
CHECK_DEADLOCK FALSE
INVARIANT TypeOK
INVARIANT OnlyTransientFailuresRetried
INVARIANT AnswersAreMessages
INVARIANT OpenClientsAreOwned
INVARIANT PublishedIsOpen
PROPERTY WaitsGrow
PROPERTY CallsReturn
