SPECIFICATION Spec
CONSTANTS
    Tasks = {1, 2, 3}
    Times = {1, 2}
    Limits = {1, 2}
    MaxDepartures = 2
    Any = Any
CHECK_DEADLOCK FALSE
INVARIANT MissedAtMostDeparted
INVARIANT UnfilteredMissesNone
