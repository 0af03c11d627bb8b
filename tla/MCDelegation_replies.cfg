SPECIFICATION Spec
CONSTANTS
    Supervisors <- MCSupervisors
    Registry <- MCRegistry
    Continuations = {c1, c2, c3}
    Approvals = {p1}
    Readers = {d1}
    Answers = {yes, no}
    NoAgent = NoAgent
    NoAnswer = NoAnswer
    NoRequest = NoRequest
    NoOwner = NoOwner
CHECK_DEADLOCK FALSE
INVARIANT RepliesTellTheEnd
INVARIANT RequestHasProvenance
