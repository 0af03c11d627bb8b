SPECIFICATION Spec
CONSTANTS
    safe = safe
    staged = staged
    reader = reader
    writer = writer
    Runs = {r1, r2}
    Calls = {safe, staged}
    Protected = {staged}
    Batches <- MixedBatches
    Agents = {reader, writer}
    Grants <- MCGrants
    Budgets = {1, 3}
    Approvals = {p1, p2, p3}
    NoCall = NoCall
    NoAgent = NoAgent
    NoApproval = NoApproval
SYMMETRY Symmetry
CHECK_DEADLOCK FALSE
INVARIANT BudgetSpansResumes
INVARIANT LimitIsOnlyAGuard
INVARIANT GrantsSurvivePauses
INVARIANT TranscriptIsComplete
INVARIANT PendingNamesItsCall
INVARIANT ProtectedEntriesApproved
