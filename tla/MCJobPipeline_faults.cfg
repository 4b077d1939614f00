\* Two jobs of different priority, two sessions, two dispatcher threads, every fault; j1 may be cancelled.
CONSTANTS
    j1 = j1
    j2 = j2
    t1 = t1
    t2 = t2
    c1 = c1
    c2 = c2
    NoThread = NoThread
    Jobs = {j1, j2}
    Threads = {t1, t2}
    Clients = {c1, c2}
    MaxRetries = 1
    Priority <- MCPriority
    CreatedAt <- MCCreatedAt
    Outcomes <- FourOutcomes
    Cancellable = {j1}
    Deletable = {}
    Faults = {"crash", "storage", "stop"}
SYMMETRY ThreadSymmetry
SPECIFICATION Spec
INVARIANTS
    OneHolder
    RunsWithinBudget
    CompletedAtFirstAttempt
    RowBackedByJob
PROPERTIES
    SettledRowsStay
    RevivedOnlyByHolder
    ImplementsLifecycle
