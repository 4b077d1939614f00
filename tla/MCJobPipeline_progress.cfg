\* No faults; j1 may be cancelled and deleted at any moment, j2 is left alone.
CONSTANTS
    j1 = j1
    j2 = j2
    t1 = t1
    t2 = t2
    c1 = c1
    c2 = c2
    NoThread = NoThread
    Jobs = {j1, j2}
    Threads = {t1, t2}
    Clients = {c1, c2}
    MaxRetries = 1
    Priority <- MCPriority
    CreatedAt <- MCCreatedAt
    Outcomes <- TwoOutcomes
    Cancellable = {j1}
    Deletable = {j1}
    Faults = {}
SPECIFICATION FairSpec
INVARIANTS
    PipelineInv
PROPERTIES
    BothTablesSettle
    OneTableSettles
