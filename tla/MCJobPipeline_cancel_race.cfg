\* A cancel racing the dispatcher over one job, without any fault.
CONSTANTS
    j1 = j1
    j2 = j2
    t1 = t1
    t2 = t2
    c1 = c1
    c2 = c2
    NoThread = NoThread
    Jobs = {j1}
    Threads = {t1, t2}
    Clients = {c1, c2}
    MaxRetries = 1
    Priority <- MCPriority
    CreatedAt <- MCCreatedAt
    Outcomes <- FewOutcomes
    Cancellable = {j1}
    Deletable = {}
    Faults = {}
SPECIFICATION Spec
PROPERTIES
    PersistedTransitionsAllowed
