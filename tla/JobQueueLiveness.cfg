SPECIFICATION FairSpec
CONSTANTS
    w1 = w1
    w2 = w2
    tick = tick
    invoice = invoice
    Workers = {w1, w2}
    Jobs = {tick}
    TickJobs = {tick}
    Priority <- MCPriority
    Handles <- AllHandle
    NoWorker = NoWorker
    NoJob = NoJob
    DeadSession = DeadSession
    MaxAttempts = 2
    Lease = 1
    RetryBase = 1
    RetryMax = 2
    MaxLag = 1
PROPERTIES EveryJobSettles WaiterGetsThrough
