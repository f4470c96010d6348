SPECIFICATION Spec
CONSTANTS
    w1 = w1
    w2 = w2
    t1 = t1
    t2 = t2
    None = None
    Jobs = {j1}
    Clients = {c1}
    Workers = {w1, w2}
    Tasks = {t1, t2}
    HomeOf <- TwoWorkers
    Backend = "redis"
    Operations = {"cancel"}
    LossSites = {"request", "runner", "promote", "sweep"}
    MaxAttempts = 2
    MaxMessages = 1
    MaxLosses = 1
    MaxCrashes = 1
    MaxRequests = 0
CHECK_DEADLOCK FALSE
INVARIANTS SingleExecution ExecutorHoldsLease
PROPERTIES TerminalIsFinal
