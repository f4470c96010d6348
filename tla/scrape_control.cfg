SPECIFICATION Spec
CONSTANTS
    w1 = w1
    w2 = w2
    t1 = t1
    t2 = t2
    None = None
    Jobs = {j1}
    Clients = {c1}
    Workers = {w1}
    Tasks = {t1, t2}
    HomeOf <- OneWorker
    Backend = "redis"
    Operations = {"pause", "resume", "cancel", "retry"}
    LossSites = {}
    MaxAttempts = 2
    MaxMessages = 1
    MaxLosses = 0
    MaxCrashes = 0
    MaxRequests = 2
CHECK_DEADLOCK FALSE
SYMMETRY TaskSymmetry
INVARIANT TypeOK
PROPERTY ImplementsLifecycle
