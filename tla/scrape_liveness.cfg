SPECIFICATION FairSpec
CONSTANTS
    w1 = w1
    w2 = w2
    t1 = t1
    t2 = t2
    None = None
    Jobs = {j1}
    Clients = {c1}
    Workers = {w1}
    Tasks = {t1}
    HomeOf <- OneWorker
    Backend = "redis"
    Operations = {"pause", "resume", "cancel"}
    LossSites = {"request", "runner", "promote"}
    MaxAttempts = 2
    MaxMessages = 1
    MaxLosses = 1
    MaxCrashes = 1
    MaxRequests = 1
CHECK_DEADLOCK FALSE
PROPERTIES QueuedIsServed RunningEnds ResumeIsServed
