SPECIFICATION BackgroundSpec
CONSTANTS
    Recipients = {r1}
    EventHandlers = {h1, h2}
    DeliveryKinds = {"DELIVERED", "READ", "FAILED", "REPLIED", "UNSUBSCRIBED"}
    MaxEventFaults = 1
    MaxSuppressOps = 2
    NoRecipient = NoRecipient
    Workflows = {f1}
    Events = {v1}
    Dispatchers = {d1, d2}
    AutoWorkers = {w1, w2}
    NodeIds = {"t", "l", "s", "e"}
    Definition <- SendAfterLead
    TriggerNode = "t"
    NoNode = "-"
    NoExecution = NoExecution
    MaxRetries = 1
    MaxSteps = 6
    StepsPerCycle = 2
    MaxCausationDepth = 0
    WindowLimit = 10
    MaxOperatorOps = 1
    MaxEngineFaults = 1
    Replies = {y1}
    OutboxWorkers = {k1, k2}
    ReplyRequests = {q1, q2}
    EventKinds = {"DELIVERED", "READ"}
    MaxOutboxAttempts = 2
    MaxReplyRequests = 2
    MaxOutboxFaults = 1
    NoReply = NoReply
    Schedules = {s1}
    ScheduleTypes = {"ONCE", "INTERVAL"}
    RunLimits = {0, 2}
    Tickers = {t1, t2}
    Deliveries = {x1, x2}
    MaxScheduleFailures = 2
    MaxPosts = 2
    MaxTicks = 3
SYMMETRY BackgroundSymmetry
CHECK_DEADLOCK FALSE
INVARIANTS EventsInv ExecutionsInv ReplyInv ScheduledInv
PROPERTIES RecipientMovesForward EventStartsOnce NoDuplicateReply DeliveryMovesForward
