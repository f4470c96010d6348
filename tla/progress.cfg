SPECIFICATION ProgressSpec
CONSTANTS
    Replies = {r1}
    OutboxWorkers = {k1, k2}
    ReplyRequests = {q1}
    EventKinds = {"READ", "FAILED"}
    MaxOutboxAttempts = 2
    MaxReplyRequests = 2
    MaxOutboxFaults = 1
    NoReply = NoReply
    Workflows = {f1}
    Events = {v1, v2}
    Dispatchers = {d1}
    AutoWorkers = {w1}
    NodeIds = {"t", "l", "c", "v", "w", "e"}
    Definition <- SelfStarting
    TriggerNode = "t"
    NoNode = "-"
    NoExecution = NoExecution
    MaxRetries = 0
    MaxSteps = 7
    StepsPerCycle = 2
    MaxCausationDepth = 0
    WindowLimit = 10
    MaxOperatorOps = 0
    MaxEngineFaults = 1
CHECK_DEADLOCK FALSE
INVARIANT CausationBounded
PROPERTIES NoDuplicateReply ReplyEnds EveryExecutionEnds
