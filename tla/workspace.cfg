SPECIFICATION WorkspaceSpec
CONSTANTS
    Flows = {f1, f2}
    Editors = {x1, x2}
    Definitions = {A, B}
    MaxVersions = 3
    MaxFlowOps = 5
    GraphNodes = {l1, l2, l3}
    NoTarget = NoTarget
    MaxNodes = 3
    Hour = 2
    Day = 6
    Horizon = 14
    Week = 3
    LeadIds = {l1, l2, l3}
    TagIds = {1, 2}
    TagNames = {1, 2}
    Clerks = {c1, c2}
    Emails = {1, 2}
    NoEmail = NoEmail
    NoLead = NoLead
    NoName = NoName
    GoneName = GoneName
    MaxLeadOps = 3
    MaxBook = 6
    Imports = {i1}
    Exports = {o1}
    JobWorkers = {w1, w2}
    JobRequests = {q1}
    ImportRows = 2
    LeadCount = 3
    ChunkRows = 2
    MaxJobs = 1
    MaxJobFaults = 1
    MaxRetired = 1
SYMMETRY WorkspaceSymmetry
CHECK_DEADLOCK FALSE
INVARIANTS FlowsInv RulesInv LeadsInv JobsInv
PROPERTIES PublishedFrozen ReviewsKept FinishedStays
