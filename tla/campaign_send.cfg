SPECIFICATION Spec
CONSTANTS
    c1 = c1
    c2 = c2
    r1 = r1
    r2 = r2
    None = None
    Campaigns = {c1}
    Recipients = {r1}
    CampaignOf <- OneCampaign
    Workers = {w1, w2}
    Clients = {k1}
    Operations = {"launch", "pause", "resume", "cancel", "archive"}
    Findings = {"rate", "skip", "misconfigured"}
    Changes = {"suppress", "delete"}
    MaxAttempts = 2
    MaxRequests = 2
    MaxFaults = 1
SYMMETRY WorkerSymmetry
INVARIANTS TypeOK ItemHeldOnce AtMostOneSend
PROPERTY ImplementsFate
