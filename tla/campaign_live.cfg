SPECIFICATION FairSpec
CONSTANTS
    c1 = c1
    c2 = c2
    r1 = r1
    r2 = r2
    None = None
    Campaigns = {c1}
    Recipients = {r1, r2}
    CampaignOf <- OneCampaign
    Workers = {w1}
    Clients = {k1}
    Operations = {"launch", "pause", "resume", "cancel", "archive"}
    Findings = {}
    Changes = {}
    MaxAttempts = 2
    MaxRequests = 3
    MaxFaults = 0
PROPERTIES QueuedIsLaunched RunningDrains
