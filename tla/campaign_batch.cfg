SPECIFICATION Spec
CONSTANTS
    c1 = c1
    c2 = c2
    r1 = r1
    r2 = r2
    None = None
    Campaigns = {c1}
    Recipients = {r1, r2}
    CampaignOf <- OneCampaign
    Workers = {w1, w2}
    Clients = {k1}
    Operations = {"launch", "pause"}
    Findings = {}
    Changes = {}
    MaxAttempts = 1
    MaxRequests = 2
    MaxFaults = 1
SYMMETRY ModelSymmetry
INVARIANTS UndecidedIsQueued CompletedHasVerdicts
