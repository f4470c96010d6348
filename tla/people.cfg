SPECIFICATION PeopleSpec
CONSTANTS
    KeyScopes = {"leads.read", "leads.write", "campaigns.write", "scraping.run", "files.read"}
    Nobody = Nobody
    Members = {u1, u2}
    MemberTeams = {g1, g2}
    Orgs = {o1, o2}
    Unset = Unset
    Users = {v1, v2}
    Tokens = {t1}
    Desks = {d1, d2}
    Invitations = {i1}
    MaxFailures = 2
    MaxAccountOps = 4
    NoUser = NoUser
    InMessages = {m1, m2}
    Conversations = {c1, c2}
    InboxHandlers = {h1, h2}
    a1 = a1
    a2 = a2
    Agents = {a1, a2}
    Grants <- MCGrants
    AssignedOnly = TRUE
    Contacts = {l1}
    AgentStatuses = {"CLOSED"}
    MaxAgentOps = 2
    MaxInboxFaults = 1
    NoAgent = NoAgent
CHECK_DEADLOCK FALSE
INVARIANTS RequestsInv SearchAgreesWithOpen AccountsInv InboxInv
