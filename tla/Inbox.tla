------------------------------- MODULE Inbox -------------------------------
(***************************************************************************)
(* The conversations of the unified inbox with one contact: the webhook        *)
(* handlers and campaign sends that add messages (ConversationEngine), and the  *)
(* agents that read, close, assign and link them (InboxWorkspace, the API and    *)
(* the UI).  Every request loads its rows, decides, and commits the columns it   *)
(* changed; nothing is locked in between.                                    *)
(***************************************************************************)
EXTENDS Naturals, FiniteSets, Sequences

CONSTANTS
    InMessages,     \* provider message ids of inbound messages
    Conversations,  \* conversation rows that may exist
    InboxHandlers,       \* webhook requests and campaign sends in progress at once
    Agents,         \* users of the inbox
    Grants,         \* [Agents -> SUBSET STRING]: the permissions of each user
    AssignedOnly,   \* BOOLEAN: QBIT_INBOX_VISIBILITY = "ASSIGNED_ONLY"
    Contacts,       \* leads that carry, or can come to carry, this contact's address
    AgentStatuses,  \* bound: statuses agents set
    MaxAgentOps,    \* bound: agent operations
    MaxInboxFaults, \* bound: rolled back requests, crashes, deleted leads
    NoAgent          \* NULL: no lead, no user, no conversation, no message

ASSUME InboxAssumption ==
    /\ AgentStatuses \subseteq {"OPEN", "PENDING", "RESOLVED", "CLOSED"}
    /\ AssignedOnly \in BOOLEAN
    /\ MaxAgentOps \in Nat /\ MaxInboxFaults \in Nat
    /\ InboxHandlers \cap Agents = {}
    /\ NoAgent \notin Agents \cup Contacts \cup Conversations \cup InMessages

VARIABLES
    conv,      \* [Conversations -> ConversationRows]
    threads,   \* the conversations in the order they were created
    stored,    \* inbound messages rows: <<message, conversation>>
    eventRows, \* provider events recorded (unique)
    contacts,  \* leads that exist with this contact's address
    request,   \* [InboxHandlers \cup Agents -> InboxRequests]
    agentOps, inboxFaults,
    unseen,    \* history: conversations with a message newer than the last read
    late,      \* history: conversations with a message newer than the last status change
    raced      \* history: conversations written from an out-of-date copy

inboxVars == <<conv, threads, stored, eventRows, contacts, request,
               agentOps, inboxFaults, unseen, late, raced>>

----------------------------------------------------------------------------
ConversationStatus == {"NONE", "OPEN", "PENDING", "RESOLVED", "CLOSED"}
MatchStatus == {"NULL", "MATCHED", "UNMATCHED", "MATCH_REVIEW_REQUIRED"}
ConversationPriority == {"NORMAL", "HIGH"}

ConversationRows ==
    [status : ConversationStatus, lead : Contacts \cup {NoAgent}, match : MatchStatus,
     unread : Nat, assigned : Agents \cup {NoAgent}, priority : ConversationPriority]

(* get_or_create_conversation: the row of a contact that has no conversation. *)
NewConversation ==
    [status |-> "PENDING", lead |-> NoAgent, match |-> "NULL",
     unread |-> 0, assigned |-> NoAgent, priority |-> "NORMAL"]

InboxOps == {"none", "inbound", "outbound", "read", "unread", "status", "priority",
             "assign", "link", "unlink", "create", "linkNew"}

(* on: the conversations loaded, {} when the contact has none yet; rows: their     *)
(* copies; found: the leads that matched at load.                              *)
InboxRequests == [op : InboxOps, on : SUBSET Conversations,
             arg : Agents \cup Contacts \cup InMessages \cup ConversationStatus
                   \cup ConversationPriority \cup {NoAgent},
             rows : [Conversations -> ConversationRows], found : SUBSET Contacts]

NoConversation == [NewConversation EXCEPT !.status = "NONE"]
IdleRequest == [op |-> "none", on |-> {}, arg |-> NoAgent,
                rows |-> [c \in Conversations |-> NoConversation], found |-> {}]

(* A commit writes the columns the session changed, over the row as it is now. *)
WriteBack(cur, old, new) == [f \in DOMAIN cur |-> IF new[f] = old[f] THEN cur[f] ELSE new[f]]

Existing == {threads[i] : i \in 1..Len(threads)}

(* _find_conversation: the oldest conversation of the contact. *)
FindConversation == IF threads = <<>> THEN {} ELSE {threads[1]}

InboxFault == inboxFaults < MaxInboxFaults /\ inboxFaults' = inboxFaults + 1

Load(p, op, arg, cs) ==
    request' = [request EXCEPT ![p] =
        [op |-> op, on |-> cs, arg |-> arg,
         rows |-> [c \in Conversations |-> IF c \in cs THEN conv[c] ELSE NoConversation],
         found |-> IF op = "inbound" THEN contacts ELSE {}]]
EndRequest(p) == request' = [request EXCEPT ![p] = IdleRequest]

(* Conversations this request writes from a copy that is out of date. *)
StaleRows(p) == {c \in request[p].on : conv[c] # request[p].rows[c]}

----------------------------------------------------------------------------
(* Messages. *)

(* match_lead_for_conversation: exactly one lead, or none. *)
MatchLead(found) == IF Cardinality(found) = 1 THEN CHOOSE l \in found : TRUE ELSE NoAgent
MatchOutcome(found) == CASE Cardinality(found) = 0 -> "UNMATCHED"
                         [] Cardinality(found) = 1 -> "MATCHED"
                         [] OTHER -> "MATCH_REVIEW_REQUIRED"

(* Mutant: an inbound message opens nothing. *)
AfterInboundStaysClosed(row, found) ==
    [row EXCEPT !.lead = IF @ = NoAgent THEN MatchLead(found) ELSE @,
                !.match = IF row.lead = NoAgent THEN MatchOutcome(found) ELSE @,
                !.unread = @ + 1]

(* ingest_inbound: link a lead, open a linked conversation, reopen a closed one,   *)
(* one more unread.                                                          *)
AfterInbound(row, found) ==
    LET lead == IF row.lead = NoAgent THEN MatchLead(found) ELSE row.lead IN
    [row EXCEPT
        !.lead = lead,
        !.match = IF row.lead = NoAgent THEN MatchOutcome(found) ELSE @,
        !.status = IF @ \in {"RESOLVED", "CLOSED"} \/ (@ = "PENDING" /\ lead # NoAgent)
                     THEN "OPEN" ELSE @,
        !.unread = @ + 1]

(* ingest_campaign_outbound: a linked lead is never replaced, unread untouched. *)
AfterOutbound(row, lead) ==
    [row EXCEPT
        !.lead = IF @ = NoAgent THEN lead ELSE @,
        !.match = IF row.lead = NoAgent /\ lead # NoAgent THEN "MATCHED"
                  ELSE IF @ = "NULL" THEN "UNMATCHED" ELSE @,
        !.status = IF row.lead = NoAgent /\ lead # NoAgent /\ @ = "PENDING" THEN "OPEN" ELSE @]

(* A webhook delivers message m; an event already recorded, or a message the      *)
(* conversation already has, is answered without doing anything.                *)
IngestLoad(h, m) ==
    /\ request[h].op = "none"
    /\ m \notin eventRows
    /\ \A c \in FindConversation : <<m, c>> \notin stored
    /\ Load(h, "inbound", m, FindConversation)
    /\ UNCHANGED <<conv, threads, stored, eventRows, contacts, agentOps, inboxFaults,
                   unseen, late, raced>>

(* The campaign worker adds its send to the history, with the recipient's lead. *)
OutboundLoad(h, lead) ==
    /\ request[h].op = "none"
    /\ agentOps < MaxAgentOps
    /\ agentOps' = agentOps + 1
    /\ Load(h, "outbound", lead, FindConversation)
    /\ UNCHANGED <<conv, threads, stored, eventRows, contacts, inboxFaults, unseen, late, raced>>

(* The conversation written by handler h becomes `new`: the one it found, or a     *)
(* new one, since no constraint keeps a contact to one conversation.             *)
Thread(h, c, new) ==
    IF request[h].on = {}
      THEN /\ conv[c].status = "NONE"
           /\ conv' = [conv EXCEPT ![c] = new]
           /\ threads' = Append(threads, c)
      ELSE /\ c \in request[h].on
           /\ conv' = [conv EXCEPT ![c] = WriteBack(@, request[h].rows[c], new)]
           /\ UNCHANGED threads

Before(h, c) == IF request[h].on = {} THEN NewConversation ELSE request[h].rows[c]

(* The lead that the rows this request commits refer to. *)
RefersTo(p) ==
    LET r == request[p] IN
    CASE r.op = "inbound" -> AfterInbound(Before(p, CHOOSE c \in Conversations :
                                                   r.on # {} => c \in r.on), r.found).lead
      [] r.op \in {"outbound", "link", "linkNew"} -> r.arg
      [] OTHER -> NoAgent

LeadKept(p) == RefersTo(p) \in contacts \cup {NoAgent}

(* Event row, conversation and message are committed together, or not at all when  *)
(* another delivery of the same event was first.                               *)
IngestCommit(h) ==
    LET m == request[h].arg IN
    /\ request[h].op = "inbound"
    /\ LeadKept(h)
    /\ IF m \in eventRows
         THEN UNCHANGED <<conv, threads, stored, eventRows, unseen, late, raced>>
         ELSE \E c \in Conversations :
                /\ Thread(h, c, AfterInbound(Before(h, c), request[h].found))
                /\ stored' = stored \cup {<<m, c>>}
                /\ eventRows' = eventRows \cup {m}
                /\ unseen' = unseen \cup {c}
                /\ late' = late \cup {c}
                /\ raced' = raced \cup StaleRows(h)
    /\ EndRequest(h)
    /\ UNCHANGED <<contacts, agentOps, inboxFaults>>

OutboundCommit(h) ==
    /\ request[h].op = "outbound"
    /\ LeadKept(h)
    /\ \E c \in Conversations : Thread(h, c, AfterOutbound(Before(h, c), request[h].arg))
    /\ raced' = raced \cup StaleRows(h)
    /\ EndRequest(h)
    /\ UNCHANGED <<stored, eventRows, contacts, agentOps, inboxFaults, unseen, late>>

(* The lead was deleted after it was loaded: the foreign key refuses the commit. *)
LeadGone(p) ==
    /\ ~LeadKept(p)
    /\ EndRequest(p)
    /\ UNCHANGED <<conv, threads, stored, eventRows, contacts, agentOps, inboxFaults,
                   unseen, late, raced>>

(* emit_system_event rolls the whole session back when the automation intake       *)
(* fails, or the process dies before the commit: nothing of the request is kept,   *)
(* and the provider delivers the message again.                                *)
RequestRollsBack(p) ==
    /\ request[p].op # "none"
    /\ InboxFault
    /\ EndRequest(p)
    /\ UNCHANGED <<conv, threads, stored, eventRows, contacts, agentOps, unseen, late, raced>>

----------------------------------------------------------------------------
(* Agents. *)

(* The permission each operation needs, in the API ... *)
ApiWorkRoutes == [read |-> "inbox.view", unread |-> "inbox.view",
                  status |-> "inbox.change_status", priority |-> "inbox.change_priority",
                  assign |-> "inbox.assign"]
ApiLeadRoutes == [link |-> "inbox.link_lead", unlink |-> "inbox.link_lead",
                  create |-> "inbox.create_lead"]
(* ... and on the UI pages, which cannot unlink. *)
UiRoutes == [read |-> "inbox.view", unread |-> "inbox.view",
             status |-> "inbox.change_status", priority |-> "inbox.change_priority",
             assign |-> "inbox.assign", link |-> "inbox.link_lead", create |-> "inbox.create_lead"]

Permitted(a, op) ==
    \E routes \in {ApiWorkRoutes, ApiLeadRoutes, UiRoutes} :
        op \in DOMAIN routes /\ routes[op] \in Grants[a]

(* _visibility_clause and _ensure_visible. *)
Visible(a, c) ==
    \/ "inbox.manage" \in Grants[a]
    \/ ~AssignedOnly
    \/ conv[c].assigned \in {a, NoAgent}

MarkRead(row) == [row EXCEPT !.unread = 0]
MarkUnread(row) == [row EXCEPT !.unread = IF @ = 0 THEN 1 ELSE @]
ChangeStatus(row, status) == [row EXCEPT !.status = status]
ChangePriority(row, priority) == [row EXCEPT !.priority = priority]
AssignUser(row, user) == [row EXCEPT !.assigned = user]
LinkLead(row, lead) ==
    [row EXCEPT !.lead = lead, !.match = "MATCHED",
                !.status = IF @ = "PENDING" THEN "OPEN" ELSE @]
UnlinkLead(row) ==
    IF row.lead = NoAgent THEN row
    ELSE [row EXCEPT !.lead = NoAgent, !.match = "UNMATCHED",
                     !.status = IF @ = "OPEN" THEN "PENDING" ELSE @]

(* What the operation asks of the loaded rows and of its argument.  link_lead     *)
(* wants the lead to exist, create_lead_from_conversation wants none linked.      *)
Acceptable(op, arg, cs) ==
    CASE op \in {"read", "unread", "unlink"} -> arg = NoAgent
      [] op = "status" -> arg \in AgentStatuses
      [] op = "priority" -> arg \in ConversationPriority
      [] op = "assign" -> arg \in Agents \cup {NoAgent}
      [] op = "link" -> arg \in contacts
      [] op = "create" -> arg \in Contacts \ contacts /\ \A c \in cs : conv[c].lead = NoAgent

(* The route: permission, load, visibility.  Only the bulk read state changes       *)
(* several conversations in one commit; the other bulk actions commit one by one.   *)
AgentLoad(a, op, arg, cs) ==
    /\ request[a].op = "none"
    /\ agentOps < MaxAgentOps
    /\ agentOps' = agentOps + 1
    /\ Permitted(a, op)
    /\ cs # {} /\ cs \subseteq {c \in Existing : Visible(a, c)}
    /\ Cardinality(cs) = 1 \/ op \in {"read", "unread"}
    /\ Acceptable(op, arg, cs)
    /\ Load(a, op, arg, cs)
    /\ UNCHANGED <<conv, threads, stored, eventRows, contacts, inboxFaults, unseen, late, raced>>

(* conversations.py: assignment behind the organization's rules instead (they are   *)
(* not the inbox's visibility), to an existing user or to nobody.                *)
AssignConversation(a, user, c) ==
    /\ request[a].op = "none"
    /\ agentOps < MaxAgentOps
    /\ agentOps' = agentOps + 1
    /\ "inbox.assign" \in Grants[a]
    /\ Load(a, "assign", user, {c})
    /\ UNCHANGED <<conv, threads, stored, eventRows, contacts, inboxFaults, unseen, late, raced>>

AfterAgent(row, op, arg) ==
    CASE op = "read" -> MarkRead(row)
      [] op = "unread" -> MarkUnread(row)
      [] op = "status" -> ChangeStatus(row, arg)
      [] op = "priority" -> ChangePriority(row, arg)
      [] op = "assign" -> AssignUser(row, arg)
      [] op \in {"link", "linkNew"} -> LinkLead(row, arg)
      [] op = "unlink" -> UnlinkLead(row)

AgentCommit(a) ==
    LET r == request[a] IN
    /\ r.op \notin {"none", "create"}
    /\ LeadKept(a)
    /\ conv' = [c \in Conversations |->
                  IF c \in r.on THEN WriteBack(conv[c], r.rows[c], AfterAgent(r.rows[c], r.op, r.arg))
                  ELSE conv[c]]
    /\ unseen' = IF r.op = "read" THEN unseen \ r.on ELSE unseen
    /\ late' = IF r.op = "status" THEN late \ r.on ELSE late
    /\ raced' = raced \cup StaleRows(a)
    /\ EndRequest(a)
    /\ UNCHANGED <<threads, stored, eventRows, contacts, agentOps, inboxFaults>>

(* create_lead_from_conversation commits the lead first, then the link: a request    *)
(* that dies in between leaves a lead nobody linked.                            *)
CreateLeadFromConversation(a) ==
    LET r == request[a] IN
    /\ r.op = "create"
    /\ r.arg \notin contacts
    /\ contacts' = contacts \cup {r.arg}
    /\ request' = [request EXCEPT ![a].op = "linkNew"]
    /\ UNCHANGED <<conv, threads, stored, eventRows, agentOps, inboxFaults, unseen, late, raced>>

(* A lead is deleted: its foreign keys become NULL, the match outcome stays. *)
DeleteLead(l) ==
    /\ l \in contacts
    /\ InboxFault
    /\ contacts' = contacts \ {l}
    /\ conv' = [c \in Conversations |-> IF conv[c].lead = l THEN [conv[c] EXCEPT !.lead = NoAgent]
                                        ELSE conv[c]]
    /\ UNCHANGED <<threads, stored, eventRows, request, agentOps, unseen, late, raced>>

----------------------------------------------------------------------------
InboxInit ==
    /\ conv = [c \in Conversations |-> NoConversation]
    /\ threads = <<>>
    /\ stored = {}
    /\ eventRows = {}
    /\ contacts \in {{}} \cup {{l} : l \in Contacts}
    /\ request = [p \in InboxHandlers \cup Agents |-> IdleRequest]
    /\ agentOps = 0 /\ inboxFaults = 0
    /\ unseen = {} /\ late = {} /\ raced = {}

InboxNext ==
    \/ \E h \in InboxHandlers :
         \/ \E m \in InMessages : IngestLoad(h, m)
         \/ \E l \in contacts \cup {NoAgent} : OutboundLoad(h, l)
         \/ IngestCommit(h) \/ OutboundCommit(h)
    \/ \E a \in Agents :
         \/ \E op \in InboxOps, cs \in SUBSET Existing,
               arg \in AgentStatuses \cup ConversationPriority \cup Agents \cup Contacts \cup {NoAgent} :
              AgentLoad(a, op, arg, cs)
         \/ \E user \in Agents \cup {NoAgent}, c \in Existing : AssignConversation(a, user, c)
         \/ AgentCommit(a) \/ CreateLeadFromConversation(a)
    \/ \E p \in InboxHandlers \cup Agents : RequestRollsBack(p) \/ LeadGone(p)
    \/ \E l \in Contacts : DeleteLead(l)

InboxSpec == InboxInit /\ [][InboxNext]_inboxVars

----------------------------------------------------------------------------
(* Properties. *)

InboxTypeOK ==
    /\ conv \in [Conversations -> ConversationRows]
    /\ threads \in Seq(Conversations)
    /\ stored \subseteq InMessages \X Conversations
    /\ eventRows \subseteq InMessages
    /\ contacts \subseteq Contacts
    /\ request \in [InboxHandlers \cup Agents -> InboxRequests]
    /\ agentOps \in Nat /\ inboxFaults \in Nat
    /\ unseen \subseteq Conversations /\ late \subseteq Conversations /\ raced \subseteq Conversations

(* An inbound message is stored once over all conversations of the contact, however  *)
(* often and however concurrently the provider delivers it.                      *)
InboundStoredOnce ==
    \A x, y \in stored : x[1] = y[1] => x = y

(* A conversation with a message nobody has read since it came in counts as unread,   *)
(* and one that got a message since an agent last set its status is not RESOLVED or   *)
(* CLOSED; only a request that wrote from an out-of-date copy can hide a message.     *)
NothingGoesUnnoticed ==
    \A c \in Conversations \ raced :
        /\ c \in unseen => conv[c].unread > 0
        /\ c \in late => conv[c].status \notin {"RESOLVED", "CLOSED"}

(* A conversation that shows a lead shows it as matched, through every order of        *)
(* linking, unlinking, matching by ingestion, campaign sends and deleted leads.        *)
LinkedIsMatched ==
    \A c \in Conversations \ raced : conv[c].lead # NoAgent => conv[c].match = "MATCHED"

(* What a team relies on: an inbound message is stored once, nothing that came in is  *)
(* hidden as read or closed, and a linked lead is shown as matched.                *)
InboxInv == InboxTypeOK /\ InboundStoredOnce /\ NothingGoesUnnoticed /\ LinkedIsMatched
=============================================================================
