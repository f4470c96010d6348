----------------------------- MODULE MCPeople -------------------------------
(***************************************************************************)
(* What people do: requests to the API and the web pages (Requests), what  *)
(* they get to see (Visibility), their accounts (Accounts) and the shared  *)
(* inbox they work in (Inbox).  A behaviour is one of a single part.       *)
(***************************************************************************)
EXTENDS Requests, Visibility, Accounts, Inbox

CONSTANTS a1, a2

VARIABLE part

peopleVars == <<part, requestVars, visibilityVars, accountVars, inboxVars>>

\* One agent manages the inbox, the other only reads and changes the status.
MCGrants ==
    [a \in Agents |->
        IF a = a1
        THEN {"inbox.view", "inbox.manage", "inbox.change_status", "inbox.assign",
              "inbox.link_lead", "inbox.create_lead", "inbox.change_priority"}
        ELSE {"inbox.view", "inbox.change_status"}]

PeopleInit ==
    /\ part \in {"requests", "visibility", "accounts", "inbox"}
    /\ RequestsInit
    /\ VisibilityInit
    /\ AccountsInit /\ (part # "accounts" => Supers = {CHOOSE u \in Users : TRUE})
    /\ InboxInit /\ (part # "inbox" => contacts = {})

PeopleNext ==
    /\ UNCHANGED part
    /\ \/ part = "requests" /\ RequestsNext
                            /\ UNCHANGED <<visibilityVars, accountVars, inboxVars>>
       \/ part = "visibility" /\ VisibilityNext
                              /\ UNCHANGED <<requestVars, accountVars, inboxVars>>
       \/ part = "accounts" /\ AccountsNext
                            /\ UNCHANGED <<requestVars, visibilityVars, inboxVars>>
       \/ part = "inbox" /\ InboxNext
                         /\ UNCHANGED <<requestVars, visibilityVars, accountVars>>

PeopleSpec == PeopleInit /\ [][PeopleNext]_peopleVars
=============================================================================
