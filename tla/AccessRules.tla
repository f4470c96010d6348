---------------------------- MODULE AccessRules ----------------------------
(***************************************************************************)
(* Who may do what: the permissions of the roles (services/rbac.py), what  *)
(* an API key may use (api/deps.py), and the vocabulary in which ApiRoutes *)
(* and UiRoutes describe the request handlers.                             *)
(*                                                                         *)
(* A handler is a sequence of steps:                                       *)
(*   look      load a row by its id, or answer 404                         *)
(*   scope     load a row the caller's organization and team may see       *)
(*   check     validate the input or the row's state, and possibly refuse  *)
(*   write     change rows in the request's database session               *)
(*   commit    commit the session                                          *)
(*   audit     AuditService.log: add an entry and commit the session       *)
(*   effect    act outside the database: a file, a provider, the queue     *)
(*   refuse    always refuse                                               *)
(*   fail      always raise: the code names something that does not exist  *)
(*   stray     change a row that belongs to a session already closed       *)
(* and a permission code stands for a check of that permission inside the  *)
(* handler.  What is checked, written or sent is left out.                 *)
(***************************************************************************)
EXTENDS Integers, Sequences, FiniteSets

\* One row per handler of names and per path of progs.
Rows(at, needs, names, progs) ==
    {[at |-> at, name |-> n, needs |-> needs, prog |-> p] : n \in names, p \in progs}

\* No sign-in is needed.
Anyone == {"public"}

Reads == << >>
Saved == <<"write", "commit">>
Logged == <<"write", "commit", "audit">>

StepKinds == {"look", "scope", "check", "write", "commit", "audit", "effect",
              "refuse", "fail", "stray"}

-----------------------------------------------------------------------------
(* The roles.  Each role is the one below it with the listed changes.      *)

VIEWER ==
    {"analytics.view", "analytics.view_automation", "analytics.view_email",
     "analytics.view_inbox", "analytics.view_leads",
     "analytics.view_marketing", "analytics.view_scraping",
     "analytics.view_whatsapp", "automation.view",
     "automation.view_executions", "campaign.view", "campaigns.analytics",
     "campaigns.email.analytics", "campaigns.view", "connections.view",
     "dashboard.view", "email.connections.view", "email.templates.view",
     "exports.view", "files.view", "inbox.view", "leads.view",
     "marketing.view", "notifications.view", "reports.run", "reports.view",
     "roles.view", "scraping.view", "sending_accounts.view",
     "suppression.email.view", "suppression.view", "templates.view",
     "templates.whatsapp.view"}

OPERATOR ==
    (VIEWER \ {"campaign.view", "campaigns.analytics", "roles.view"})
    \cup {"automation.execute", "campaigns.export", "connections.health",
          "email.connections.health", "exports.download", "files.create",
          "files.delete", "inbox.add_notes", "inbox.assign",
          "inbox.change_priority", "inbox.change_status", "inbox.create_lead",
          "inbox.email.reply", "inbox.link_lead", "inbox.reply",
          "inbox.whatsapp.reply", "leads.archive", "leads.create",
          "leads.edit", "leads.export", "leads.import", "leads.manage_tags",
          "leads.merge", "reports.create", "reports.delete", "reports.edit",
          "reports.export", "scraping.cancel", "scraping.export",
          "scraping.pause", "scraping.run"}

MANAGER ==
    (OPERATOR \ {"scraping.cancel", "scraping.export", "scraping.pause",
                  "scraping.run"})
    \cup {"analytics.view_team", "automation.create", "automation.edit",
          "automation.pause", "automation.publish", "automation.resume",
          "campaign.create", "campaign.view", "campaigns.analytics",
          "campaigns.cancel", "campaigns.create", "campaigns.edit",
          "campaigns.email.launch", "campaigns.launch", "campaigns.pause",
          "campaigns.resume", "campaigns.validate",
          "campaigns.whatsapp.launch", "connections.sync_templates",
          "connections.validate", "email.connections.validate",
          "email.templates.manage", "invitations.view", "leads.assign",
          "leads.manage_views", "suppression.email.manage",
          "suppression.manage", "teams.manage_members", "teams.view",
          "templates.create", "templates.delete", "templates.edit",
          "templates.whatsapp.manage"}

ADMIN ==
    MANAGER \cup {"analytics.manage", "apikeys.create", "apikeys.revoke",
                  "apikeys.view", "audit.view", "automation.delete",
                  "connections.create", "connections.delete",
                  "connections.edit", "connections.manage",
                  "email.connections.create", "email.connections.delete",
                  "email.connections.edit", "inbox.manage",
                  "invitations.create", "invitations.revoke", "leads.delete",
                  "leads.manage_quality", "reports.manage", "roles.view",
                  "scraping.cancel", "scraping.export", "scraping.manage",
                  "scraping.pause", "scraping.run", "security.manage",
                  "security.view", "sending_accounts.manage",
                  "sessions.revoke", "sessions.view", "settings.view",
                  "teams.create", "teams.edit", "users.manage", "users.view",
                  "webhooks.whatsapp.receive"}

SUPER_ADMIN == ADMIN \cup {"settings.manage"}

ROLE_PERMISSIONS ==
    [VIEWER |-> VIEWER, OPERATOR |-> OPERATOR, MANAGER |-> MANAGER,
     ADMIN |-> ADMIN, SUPER_ADMIN |-> SUPER_ADMIN]

ROLES == DOMAIN ROLE_PERMISSIONS

PERMISSIONS == SUPER_ADMIN

\* A user may hold several roles: the permissions of all of them.
LoadUserPermissions(roles) == UNION {ROLE_PERMISSIONS[r] : r \in roles}

API_KEY_SCOPE_PERMISSIONS ==
    {[scope |-> "leads.read", codes |-> {"leads.view"}],
     [scope |-> "leads.write",
      codes |-> {"leads.create", "leads.edit", "leads.import", "leads.export"}],
     [scope |-> "campaigns.read", codes |-> {"campaigns.view"}],
     [scope |-> "campaigns.write",
      codes |-> {"campaigns.create", "campaigns.edit", "campaigns.validate"}],
     [scope |-> "analytics.read", codes |-> {"dashboard.view", "exports.view"}],
     [scope |-> "scraping.run", codes |-> {"scraping.view", "scraping.run"}],
     [scope |-> "files.read", codes |-> {"files.view", "exports.download"}],
     [scope |-> "connections.read", codes |-> {"connections.view"}]}

\* What a key may use: its scopes' permissions that its owner holds as well.
KeyPermissions(scopes, roles) ==
    (UNION {m.codes : m \in {k \in API_KEY_SCOPE_PERMISSIONS : k.scope \in scopes}})
        \cap LoadUserPermissions(roles)

=============================================================================
