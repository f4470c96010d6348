------------------------------ MODULE Requests ------------------------------
(***************************************************************************)
(* A request: the gate in front of its handler (api/deps.py, the           *)
(* dependencies of ui/__init__.py), then the handler's steps in one        *)
(* database session that is rolled back when it is closed uncommitted      *)
(* (db/session.py).  The handlers are the rows of ApiRoutes and UiRoutes.  *)
(* A step may raise, and the process may die, at any point.                *)
(*                                                                         *)
(* One request at a time: what two requests do to each other's rows is the *)
(* matter of the modules of the components.                                *)
(***************************************************************************)
EXTENDS ApiRoutes, UiRoutes

CONSTANTS
    KeyScopes,      \* the scopes of the API keys considered
    Nobody          \* stands for no caller and no handler

Handlers == ApiHandlers \cup UiHandlers

\* Who calls: a signed-in user with one role, an API key of such a user, or
\* nobody in particular.
RequestCallers ==
    {[kind |-> "session", role |-> r, scopes |-> {}] : r \in ROLES}
        \cup {[kind |-> "key", role |-> r, scopes |-> KeyScopes] : r \in ROLES}
        \cup {[kind |-> "anonymous", role |-> Nobody, scopes |-> {}]}

VARIABLES
    caller,     \* who sent the request
    handler,    \* the path through the handler that serves it
    step,       \* 0 at the gate, then the step of handler.prog to take next
    pending,    \* the session holds changes that are not committed
    kept,       \* a change was committed
    logged,     \* an audit entry was committed
    sent,       \* something outside the database was changed
    lost,       \* a change the handler made was dropped without an error
    answer      \* what the caller was told; "none" while the handler runs

requestVars == <<caller, handler, step, pending, kept, logged, sent, lost, answer>>

Answers == {"none", "ok", "refused", "not_found", "error", "crashed"}

RequestsTypeOK ==
    /\ caller \in RequestCallers \cup {Nobody}
    /\ handler \in Handlers \cup {Nobody}
    /\ handler = Nobody <=> caller = Nobody
    /\ step \in 0 .. (IF handler = Nobody THEN 0 ELSE Len(handler.prog) + 1)
    /\ {pending, kept, logged, sent, lost} \subseteq BOOLEAN
    /\ answer \in Answers

RequestsInit ==
    /\ caller = Nobody
    /\ handler = Nobody
    /\ step = 0
    /\ pending = FALSE
    /\ kept = FALSE
    /\ logged = FALSE
    /\ sent = FALSE
    /\ lost = FALSE
    /\ answer = "none"

-----------------------------------------------------------------------------
(* The gate.                                                               *)

\* _resolve_api_key and load_user_permissions
CallerPermissions(c) ==
    CASE c.kind = "session" -> LoadUserPermissions({c.role})
      [] c.kind = "key" -> KeyPermissions(c.scopes, {c.role})
      [] OTHER -> {}

\* The pages know only the session cookie; an API key is a bearer token.
Reaches(c, h) == c.kind = "key" => h \in ApiHandlers

Arrive(c, h) ==
    /\ handler = Nobody
    /\ Reaches(c, h)
    /\ caller' = c
    /\ handler' = h
    /\ UNCHANGED <<step, pending, kept, logged, sent, lost, answer>>

\* require_permission, ui_user, require_ui_permission, ui_user_for
MayEnter(c, h) ==
    \/ h.needs = Anyone
    \/ c.kind # "anonymous" /\ h.needs \subseteq CallerPermissions(c)

Running == handler # Nobody /\ answer = "none"

Enter ==
    /\ Running
    /\ step = 0
    /\ MayEnter(caller, handler)
    /\ step' = 1
    /\ UNCHANGED <<caller, handler, pending, kept, logged, sent, lost, answer>>

\* Ending a request closes the session, which rolls back what is not committed.
Answer(a) ==
    /\ answer' = a
    /\ lost' = (lost \/ (pending /\ a = "ok"))
    /\ pending' = FALSE
    /\ UNCHANGED <<caller, handler, step, kept, logged, sent>>

\* No valid credentials, a revoked session, a deactivated account, an inactive
\* membership or organization, or a permission that is missing.
TurnAway ==
    /\ Running
    /\ step = 0
    /\ handler.needs # Anyone
    /\ Answer("refused")

-----------------------------------------------------------------------------
(* The steps of the handler.                                               *)

AtStep(kinds) ==
    /\ Running
    /\ step \in DOMAIN handler.prog
    /\ handler.prog[step] \in kinds

Continue == step' = step + 1 /\ UNCHANGED <<caller, handler, answer>>

\* A row that is not there, or not one the caller may see, is a 404.
Find ==
    /\ AtStep({"look", "scope"})
    /\ \/ Continue /\ UNCHANGED <<pending, kept, logged, sent, lost>>
       \/ Answer("not_found")

Check ==
    /\ AtStep({"check"})
    /\ \/ Continue /\ UNCHANGED <<pending, kept, logged, sent, lost>>
       \/ Answer("refused")

CheckPermission ==
    /\ AtStep(PERMISSIONS)
    /\ \/ /\ handler.prog[step] \in CallerPermissions(caller)
          /\ Continue /\ UNCHANGED <<pending, kept, logged, sent, lost>>
       \/ /\ handler.prog[step] \notin CallerPermissions(caller)
          /\ Answer("refused")

Refuse == AtStep({"refuse"}) /\ Answer("refused")

Write ==
    /\ AtStep({"write"})
    /\ pending' = TRUE
    /\ Continue /\ UNCHANGED <<kept, logged, sent, lost>>

\* flush instead of commit: the rows are sent and then rolled back.
CommitFlush ==
    /\ AtStep({"commit"})
    /\ Continue /\ UNCHANGED <<pending, kept, logged, sent, lost>>

Commit ==
    /\ AtStep({"commit"})
    /\ kept' = (kept \/ pending)
    /\ pending' = FALSE
    /\ Continue /\ UNCHANGED <<logged, sent, lost>>

\* AuditService.log: the entry is committed with whatever the session holds; when
\* that fails the session is rolled back and the handler goes on as if nothing
\* had happened.
Audit ==
    /\ AtStep({"audit"})
    /\ \/ kept' = (kept \/ pending) /\ logged' = TRUE /\ lost' = lost
       \/ lost' = (lost \/ pending) /\ UNCHANGED <<kept, logged>>
    /\ pending' = FALSE
    /\ Continue /\ UNCHANGED sent

Effect ==
    /\ AtStep({"effect"})
    /\ sent' = TRUE
    /\ Continue /\ UNCHANGED <<pending, kept, logged, lost>>

\* The row was loaded by a session that is closed: no commit will save it.
Stray ==
    /\ AtStep({"stray"})
    /\ lost' = TRUE
    /\ Continue /\ UNCHANGED <<pending, kept, logged, sent>>

Finish ==
    /\ Running
    /\ step = Len(handler.prog) + 1
    /\ Answer("ok")

\* A step raises: the server answers 500.  A step marked "fail" always does.
Raise ==
    /\ Running
    /\ step \in DOMAIN handler.prog
    /\ Answer("error")

Die == Running /\ Answer("crashed")

\* The next request finds a new session.
NextRequest ==
    /\ answer # "none"
    /\ caller' = Nobody /\ handler' = Nobody /\ step' = 0
    /\ pending' = FALSE /\ kept' = FALSE /\ logged' = FALSE
    /\ sent' = FALSE /\ lost' = FALSE /\ answer' = "none"

RequestsNext ==
    \/ \E c \in RequestCallers, h \in Handlers : Arrive(c, h)
    \/ Enter \/ TurnAway
    \/ Find \/ Check \/ CheckPermission \/ Refuse
    \/ Write \/ Commit \/ Audit \/ Effect \/ Stray
    \/ Finish \/ Raise \/ Die
    \/ NextRequest

RequestsSpec == RequestsInit /\ [][RequestsNext]_requestVars

-----------------------------------------------------------------------------
(* What a request promises.                                                *)

\* Handlers that keep part of their work, log it, or act outside the database
\* before a later check refuses the rest.
PartialHandlers ==
    {<<"leads", "update_view">>, <<"leads", "start_import">>, <<"leads", "map_import">>,
     <<"leads", "create_export">>, <<"leads", "update_lead">>, <<"leads", "assign_tags">>,
     <<"leads", "remove_tag">>, <<"files", "download_file">>,
     <<"connections", "update_whatsapp_connection">>, <<"users", "update_user">>,
     <<"connections_email", "update_email_connection">>,
     <<"campaigns", "launch_campaign">>, <<"automation", "delete_workflow">>,
     <<"actor_platform", "delete_kv">>, <<"ui_connections", "create_connection">>,
     <<"ui_connections_email", "create_email_connection">>,
     <<"ui_connections_email", "email_connection_status">>,
     <<"ui_connections_email", "rotate_email_credentials">>,
     <<"ui_campaigns", "campaign_validate">>, <<"ui_campaigns", "campaign_launch">>,
     <<"ui_leads", "import_upload_submit">>, <<"ui_leads", "import_map_submit">>,
     <<"ui_leads", "export_submit">>}

\* A request that is refused or answered 404 has changed nothing, logged nothing
\* and sent nothing, except in the handlers of PartialHandlers: every other
\* handler validates before its first commit, and the session drops the rest.
RefusalLeavesNothing ==
    answer \in {"refused", "not_found"} =>
        \/ <<handler.at, handler.name>> \in PartialHandlers
        \/ ~kept /\ ~logged /\ ~sent

\* Handlers that leave their last change to the commit of the audit entry, and
\* the one that changes a row of a closed session.
LosingHandlers ==
    {<<"leads", "assign_lead">>, <<"conversations", "assign_conversation">>,
     <<"campaigns", "create_campaign">>, <<"ui", "ui_schedule_run_now">>}

\* "Audit failures must never break the main operation": a request that is
\* answered with success has kept every change its handler made, also when the
\* audit entry failed and its rollback emptied the session, except in the
\* handlers of LosingHandlers.
SuccessIsKept ==
    answer = "ok" /\ lost => <<handler.at, handler.name>> \in LosingHandlers

\* What a viewer may still change: what it has read, its own preferences and
\* session, and the runs of a report.
ViewerHandlers ==
    {<<"auth", "logout">>, <<"notifications", "mark_read">>, <<"reports", "run_report">>,
     <<"users", "get_own_preferences">>, <<"users", "update_own_preferences">>,
     <<"inbox", "mark_read">>, <<"inbox", "mark_unread">>, <<"inbox", "bulk_actions">>,
     <<"ui", "notification_mark_read">>, <<"ui_analytics", "report_run_ui">>,
     <<"ui_inbox", "ui_mark_read">>, <<"ui_inbox", "ui_mark_unread">>}

\* "Read-only dashboards and analytics": whatever a viewer or a viewer's API key
\* calls, nothing is changed or sent outside ViewerHandlers and the public pages.
ViewersOnlyRead ==
    handler # Nobody /\ caller.role = "VIEWER" /\ (kept \/ sent) =>
        handler.needs = Anyone \/ <<handler.at, handler.name>> \in ViewerHandlers

\* The handler that logs before it tries.
LogsFirst == {<<"automation", "delete_workflow">>}

\* The trail tells what happened: while a request runs, and whenever it ends, an
\* entry stands only beside a change that is kept, unless the path changes nothing
\* or its handler is one of LogsFirst.
TrailIsTrue ==
    logged => \/ kept
              \/ "write" \notin {handler.prog[i] : i \in DOMAIN handler.prog}
              \/ <<handler.at, handler.name>> \in LogsFirst

\* What the caller is told, what the trail says and what a viewer's request leaves
\* behind agree with what was committed, wherever the handler fails or dies.
RequestsInv ==
    /\ RequestsTypeOK
    /\ RefusalLeavesNothing
    /\ SuccessIsKept
    /\ ViewersOnlyRead
    /\ TrailIsTrue
-----------------------------------------------------------------------------
(* What the rows of ApiRoutes and UiRoutes have in common: the order of the *)
(* steps in the code, on which the promises rest.                          *)

MayRefuse == {"look", "scope", "check", "refuse"} \cup PERMISSIONS

\* Between steps i and j of a path no step is of the kinds.
NoneBetween(h, i, j, kinds) == \A k \in DOMAIN h.prog : i < k /\ k < j => h.prog[k] \notin kinds

\* Whatever may refuse comes before the first commit, audit entry and effect.
RefusesFirst(h) ==
    \A i, j \in DOMAIN h.prog :
        i < j /\ h.prog[i] \in {"commit", "audit", "effect"} => h.prog[j] \notin MayRefuse

\* A write is committed before the next audit entry and before the handler ends.
CommitsItself(h) ==
    \A i \in DOMAIN h.prog :
        /\ h.prog[i] # "stray"
        /\ h.prog[i] = "write" =>
             /\ ~NoneBetween(h, i, Len(h.prog) + 1, {"commit"})
             /\ \A j \in DOMAIN h.prog :
                  i < j /\ h.prog[j] = "audit" => ~NoneBetween(h, i, j, {"commit"})

\* A viewer is stopped at the gate or by a check before the first write and effect.
StopsViewers(h) ==
    \/ ~(h.needs \subseteq VIEWER)
    \/ \A j \in DOMAIN h.prog :
         h.prog[j] \in {"write", "effect"} =>
             \E i \in DOMAIN h.prog : i < j /\ h.prog[i] \in PERMISSIONS \ VIEWER

\* No audit entry that could drop the write at step i comes before step j.
Survives(h, i, j) ==
    \A k \in DOMAIN h.prog :
        i < k /\ k < j /\ h.prog[k] = "audit" => ~NoneBetween(h, i, k, {"commit"})

\* An audit entry follows a write that is still there.
LogsAfterwards(h) ==
    \A j \in DOMAIN h.prog : h.prog[j] = "audit" =>
        \E i \in DOMAIN h.prog : i < j /\ h.prog[i] = "write" /\ Survives(h, i, j)

ASSUME RequestsAssumption ==
    /\ Nobody \notin Handlers \cup RequestCallers
    /\ \A h \in Handlers :
         /\ h.prog \in Seq(StepKinds \cup PERMISSIONS)
         /\ RefusesFirst(h) \/ <<h.at, h.name>> \in PartialHandlers
         /\ CommitsItself(h) \/ <<h.at, h.name>> \in LosingHandlers
         /\ StopsViewers(h) \/ h.needs = Anyone \/ <<h.at, h.name>> \in ViewerHandlers
         /\ \/ LogsAfterwards(h)
            \/ "write" \notin {h.prog[i] : i \in DOMAIN h.prog}
            \/ <<h.at, h.name>> \in LogsFirst
=============================================================================
