-------------------- MODULE ApiRoutes --------------------
(***************************************************************************)
(* The handlers of the HTTP API (api/v1), one definition per group of      *)
(* neighbouring handlers.  A row is one path through one handler: the      *)
(* permissions its dependencies demand before it runs and the steps it     *)
(* takes, in the order the code takes them.  AccessRules names the steps.  *)
(***************************************************************************)
EXTENDS AccessRules

\* api/v1/leads.py
LeadListRoutes ==
    LET at == "leads" IN
    Rows(at, {"leads.view"}, {"list_leads"}, {<<"check">>, <<"check", "look">>})
    \cup Rows(at, {"leads.view"}, {"quality_overview", "list_tags"}, {Reads})
    \cup Rows(at, {"leads.manage_quality"}, {"quality_recompute"}, {Reads, Saved})
    \cup Rows(at, {"leads.manage_tags"}, {"create_tag"}, {<<"check">> \o Saved})
    \cup Rows(at, {"leads.edit"}, {"enrich_lead"}, {<<"scope", "check", "effect">> \o Logged})
    \cup Rows(at, {"leads.manage_tags"}, {"update_tag"}, {<<"look">>, <<"look">> \o Saved,
             <<"look", "check">> \o Saved \o <<"commit">>, <<"look", "check">> \o Saved \o Saved,
             <<"look", "check">> \o Saved \o Saved \o Saved})

LeadViewRoutes ==
    LET at == "leads" IN
    Rows(at, {"leads.manage_tags"}, {"delete_tag"}, {<<"look">> \o Logged})
    \cup Rows(at, {"leads.view"}, {"list_views", "list_duplicates"}, {Reads})
    \cup Rows(at, {"leads.manage_views"}, {"create_view"}, {<<"check">> \o Saved})
    \cup Rows(at, {"leads.manage_views"}, {"update_view"}, {<<"scope">>,
             <<"look", "check", "write", "commit", "scope">>,
             <<"look", "check", "write", "commit", "look", "check", "write", "commit", "scope">>})
    \cup Rows(at, {"leads.manage_views"}, {"delete_view"}, {<<"look", "check">> \o Saved})
    \cup Rows(at, {"leads.manage_quality"}, {"scan_duplicates"}, {Saved})

LeadDuplicateRoutes ==
    LET at == "leads" IN
    Rows(at, {"leads.merge"}, {"merge_duplicate"},
             {<<"check", "look", "check", "look", "check">> \o Logged})
    \cup Rows(at, {"leads.merge"}, {"resolve_duplicate"}, {<<"look">> \o Saved})
    \cup Rows(at, {"leads.view"}, {"list_imports"}, {Reads})
    \cup Rows(at, {"leads.view"}, {"get_import"}, {<<"look">>})
    \cup Rows(at, {"leads.import"}, {"start_import"},
             {<<"check", "effect", "write", "commit", "audit", "check">> \o Saved})

LeadImportRoutes ==
    LET at == "leads" IN
    Rows(at, {"leads.import"}, {"map_import"},
             {<<"look", "check", "write", "commit", "check">>,
             <<"look", "check", "write", "commit", "check", "write", "commit", "check">> \o Saved})
    \cup Rows(at, {"leads.export"}, {"download_rejected"}, {<<"look", "check">>})
    \cup Rows(at, {"leads.view"}, {"list_exports"}, {Reads})
    \cup Rows(at, {"leads.export"}, {"create_export"}, {<<"check">> \o Saved,
             <<"check", "write", "commit", "check", "write", "commit", "effect">> \o Logged})

LeadBulkRoutes ==
    LET at == "leads" IN
    Rows(at, {"leads.export"}, {"download_export"}, {<<"look", "check">>})
    \cup Rows(at, {"leads.view"}, {"bulk_action"},
             {<<"check", "leads.archive", "check", "audit">>,
             <<"check", "leads.edit", "check", "audit">>,
             <<"check", "leads.export", "check", "audit">>,
             <<"check", "leads.archive", "leads.delete", "check", "audit">>,
             <<"check", "leads.archive", "check">> \o Logged,
             <<"check", "leads.edit", "check">> \o Logged,
             <<"check", "leads.archive", "leads.delete", "check">> \o Logged})

LeadEditRoutes ==
    LET at == "leads" IN
    Rows(at, {"leads.create"}, {"create_lead"}, {<<"check">> \o Logged})
    \cup Rows(at, {"leads.view"}, {"get_lead"}, {<<"scope">>})
    \cup Rows(at, {"leads.edit"}, {"update_lead"},
             {<<"scope", "check", "write", "commit", "commit", "audit">>,
             <<"scope", "check", "write", "commit", "check">> \o Logged})
    \cup Rows(at, {"leads.edit"}, {"change_status"}, {<<"scope", "check">> \o Saved})
    \cup Rows(at, {"leads.archive"}, {"archive_lead", "restore_lead"},
             {<<"scope", "check">> \o Logged})

LeadNoteRoutes ==
    LET at == "leads" IN
    Rows(at, {"leads.edit"}, {"assign_tags"}, {<<"scope", "commit", "scope">>,
             <<"scope", "check", "write", "commit", "scope">>})
    \cup Rows(at, {"leads.edit"}, {"remove_tag"}, {<<"scope", "look", "commit", "scope">>,
             <<"scope", "look", "write", "commit", "scope">>})
    \cup Rows(at, {"leads.edit"}, {"add_note"}, {<<"look", "check">> \o Saved})
    \cup Rows(at, {"leads.view"}, {"lead_activity", "lead_assignment_history"}, {<<"scope">>})

LeadAssignmentRoutes ==
    LET at == "leads" IN
    Rows(at, {"leads.assign"}, {"assign_lead"}, {<<"scope", "look">> \o Logged,
             <<"scope", "look", "write", "commit", "write", "audit">>})
    \cup Rows(at, {"leads.assign"}, {"bulk_assign_leads"}, {<<"check", "commit", "audit">>,
             <<"check">> \o Logged})

\* api/v1/api_keys.py
ApiKeyRoutes ==
    LET at == "api_keys" IN
    Rows(at, {"apikeys.view"}, {"list_api_keys"}, {Reads})
    \cup Rows(at, {"apikeys.create"}, {"create_api_key"}, {<<"check">> \o Logged})
    \cup Rows(at, {"apikeys.revoke"}, {"revoke_api_key"}, {<<"look">>, <<"look">> \o Logged})

\* api/v1/auth.py
AuthRoutes ==
    LET at == "auth" IN
    Rows(at, {}, {"me"}, {Reads})
    \cup Rows(at, {}, {"logout"}, {<<"commit", "audit">>, Logged})

\* api/v1/roles.py
RoleRoutes ==
    LET at == "roles" IN
    Rows(at, {"roles.view"}, {"list_roles", "list_permissions"}, {Reads})

\* api/v1/settings.py
SettingRoutes ==
    LET at == "settings" IN
    Rows(at, {"settings.view"}, {"get_settings_view"}, {Reads})
    \cup Rows(at, {"settings.view"}, {"get_setting"}, {<<"look">>})
    \cup Rows(at, {"settings.manage"}, {"update_setting"},
             {<<"look", "write", "commit", "audit", "audit">>})

\* api/v1/health.py
HealthRoutes ==
    LET at == "health" IN
    Rows(at, Anyone, {"liveness", "readiness", "overall_health", "database_health",
             "storage_health", "redis_health"}, {Reads})

\* api/v1/notifications.py
NotificationRoutes ==
    LET at == "notifications" IN
    Rows(at, {"notifications.view"}, {"list_notifications", "unread_count"}, {Reads})
    \cup Rows(at, {"notifications.view"}, {"mark_read"}, {<<"look">>, <<"look">> \o Saved})

\* api/v1/webhooks.py
WhatsAppWebhookRoutes ==
    LET at == "webhooks" IN
    Rows(at, Anyone, {"whatsapp_webhook_verify"}, {<<"check">>})
    \cup Rows(at, Anyone, {"whatsapp_webhook_receive"}, {<<"check">>, <<"check">> \o Saved})

\* api/v1/suppression.py
SuppressionRoutes ==
    LET at == "suppression" IN
    Rows(at, {"suppression.view"}, {"list_suppression", "list_opt_outs"}, {Reads})
    \cup Rows(at, {"suppression.manage"}, {"add_suppression", "record_opt_out"},
             {<<"check">> \o Logged})
    \cup Rows(at, {"suppression.manage"}, {"remove_suppression"}, {<<"look", "check">> \o Logged})

\* api/v1/webhooks_email.py
EmailWebhookRoutes ==
    LET at == "webhooks_email" IN
    Rows(at, Anyone, {"email_webhook_receive", "email_inbound_webhook_receive"},
             {<<"check">>, <<"check">> \o Saved})

\* api/v1/files.py
FileRoutes ==
    LET at == "files" IN
    Rows(at, {"files.create"}, {"upload_file"}, {<<"check", "effect">> \o Logged})
    \cup Rows(at, {"files.view"}, {"list_files", "storage_stats"}, {Reads})
    \cup Rows(at, {"exports.download"}, {"download_file"}, {<<"scope", "audit", "check">>})
    \cup Rows(at, {"files.delete"}, {"delete_file"}, {<<"scope", "check", "effect">> \o Logged})

\* api/v1/templates.py
TemplateRoutes ==
    LET at == "templates" IN
    Rows(at, {"templates.view"}, {"list_templates"}, {Reads})
    \cup Rows(at, {"templates.create"}, {"create_template"}, {<<"check">> \o Logged})
    \cup Rows(at, {"templates.view"}, {"get_template"}, {<<"look">>})
    \cup Rows(at, {"templates.edit"}, {"update_template"}, {<<"look", "check">> \o Logged})
    \cup Rows(at, {"templates.delete"}, {"delete_template"}, {<<"look">> \o Logged})

TemplatePreviewRoutes ==
    LET at == "templates" IN
    Rows(at, {"templates.view"}, {"preview_template"}, {<<"look">>, <<"look", "check", "look">>})

\* api/v1/sessions.py
SessionRoutes ==
    LET at == "sessions" IN
    Rows(at, {}, {"list_own_sessions"}, {Reads})
    \cup Rows(at, {"sessions.revoke"}, {"revoke_all_sessions"}, {<<"check">> \o Logged})
    \cup Rows(at, {"sessions.view"}, {"list_sessions"}, {Reads})
    \cup Rows(at, {"sessions.revoke"}, {"revoke_session"}, {<<"look", "check">>,
             <<"look", "check">> \o Logged})

\* api/v1/scrapers.py
ScraperRoutes ==
    LET at == "scrapers" IN
    Rows(at, {"scraping.view"}, {"list_scrapers", "scrapers_health"}, {Reads})
    \cup Rows(at, {"scraping.view"}, {"get_scraper"}, {<<"look">>})
    \cup Rows(at, {"scraping.view"}, {"validate_input"}, {<<"look", "check">>})
    \cup Rows(at, {"scraping.run"}, {"create_job"},
             {<<"look", "check", "write", "commit", "effect", "audit">>})

\* api/v1/orchestration.py
OrchestrationRoutes ==
    LET at == "orchestration" IN
    Rows(at, {"scraping.view"}, {"list_tools", "interpret_task", "generate_plan"}, {Reads})
    \cup Rows(at, {"scraping.run"}, {"execute_plan"},
             {<<"check", "look", "check", "write", "commit", "effect">>})
    \cup Rows(at, {"scraping.view"}, {"job_progress", "job_diagnostics"}, {<<"look">>})

\* api/v1/email_public.py
EmailPublicRoutes ==
    LET at == "email_public" IN
    Rows(at, Anyone, {"unsubscribe_page"}, {<<"check", "look">>, <<"check", "look">> \o Saved})
    \cup Rows(at, Anyone, {"track_open"}, {Reads, Saved})
    \cup Rows(at, Anyone, {"track_click"}, {<<"check">>, <<"check">> \o Saved})

\* api/v1/sending_accounts.py
SendingAccountRoutes ==
    LET at == "sending_accounts" IN
    Rows(at, {"sending_accounts.view"}, {"list_accounts"}, {Reads})
    \cup Rows(at, {"sending_accounts.manage"}, {"create_account"}, {<<"check">> \o Logged})
    \cup Rows(at, {"sending_accounts.view"}, {"get_account"}, {<<"look">>})

SendingAccountEditRoutes ==
    LET at == "sending_accounts" IN
    Rows(at, {"sending_accounts.manage"}, {"update_account"},
             {<<"look", "check", "write", "check">> \o Logged})
    \cup Rows(at, {"sending_accounts.manage"}, {"account_health"},
             {<<"look", "effect">> \o Logged})

\* api/v1/scrape_schedules.py
ScheduleRoutes ==
    LET at == "scrape_schedules" IN
    Rows(at, {"scraping.run"}, {"create_schedule"}, {<<"look", "check">> \o Saved})
    \cup Rows(at, {"scraping.view"}, {"list_schedules"}, {Reads})
    \cup Rows(at, {"scraping.view"}, {"get_schedule"}, {<<"scope">>})
    \cup Rows(at, {"scraping.run"}, {"enable_schedule", "disable_schedule",
             "delete_schedule"}, {<<"scope">> \o Saved})
    \cup Rows(at, {"scraping.run"}, {"run_schedule_now"}, {<<"scope", "check", "look">> \o Saved})

\* api/v1/teams.py
TeamRoutes ==
    LET at == "teams" IN
    Rows(at, {"teams.view"}, {"list_teams"}, {Reads})
    \cup Rows(at, {"teams.create"}, {"create_team"}, {<<"check">> \o Saved})
    \cup Rows(at, {"teams.view"}, {"get_team"}, {<<"scope">>})
    \cup Rows(at, {"teams.edit"}, {"update_team"}, {<<"scope">> \o Saved})

TeamMemberRoutes ==
    LET at == "teams" IN
    Rows(at, {"teams.view"}, {"list_members"}, {<<"scope">>, <<"scope", "fail">>})
    \cup Rows(at, {"teams.manage_members"}, {"add_member"},
             {<<"scope", "look", "check", "write", "commit", "fail">>})
    \cup Rows(at, {"teams.manage_members"}, {"remove_member"}, {<<"scope">>,
             <<"scope", "fail">>, <<"scope">> \o Saved,
             <<"scope", "write", "commit", "fail">>})

\* api/v1/invitations.py
AcceptInvitationRoute ==
    LET at == "invitations" IN
    Rows(at, Anyone, {"accept_invitation"}, {<<"look", "check">> \o Logged,
             <<"look", "check", "write", "check">> \o Logged})

InvitationRoutes ==
    LET at == "invitations" IN
    Rows(at, {"invitations.view"}, {"list_invitations"}, {Reads})
    \cup Rows(at, {"invitations.create"}, {"create_invitation"},
             {<<"check", "look", "check", "look">> \o Logged})
    \cup Rows(at, {"invitations.revoke"}, {"revoke_invitation"}, {<<"scope">>,
             <<"scope">> \o Logged})

\* api/v1/connections.py
ConnectionRoutes ==
    LET at == "connections" IN
    Rows(at, {"connections.view"}, {"list_connections", "list_whatsapp_connections"}, {Reads})
    \cup Rows(at, {"connections.create"}, {"create_whatsapp_connection"},
             {<<"check", "write", "commit">> \o Logged})
    \cup Rows(at, {"connections.view"}, {"get_whatsapp_connection"}, {<<"look">>})
    \cup Rows(at, {"connections.edit"}, {"update_whatsapp_connection"},
             {<<"look", "check", "write", "check", "commit", "audit">>,
             <<"look", "check", "write", "check", "write", "commit", "commit", "audit">>,
             <<"look", "check", "write", "check", "write", "commit", "write", "commit", "commit", "audit">>,
             <<"look", "check", "write", "check", "write", "commit", "write", "commit", "check", "write", "commit", "commit", "audit">>})

ConnectionCheckRoutes ==
    LET at == "connections" IN
    Rows(at, {"connections.delete"}, {"delete_whatsapp_connection"}, {<<"look">> \o Logged})
    \cup Rows(at, {"connections.validate"}, {"validate_whatsapp_connection"},
             {<<"look", "check", "effect">> \o Logged})
    \cup Rows(at, {"connections.health"}, {"whatsapp_connection_health"},
             {<<"look", "effect">> \o Logged})
    \cup Rows(at, {"connections.sync_templates"}, {"sync_whatsapp_templates"},
             {<<"look", "check", "effect">> \o Logged})
    \cup Rows(at, {"connections.view"}, {"list_whatsapp_templates"}, {<<"look">>})

\* api/v1/scrape_jobs.py
JobRoutes ==
    LET at == "scrape_jobs" IN
    Rows(at, {"scraping.view"}, {"list_jobs"}, {Reads})
    \cup Rows(at, {"scraping.view"}, {"get_job"}, {<<"scope">>})
    \cup Rows(at, {"scraping.pause"}, {"pause_job"}, {<<"scope", "check">> \o Logged})
    \cup Rows(at, {"scraping.pause"}, {"resume_job"},
             {<<"scope", "check", "write", "commit", "effect", "audit">>})
    \cup Rows(at, {"scraping.cancel"}, {"cancel_job"}, {<<"scope", "check">> \o Logged})
    \cup Rows(at, {"scraping.run"}, {"retry_job"},
             {<<"scope", "check", "write", "commit", "effect", "audit">>})

JobResultRoutes ==
    LET at == "scrape_jobs" IN
    Rows(at, {"scraping.view"}, {"job_logs"}, {<<"scope", "check">>})
    \cup Rows(at, {"scraping.view"}, {"job_results"}, {<<"scope">>})
    \cup Rows(at, {"scraping.export"}, {"export_results"},
             {<<"scope", "check", "effect", "write", "commit", "audit", "audit">>})

\* api/v1/reports.py
ReportRoutes ==
    LET at == "reports" IN
    Rows(at, {"reports.view"}, {"list_reports"}, {Reads})
    \cup Rows(at, {"reports.create"}, {"create_report"}, {<<"check">> \o Logged})
    \cup Rows(at, {"reports.view"}, {"get_report"}, {<<"scope">>})
    \cup Rows(at, {"reports.edit"}, {"update_report"},
             {<<"scope", "check", "write", "check">> \o Logged})
    \cup Rows(at, {"reports.delete"}, {"delete_report"}, {<<"scope", "check">> \o Logged})
    \cup Rows(at, {"reports.create"}, {"duplicate_report"}, {<<"scope">> \o Logged})
    \cup Rows(at, {"reports.edit"}, {"archive_report"}, {<<"scope", "check">> \o Logged})

ReportRunRoutes ==
    LET at == "reports" IN
    Rows(at, {"reports.edit"}, {"restore_report"}, {<<"scope", "check">> \o Logged})
    \cup Rows(at, {"reports.run"}, {"run_report"}, {<<"scope", "check">> \o Logged})
    \cup Rows(at, {"reports.view"}, {"list_report_runs"}, {<<"scope">>})
    \cup Rows(at, {"reports.view"}, {"get_report_run"}, {<<"scope", "look">>})
    \cup Rows(at, {"reports.export"}, {"export_report"},
             {<<"scope", "check", "effect", "write", "commit", "audit", "audit">>})

\* api/v1/users.py
UserCreateRoutes ==
    LET at == "users" IN
    Rows(at, {"users.manage"}, {"create_user"},
             {<<"check", "write", "check", "write", "commit">> \o Logged})
    \cup Rows(at, {"users.view"}, {"list_users"}, {Reads})

UserPreferenceRoutes ==
    LET at == "users" IN
    Rows(at, {}, {"get_own_preferences"}, {Reads, Saved})
    \cup Rows(at, {}, {"update_own_preferences"}, {<<"write", "check">> \o Saved})
    \cup Rows(at, {"users.view"}, {"get_user"}, {<<"look">>})

UserEditRoutes ==
    LET at == "users" IN
    Rows(at, {"users.manage"}, {"update_user"},
             {<<"look", "write", "check">> \o Logged,
             <<"look", "write", "check", "write", "commit", "check">> \o Logged})

UserPasswordRoutes ==
    LET at == "users" IN
    Rows(at, {"users.manage"}, {"change_password"}, {<<"look", "check">> \o Logged})
    \cup Rows(at, {"users.view"}, {"user_activity"}, {<<"look">>})

\* api/v1/analytics.py
AnalyticsLeadRoutes ==
    LET at == "analytics" IN
    Rows(at, {"analytics.view"}, {"overview"}, {<<"check">>})
    \cup Rows(at, {"analytics.view_leads"}, {"leads_analytics", "lead_sources",
             "lead_funnel"}, {<<"check">>})
    \cup Rows(at, {"analytics.view_scraping"}, {"scraping_analytics", "scraping_scrapers"},
             {<<"check">>})

AnalyticsChannelRoutes ==
    LET at == "analytics" IN
    Rows(at, {"analytics.view_marketing"}, {"marketing_analytics"}, {<<"check">>})
    \cup Rows(at, {"campaigns.analytics"}, {"campaign_analytics"}, {<<"check", "look">>})
    \cup Rows(at, {"analytics.view_whatsapp"}, {"whatsapp_analytics"}, {<<"check">>})
    \cup Rows(at, {"analytics.view_email"}, {"email_analytics"}, {<<"check">>})
    \cup Rows(at, {"analytics.view_inbox"}, {"inbox_analytics"}, {<<"check">>})
    \cup Rows(at, {"analytics.view_team"}, {"team_analytics"}, {<<"check">>})
    \cup Rows(at, {"analytics.view_automation"}, {"automation_analytics"}, {<<"check">>})

AnalyticsAdminRoutes ==
    LET at == "analytics" IN
    Rows(at, {"analytics.manage"}, {"aggregates_status", "diagnostics"}, {Reads})
    \cup Rows(at, {"analytics.manage"}, {"aggregates_rebuild"}, {<<"check">> \o Logged})
    \cup Rows(at, {"analytics.manage"}, {"cache_clear"}, {<<"effect", "audit">>})

\* api/v1/connections_email.py
EmailConnectionRoutes ==
    LET at == "connections_email" IN
    Rows(at, {"email.connections.view"}, {"list_email_connections"}, {Reads})
    \cup Rows(at, {"email.connections.create"}, {"create_email_connection"},
             {<<"check", "write", "commit">> \o Logged})
    \cup Rows(at, {"email.connections.view"}, {"get_email_connection"}, {<<"look">>})

EmailConnectionEditRoutes ==
    LET at == "connections_email" IN
    Rows(at, {"email.connections.edit"}, {"update_email_connection"},
             {<<"look", "check", "write", "check">> \o Logged,
             <<"look", "check", "write", "check", "write", "check", "write", "commit", "commit", "audit">>,
             <<"look", "check", "write", "check", "write", "check", "write", "commit", "write", "commit", "commit", "audit">>,
             <<"look", "check", "write", "check", "write", "check", "write", "commit", "write", "commit", "check", "write", "commit", "commit", "audit">>})
    \cup Rows(at, {"email.connections.delete"}, {"delete_email_connection"},
             {<<"look">> \o Logged})
    \cup Rows(at, {"email.connections.validate"}, {"validate_email_connection"},
             {<<"look", "check", "effect">> \o Logged})
    \cup Rows(at, {"email.connections.health"}, {"email_connection_health"},
             {<<"look", "effect">> \o Logged})

EmailTemplateRoutes ==
    LET at == "connections_email" IN
    Rows(at, {"email.templates.view"}, {"list_email_connection_templates"}, {<<"look">>})
    \cup Rows(at, {"email.templates.manage"}, {"create_email_connection_template"},
             {<<"look", "check">> \o Logged})
    \cup Rows(at, {"email.connections.view"}, {"email_connection_reputation"}, {<<"look">>})

\* api/v1/conversations.py
ConversationRoutes ==
    LET at == "conversations" IN
    Rows(at, {"inbox.view"}, {"list_conversations"}, {Reads})
    \cup Rows(at, {"inbox.view"}, {"get_conversation"}, {<<"scope">>})
    \cup Rows(at, {"inbox.assign"}, {"assign_conversation"},
             {<<"scope", "look">> \o Logged,
             <<"scope", "look", "write", "commit", "write", "audit">>})

ConversationReplyRoutes ==
    LET at == "conversations" IN
    Rows(at, {"inbox.view"}, {"list_messages"}, {<<"scope">>})

ConversationAnswerRoutes ==
    LET at == "conversations" IN
    Rows(at, {"inbox.reply"}, {"reply_to_conversation"}, {<<"scope", "check", "effect", "fail">>})

ConversationBulkAssignRoutes ==
    LET at == "conversations" IN
    Rows(at, {"inbox.assign"}, {"bulk_assign_conversations"}, {<<"commit", "audit">>, Logged})

\* api/v1/campaigns.py
CampaignRoutes ==
    LET at == "campaigns" IN
    Rows(at, {"campaigns.view"}, {"list_campaigns", "dashboard"}, {Reads})
    \cup Rows(at, {"campaigns.create"}, {"create_campaign"},
             {<<"check", "write", "commit", "write", "commit", "write", "audit">>})
    \cup Rows(at, {"campaigns.view"}, {"get_campaign"}, {<<"scope">>})
    \cup Rows(at, {"campaigns.edit"}, {"update_campaign"},
             {<<"look", "check", "write", "check">> \o Logged})

CampaignLifecycleRoutes ==
    LET at == "campaigns" IN
    Rows(at, {"campaigns.validate"}, {"validate_campaign"},
             {<<"look", "write", "commit">> \o Logged})
    \cup Rows(at, {"campaigns.launch"}, {"launch_campaign"},
             {<<"scope", "campaigns.email.launch", "look", "check", "write", "commit", "write", "commit", "check">> \o Logged,
             <<"scope", "campaigns.whatsapp.launch", "look", "check", "write", "commit", "write", "commit", "check">> \o Logged,
             <<"scope", "campaigns.email.launch", "look", "check", "look", "check", "write", "commit", "write", "commit", "check">> \o Logged,
             <<"scope", "campaigns.whatsapp.launch", "look", "check", "look", "check", "write", "commit", "write", "commit", "check">> \o Logged})
    \cup Rows(at, {"campaigns.pause"}, {"pause_campaign"},
             {<<"look", "check", "write", "commit">> \o Logged})
    \cup Rows(at, {"campaigns.resume"}, {"resume_campaign"},
             {<<"look", "check", "write", "commit">> \o Logged})
    \cup Rows(at, {"campaigns.cancel"}, {"cancel_campaign"},
             {<<"look", "check", "write", "commit">> \o Logged})
    \cup Rows(at, {"campaigns.edit"}, {"archive_campaign"}, {<<"look", "check">> \o Logged})

CampaignDetailRoutes ==
    LET at == "campaigns" IN
    Rows(at, {"campaigns.view"}, {"list_recipients", "list_events"}, {<<"scope">>})
    \cup Rows(at, {"campaigns.view"}, {"get_recipient"}, {<<"scope", "look">>})
    \cup Rows(at, {"campaigns.analytics"}, {"campaign_analytics"}, {<<"look">>})
    \cup Rows(at, {"campaigns.analytics"}, {"email_campaign_analytics"},
             {<<"campaigns.email.analytics", "look", "check">>})

CampaignEventRoutes ==
    LET at == "campaigns" IN
    Rows(at, {"campaigns.edit"}, {"ingest_provider_event"}, {<<"check">>, <<"check", "fail">>})

\* api/v1/admin.py
AdminOverviewRoutes ==
    LET at == "admin" IN
    Rows(at, {"users.view"}, {"admin_overview"}, {Reads})

AdminSettingRoutes ==
    LET at == "admin" IN
    Rows(at, {"audit.view"}, {"search_audit"}, {Reads})
    \cup Rows(at, {"settings.view"}, {"org_settings"}, {<<"look">>})
    \cup Rows(at, {"settings.manage"}, {"update_org_settings"}, {<<"look">> \o Logged})

AdminSecurityRoutes ==
    LET at == "admin" IN
    Rows(at, {"security.view"}, {"get_security_settings"}, {Reads})
    \cup Rows(at, {"security.manage"}, {"update_security_settings"}, {<<"audit">>,
             <<"write", "commit", "audit", "audit">>,
             <<"write", "commit", "audit", "write", "commit", "audit", "audit">>})

AdminOpsRoutes ==
    LET at == "admin" IN
    Rows(at, {"settings.view"}, {"ops_snapshot"}, {Reads})

\* api/v1/automation.py
WorkflowRoutes ==
    LET at == "automation" IN
    Rows(at, {"automation.view"}, {"list_workflows"}, {Reads})
    \cup Rows(at, {"automation.create"}, {"create_workflow"}, {<<"check">> \o Logged})
    \cup Rows(at, {"automation.view"}, {"get_workflow", "validate_workflow"}, {<<"look">>})
    \cup Rows(at, {"automation.edit"}, {"update_workflow"}, {<<"look", "check">> \o Logged})
    \cup Rows(at, {"automation.delete"}, {"delete_workflow"},
             {<<"look", "audit", "check">> \o Saved})

WorkflowLifecycleRoutes ==
    LET at == "automation" IN
    Rows(at, {"automation.publish"}, {"publish_workflow"}, {<<"look", "check">> \o Logged})
    \cup Rows(at, {"automation.pause"}, {"pause_workflow"}, {<<"look", "check">> \o Logged})
    \cup Rows(at, {"automation.resume"}, {"resume_workflow"}, {<<"look", "check">> \o Logged})
    \cup Rows(at, {"automation.create"}, {"duplicate_workflow"}, {<<"look">> \o Logged})
    \cup Rows(at, {"automation.edit"}, {"archive_workflow"}, {<<"look", "check">> \o Logged})
    \cup Rows(at, {"automation.view"}, {"list_versions"}, {<<"look">>})
    \cup Rows(at, {"automation.create"}, {"create_from_template"},
             {<<"look", "check">> \o Logged})
    \cup Rows(at, {"automation.view"}, {"list_templates"}, {Reads})

ExecutionRoutes ==
    LET at == "automation" IN
    Rows(at, {"automation.view_executions"}, {"list_executions", "execution_counters",
             "list_events"}, {Reads})
    \cup Rows(at, {"automation.view_executions"}, {"get_execution"}, {<<"look">>})
    \cup Rows(at, {"automation.execute"}, {"cancel_execution", "retry_execution"},
             {<<"look", "check">> \o Logged})

\* api/v1/inbox.py
InboxListRoutes ==
    LET at == "inbox" IN
    Rows(at, {"inbox.view"}, {"list_conversations"}, {<<"check">>})
    \cup Rows(at, {"inbox.view"}, {"search", "unread_count"}, {Reads})
    \cup Rows(at, {"inbox.view"}, {"get_conversation", "list_messages"}, {<<"scope">>})

InboxReplyRoutes ==
    LET at == "inbox" IN
    Rows(at, {"inbox.reply"}, {"send_reply"},
             {<<"scope", "inbox.email.reply", "check", "look", "check">>,
             <<"scope", "inbox.whatsapp.reply", "check", "look", "check">>,
             <<"scope", "inbox.email.reply", "check", "look", "check">> \o Logged,
             <<"scope", "inbox.whatsapp.reply", "check", "look", "check">> \o Logged})
    \cup Rows(at, {"inbox.reply"}, {"retry_reply"},
             {<<"scope", "inbox.email.reply", "look", "check">> \o Logged,
             <<"scope", "inbox.whatsapp.reply", "look", "check">> \o Logged})
    \cup Rows(at, {"inbox.view"}, {"mark_read", "mark_unread"}, {<<"scope">> \o Saved})
    \cup Rows(at, {"inbox.change_status"}, {"change_status"}, {<<"scope", "check">> \o Logged})
    \cup Rows(at, {"inbox.change_priority"}, {"change_priority"},
             {<<"scope", "check">> \o Logged})

InboxContactRoutes ==
    LET at == "inbox" IN
    Rows(at, {"inbox.assign"}, {"assign"}, {<<"scope", "look">> \o Logged})
    \cup Rows(at, {"inbox.add_notes"}, {"add_note"}, {<<"scope", "check">> \o Logged})
    \cup Rows(at, {"inbox.view"}, {"activity"}, {<<"scope">>})
    \cup Rows(at, {"inbox.link_lead"}, {"link_lead"}, {<<"scope", "look">> \o Logged})
    \cup Rows(at, {"inbox.link_lead"}, {"unlink_lead"}, {<<"scope">> \o Logged})
    \cup Rows(at, {"inbox.create_lead"}, {"create_lead"}, {<<"scope", "check">> \o Saved \o Logged})

InboxBulkRoutes ==
    LET at == "inbox" IN
    Rows(at, {"inbox.view"}, {"bulk_actions"}, {<<"commit", "audit">>,
             <<"check", "inbox.assign", "audit">>,
             <<"check", "inbox.change_priority", "audit">>,
             <<"check", "inbox.change_status", "audit">>, Logged,
             <<"check", "inbox.assign">> \o Logged,
             <<"check", "inbox.change_priority">> \o Logged,
             <<"check", "inbox.change_status">> \o Logged})

\* api/v1/actor_platform.py
ActorRoutes ==
    LET at == "actor_platform" IN
    Rows(at, {"scraping.view"}, {"list_actors"}, {Reads})
    \cup Rows(at, {"scraping.view"}, {"get_actor"}, {<<"look">>})
    \cup Rows(at, {"scraping.view"}, {"validate_actor_input"}, {<<"look", "check">>})
    \cup Rows(at, {"scraping.run"}, {"create_actor_run"},
             {<<"look", "check", "write", "commit", "effect", "audit">>})

RunRoutes ==
    LET at == "actor_platform" IN
    Rows(at, {"scraping.view"}, {"list_actor_runs"}, {<<"look", "check">>})
    \cup Rows(at, {"scraping.view"}, {"list_runs"}, {<<"check">>})
    \cup Rows(at, {"scraping.view"}, {"get_run"}, {<<"look">>})
    \cup Rows(at, {"scraping.view"}, {"run_control"},
             {<<"look", "scraping.cancel", "look", "check">> \o Logged,
             <<"look", "scraping.pause", "look", "check">> \o Logged,
             <<"look", "scraping.pause", "look", "check", "write", "commit", "effect", "audit">>,
             <<"look", "scraping.run", "look", "check", "write", "commit", "effect", "audit">>})

DatasetRoutes ==
    LET at == "actor_platform" IN
    Rows(at, {"scraping.view"}, {"run_logs", "list_datasets"}, {Reads})
    \cup Rows(at, {"scraping.view"}, {"run_dataset", "get_dataset", "dataset_items"},
             {<<"look">>})

DatasetExportRoutes ==
    LET at == "actor_platform" IN
    Rows(at, {"scraping.export"}, {"export_dataset"}, {<<"look", "check", "audit">>})
    \cup Rows(at, {"scraping.view"}, {"dataset_changes"}, {<<"look">>})
    \cup Rows(at, {"scraping.view"}, {"list_tasks"}, {Reads})
    \cup Rows(at, {"scraping.run"}, {"create_task"}, {<<"check">> \o Logged})

TaskRoutes ==
    LET at == "actor_platform" IN
    Rows(at, {"scraping.view"}, {"get_task"}, {<<"look">>})
    \cup Rows(at, {"scraping.run"}, {"update_task"},
             {<<"look", "check", "write", "check">> \o Saved})
    \cup Rows(at, {"scraping.run"}, {"delete_task"}, {<<"look">> \o Logged})
    \cup Rows(at, {"scraping.run"}, {"run_task"},
             {<<"look", "check", "look", "check", "write", "commit", "effect", "audit">> \o Saved})
    \cup Rows(at, {"scraping.run"}, {"duplicate_task"}, {<<"look">> \o Saved})

RunWebhookRoutes ==
    LET at == "actor_platform" IN
    Rows(at, {"scraping.view"}, {"list_run_webhooks"}, {Reads})
    \cup Rows(at, {"scraping.manage"}, {"create_run_webhook"}, {<<"check">> \o Logged})
    \cup Rows(at, {"scraping.manage"}, {"update_run_webhook"},
             {<<"look", "write", "check", "write", "check">> \o Saved})
    \cup Rows(at, {"scraping.manage"}, {"delete_run_webhook"}, {<<"look">> \o Saved})
    \cup Rows(at, {"scraping.view"}, {"run_webhook_deliveries"}, {<<"look">>})
    \cup Rows(at, {"scraping.manage"}, {"test_run_webhook"}, {<<"look", "commit">>,
             <<"look">> \o Saved})

StorageRoutes ==
    LET at == "actor_platform" IN
    Rows(at, {"scraping.view"}, {"list_kv", "list_queues", "get_queue"}, {Reads})
    \cup Rows(at, {"scraping.manage"}, {"put_kv"}, {Saved})
    \cup Rows(at, {"scraping.view"}, {"get_kv"}, {<<"look">>})
    \cup Rows(at, {"scraping.manage"}, {"delete_kv"}, {<<"commit", "look">>,
             <<"write", "commit", "look">>})

-----------------------------------------------------------------------------

ApiHandlers ==
    LeadListRoutes \cup LeadViewRoutes \cup LeadDuplicateRoutes \cup LeadImportRoutes
    \cup LeadBulkRoutes \cup LeadEditRoutes \cup LeadNoteRoutes \cup LeadAssignmentRoutes
    \cup ApiKeyRoutes \cup AuthRoutes \cup RoleRoutes \cup SettingRoutes \cup HealthRoutes
    \cup NotificationRoutes \cup WhatsAppWebhookRoutes \cup SuppressionRoutes
    \cup EmailWebhookRoutes \cup FileRoutes \cup TemplateRoutes \cup TemplatePreviewRoutes
    \cup SessionRoutes \cup ScraperRoutes \cup OrchestrationRoutes \cup EmailPublicRoutes
    \cup SendingAccountRoutes \cup SendingAccountEditRoutes \cup ScheduleRoutes
    \cup TeamRoutes \cup TeamMemberRoutes \cup AcceptInvitationRoute \cup InvitationRoutes
    \cup ConnectionRoutes \cup ConnectionCheckRoutes \cup JobRoutes \cup JobResultRoutes
    \cup ReportRoutes \cup ReportRunRoutes \cup UserCreateRoutes \cup UserPreferenceRoutes
    \cup UserEditRoutes \cup UserPasswordRoutes \cup AnalyticsLeadRoutes
    \cup AnalyticsChannelRoutes \cup AnalyticsAdminRoutes \cup EmailConnectionRoutes
    \cup EmailConnectionEditRoutes \cup EmailTemplateRoutes \cup ConversationRoutes
    \cup ConversationReplyRoutes \cup ConversationAnswerRoutes
    \cup ConversationBulkAssignRoutes \cup CampaignRoutes \cup CampaignLifecycleRoutes
    \cup CampaignDetailRoutes \cup CampaignEventRoutes \cup AdminOverviewRoutes
    \cup AdminSettingRoutes \cup AdminSecurityRoutes \cup AdminOpsRoutes
    \cup WorkflowRoutes \cup WorkflowLifecycleRoutes \cup ExecutionRoutes
    \cup InboxListRoutes \cup InboxReplyRoutes \cup InboxContactRoutes
    \cup InboxBulkRoutes \cup ActorRoutes \cup RunRoutes \cup DatasetRoutes
    \cup DatasetExportRoutes \cup TaskRoutes \cup RunWebhookRoutes \cup StorageRoutes

=============================================================================
