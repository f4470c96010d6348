-------------------- MODULE UiRoutes --------------------
(***************************************************************************)
(* The handlers behind the web pages (ui), in the form of ApiRoutes.       *)
(***************************************************************************)
EXTENDS AccessRules

\* ui/__init__.py
UiEntryRoutes ==
    LET at == "ui" IN
    Rows(at, Anyone, {"login_page"}, {Reads})

UiHomeRoutes ==
    LET at == "ui" IN
    Rows(at, Anyone, {"logout"}, {Reads, Saved})
    \cup Rows(at, Anyone, {"forbidden"}, {Reads})
    \cup Rows(at, {}, {"home"}, {Reads})

UiScrapingRoutes ==
    LET at == "ui" IN
    Rows(at, {"scraping.view"}, {"scraping_home", "jobs_list"}, {Reads})

UiAgentRoutes ==
    LET at == "ui" IN
    Rows(at, {"scraping.view"}, {"ui_analyze_url", "ui_agent_plan"}, {<<"check">>})
    \cup Rows(at, {"scraping.run", "scraping.view"}, {"ui_agent_run"},
             {<<"check", "look", "check", "write", "commit", "effect">>})

UiScraperRoutes ==
    LET at == "ui" IN
    Rows(at, {"scraping.view"}, {"scraper_detail"}, {<<"look">>})

UiScheduleCreateRoutes ==
    LET at == "ui" IN
    Rows(at, {"scraping.run", "scraping.view"}, {"ui_schedule_create"},
             {<<"look", "check">> \o Saved})

UiScheduleRoutes ==
    LET at == "ui" IN
    Rows(at, {"scraping.run", "scraping.view"}, {"ui_schedule_toggle",
             "ui_schedule_delete"}, {<<"look">> \o Saved})
    \cup Rows(at, {"scraping.run", "scraping.view"}, {"ui_schedule_run_now"},
             {<<"look", "check">>, <<"look", "check", "stray", "commit">>})
    \cup Rows(at, {"scraping.view"}, {"scraper_validate"}, {<<"look", "check">>})
    \cup Rows(at, {"scraping.run", "scraping.view"}, {"scraper_run"},
             {<<"look", "check", "write", "commit", "effect">>})

UiJobRoutes ==
    LET at == "ui" IN
    Rows(at, {"scraping.view"}, {"job_detail", "job_live"}, {<<"look">>})

UiJobControlRoutes ==
    LET at == "ui" IN
    Rows(at, {"scraping.pause", "scraping.view"}, {"job_pause"}, {<<"look", "check">> \o Saved})
    \cup Rows(at, {"scraping.pause", "scraping.view"}, {"job_resume"},
             {<<"look", "check", "write", "commit", "effect">>})
    \cup Rows(at, {"scraping.cancel", "scraping.view"}, {"job_cancel"},
             {<<"look", "check">> \o Saved})
    \cup Rows(at, {"scraping.run", "scraping.view"}, {"job_retry"},
             {<<"look", "check", "write", "commit", "effect">>})

UiJobExportRoutes ==
    LET at == "ui" IN
    Rows(at, {"scraping.export", "scraping.view"}, {"job_export"},
             {<<"look", "check", "effect">> \o Logged})
    \cup Rows(at, Anyone, {"invite_page"}, {Reads})

UiInviteRoutes ==
    LET at == "ui" IN
    Rows(at, Anyone, {"invite_accept"},
             {<<"look", "check", "look", "check">> \o Logged,
             <<"look", "check", "look", "check", "write", "check">> \o Logged})
    \cup Rows(at, {"notifications.view", "scraping.view"}, {"notifications_page"}, {Reads})
    \cup Rows(at, {"notifications.view", "scraping.view"}, {"notification_mark_read"},
             {Reads, Saved})

\* ui/actor_platform.py
UiDatasetRoutes ==
    LET at == "ui_actor_platform" IN
    Rows(at, {"scraping.view"}, {"actors_catalog", "datasets_page"}, {Reads})
    \cup Rows(at, {"scraping.view"}, {"dataset_detail"}, {<<"look">>})
    \cup Rows(at, {"scraping.export", "scraping.view"}, {"dataset_export"}, {<<"look">>})

UiTaskRoutes ==
    LET at == "ui_actor_platform" IN
    Rows(at, {"scraping.view"}, {"tasks_page"}, {Reads})
    \cup Rows(at, {"scraping.run", "scraping.view"}, {"task_create"},
             {<<"look", "check">> \o Saved})
    \cup Rows(at, {"scraping.run", "scraping.view"}, {"task_run"},
             {<<"look", "check", "write", "commit", "effect">> \o Saved})
    \cup Rows(at, {"scraping.run", "scraping.view"}, {"task_duplicate"}, {<<"look">> \o Saved})
    \cup Rows(at, {"scraping.run", "scraping.view"}, {"task_delete"}, {Reads, Saved})

UiRunWebhookRoutes ==
    LET at == "ui_actor_platform" IN
    Rows(at, {"scraping.view"}, {"webhooks_page"}, {Reads})
    \cup Rows(at, {"scraping.manage", "scraping.view"}, {"webhook_create"},
             {<<"check">> \o Saved})
    \cup Rows(at, {"scraping.view"}, {"webhook_detail"}, {<<"look">>})
    \cup Rows(at, {"scraping.manage", "scraping.view"}, {"webhook_toggle"}, {<<"look">> \o Saved})
    \cup Rows(at, {"scraping.manage", "scraping.view"}, {"webhook_delete"}, {Reads, Saved})

UiStorageRoutes ==
    LET at == "ui_actor_platform" IN
    Rows(at, {"scraping.view"}, {"storage_page", "api_docs"}, {Reads})

\* ui/admin.py
UiAdminHomeRoutes ==
    LET at == "ui_admin" IN
    Rows(at, {"scraping.view", "users.view"}, {"admin_home"}, {<<"check">>})

UiUserRoutes ==
    LET at == "ui_admin" IN
    Rows(at, {"scraping.view", "users.view"}, {"admin_users"}, {Reads})
    \cup Rows(at, {"scraping.view", "users.view"}, {"admin_user_detail"}, {<<"look", "check">>})

UiUserEditRoutes ==
    LET at == "ui_admin" IN
    Rows(at, {"scraping.view", "users.manage"}, {"admin_user_set_roles"},
             {<<"look", "check", "write", "commit", "commit", "audit">>})
    \cup Rows(at, {"scraping.view", "users.manage"}, {"admin_user_set_status"},
             {<<"look", "check", "commit", "audit">>, <<"look", "check">> \o Logged})

UiTeamRoutes ==
    LET at == "ui_admin" IN
    Rows(at, {"scraping.view", "teams.view"}, {"admin_teams"}, {<<"check">>})
    \cup Rows(at, {"scraping.view", "teams.create"}, {"admin_team_create"},
             {<<"check">> \o Logged})

UiTeamDetailRoutes ==
    LET at == "ui_admin" IN
    Rows(at, {"scraping.view", "teams.view"}, {"admin_team_detail"}, {<<"check", "look">>})
    \cup Rows(at, {"scraping.view", "teams.edit"}, {"admin_team_update"},
             {<<"check", "look">> \o Logged})
    \cup Rows(at, {"scraping.view", "teams.manage_members"}, {"admin_team_add_member"},
             {<<"check", "look", "check">>, <<"check", "look", "check">> \o Logged})

UiRoleRoutes ==
    LET at == "ui_admin" IN
    Rows(at, {"scraping.view", "teams.manage_members"}, {"admin_team_remove_member"},
             {<<"check", "look", "check">>, <<"check", "look", "check">> \o Logged})
    \cup Rows(at, {"roles.view", "scraping.view"}, {"admin_roles"}, {Reads})
    \cup Rows(at, {"invitations.view", "scraping.view"}, {"admin_invitations"}, {<<"check">>})

UiInvitationRoutes ==
    LET at == "ui_admin" IN
    Rows(at, {"invitations.create", "scraping.view"}, {"admin_invitation_create"},
             {<<"check">> \o Logged})
    \cup Rows(at, {"invitations.revoke", "scraping.view"}, {"admin_invitation_revoke"},
             {<<"check", "look">>, <<"check", "look">> \o Logged})

\* ui/admin_security.py
UiConnectionScopeRoutes ==
    LET at == "ui_admin_security" IN
    Rows(at, {"connections.view", "scraping.view"}, {"admin_connections"}, {<<"check">>})
    \cup Rows(at, {"connections.edit", "scraping.view"}, {"admin_connection_scope"},
             {<<"check", "look">> \o Logged})

UiApiKeyRoutes ==
    LET at == "ui_admin_security" IN
    Rows(at, {"apikeys.view", "scraping.view"}, {"admin_api_keys"}, {<<"check">>})
    \cup Rows(at, {"apikeys.create", "scraping.view"}, {"admin_api_key_create"},
             {<<"check">> \o Logged})
    \cup Rows(at, {"apikeys.revoke", "scraping.view"}, {"admin_api_key_revoke"},
             {<<"check", "look">>, <<"check", "look">> \o Logged})

UiSecurityRoutes ==
    LET at == "ui_admin_security" IN
    Rows(at, {"scraping.view", "security.view"}, {"admin_security"}, {<<"check">>})
    \cup Rows(at, {"scraping.view", "security.manage"}, {"admin_security_update"},
             {<<"check", "commit", "audit">>,
             <<"check", "write", "commit", "audit", "commit", "audit">>,
             <<"check", "write", "commit", "audit", "write", "commit", "audit", "commit", "audit">>})
    \cup Rows(at, {"scraping.view", "sessions.revoke"}, {"admin_session_revoke"},
             {<<"check", "look">>, <<"check", "look">> \o Logged})

UiSettingRoutes ==
    LET at == "ui_admin_security" IN
    Rows(at, {"audit.view", "scraping.view"}, {"admin_audit"}, {<<"check">>})
    \cup Rows(at, {"scraping.view", "settings.view"}, {"admin_settings"}, {<<"check">>})
    \cup Rows(at, {"scraping.view", "settings.manage"}, {"admin_settings_update",
             "admin_settings_visibility"}, {<<"check", "look">> \o Logged})

\* ui/analytics.py
UiAnalyticsRoutes ==
    LET at == "ui_analytics" IN
    Rows(at, {"analytics.view", "scraping.view"}, {"analytics_home"}, {<<"check">>})
    \cup Rows(at, {"analytics.view_leads", "scraping.view"}, {"analytics_leads"}, {<<"check">>})
    \cup Rows(at, {"analytics.view_scraping", "scraping.view"}, {"analytics_scraping"},
             {<<"check">>})
    \cup Rows(at, {"analytics.view_marketing", "scraping.view"}, {"analytics_marketing"},
             {<<"check">>})
    \cup Rows(at, {"analytics.view_whatsapp", "scraping.view"}, {"analytics_whatsapp"},
             {<<"check">>})
    \cup Rows(at, {"analytics.view_email", "scraping.view"}, {"analytics_email"}, {<<"check">>})

UiReportRoutes ==
    LET at == "ui_analytics" IN
    Rows(at, {"analytics.view_inbox", "scraping.view"}, {"analytics_inbox"}, {<<"check">>})
    \cup Rows(at, {"analytics.view_automation", "scraping.view"}, {"analytics_automation"},
             {<<"check">>})
    \cup Rows(at, {"analytics.view_team", "scraping.view"}, {"analytics_team"}, {<<"check">>})
    \cup Rows(at, {"reports.view", "scraping.view"}, {"reports_home"}, {Reads})
    \cup Rows(at, {"reports.create", "scraping.view"}, {"reports_create"},
             {<<"check">> \o Logged})

UiReportDetailRoutes ==
    LET at == "ui_analytics" IN
    Rows(at, {"reports.create", "scraping.view"}, {"reports_new"}, {Reads})
    \cup Rows(at, {"reports.view", "scraping.view"}, {"report_detail"}, {<<"scope">>})
    \cup Rows(at, {"reports.run", "scraping.view"}, {"report_run_ui"},
             {<<"scope", "check">> \o Logged})
    \cup Rows(at, {"reports.edit", "scraping.view"}, {"report_edit_ui"},
             {<<"scope", "check", "write", "check">> \o Logged})
    \cup Rows(at, {"reports.edit", "scraping.view"}, {"report_edit_page"}, {<<"scope">>})
    \cup Rows(at, {"reports.create", "scraping.view"}, {"report_duplicate_ui"},
             {<<"scope">> \o Logged})

UiReportEndRoutes ==
    LET at == "ui_analytics" IN
    Rows(at, {"reports.edit", "scraping.view"}, {"report_archive_ui",
             "report_restore_ui"}, {<<"scope", "check">> \o Logged})
    \cup Rows(at, {"reports.delete", "scraping.view"}, {"report_delete_ui"},
             {<<"scope", "check">> \o Logged})
    \cup Rows(at, {"reports.export", "scraping.view"}, {"report_export_ui"},
             {<<"scope", "check", "effect", "write", "commit", "audit", "audit">>})
    \cup Rows(at, {"reports.create", "scraping.view"}, {"report_preview"}, {<<"check">>})

\* ui/automation.py
UiWorkflowRoutes ==
    LET at == "ui_automation" IN
    Rows(at, {"automation.view", "scraping.view"}, {"automation_home"}, {Reads})
    \cup Rows(at, {"automation.create", "scraping.view"}, {"automation_new"}, {Reads})
    \cup Rows(at, {"automation.create", "scraping.view"}, {"automation_create"},
             {<<"check">> \o Logged})
    \cup Rows(at, {"automation.edit", "scraping.view"}, {"automation_edit"}, {<<"look">>})
    \cup Rows(at, {"automation.edit", "scraping.view"}, {"automation_save"},
             {<<"look", "check">> \o Logged})

UiWorkflowActionRoutes ==
    LET at == "ui_automation" IN
    Rows(at, {"automation.view", "scraping.view"}, {"automation_detail"}, {<<"look">>})
    \cup Rows(at, {"automation.publish"}, {"publish"}, {<<"look", "check">> \o Logged})
    \cup Rows(at, {"automation.pause"}, {"pause"}, {<<"look", "check">> \o Logged})
    \cup Rows(at, {"automation.resume"}, {"resume"}, {<<"look", "check">> \o Logged})
    \cup Rows(at, {"automation.create"}, {"duplicate"}, {<<"look">> \o Logged})
    \cup Rows(at, {"automation.edit"}, {"archive"}, {<<"look", "check">> \o Logged})
    \cup Rows(at, {"automation.delete", "scraping.view"}, {"automation_delete"},
             {<<"look", "check">> \o Logged})

UiExecutionRoutes ==
    LET at == "ui_automation" IN
    Rows(at, {"automation.view_executions", "scraping.view"}, {"automation_executions"}, {Reads})
    \cup Rows(at, {"automation.view_executions", "scraping.view"},
             {"automation_execution_detail"}, {<<"look">>})
    \cup Rows(at, {"automation.execute", "scraping.view"}, {"automation_cancel_execution"},
             {<<"look", "check">> \o Logged})

\* ui/connections.py
UiConnectionRoutes ==
    LET at == "ui_connections" IN
    Rows(at, {"connections.view"}, {"connections_hub"}, {Reads})
    \cup Rows(at, {"connections.create", "scraping.view"}, {"new_connection_form"}, {Reads})
    \cup Rows(at, {"connections.create", "scraping.view"}, {"create_connection"},
             {<<"check", "write", "commit", "check", "effect", "write", "commit", "effect">> \o Logged,
             <<"check", "write", "commit", "write", "commit", "check", "effect", "write", "commit", "effect">> \o Logged})
    \cup Rows(at, {"connections.view"}, {"connection_detail"}, {<<"look">>})

UiConnectionCheckRoutes ==
    LET at == "ui_connections" IN
    Rows(at, {"connections.validate", "scraping.view"}, {"validate_connection"},
             {<<"look", "check", "effect">> \o Logged})
    \cup Rows(at, {"connections.health", "scraping.view"}, {"health_connection"},
             {<<"look", "effect">> \o Logged})
    \cup Rows(at, {"connections.sync_templates", "scraping.view"},
             {"sync_connection_templates"}, {<<"look", "check", "effect">> \o Logged})
    \cup Rows(at, {"connections.edit", "scraping.view"}, {"connection_status"},
             {<<"look", "check">> \o Logged})
    \cup Rows(at, {"connections.edit", "scraping.view"}, {"rotate_credentials"},
             {<<"look", "check", "write", "commit">> \o Logged})

UiConnectionEditRoutes ==
    LET at == "ui_connections" IN
    Rows(at, {"connections.edit", "scraping.view"}, {"update_connection_details"},
             {<<"look">> \o Logged})
    \cup Rows(at, {"connections.delete", "scraping.view"}, {"delete_connection"},
             {<<"look">> \o Logged})

\* ui/connections_email.py
UiEmailConnectionRoutes ==
    LET at == "ui_connections_email" IN
    Rows(at, {"email.connections.view"}, {"email_connections_page"}, {Reads})
    \cup Rows(at, {"email.connections.create", "scraping.view"},
             {"new_email_connection_form"}, {Reads})
    \cup Rows(at, {"email.connections.create", "scraping.view"},
             {"create_email_connection"},
             {<<"check", "write", "commit", "check", "effect", "write", "commit", "effect">> \o Logged,
             <<"check", "write", "commit", "write", "commit", "check", "effect", "write", "commit", "effect">> \o Logged})

UiEmailConnectionCheckRoutes ==
    LET at == "ui_connections_email" IN
    Rows(at, {"email.connections.view"}, {"email_connection_detail"}, {<<"look">>})
    \cup Rows(at, {"email.connections.validate", "scraping.view"},
             {"validate_email_connection"}, {<<"look", "check", "effect">> \o Logged})
    \cup Rows(at, {"email.connections.health", "scraping.view"},
             {"email_connection_health"}, {<<"look", "effect">> \o Logged})
    \cup Rows(at, {"email.connections.edit", "scraping.view"}, {"email_connection_status"},
             {<<"look", "audit", "refuse">>, <<"look">> \o Logged})
    \cup Rows(at, {"email.connections.edit", "scraping.view"},
             {"rotate_email_credentials"}, {<<"look", "audit", "refuse">>,
             <<"look", "check", "write", "commit">> \o Logged})
    \cup Rows(at, {"email.connections.delete", "scraping.view"},
             {"delete_email_connection"}, {<<"look">> \o Logged})

\* ui/campaigns.py
UiCampaignListRoutes ==
    LET at == "ui_campaigns" IN
    Rows(at, {"campaigns.view"}, {"campaigns_index"}, {Reads})
    \cup Rows(at, {"campaigns.create", "scraping.view"}, {"campaign_wizard"}, {Reads})

UiCampaignCreateRoutes ==
    LET at == "ui_campaigns" IN
    Rows(at, {"campaigns.create", "scraping.view"}, {"campaign_preview"}, {<<"check">>})
    \cup Rows(at, {"campaigns.create", "scraping.view"}, {"campaign_create"},
             {<<"check", "write", "commit">> \o Saved})

UiTemplateRoutes ==
    LET at == "ui_campaigns" IN
    Rows(at, {"scraping.view", "templates.view"}, {"templates_page"}, {Reads})
    \cup Rows(at, {"scraping.view", "templates.create"}, {"template_create"},
             {<<"check">> \o Saved})
    \cup Rows(at, {"scraping.view", "templates.delete"}, {"template_delete"},
             {<<"look">> \o Saved})
    \cup Rows(at, {"scraping.view", "sending_accounts.view"}, {"accounts_page"}, {Reads})
    \cup Rows(at, {"scraping.view", "sending_accounts.manage"}, {"account_create"},
             {<<"check">> \o Saved})

UiSuppressionRoutes ==
    LET at == "ui_campaigns" IN
    Rows(at, {"scraping.view", "suppression.view"}, {"suppression_page"}, {Reads})
    \cup Rows(at, {"scraping.view", "suppression.manage"}, {"suppression_add",
             "suppression_opt_out"}, {<<"check">> \o Saved})
    \cup Rows(at, {"scraping.view", "suppression.manage"}, {"suppression_delete"},
             {<<"look", "check">> \o Saved})
    \cup Rows(at, {"campaigns.view"}, {"campaign_detail"}, {<<"look">>})

UiCampaignLifecycleRoutes ==
    LET at == "ui_campaigns" IN
    Rows(at, {"campaigns.validate", "scraping.view"}, {"campaign_validate"},
             {<<"look", "write", "commit">> \o Saved,
             <<"look", "write", "commit", "write", "commit", "refuse">>})
    \cup Rows(at, {"campaigns.launch", "scraping.view"}, {"campaign_launch"},
             {<<"look", "check", "write", "commit", "write", "commit", "check">> \o Saved,
             <<"look", "check", "write", "commit", "write", "commit", "check", "write", "commit", "write", "commit", "check">> \o Saved})
    \cup Rows(at, {"campaigns.pause", "scraping.view"}, {"campaign_pause"},
             {<<"look", "check", "write", "commit">> \o Saved})
    \cup Rows(at, {"campaigns.resume", "scraping.view"}, {"campaign_resume"},
             {<<"look", "check", "write", "commit">> \o Saved})
    \cup Rows(at, {"campaigns.cancel", "scraping.view"}, {"campaign_cancel"},
             {<<"look", "check", "write", "commit">> \o Saved})
    \cup Rows(at, {"campaigns.edit", "scraping.view"}, {"campaign_archive"},
             {<<"look", "check">> \o Saved})

\* ui/inbox.py
UiInboxRoutes ==
    LET at == "ui_inbox" IN
    Rows(at, {"inbox.view", "scraping.view"}, {"inbox_page", "ui_counters",
             "ui_activity"}, {Reads})
    \cup Rows(at, {"inbox.view", "scraping.view"}, {"ui_list_conversations"}, {<<"check">>})
    \cup Rows(at, {"inbox.view", "scraping.view"}, {"ui_conversation_detail"}, {<<"scope">>})
    \cup Rows(at, {"inbox.view", "scraping.view"}, {"ui_messages"}, {<<"scope", "check">>})

UiInboxReplyRoutes ==
    LET at == "ui_inbox" IN
    Rows(at, {"inbox.assign", "scraping.view"}, {"ui_assignable_users"}, {Reads})
    \cup Rows(at, {"inbox.view", "scraping.view"}, {"ui_conversation_templates"}, {<<"scope">>})
    \cup Rows(at, {"inbox.reply", "scraping.view"}, {"ui_send_reply"},
             {<<"scope", "inbox.email.reply", "check", "look", "check", "audit">>,
             <<"scope", "inbox.whatsapp.reply", "check", "look", "check", "audit">>,
             <<"scope", "inbox.email.reply", "check", "look", "check">> \o Logged,
             <<"scope", "inbox.whatsapp.reply", "check", "look", "check">> \o Logged})
    \cup Rows(at, {"inbox.view", "scraping.view"}, {"ui_mark_read", "ui_mark_unread"},
             {<<"scope">> \o Saved})

UiInboxActionRoutes ==
    LET at == "ui_inbox" IN
    Rows(at, {"inbox.change_status", "scraping.view"}, {"ui_change_status"},
             {<<"scope", "check">> \o Saved})
    \cup Rows(at, {"inbox.change_priority", "scraping.view"}, {"ui_change_priority"},
             {<<"scope", "check">> \o Saved})
    \cup Rows(at, {"inbox.assign", "scraping.view"}, {"ui_assign"},
             {<<"scope", "look">> \o Saved})
    \cup Rows(at, {"inbox.add_notes", "scraping.view"}, {"ui_add_note"},
             {<<"scope", "check">> \o Logged})
    \cup Rows(at, {"inbox.link_lead", "scraping.view"}, {"ui_link_lead"},
             {<<"scope", "look">> \o Logged})
    \cup Rows(at, {"inbox.create_lead", "scraping.view"}, {"ui_create_lead"},
             {<<"scope", "check">> \o Saved \o Logged})

UiInboxMessageRoutes ==
    LET at == "ui_inbox" IN
    Rows(at, {"inbox.reply", "scraping.view"}, {"ui_retry_message"},
             {<<"scope", "inbox.email.reply", "look", "check">> \o Saved,
             <<"scope", "inbox.whatsapp.reply", "look", "check">> \o Saved})
    \cup Rows(at, {"inbox.view", "scraping.view"}, {"ui_message_html"}, {<<"look", "scope">>})

\* ui/leads.py
UiLeadListRoutes ==
    LET at == "ui_leads" IN
    Rows(at, {"leads.view"}, {"leads_home"}, {Reads})

UiLeadEditRoutes ==
    LET at == "ui_leads" IN
    Rows(at, {"leads.edit", "scraping.view"}, {"leads_bulk"},
             {<<"leads.archive", "check">>, <<"leads.delete", "check">>,
             <<"leads.edit", "check">>, <<"leads.archive", "check">> \o Saved,
             <<"leads.delete", "check">> \o Saved, <<"leads.edit", "check">> \o Saved})
    \cup Rows(at, {"leads.edit", "scraping.view"}, {"lead_edit", "lead_status"},
             {<<"look", "check">> \o Saved})
    \cup Rows(at, {"leads.archive", "scraping.view"}, {"lead_archive_ui"},
             {<<"look", "check">> \o Saved})

UiLeadTagRoutes ==
    LET at == "ui_leads" IN
    Rows(at, {"leads.edit", "scraping.view"}, {"lead_enrich_ui"},
             {<<"look", "check", "effect">> \o Saved})
    \cup Rows(at, {"leads.archive", "scraping.view"}, {"lead_restore_ui"},
             {<<"look", "check">> \o Saved})
    \cup Rows(at, {"leads.edit", "scraping.view"}, {"lead_add_tag"},
             {<<"look", "check", "write", "commit">> \o Saved})
    \cup Rows(at, {"leads.edit", "scraping.view"}, {"lead_remove_tag"}, {<<"look">>,
             <<"look">> \o Saved})
    \cup Rows(at, {"leads.edit", "scraping.view"}, {"lead_add_note"},
             {<<"look", "check">> \o Saved})
    \cup Rows(at, {"leads.import", "scraping.view"}, {"import_upload"}, {Reads})

UiLeadImportRoutes ==
    LET at == "ui_leads" IN
    Rows(at, {"leads.import", "scraping.view"}, {"import_upload_submit"},
             {<<"check", "effect", "write", "commit", "audit", "check">> \o Saved})
    \cup Rows(at, {"leads.import", "scraping.view"}, {"import_map", "import_status"},
             {<<"look">>})
    \cup Rows(at, {"leads.import", "scraping.view"}, {"import_map_submit"},
             {<<"look", "check", "write", "commit", "check">>})

UiDuplicateRoutes ==
    LET at == "ui_leads" IN
    Rows(at, {"leads.view"}, {"imports_history", "duplicates_review",
             "quality_dashboard"}, {Reads})
    \cup Rows(at, {"leads.merge", "scraping.view"}, {"duplicates_merge_ui"},
             {<<"look", "check", "look", "check">> \o Logged})
    \cup Rows(at, {"leads.merge", "scraping.view"}, {"duplicates_resolve_ui"}, {Reads, Saved})
    \cup Rows(at, {"leads.manage_quality", "scraping.view"}, {"quality_scan"}, {Saved})

UiLeadExportRoutes ==
    LET at == "ui_leads" IN
    Rows(at, {"leads.manage_quality", "scraping.view"}, {"quality_recompute_ui"}, {Reads, Saved})
    \cup Rows(at, {"leads.view"}, {"exports_history"}, {Reads})
    \cup Rows(at, {"leads.view"}, {"lead_detail"}, {<<"look">>})

UiLeadExportSubmitRoutes ==
    LET at == "ui_leads" IN
    Rows(at, {"leads.export", "scraping.view"}, {"export_submit"},
             {<<"check">> \o Saved,
             <<"check", "write", "commit", "check", "write", "commit", "effect">> \o Logged})

UiLeadViewRoutes ==
    LET at == "ui_leads" IN
    Rows(at, {"leads.export", "scraping.view"}, {"export_download_ui"}, {<<"look", "check">>})
    \cup Rows(at, {"leads.manage_views", "scraping.view"}, {"save_view_ui"},
             {<<"check">> \o Saved})
    \cup Rows(at, {"leads.manage_views", "scraping.view"}, {"delete_view_ui"}, {Reads, Saved})

-----------------------------------------------------------------------------

UiHandlers ==
    UiEntryRoutes \cup UiHomeRoutes \cup UiScrapingRoutes \cup UiAgentRoutes
    \cup UiScraperRoutes \cup UiScheduleCreateRoutes \cup UiScheduleRoutes
    \cup UiJobRoutes \cup UiJobControlRoutes \cup UiJobExportRoutes \cup UiInviteRoutes
    \cup UiDatasetRoutes \cup UiTaskRoutes \cup UiRunWebhookRoutes \cup UiStorageRoutes
    \cup UiAdminHomeRoutes \cup UiUserRoutes \cup UiUserEditRoutes \cup UiTeamRoutes
    \cup UiTeamDetailRoutes \cup UiRoleRoutes \cup UiInvitationRoutes
    \cup UiConnectionScopeRoutes \cup UiApiKeyRoutes \cup UiSecurityRoutes
    \cup UiSettingRoutes \cup UiAnalyticsRoutes \cup UiReportRoutes
    \cup UiReportDetailRoutes \cup UiReportEndRoutes \cup UiWorkflowRoutes
    \cup UiWorkflowActionRoutes \cup UiExecutionRoutes \cup UiConnectionRoutes
    \cup UiConnectionCheckRoutes \cup UiConnectionEditRoutes \cup UiEmailConnectionRoutes
    \cup UiEmailConnectionCheckRoutes \cup UiCampaignListRoutes
    \cup UiCampaignCreateRoutes \cup UiTemplateRoutes \cup UiSuppressionRoutes
    \cup UiCampaignLifecycleRoutes \cup UiInboxRoutes \cup UiInboxReplyRoutes
    \cup UiInboxActionRoutes \cup UiInboxMessageRoutes \cup UiLeadListRoutes
    \cup UiLeadEditRoutes \cup UiLeadTagRoutes \cup UiLeadImportRoutes
    \cup UiDuplicateRoutes \cup UiLeadExportRoutes \cup UiLeadExportSubmitRoutes
    \cup UiLeadViewRoutes

=============================================================================
