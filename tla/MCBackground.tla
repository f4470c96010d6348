--------------------------- MODULE MCBackground -----------------------------
(***************************************************************************)
(* What runs without anybody waiting for it: delivery events of providers  *)
(* (RecipientEvents), workflow executions (WorkflowExecutions), replies in *)
(* the outbox (ReplyOutbox), schedules and run webhooks (ScheduledRuns).    *)
(* They keep different tables and are checked side by side: a behaviour is *)
(* one of a single part.                                                   *)
(***************************************************************************)
EXTENDS RecipientEvents, WorkflowExecutions, ReplyOutbox, ScheduledRuns, TLC

VARIABLE part

backgroundVars == <<part, eventVars, execVars, replyVars, scheduledVars>>

\* trigger, lead action, send, end
SendAfterLead ==
    "t" :> [type |-> "TRIGGER", next |-> "l", no |-> "-"]
    @@ "l" :> [type |-> "LEAD", next |-> "s", no |-> "-"]
    @@ "s" :> [type |-> "SEND", next |-> "e", no |-> "-"]
    @@ "e" :> [type |-> "END", next |-> "-", no |-> "-"]

BackgroundSymmetry ==
    Permutations(AutoWorkers) \cup Permutations(Dispatchers) \cup Permutations(OutboxWorkers)

BackgroundInit ==
    /\ part \in {"events", "executions", "replies", "schedules", "webhooks"}
    /\ EventsInit /\ (part # "events" => \A r \in Recipients : recipient[r].channel = "EMAIL")
    /\ ExecutionsInit
    /\ ReplyInit
    /\ ScheduledInit

BackgroundNext ==
    /\ UNCHANGED part
    /\ \/ part = "events" /\ EventsNext /\ UNCHANGED <<execVars, replyVars, scheduledVars>>
       \/ part = "executions" /\ ExecutionsNext
                              /\ UNCHANGED <<eventVars, replyVars, scheduledVars>>
       \/ part = "replies" /\ ReplyNext /\ UNCHANGED <<eventVars, execVars, scheduledVars>>
       \/ part = "schedules" /\ ScheduleStep /\ UNCHANGED <<eventVars, execVars, replyVars>>
       \/ part = "webhooks" /\ WebhookStep /\ UNCHANGED <<eventVars, execVars, replyVars>>

BackgroundSpec == BackgroundInit /\ [][BackgroundNext]_backgroundVars
=============================================================================
