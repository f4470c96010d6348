---------------------------- MODULE MCProgress ------------------------------
(***************************************************************************)
(* What must get done: replies wait in the outbox for a worker             *)
(* (ReplyOutbox), workflow executions run to their end                     *)
(* (WorkflowExecutions).  One behaviour is one of a single part, under the  *)
(* fairness of that part's loop.                                           *)
(***************************************************************************)
EXTENDS ReplyOutbox, WorkflowExecutions, TLC

VARIABLE part

progressVars == <<part, replyVars, execVars>>

\* A condition before a lead action whose event starts the workflow again, then a wait.
SelfStarting ==
    "t" :> [type |-> "TRIGGER", next |-> "c", no |-> "-"]
    @@ "c" :> [type |-> "CONDITION", next |-> "l", no |-> "v"]
    @@ "l" :> [type |-> "LEAD", next |-> "w", no |-> "-"]
    @@ "v" :> [type |-> "CONVERSATION", next |-> "e", no |-> "-"]
    @@ "w" :> [type |-> "WAIT", next |-> "e", no |-> "-"]
    @@ "e" :> [type |-> "END", next |-> "-", no |-> "-"]

ProgressInit == part \in {"replies", "executions"} /\ ReplyInit /\ ExecutionsInit

ReplyPart(A) == part = "replies" /\ A /\ UNCHANGED <<part, execVars>>

ExecutionPart(A) == part = "executions" /\ A /\ UNCHANGED <<part, replyVars>>

ProgressNext == ReplyPart(ReplyNext) \/ ExecutionPart(ExecutionsNext)

\* ReplyFairness and ExecutionsFairness, each for its own part.
ProgressFairness ==
    /\ \A w \in OutboxWorkers : WF_progressVars(ReplyPart(OutboxStep(w)))
    /\ \A q \in ReplyRequests : WF_progressVars(ReplyPart(
            QueueReplyCommit(q) \/ RetryFailedCommit(q) \/ EventCommit(q)))
    /\ \A r \in Replies : WF_progressVars(ReplyPart(
            (\A w \in OutboxWorkers : ~Holds(w, r)) /\ LeaseExpires(r)))
    /\ \A w \in AutoWorkers : WF_progressVars(ExecutionPart(WorkerNext(w)))
    /\ \A x \in Executions : /\ WF_progressVars(ExecutionPart(WaitIsOver(x)))
                             /\ WF_progressVars(ExecutionPart(LeaseRunsOut(x)))
    /\ WF_progressVars(ExecutionPart(OperatorCommit))

ProgressSpec == ProgressInit /\ [][ProgressNext]_progressVars /\ ProgressFairness
=============================================================================
