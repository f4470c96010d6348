-------------------------- MODULE WorkflowExecutions --------------------------
(***************************************************************************)
(* Automation: system events start workflow executions, and worker processes  *)
(* run them node by node.  The workflow_executions table is the queue: a row  *)
(* is claimed by a guarded UPDATE, its lease is set once and never renewed,   *)
(* every node ends in a commit, and the commit of a node does not look at who *)
(* holds the lease.                                                          *)
(***************************************************************************)
EXTENDS Naturals, FiniteSets

CONSTANTS
    Workflows, Events,      \* Events: event ids (a schedule tick's is its slot)
    Dispatchers,            \* requests and loops that emit events
    AutoWorkers,            \* worker processes
    NodeIds, Definition,    \* the graph: [NodeIds -> [type, next, no]]
    TriggerNode, NoNode, NoExecution,
    MaxRetries,             \* QBIT_AUTOMATION_MAX_RETRIES
    MaxSteps,               \* QBIT_AUTOMATION_MAX_STEPS_PER_EXECUTION
    StepsPerCycle,          \* STEPS_PER_CYCLE
    MaxCausationDepth,      \* QBIT_AUTOMATION_MAX_CAUSATION_DEPTH
    WindowLimit,            \* QBIT_AUTOMATION_MAX_EXECUTIONS_PER_WINDOW
    MaxOperatorOps, MaxEngineFaults   \* bounds

ASSUME WorkflowExecutionsAssumption ==
    /\ Definition \in [NodeIds -> [type : {"TRIGGER", "CONDITION", "LEAD", "SEND",
                                           "CONVERSATION", "WAIT", "END"},
                                   next : NodeIds \cup {NoNode}, no : NodeIds \cup {NoNode}]]
    /\ TriggerNode \in NodeIds /\ NoNode \notin NodeIds
    /\ NoExecution \notin Workflows \X Events
    /\ {MaxRetries, MaxSteps, StepsPerCycle, MaxCausationDepth, WindowLimit,
        MaxOperatorOps, MaxEngineFaults} \subseteq Nat

(* The published version is a graph that validate_graph has accepted: nodes that   *)
(* go on have a target, and no path comes back to a node.                        *)
GoesTo(n, m) ==
    m # NoNode /\ (m = Definition[n].next \/ (Definition[n].type = "CONDITION" /\ m = Definition[n].no))

ASSUME DefinitionAssumption ==
    /\ IsFiniteSet(NodeIds) /\ IsFiniteSet(AutoWorkers)
    /\ \A n \in NodeIds : /\ Definition[n].type # "END" => Definition[n].next # NoNode
                          /\ Definition[n].type = "CONDITION" => Definition[n].no # NoNode
    /\ \E place \in [NodeIds -> 1..Cardinality(NodeIds)] :
           \A n, m \in NodeIds : GoesTo(n, m) => place[n] < place[m]

VARIABLES
    live,        \* workflows that are ACTIVE with a PUBLISHED version
    recorded,   \* workflow_events: event ids, unique
    execution,   \* [Executions -> ExecutionRows], unique on (workflow, event)
    cause,       \* [Executions -> Executions \cup {NoExecution}]: causation_id
    steps,       \* [Executions -> Nat]: workflow_execution_steps rows
    effects,     \* [Executions \X NodeIds -> Nat]: times an action took effect
    queuedSends,      \* replies queued, by client_message_id wf:<execution>:<node>
    dispatcher,  \* [Dispatchers -> the event being dispatched]
    worker,      \* [AutoWorkers -> WorkerStates]
    operator,    \* the cancel or retry request in progress
    operatorOps, engineFaults,
    overrun      \* history: executions taken back while a worker was inside them

execVars == <<live, recorded, execution, cause, steps, effects, queuedSends, dispatcher,
              worker, operator, operatorOps, engineFaults, overrun>>

----------------------------------------------------------------------------
Executions == Workflows \X Events
ExecutionStatus == {"NONE", "QUEUED", "RUNNING", "WAITING", "COMPLETED", "FAILED", "CANCELLED"}
Finished == {"COMPLETED", "FAILED", "CANCELLED"}
(* due: next_execution_at is unset or past; lease: locked_at. *)
ExecutionRows == [status : ExecutionStatus, node : NodeIds, attempts : Nat, due : BOOLEAN,
                  lease : {"none", "fresh", "expired"}]
NewExecution == [status |-> "QUEUED", node |-> TriggerNode, attempts |-> 0, due |-> TRUE,
                 lease |-> "none"]
NoneYet == [NewExecution EXCEPT !.status = "NONE"]

Nodes(type) == {n \in NodeIds : Definition[n].type = type}
ActionNodes == Nodes("LEAD") \cup Nodes("SEND") \cup Nodes("CONVERSATION")

(* pc: where in process_cycle the worker is; todo: claimed, not yet run; x, row: *)
(* the execution at hand and the copy of its row; result: what its node does.   *)
WorkerStates == [pc : {"resume", "recover", "claim", "load", "act", "commit", "failing"},
                 todo : SUBSET Executions, x : Executions \cup {NoExecution},
                 row : ExecutionRows, result : {"next", "no", "skip", "wait", "end", "retry", "error"},
                 count : Nat]
IdleWorker == [pc |-> "resume", todo |-> {}, x |-> NoExecution, row |-> NoneYet,
               result |-> "next", count |-> 0]
NoRequest == [op |-> "none", x |-> NoExecution, row |-> NoneYet]

(* A session's UPDATE: only the columns that differ from what it loaded. *)
ChangedColumns(now, loaded, new) ==
    [c \in DOMAIN now |-> IF new[c] = loaded[c] THEN now[c] ELSE new[c]]

ExecutionsInit ==
    /\ live = Workflows /\ recorded = {} /\ queuedSends = {} /\ overrun = {}
    /\ execution = [x \in Executions |-> NoneYet]
    /\ cause = [x \in Executions |-> NoExecution]
    /\ steps = [x \in Executions |-> 0]
    /\ effects = [p \in Executions \X NodeIds |-> 0]
    /\ dispatcher = [d \in Dispatchers |-> {}]
    /\ worker = [w \in AutoWorkers |-> IdleWorker]
    /\ operator = NoRequest /\ operatorOps = 0 /\ engineFaults = 0

----------------------------------------------------------------------------
(* _causation_depth: executions on the way from x back to an event nobody caused. *)
Depth[n \in 0..(MaxCausationDepth + 2)] ==
    [x \in Executions |->
        IF n = 0 THEN 0
        ELSE IF cause[x] = NoExecution THEN 1 ELSE 1 + Depth[n - 1][cause[x]]]
CausationDepth(x) ==
    IF x = NoExecution THEN 0 ELSE Depth[MaxCausationDepth + 2][x]

Exists(x) == execution[x].status # "NONE"

(* _within_window, with every execution of the model inside one window. *)
WithinWindow(f) == Cardinality({e \in Events : Exists(<<f, e>>)}) < WindowLimit

(* Mutant: the event that an action emits is not traced to its execution. *)
StartsUntraced(e, by) == {<<f, e>> : f \in {f \in live : WithinWindow(f)}}

(* dispatch_event: what the event e, caused by the execution `by`, starts.  An  *)
(* event whose chain is too long starts nothing.                              *)
Starts(e, by) ==
    IF CausationDepth(by) > MaxCausationDepth THEN {}
    ELSE {<<f, e>> : f \in {f \in live : WithinWindow(f)}}

(* The rows that a dispatch inserts. *)
Insert(rows, xs) == [x \in Executions |-> IF x \in xs THEN NewExecution ELSE rows[x]]
InsertCause(xs, by) == [x \in Executions |-> IF x \in xs THEN by ELSE cause[x]]

(* emit_system_event or _fire_scheduled of a request: the event id is not there yet. *)
DispatchLoad(d) ==
    /\ dispatcher[d] = {}
    /\ \E e \in Events \ recorded : dispatcher' = [dispatcher EXCEPT ![d] = {e}]
    /\ UNCHANGED <<live, recorded, execution, cause, steps, effects, queuedSends, worker,
                   operator, operatorOps, engineFaults, overrun>>

(* Mutant: the intake row is not unique. *)
DispatchCommitTwice(d) ==
    \E e \in dispatcher[d] :
        /\ dispatcher' = [dispatcher EXCEPT ![d] = {}]
        /\ recorded' = recorded \cup {e}
        /\ LET xs == Starts(e, NoExecution) IN
               /\ execution' = Insert(execution, xs)
               /\ cause' = InsertCause(xs, NoExecution)
        /\ UNCHANGED <<live, steps, effects, queuedSends, worker, operator, operatorOps,
                       engineFaults, overrun>>

(* The flush and the caller's commit: a dispatcher that meets its event id    *)
(* inserted meanwhile is rolled back.                                        *)
DispatchCommit(d) ==
    \E e \in dispatcher[d] :
        /\ dispatcher' = [dispatcher EXCEPT ![d] = {}]
        /\ IF e \in recorded THEN UNCHANGED <<recorded, execution, cause>>
           ELSE /\ recorded' = recorded \cup {e}
                /\ LET xs == Starts(e, NoExecution) IN
                       /\ execution' = Insert(execution, xs)
                       /\ cause' = InsertCause(xs, NoExecution)
        /\ UNCHANGED <<live, steps, effects, queuedSends, worker, operator, operatorOps,
                       engineFaults, overrun>>

(* WorkflowService.publish, pause, resume, archive, as far as dispatch sees them. *)
WorkflowToggled(f) ==
    /\ operatorOps < MaxOperatorOps /\ operatorOps' = operatorOps + 1
    /\ live' = IF f \in live THEN live \ {f} ELSE live \cup {f}
    /\ UNCHANGED <<recorded, execution, cause, steps, effects, queuedSends, dispatcher, worker,
                   operator, engineFaults, overrun>>

----------------------------------------------------------------------------
(* Time.  A lease is not renewed: it can run out under its holder. *)
WaitIsOver(x) ==
    /\ Exists(x) /\ ~execution[x].due
    /\ execution' = [execution EXCEPT ![x].due = TRUE]
    /\ UNCHANGED <<live, recorded, cause, steps, effects, queuedSends, dispatcher, worker,
                   operator, operatorOps, engineFaults, overrun>>
HolderOf(x) == {w \in AutoWorkers : x \in worker[w].todo \/ worker[w].x = x}
LeaseRunsOut(x) ==
    /\ execution[x].lease = "fresh" /\ HolderOf(x) = {}
    /\ execution' = [execution EXCEPT ![x].lease = "expired"]
    /\ UNCHANGED <<live, recorded, cause, steps, effects, queuedSends, dispatcher, worker,
                   operator, operatorOps, engineFaults, overrun>>
LeaseRunsOutEarly(x) ==
    /\ execution[x].lease = "fresh" /\ HolderOf(x) # {}
    /\ engineFaults < MaxEngineFaults /\ engineFaults' = engineFaults + 1
    /\ execution' = [execution EXCEPT ![x].lease = "expired"]
    /\ UNCHANGED <<live, recorded, cause, steps, effects, queuedSends, dispatcher, worker,
                   operator, operatorOps, overrun>>

----------------------------------------------------------------------------
(* resume_due_waits: the lease of the claim that ran into the WAIT stays. *)
ResumeDueWaits(w) ==
    /\ worker[w].pc = "resume"
    /\ worker' = [worker EXCEPT ![w].pc = "recover"]
    /\ execution' = [x \in Executions |->
           IF execution[x].status = "WAITING" /\ execution[x].due
           THEN [execution[x] EXCEPT !.status = "QUEUED"] ELSE execution[x]]
    /\ UNCHANGED <<live, recorded, cause, steps, effects, queuedSends, dispatcher, operator,
                   operatorOps, engineFaults, overrun>>

(* Mutant: only waiting executions are taken back. *)
StaleWaiting(x) == execution[x].status = "WAITING" /\ execution[x].lease = "expired"
(* Mutant: recovery does not look at the age of the lease. *)
StaleAnyAge(x) == execution[x].status = "RUNNING" /\ execution[x].lease # "none"
Stale(x) == execution[x].status = "RUNNING" /\ execution[x].lease = "expired"
(* recover_stale_leases *)
RecoverStaleLeases(w) ==
    /\ worker[w].pc = "recover"
    /\ worker' = [worker EXCEPT ![w].pc = "claim"]
    /\ execution' = [x \in Executions |->
           IF Stale(x) THEN [execution[x] EXCEPT !.status = "QUEUED", !.lease = "none"]
           ELSE execution[x]]
    /\ overrun' = overrun \cup {x \in Executions : execution[x].lease = "expired"
                                                   /\ Stale(x) /\ HolderOf(x) # {}}
    /\ UNCHANGED <<live, recorded, cause, steps, effects, queuedSends, dispatcher, operator,
                   operatorOps, engineFaults>>

Runnable(x) == execution[x].status = "QUEUED" /\ execution[x].due
(* claim_batch: the candidates of the SELECT that the guarded UPDATE still finds  *)
(* QUEUED; the model's batch holds them all.                                    *)
ClaimBatch(w) ==
    /\ worker[w].pc = "claim"
    /\ LET xs == {x \in Executions : Runnable(x)} IN
        /\ execution' = [x \in Executions |->
               IF x \in xs THEN [execution[x] EXCEPT !.status = "RUNNING", !.lease = "fresh",
                                                     !.attempts = @ + 1]
               ELSE execution[x]]
        /\ worker' = [worker EXCEPT ![w] =
               IF xs = {} THEN IdleWorker ELSE [IdleWorker EXCEPT !.pc = "load", !.todo = xs]]
    /\ UNCHANGED <<live, recorded, cause, steps, effects, queuedSends, dispatcher, operator,
                   operatorOps, engineFaults, overrun>>

(* The worker is done with x: the next claimed execution, or the next cycle. *)
Done(s) == IF s.todo = {} THEN IdleWorker
           ELSE [s EXCEPT !.pc = "load", !.x = NoExecution, !.row = NoneYet, !.result = "next",
                          !.count = 0]

PickExecution(w) ==
    /\ worker[w].pc = "load" /\ worker[w].x = NoExecution
    /\ \E x \in worker[w].todo :
           worker' = [worker EXCEPT ![w].x = x, ![w].todo = @ \ {x}]
    /\ UNCHANGED <<live, recorded, execution, cause, steps, effects, queuedSends, dispatcher,
                   operator, operatorOps, engineFaults, overrun>>

(* What a node of this type may come to. *)
Results(type) ==
    CASE type = "TRIGGER" -> {"next"}
      [] type = "CONDITION" -> {"next", "no", "error"}
      [] type \in {"LEAD", "SEND", "CONVERSATION"} -> {"next", "skip", "retry", "error"}
      [] type = "WAIT" -> {"wait"}
      [] type = "END" -> {"end"}

(* run_execution, the reload before a node: stops at a row that is no longer      *)
(* RUNNING or QUEUED and after StepsPerCycle nodes, which leaves the row RUNNING. *)
RunLoad(w) ==
    LET s == worker[w] IN
    /\ s.pc = "load" /\ s.x # NoExecution
    /\ LET row == execution[s.x] IN
       IF row.status \notin {"RUNNING", "QUEUED"} \/ s.count >= StepsPerCycle
       THEN worker' = [worker EXCEPT ![w] = Done(s)]
       ELSE IF steps[s.x] >= MaxSteps
       THEN worker' = [worker EXCEPT ![w].pc = "failing", ![w].row = row]
       ELSE \E r \in Results(Definition[row.node].type) :
                worker' = [worker EXCEPT ![w].row = row, ![w].result = r,
                               ![w].pc = IF Definition[row.node].type \in {"SEND", "CONVERSATION"}
                                            /\ r = "next" THEN "act" ELSE "commit"]
    /\ UNCHANGED <<live, recorded, execution, cause, steps, effects, queuedSends, dispatcher,
                   operator, operatorOps, engineFaults, overrun>>

(* An action takes effect; the count is capped at 3. *)
Effect(x, n) == [effects EXCEPT ![<<x, n>>] = IF @ < 3 THEN @ + 1 ELSE @]

(* UPDATE_LEAD, CHANGE_STATUS, ADD_TAG, REMOVE_TAG, ADD_NOTE: flushed, not committed. *)
LeadEffect(s) ==
    IF Definition[s.row.node].type = "LEAD" /\ s.result = "next" THEN Effect(s.x, s.row.node)
    ELSE effects
(* SEND_WHATSAPP, SEND_EMAIL: queue_reply knows the client_message_id it has queued. *)
SendEffect(s) ==
    IF <<s.x, s.row.node>> \in queuedSends THEN effects ELSE Effect(s.x, s.row.node)
(* CHANGE_CONVERSATION_STATUS, CHANGE_PRIORITY, ASSIGN_*, UNASSIGN, ADD_INTERNAL_NOTE: *)
(* committed by ConversationEngine, whatever was done before.                     *)
ConversationEffect(s) == Effect(s.x, s.row.node)

(* Actions that commit on their own, the open step with them. *)
ActCommit(w) ==
    LET s == worker[w] n == s.row.node IN
    /\ s.pc = "act"
    /\ IF Definition[n].type = "SEND"
       THEN effects' = SendEffect(s) /\ queuedSends' = queuedSends \cup {<<s.x, n>>}
       ELSE effects' = ConversationEffect(s) /\ UNCHANGED queuedSends
    /\ worker' = [worker EXCEPT ![w].pc = "commit"]
    /\ steps' = [steps EXCEPT ![s.x] = @ + 1]
    /\ UNCHANGED <<live, recorded, execution, cause, dispatcher, operator, operatorOps,
                   engineFaults, overrun>>

(* The row after the node: retry is _retry_or_fail within its limit. *)
AfterNode(s) ==
    LET n == s.row.node IN
    CASE s.result \in {"next", "skip"} -> [s.row EXCEPT !.node = Definition[n].next]
      [] s.result = "no" -> [s.row EXCEPT !.node = Definition[n].no]
      [] s.result = "wait" -> [s.row EXCEPT !.status = "WAITING", !.due = FALSE,
                                            !.node = Definition[n].next]
      [] s.result = "end" -> [s.row EXCEPT !.status = "COMPLETED"]
      [] s.result = "retry" /\ s.row.attempts <= MaxRetries ->
             [s.row EXCEPT !.status = "QUEUED", !.due = FALSE, !.lease = "none"]
      [] OTHER -> s.row

(* A node that fails is committed first; _fail follows in a commit of its own. *)
GoesOn(s) == s.result \in {"next", "skip", "no"}
Fails(s) == s.result = "error" \/ (s.result = "retry" /\ s.row.attempts > MaxRetries)

(* _commit_node, with what a LEAD action changed and the executions that the    *)
(* event it emits has started (the event id is a new one).                     *)
NodeCommit(w) ==
    LET s == worker[w] n == s.row.node
        acts == Definition[n].type = "LEAD" /\ s.result = "next" IN
    /\ s.pc = "commit"
    /\ steps' = IF s.result = "next" /\ Definition[n].type \in {"SEND", "CONVERSATION"}
                THEN steps ELSE [steps EXCEPT ![s.x] = @ + 1]
    /\ effects' = LeadEffect(s)
    /\ LET rows == [execution EXCEPT ![s.x] = ChangedColumns(@, s.row, AfterNode(s))] IN
       IF acts /\ Events \ recorded # {}
       THEN \E e \in Events \ recorded :
                LET xs == Starts(e, s.x) IN
                /\ recorded' = IF CausationDepth(s.x) > MaxCausationDepth THEN recorded
                                ELSE recorded \cup {e}
                /\ execution' = Insert(rows, xs)
                /\ cause' = InsertCause(xs, s.x)
       ELSE execution' = rows /\ UNCHANGED <<recorded, cause>>
    /\ worker' = [worker EXCEPT ![w] =
           IF GoesOn(s) THEN [s EXCEPT !.pc = "load", !.count = @ + 1]
           ELSE IF Fails(s) THEN [s EXCEPT !.pc = "failing", !.row = execution[s.x]]
           ELSE Done(s)]
    /\ UNCHANGED <<live, queuedSends, dispatcher, operator, operatorOps, engineFaults, overrun>>

(* _fail: the row as refreshed after the node's commit, set to FAILED. *)
FailExecution(w) ==
    LET s == worker[w] IN
    /\ s.pc = "failing"
    /\ execution' = [execution EXCEPT ![s.x] =
           ChangedColumns(@, s.row, [s.row EXCEPT !.status = "FAILED", !.lease = "none"])]
    /\ worker' = [worker EXCEPT ![w] = Done(s)]
    /\ UNCHANGED <<live, recorded, cause, steps, effects, queuedSends, dispatcher, operator,
                   operatorOps, engineFaults, overrun>>

(* The process dies, or an exception leaves the cycle: nothing is rolled back *)
(* but the open transaction.                                                *)
WorkerDies(w) ==
    /\ worker[w] # IdleWorker
    /\ engineFaults < MaxEngineFaults /\ engineFaults' = engineFaults + 1
    /\ worker' = [worker EXCEPT ![w] = IdleWorker]
    /\ UNCHANGED <<live, recorded, execution, cause, steps, effects, queuedSends, dispatcher,
                   operator, operatorOps, overrun>>

----------------------------------------------------------------------------
(* cancel_execution, automation_cancel_execution and retry_execution: the row is loaded and checked... *)
OperatorLoad(op, x) ==
    /\ operator.op = "none"
    /\ operatorOps < MaxOperatorOps /\ operatorOps' = operatorOps + 1
    /\ execution[x].status \in IF op = "retry" THEN {"FAILED", "CANCELLED"}
                               ELSE {"QUEUED", "RUNNING", "WAITING"}
    /\ operator' = [op |-> op, x |-> x, row |-> execution[x]]
    /\ UNCHANGED <<live, recorded, execution, cause, steps, effects, queuedSends, dispatcher,
                   worker, engineFaults, overrun>>
(* ... and committed: none touches the attempts or the current node, and the page's *)
(* cancel leaves the lease where it is.                                          *)
OperatorCommit ==
    LET x == operator.x row == operator.row IN
    /\ operator.op # "none"
    /\ operator' = NoRequest
    /\ execution' = [execution EXCEPT ![x] = ChangedColumns(@, row,
           IF operator.op = "cancel" THEN [row EXCEPT !.status = "CANCELLED", !.lease = "none"]
           ELSE IF operator.op = "ui_cancel" THEN [row EXCEPT !.status = "CANCELLED"]
           ELSE [row EXCEPT !.status = "QUEUED", !.due = TRUE, !.lease = "none"])]
    /\ overrun' = IF HolderOf(x) # {} THEN overrun \cup {x} ELSE overrun
    /\ UNCHANGED <<live, recorded, cause, steps, effects, queuedSends, dispatcher, worker,
                   operatorOps, engineFaults>>

----------------------------------------------------------------------------
WorkerNext(w) ==
    \/ ResumeDueWaits(w) \/ RecoverStaleLeases(w) \/ ClaimBatch(w)
    \/ PickExecution(w) \/ RunLoad(w) \/ ActCommit(w) \/ NodeCommit(w) \/ FailExecution(w)

ExecutionsNext ==
    \/ \E d \in Dispatchers : DispatchLoad(d) \/ DispatchCommit(d)
    \/ \E f \in Workflows : WorkflowToggled(f)
    \/ \E x \in Executions : WaitIsOver(x) \/ LeaseRunsOut(x) \/ LeaseRunsOutEarly(x)
    \/ \E w \in AutoWorkers : WorkerNext(w) \/ WorkerDies(w)
    \/ \E x \in Executions, op \in {"cancel", "ui_cancel", "retry"} : OperatorLoad(op, x)
    \/ OperatorCommit

ExecutionsSpec == ExecutionsInit /\ [][ExecutionsNext]_execVars

(* app/worker.py runs the automation cycle forever, whatever a cycle raises;   *)
(* time passes; an operator's request that was started is finished.           *)
ExecutionsFairness ==
    /\ \A w \in AutoWorkers : WF_execVars(WorkerNext(w))
    /\ \A x \in Executions : WF_execVars(WaitIsOver(x)) /\ WF_execVars(LeaseRunsOut(x))
    /\ WF_execVars(OperatorCommit)
ExecutionsLiveSpec == ExecutionsSpec /\ ExecutionsFairness

----------------------------------------------------------------------------
(* The tables and the workers' copies hold what their columns can hold. *)
ExecutionsTypeOK ==
    /\ live \subseteq Workflows /\ recorded \subseteq Events
    /\ execution \in [Executions -> ExecutionRows]
    /\ cause \in [Executions -> Executions \cup {NoExecution}]
    /\ steps \in [Executions -> 0..(MaxSteps + Cardinality(AutoWorkers))]
    /\ effects \in [Executions \X NodeIds -> 0..3]
    /\ queuedSends \subseteq Executions \X Nodes("SEND")
    /\ dispatcher \in [Dispatchers -> SUBSET Events]
    /\ \A d \in Dispatchers : Cardinality(dispatcher[d]) <= 1
    /\ worker \in [AutoWorkers -> WorkerStates]
    /\ operator.op \in {"none", "cancel", "ui_cancel", "retry"}
    /\ overrun \subseteq Executions

(* communication.py: "Messages are idempotent per (execution, node): retries can *)
(* never duplicate a send": across crashes, retries, lost leases and two         *)
(* workers in one execution, a SEND node queues at most one message.            *)
SendOncePerNode ==
    \A x \in Executions, n \in Nodes("SEND") : effects[<<x, n>>] <= 1

(* A lead action is committed with its node: whatever dies, it takes effect once  *)
(* per execution, unless the execution was taken back from a worker inside it.    *)
LeadActionOnce ==
    \A x \in Executions \ overrun, n \in Nodes("LEAD") : effects[<<x, n>>] <= 1

(* An execution has one worker at a time unless its lease ran out or an operator *)
(* requeued it under the worker.                                               *)
OneRunner ==
    \A x \in Executions \ overrun : Cardinality(HolderOf(x)) <= 1

(* The same event never starts a workflow again: an execution that exists stays  *)
(* and is not put back to its beginning.                                       *)
EventStartsOnce ==
    [][\A x \in Executions : execution[x].status # "NONE" =>
           /\ execution'[x].status # "NONE"
           /\ execution'[x].attempts >= execution[x].attempts
           /\ cause'[x] = cause[x]]_execVars

(* Workflows that set each other off stop: a chain of executions is no longer     *)
(* than the causation limit allows.                                             *)
CausationBounded ==
    \A x \in Executions : Exists(x) => CausationDepth(x) <= MaxCausationDepth + 1

(* Every execution that was started ends, through waits, retries, crashed workers *)
(* and cycles that stop after StepsPerCycle nodes.                              *)
EveryExecutionEnds ==
    \A x \in Executions : Exists(x) ~> execution[x].status \in Finished

(* Crashes, retries, lost leases and second workers notwithstanding: one message per  *)
(* SEND node, one effect per lead action, one worker per execution.                *)
ExecutionsInv == ExecutionsTypeOK /\ SendOncePerNode /\ LeadActionOnce /\ OneRunner
=============================================================================
