---------------------- MODULE WorkflowExecutionsProofs ----------------------
(***************************************************************************)
(* Proofs about WorkflowExecutions for every set of workflows, events,         *)
(* dispatchers and workers, every accepted graph and every bound: one message   *)
(* per SEND node, one effect per lead action, one worker per execution,         *)
(* an event that starts a workflow once; chains of causes are bounded.         *)
(***************************************************************************)
EXTENDS WorkflowExecutions, FiniteSetTheorems, WellFoundedInduction, TLAPS

(* A place for every node, in which every edge goes up. *)
NodePlace == CHOOSE place \in [NodeIds -> 1..Cardinality(NodeIds)] :
                 \A n, m \in NodeIds : GoesTo(n, m) => place[n] < place[m]

WorkerHas(w, x) == x \in worker[w].todo \/ worker[w].x = x

(* What a worker holds at each point of its cycle. *)
WorkerShape(s) ==
    /\ s.pc \in {"resume", "recover", "claim"} => s.todo = {} /\ s.x = NoExecution
    /\ s.pc \in {"act", "commit", "failing"} => s.x # NoExecution
    /\ s.pc \in {"act", "commit"} => s.result \in Results(Definition[s.row.node].type)
    /\ s.pc = "act" => s.result = "next" /\ Definition[s.row.node].type \in {"SEND", "CONVERSATION"}
    /\ s.x \notin s.todo

WorkersOK ==
    \A w \in AutoWorkers :
        /\ WorkerShape(worker[w])
        /\ \A x \in Executions : WorkerHas(w, x) => Exists(x)

OperatorOK ==
    operator.op # "none" =>
        /\ operator.op \in {"cancel", "ui_cancel", "retry"} /\ operator.x \in Executions
        /\ operator.row \in ExecutionRows /\ Exists(operator.x)

(* An execution is there only with its event on record, and nothing took effect before. *)
RecordedOK ==
    /\ \A f \in Workflows, e \in Events : Exists(<<f, e>>) => e \in recorded
    /\ \A x \in Executions, n \in NodeIds : ~Exists(x) => effects[<<x, n>>] = 0

(* A SEND node took effect exactly when its client_message_id is queued. *)
SendsOK ==
    \A x \in Executions, n \in Nodes("SEND") :
        effects[<<x, n>>] = IF <<x, n>> \in queuedSends THEN 1 ELSE 0

(* A worker that has passed the step limit and has not added its step yet. *)
Uncounted(w, x) ==
    LET s == worker[w] IN
    /\ s.x = x
    /\ \/ s.pc = "act"
       \/ s.pc = "commit" /\ ~(s.result = "next" /\ Definition[s.row.node].type \in {"SEND", "CONVERSATION"})

UncountedWorkers(x) == {w \in AutoWorkers : Uncounted(w, x)}

StepsOK ==
    \A x \in Executions :
        steps[x] + Cardinality(UncountedWorkers(x)) <= MaxSteps + Cardinality(AutoWorkers)

(* An execution that was not taken back from a worker: one worker has it and finds  *)
(* it where it was loaded, and the lead actions that took effect lie behind it.    *)
Inside(w, x) == worker[w].x = x /\ worker[w].pc \in {"act", "commit"}

RunOK(x) ==
    /\ \A v, w \in AutoWorkers : WorkerHas(v, x) /\ WorkerHas(w, x) => v = w
    /\ \A w \in AutoWorkers : WorkerHas(w, x) => execution[x].status = "RUNNING"
    /\ \A w \in AutoWorkers : Inside(w, x) =>
         worker[w].row.node = execution[x].node /\ worker[w].row.status = "RUNNING"
    /\ \A n \in Nodes("LEAD") : effects[<<x, n>>] # 0 =>
         effects[<<x, n>>] = 1 /\ NodePlace[n] < NodePlace[execution[x].node]

RunsOK == \A x \in Executions \ overrun : RunOK(x)

----------------------------------------------------------------------------
(* The graph, the rows and the workers' states. *)

LEMMA Places ==
    /\ NodePlace \in [NodeIds -> 1..Cardinality(NodeIds)]
    /\ \A n, m \in NodeIds : GoesTo(n, m) => NodePlace[n] < NodePlace[m]
BY DefinitionAssumption DEF NodePlace

LEMMA PlaceIsNat == \A n \in NodeIds : NodePlace[n] \in Nat
<1>1. Cardinality(NodeIds) \in Nat
  BY DefinitionAssumption, FS_CardinalityType
<1> QED BY <1>1, Places

(* The UPDATE of a session, column by column. *)
LEMMA Columns ==
    ASSUME NEW now \in ExecutionRows, NEW loaded \in ExecutionRows, NEW new \in ExecutionRows
    PROVE  LET row == ChangedColumns(now, loaded, new) IN
           /\ row \in ExecutionRows
           /\ row.status = IF new.status = loaded.status THEN now.status ELSE new.status
           /\ row.node = IF new.node = loaded.node THEN now.node ELSE new.node
           /\ row.attempts = IF new.attempts = loaded.attempts THEN now.attempts ELSE new.attempts
<1>1. ChangedColumns(now, loaded, new) \in ExecutionRows
  BY DEF ChangedColumns, ExecutionRows
<1>2. /\ ChangedColumns(now, loaded, new).status
           = IF new.status = loaded.status THEN now.status ELSE new.status
      /\ ChangedColumns(now, loaded, new).node = IF new.node = loaded.node THEN now.node ELSE new.node
      /\ ChangedColumns(now, loaded, new).attempts
           = IF new.attempts = loaded.attempts THEN now.attempts ELSE new.attempts
  BY DEF ChangedColumns, ExecutionRows
<1> QED BY <1>1, <1>2

LEMMA NewRows ==
    /\ NewExecution \in ExecutionRows /\ NoneYet \in ExecutionRows
    /\ NoneYet.status = "NONE" /\ NewExecution.status = "QUEUED"
BY WorkflowExecutionsAssumption DEF NewExecution, NoneYet, ExecutionRows, ExecutionStatus

LEMMA RowIs ==
    ASSUME ExecutionsTypeOK, NEW x \in Executions
    PROVE  /\ execution[x] \in ExecutionRows /\ execution[x].status \in ExecutionStatus
           /\ execution[x].node \in NodeIds /\ execution[x].attempts \in Nat
           /\ cause[x] \in Executions \cup {NoExecution}
BY DEF ExecutionsTypeOK, ExecutionRows

LEMMA IdleIs == IdleWorker \in WorkerStates /\ WorkerShape(IdleWorker)
                /\ IdleWorker.todo = {} /\ IdleWorker.x = NoExecution /\ IdleWorker.pc = "resume"
BY NewRows DEF IdleWorker, WorkerStates, WorkerShape

LEMMA WorkerIs ==
    ASSUME ExecutionsTypeOK, NEW w \in AutoWorkers
    PROVE  /\ worker[w] \in WorkerStates /\ worker[w].todo \subseteq Executions
           /\ worker[w].x \in Executions \cup {NoExecution} /\ worker[w].row \in ExecutionRows
           /\ worker[w].row.node \in NodeIds /\ worker[w].count \in Nat
BY DEF ExecutionsTypeOK, WorkerStates, ExecutionRows

LEMMA DoneIs ==
    ASSUME NEW s \in WorkerStates
    PROVE  /\ Done(s) \in WorkerStates /\ WorkerShape(Done(s))
           /\ Done(s).todo = s.todo /\ Done(s).x = NoExecution /\ Done(s).pc \in {"resume", "load"}
<1>1. CASE s.todo = {}
  BY <1>1, IdleIs DEF Done
<1>2. CASE s.todo # {}
  <2> DEFINE t == [s EXCEPT !.pc = "load", !.x = NoExecution, !.row = NoneYet, !.result = "next",
                            !.count = 0]
  <2>1. /\ t \in WorkerStates /\ t.todo = s.todo /\ t.x = NoExecution /\ t.pc = "load"
        /\ s.todo \subseteq Executions
    BY NewRows DEF WorkerStates
  <2>2. WorkerShape(t)
    BY <2>1, WorkflowExecutionsAssumption DEF WorkerShape, Executions
  <2>3. Done(s) = t
    BY <1>2 DEF Done
  <2> QED BY <2>1, <2>2, <2>3
<1> QED BY <1>1, <1>2

(* A worker that takes a state of the right form. *)
LEMMA Moves ==
    ASSUME ExecutionsTypeOK, NEW w \in AutoWorkers, NEW s \in WorkerStates,
           worker' = [worker EXCEPT ![w] = s]
    PROVE  /\ worker' \in [AutoWorkers -> WorkerStates]
           /\ worker'[w] = s /\ \A v \in AutoWorkers \ {w} : worker'[v] = worker[v]
BY DEF ExecutionsTypeOK

(* The node after the one at hand is a node, and lies further on. *)
LEMMA NextNode ==
    ASSUME NEW s \in WorkerStates, s.result \in Results(Definition[s.row.node].type)
    PROVE  /\ AfterNode(s) \in ExecutionRows
           /\ AfterNode(s).attempts = s.row.attempts
           /\ GoesOn(s) => NodePlace[s.row.node] < NodePlace[AfterNode(s).node]
                           /\ AfterNode(s).status = s.row.status
           /\ AfterNode(s).node # s.row.node => NodePlace[s.row.node] < NodePlace[AfterNode(s).node]
           /\ AfterNode(s).status # s.row.status => AfterNode(s).status # "NONE"
<1> DEFINE n == s.row.node
           type == Definition[n].type
<1>1. /\ n \in NodeIds /\ s.row \in ExecutionRows /\ Definition[n].next \in NodeIds \cup {NoNode}
      /\ Definition[n].no \in NodeIds \cup {NoNode}
      /\ type \in {"TRIGGER", "CONDITION", "LEAD", "SEND", "CONVERSATION", "WAIT", "END"}
  BY WorkflowExecutionsAssumption DEF WorkerStates, ExecutionRows
<1>2. s.result \in {"next", "skip", "wait"} => type # "END"
  BY <1>1 DEF Results
<1>3. s.result = "no" => type = "CONDITION"
  BY <1>1 DEF Results
<1>4. s.result \in {"next", "skip", "wait"} =>
        Definition[n].next \in NodeIds /\ NodePlace[n] < NodePlace[Definition[n].next]
  BY <1>1, <1>2, Places, DefinitionAssumption, WorkflowExecutionsAssumption DEF GoesTo
<1>5. s.result = "no" => Definition[n].no \in NodeIds /\ NodePlace[n] < NodePlace[Definition[n].no]
  BY <1>1, <1>3, Places, DefinitionAssumption, WorkflowExecutionsAssumption DEF GoesTo
<1>6. CASE s.result \in {"next", "skip"}
  <2>1. AfterNode(s) = [s.row EXCEPT !.node = Definition[n].next]
    BY <1>6 DEF AfterNode
  <2> QED BY <1>1, <1>4, <1>6, <2>1 DEF ExecutionRows, GoesOn
<1>7. CASE s.result = "no"
  <2>1. AfterNode(s) = [s.row EXCEPT !.node = Definition[n].no]
    BY <1>7 DEF AfterNode
  <2> QED BY <1>1, <1>5, <1>7, <2>1 DEF ExecutionRows, GoesOn
<1>8. CASE s.result = "wait"
  <2>1. AfterNode(s) = [s.row EXCEPT !.status = "WAITING", !.due = FALSE, !.node = Definition[n].next]
    BY <1>8 DEF AfterNode
  <2> QED BY <1>1, <1>4, <1>8, <2>1 DEF ExecutionRows, ExecutionStatus, GoesOn
<1>9. CASE s.result \in {"end", "retry", "error"}
  <2>1. \/ AfterNode(s) = [s.row EXCEPT !.status = "COMPLETED"]
        \/ AfterNode(s) = [s.row EXCEPT !.status = "QUEUED", !.due = FALSE, !.lease = "none"]
        \/ AfterNode(s) = s.row
    BY <1>9 DEF AfterNode
  <2>2. ~GoesOn(s)
    BY <1>9 DEF GoesOn
  <2> QED BY <1>1, <2>1, <2>2 DEF ExecutionRows, ExecutionStatus
<1> QED BY <1>6, <1>7, <1>8, <1>9 DEF WorkerStates

----------------------------------------------------------------------------
(* What a worker's step makes of the worker: it keeps the form, and has no execution *)
(* that it did not have or claim.                                            *)
HasIn(s, x) == x \in s.todo \/ s.x = x

WorkerAct(w) == WorkerNext(w) \/ WorkerDies(w)

NextState(w, s) ==
    /\ worker' = [worker EXCEPT ![w] = s] /\ s \in WorkerStates /\ WorkerShape(s)
    /\ \A x \in Executions : HasIn(s, x) => WorkerHas(w, x) \/ (ClaimBatch(w) /\ Runnable(x))

LEMMA CycleStep ==
    ASSUME ExecutionsTypeOK, WorkersOK, NEW w \in AutoWorkers,
           ResumeDueWaits(w) \/ RecoverStaleLeases(w) \/ ClaimBatch(w) \/ PickExecution(w) \/ WorkerDies(w)
    PROVE  \E s : NextState(w, s) /\ s.pc \in {"resume", "recover", "claim", "load"}
<1>1. worker[w] \in WorkerStates /\ WorkerShape(worker[w]) /\ worker[w].todo \subseteq Executions
  BY WorkerIs DEF WorkersOK
<1>2. ASSUME NEW pc \in {"recover", "claim"}, worker[w].pc \in {"resume", "recover"},
             worker' = [worker EXCEPT ![w].pc = pc]
      PROVE  \E s : NextState(w, s) /\ s.pc \in {"resume", "recover", "claim", "load"}
  <2> DEFINE s == [worker[w] EXCEPT !.pc = pc]
  <2>1. /\ worker' = [worker EXCEPT ![w] = s]
        /\ s \in WorkerStates /\ s.pc = pc /\ s.todo = worker[w].todo /\ s.x = worker[w].x
    BY <1>1, <1>2 DEF WorkerStates
  <2>2. WorkerShape(s)
    BY <1>1, <1>2, <2>1 DEF WorkerShape
  <2>3. \A x \in Executions : HasIn(s, x) => WorkerHas(w, x)
    BY <2>1 DEF HasIn, WorkerHas
  <2> HIDE DEF s
  <2> QED BY <2>1, <2>2, <2>3 DEF NextState
<1>3. CASE ResumeDueWaits(w) \/ RecoverStaleLeases(w)
  BY <1>2, <1>3 DEF ResumeDueWaits, RecoverStaleLeases
<1>4. CASE ClaimBatch(w)
  <2> DEFINE xs == {x \in Executions : Runnable(x)}
             s == IF xs = {} THEN IdleWorker ELSE [IdleWorker EXCEPT !.pc = "load", !.todo = xs]
  <2>1. worker' = [worker EXCEPT ![w] = s]
    BY <1>4 DEF ClaimBatch
  <2>2. s \in WorkerStates /\ s.x = NoExecution /\ s.todo = xs /\ s.pc \in {"resume", "load"}
        /\ (xs = {} => s = IdleWorker)
    BY IdleIs DEF WorkerStates
  <2>3. NoExecution \notin xs
    BY WorkflowExecutionsAssumption DEF Executions
  <2>4. WorkerShape(s)
    <3>1. CASE xs = {}
      BY <2>2, <3>1, IdleIs
    <3>2. CASE xs # {}
      <4>1. s.pc = "load"
        BY <3>2, IdleIs DEF WorkerStates
      <4> QED BY <2>2, <2>3, <4>1 DEF WorkerShape
    <3> QED BY <3>1, <3>2
  <2>5. \A x \in Executions : HasIn(s, x) => Runnable(x)
    BY <2>2, WorkflowExecutionsAssumption DEF HasIn, Executions
  <2> HIDE DEF s
  <2> QED BY <1>4, <2>1, <2>2, <2>4, <2>5 DEF NextState
<1>5. CASE PickExecution(w)
  <2>1. PICK x \in worker[w].todo : worker' = [worker EXCEPT ![w].x = x, ![w].todo = @ \ {x}]
    BY <1>5 DEF PickExecution
  <2> DEFINE s == [worker[w] EXCEPT !.x = x, !.todo = worker[w].todo \ {x}]
  <2>2. /\ worker' = [worker EXCEPT ![w] = s]
        /\ s \in WorkerStates /\ s.pc = "load" /\ s.todo = worker[w].todo \ {x} /\ s.x = x
    BY <1>1, <1>5, <2>1 DEF WorkerStates, PickExecution
  <2>3. WorkerShape(s)
    BY <2>2 DEF WorkerShape
  <2>4. \A y \in Executions : HasIn(s, y) => WorkerHas(w, y)
    BY <2>2 DEF HasIn, WorkerHas
  <2> HIDE DEF s
  <2> QED BY <2>2, <2>3, <2>4 DEF NextState
<1>6. CASE WorkerDies(w)
  <2>1. \A x \in Executions : ~HasIn(IdleWorker, x)
    BY IdleIs, WorkflowExecutionsAssumption DEF HasIn, Executions
  <2>2. worker' = [worker EXCEPT ![w] = IdleWorker]
    BY <1>6 DEF WorkerDies
  <2> QED BY <2>1, <2>2, IdleIs DEF NextState
<1> QED BY <1>3, <1>4, <1>5, <1>6

LEMMA DoneNext ==
    ASSUME ExecutionsTypeOK, NEW w \in AutoWorkers, worker' = [worker EXCEPT ![w] = Done(worker[w])]
    PROVE  NextState(w, Done(worker[w]))
<1>1. worker[w] \in WorkerStates
  BY WorkerIs
<1>2. /\ Done(worker[w]) \in WorkerStates /\ WorkerShape(Done(worker[w]))
      /\ Done(worker[w]).todo = worker[w].todo /\ Done(worker[w]).x = NoExecution
  BY <1>1, DoneIs
<1>3. \A x \in Executions : HasIn(Done(worker[w]), x) => WorkerHas(w, x)
  BY <1>2, WorkflowExecutionsAssumption DEF HasIn, WorkerHas, Executions
<1> QED BY <1>2, <1>3 DEF NextState

(* run_execution: the next node is looked at, from the row as it is.               *)
LEMMA LoadStep ==
    ASSUME ExecutionsTypeOK, WorkersOK, NEW w \in AutoWorkers, RunLoad(w)
    PROVE  \/ worker' = [worker EXCEPT ![w] = Done(worker[w])] /\ NextState(w, Done(worker[w]))
           \/ \E s : /\ NextState(w, s) /\ s.todo = worker[w].todo /\ s.x = worker[w].x
                     /\ s.x \in Executions /\ s.row = execution[s.x]
                     /\ s.pc \in {"act", "commit", "failing"}
                     /\ s.pc \in {"act", "commit"} => steps[s.x] < MaxSteps
<1>1. /\ worker[w] \in WorkerStates /\ WorkerShape(worker[w]) /\ worker[w].pc = "load"
      /\ worker[w].x \in Executions
  BY WorkerIs DEF WorkersOK, RunLoad
<1> DEFINE x == worker[w].x
           row == execution[x]
           type == Definition[row.node].type
<1>2. row \in ExecutionRows
  BY <1>1, RowIs
<1>3. \/ worker' = [worker EXCEPT ![w] = Done(worker[w])]
      \/ steps[x] >= MaxSteps /\ worker' = [worker EXCEPT ![w].pc = "failing", ![w].row = row]
      \/ /\ ~(steps[x] >= MaxSteps)
         /\ \E r \in Results(type) :
               worker' = [worker EXCEPT ![w].row = row, ![w].result = r,
                              ![w].pc = IF type \in {"SEND", "CONVERSATION"} /\ r = "next"
                                          THEN "act" ELSE "commit"]
  BY DEF RunLoad
<1> HIDE DEF row
<1>4. CASE worker' = [worker EXCEPT ![w] = Done(worker[w])]
  BY <1>4, DoneNext
<1>5. CASE worker' = [worker EXCEPT ![w].pc = "failing", ![w].row = row]
  <2> DEFINE s == [worker[w] EXCEPT !.pc = "failing", !.row = row]
  <2>1. /\ worker' = [worker EXCEPT ![w] = s]
        /\ s \in WorkerStates /\ s.pc = "failing" /\ s.row = row /\ s.todo = worker[w].todo /\ s.x = x
    BY <1>1, <1>2, <1>5 DEF WorkerStates
  <2> HIDE DEF s
  <2>2. WorkerShape(s)
    BY <1>1, <2>1, WorkflowExecutionsAssumption DEF WorkerShape, Executions
  <2>3. \A y \in Executions : HasIn(s, y) => WorkerHas(w, y)
    BY <2>1 DEF HasIn, WorkerHas
  <2>4. NextState(w, s)
    BY <2>1, <2>2, <2>3 DEF NextState
  <2> QED BY <1>1, <2>1, <2>4 DEF row
<1>6. ASSUME ~(steps[x] >= MaxSteps), NEW r \in Results(type), NEW pc,
             pc = IF type \in {"SEND", "CONVERSATION"} /\ r = "next" THEN "act" ELSE "commit",
             worker' = [worker EXCEPT ![w].row = row, ![w].result = r, ![w].pc = pc]
      PROVE  \E s : /\ NextState(w, s) /\ s.todo = worker[w].todo /\ s.x = worker[w].x
                    /\ s.x \in Executions /\ s.row = execution[s.x]
                    /\ s.pc \in {"act", "commit", "failing"}
                    /\ s.pc \in {"act", "commit"} => steps[s.x] < MaxSteps
  <2> DEFINE s == [worker[w] EXCEPT !.row = row, !.result = r, !.pc = pc]
  <2>1. type \in {"TRIGGER", "CONDITION", "LEAD", "SEND", "CONVERSATION", "WAIT", "END"}
    BY <1>2, WorkflowExecutionsAssumption DEF ExecutionRows
  <2>2. r \in {"next", "no", "skip", "wait", "end", "retry", "error"}
    BY <1>6, <2>1 DEF Results
  <2>3. /\ worker' = [worker EXCEPT ![w] = s]
        /\ s \in WorkerStates /\ s.pc = pc /\ s.row = row /\ s.result = r /\ s.todo = worker[w].todo /\ s.x = x
    BY <1>1, <1>2, <1>6, <2>2 DEF WorkerStates
  <2> HIDE DEF s
  <2>4. WorkerShape(s)
    BY <1>1, <1>6, <2>3, WorkflowExecutionsAssumption DEF WorkerShape, Executions
  <2>5. \A y \in Executions : HasIn(s, y) => WorkerHas(w, y)
    BY <2>3 DEF HasIn, WorkerHas
  <2>6. NextState(w, s)
    BY <2>3, <2>4, <2>5 DEF NextState
  <2>7. steps[x] < MaxSteps
    <3>1. steps[x] \in Nat /\ MaxSteps \in Nat
      BY <1>1, WorkflowExecutionsAssumption DEF ExecutionsTypeOK
    <3> QED BY <1>6, <3>1
  <2> QED BY <1>1, <1>6, <2>3, <2>6, <2>7 DEF row
<1> QED BY <1>3, <1>4, <1>5, <1>6

(* The commits of a node. *)
LEMMA ActStep ==
    ASSUME ExecutionsTypeOK, WorkersOK, NEW w \in AutoWorkers, ActCommit(w)
    PROVE  \E s : /\ NextState(w, s) /\ s = [worker[w] EXCEPT !.pc = "commit"]
                  /\ s.pc = "commit" /\ s.todo = worker[w].todo /\ s.x = worker[w].x
                  /\ s.row = worker[w].row /\ s.result = worker[w].result
<1>1. worker[w] \in WorkerStates /\ WorkerShape(worker[w]) /\ worker[w].pc = "act"
  BY WorkerIs DEF WorkersOK, ActCommit
<1> DEFINE s == [worker[w] EXCEPT !.pc = "commit"]
<1>2. /\ worker' = [worker EXCEPT ![w] = s] /\ s \in WorkerStates
      /\ s.pc = "commit" /\ s.todo = worker[w].todo /\ s.x = worker[w].x
      /\ s.row = worker[w].row /\ s.result = worker[w].result
  BY <1>1 DEF WorkerStates, ActCommit
<1>3. WorkerShape(s)
  BY <1>1, <1>2 DEF WorkerShape
<1>4. \A x \in Executions : HasIn(s, x) => WorkerHas(w, x)
  BY <1>2 DEF HasIn, WorkerHas
<1> QED BY <1>2, <1>3, <1>4 DEF NextState

LEMMA CommitStep ==
    ASSUME ExecutionsTypeOK, WorkersOK, NEW w \in AutoWorkers, NodeCommit(w)
    PROVE  \E s : /\ NextState(w, s) /\ s.pc \in {"load", "failing", "resume"}
                  /\ GoesOn(worker[w]) \/ Fails(worker[w]) \/ s = Done(worker[w])
<1>1. /\ worker[w] \in WorkerStates /\ WorkerShape(worker[w]) /\ worker[w].pc = "commit"
      /\ worker[w].x \in Executions
  BY WorkerIs DEF WorkersOK, WorkerShape, NodeCommit
<1>2. CASE GoesOn(worker[w])
  <2> DEFINE s == [worker[w] EXCEPT !.pc = "load", !.count = worker[w].count + 1]
  <2>1. /\ worker' = [worker EXCEPT ![w] = s] /\ s \in WorkerStates
        /\ s.pc = "load" /\ s.todo = worker[w].todo /\ s.x = worker[w].x
    <3>1. worker' = [worker EXCEPT ![w] = s]
      BY <1>2 DEF NodeCommit
    <3>2. worker[w].count + 1 \in Nat
      BY WorkerIs
    <3> QED BY <1>1, <3>1, <3>2 DEF WorkerStates
  <2> HIDE DEF s
  <2>2. WorkerShape(s)
    BY <1>1, <2>1 DEF WorkerShape
  <2>3. \A x \in Executions : HasIn(s, x) => WorkerHas(w, x)
    BY <2>1 DEF HasIn, WorkerHas
  <2> QED BY <1>2, <2>1, <2>2, <2>3 DEF NextState
<1>3. CASE ~GoesOn(worker[w]) /\ Fails(worker[w])
  <2> DEFINE s == [worker[w] EXCEPT !.pc = "failing", !.row = execution[worker[w].x]]
  <2>1. /\ worker' = [worker EXCEPT ![w] = s] /\ s \in WorkerStates
        /\ s.pc = "failing" /\ s.todo = worker[w].todo /\ s.x = worker[w].x
    BY <1>1, <1>3, RowIs DEF WorkerStates, NodeCommit
  <2> HIDE DEF s
  <2>2. WorkerShape(s)
    BY <1>1, <2>1 DEF WorkerShape
  <2>3. \A x \in Executions : HasIn(s, x) => WorkerHas(w, x)
    BY <2>1 DEF HasIn, WorkerHas
  <2> QED BY <1>3, <2>1, <2>2, <2>3 DEF NextState
<1>4. CASE ~GoesOn(worker[w]) /\ ~Fails(worker[w])
  <2>1. worker' = [worker EXCEPT ![w] = Done(worker[w])]
    BY <1>4 DEF NodeCommit
  <2> QED BY <1>1, <2>1, DoneNext, DoneIs
<1> QED BY <1>2, <1>3, <1>4

LEMMA FailStep ==
    ASSUME ExecutionsTypeOK, WorkersOK, NEW w \in AutoWorkers, FailExecution(w)
    PROVE  NextState(w, Done(worker[w]))
BY DoneNext DEF FailExecution

----------------------------------------------------------------------------
(* The tables. *)

(* An execution that is there stays, with its attempts and its cause; one that is     *)
(* not there comes only with its event, at the beginning.                      *)
RowKept(x) ==
    /\ Exists(x) => /\ execution'[x].status # "NONE"
                    /\ execution'[x].attempts >= execution[x].attempts
                    /\ cause'[x] = cause[x]
    /\ ~Exists(x) /\ execution'[x].status # "NONE" => execution'[x] = NewExecution /\ x[2] \in recorded'

TablesKept ==
    /\ execution' \in [Executions -> ExecutionRows]
    /\ cause' \in [Executions -> Executions \cup {NoExecution}]
    /\ recorded \subseteq recorded' /\ recorded' \subseteq Events
    /\ \A x \in Executions : RowKept(x)

(* What an event starts: executions of that event, none when it starts nothing. *)
LEMMA StartsAre ==
    ASSUME ExecutionsTypeOK, NEW e \in Events, NEW by
    PROVE  /\ Starts(e, by) \subseteq Executions
           /\ \A x \in Starts(e, by) : x[2] = e
           /\ CausationDepth(by) > MaxCausationDepth => Starts(e, by) = {}
<1>1. Starts(e, by) = {} \/ Starts(e, by) = {<<f, e>> : f \in {f \in live : WithinWindow(f)}}
  BY DEF Starts
<1>2. live \subseteq Workflows
  BY DEF ExecutionsTypeOK
<1>3. {<<f, e>> : f \in {f \in live : WithinWindow(f)}} \subseteq Executions
  BY <1>2 DEF Executions
<1>4. CausationDepth(by) > MaxCausationDepth => Starts(e, by) = {}
  BY DEF Starts
<1> QED BY <1>1, <1>3, <1>4

(* A dispatch into rows that are kept, of an event that was not on record. *)
LEMMA InsertStep ==
    ASSUME ExecutionsTypeOK, RecordedOK, NEW e \in Events \ recorded,
           NEW by \in Executions \cup {NoExecution}, NEW rows \in [Executions -> ExecutionRows],
           \A x \in Executions : /\ Exists(x) => /\ rows[x].status # "NONE"
                                                 /\ rows[x].attempts >= execution[x].attempts
                                 /\ ~Exists(x) => rows[x].status = "NONE",
           execution' = Insert(rows, Starts(e, by)), cause' = InsertCause(Starts(e, by), by),
           recorded' = recorded \cup {e} \/ (Starts(e, by) = {} /\ recorded' = recorded)
    PROVE  TablesKept /\ \A x \in Executions : Exists(x) => execution'[x] = rows[x]
<1> DEFINE xs == Starts(e, by)
<1>1. xs \subseteq Executions /\ \A x \in xs : x[2] = e
  BY StartsAre
<1>2. \A x \in xs : ~Exists(x)
  <2> SUFFICES ASSUME NEW x \in xs, Exists(x) PROVE FALSE
    OBVIOUS
  <2>1. PICK f \in Workflows, g \in Events : x = <<f, g>>
    BY <1>1 DEF Executions
  <2>2. g = e
    BY <1>1, <2>1
  <2> QED BY <2>1, <2>2 DEF RecordedOK
<1>3. execution' \in [Executions -> ExecutionRows]
  BY NewRows DEF Insert
<1>4. cause' \in [Executions -> Executions \cup {NoExecution}]
  BY DEF InsertCause, ExecutionsTypeOK
<1>5. /\ \A x \in xs : execution'[x] = NewExecution
      /\ \A x \in Executions \ xs : execution'[x] = rows[x] /\ cause'[x] = cause[x]
  BY <1>1 DEF Insert, InsertCause
<1>6. recorded \subseteq recorded' /\ recorded' \subseteq Events /\ (xs # {} => e \in recorded')
  BY DEF ExecutionsTypeOK
<1> HIDE DEF xs
<1>7. ASSUME NEW x \in Executions PROVE RowKept(x)
  <2>1. CASE x \in xs
    BY <1>1, <1>2, <1>5, <1>6, <2>1 DEF RowKept
  <2>2. CASE x \notin xs
    BY <1>5, <2>2 DEF RowKept
  <2> QED BY <2>1, <2>2
<1> QED BY <1>2, <1>3, <1>4, <1>5, <1>6, <1>7 DEF TablesKept

(* A change of rows that are there, which inserts none. *)
LEMMA UpdateStep ==
    ASSUME ExecutionsTypeOK, execution' \in [Executions -> ExecutionRows], UNCHANGED <<cause, recorded>>,
           \A x \in Executions : /\ Exists(x) => /\ execution'[x].status # "NONE"
                                                 /\ execution'[x].attempts >= execution[x].attempts
                                 /\ ~Exists(x) => execution'[x].status = "NONE"
    PROVE  TablesKept
BY DEF TablesKept, RowKept, ExecutionsTypeOK

(* One row that is there is written from a copy with the same attempts. *)
Written(x, loaded, new) == [execution EXCEPT ![x] = ChangedColumns(@, loaded, new)]

OnlyWritten(rows, x, loaded, new) ==
    /\ rows \in [Executions -> ExecutionRows]
    /\ \A y \in Executions : /\ Exists(y) => /\ rows[y].status # "NONE"
                                             /\ rows[y].attempts >= execution[y].attempts
                             /\ ~Exists(y) => rows[y].status = "NONE"
    /\ \A y \in Executions \ {x} : rows[y] = execution[y]
    /\ rows[x].status = IF new.status = loaded.status THEN execution[x].status ELSE new.status
    /\ rows[x].node = IF new.node = loaded.node THEN execution[x].node ELSE new.node

LEMMA WriteStep ==
    ASSUME ExecutionsTypeOK, NEW x \in Executions, Exists(x),
           NEW loaded \in ExecutionRows, NEW new \in ExecutionRows,
           new.attempts = loaded.attempts, new.status # loaded.status => new.status # "NONE"
    PROVE  OnlyWritten(Written(x, loaded, new), x, loaded, new)
<1> DEFINE rows == Written(x, loaded, new)
           row == ChangedColumns(execution[x], loaded, new)
<1>1. execution \in [Executions -> ExecutionRows] /\ execution[x] \in ExecutionRows
  BY RowIs DEF ExecutionsTypeOK
<1>2. /\ row \in ExecutionRows
      /\ row.status = IF new.status = loaded.status THEN execution[x].status ELSE new.status
      /\ row.node = IF new.node = loaded.node THEN execution[x].node ELSE new.node
      /\ row.attempts = IF new.attempts = loaded.attempts THEN execution[x].attempts ELSE new.attempts
  BY <1>1, Columns
<1> HIDE DEF row
<1>3. rows = [execution EXCEPT ![x] = row]
  BY DEF row, Written
<1> HIDE DEF rows
<1>4. rows \in [Executions -> ExecutionRows] /\ rows[x] = row
      /\ \A y \in Executions \ {x} : rows[y] = execution[y]
  BY <1>1, <1>2, <1>3
<1>5. \A y \in Executions : execution[y].attempts \in Nat
  BY RowIs
<1>6. rows[x].status # "NONE" /\ rows[x].attempts >= execution[x].attempts
  BY <1>2, <1>4, <1>5 DEF Exists
<1>7. \A y \in Executions : /\ Exists(y) => /\ rows[y].status # "NONE"
                                            /\ rows[y].attempts >= execution[y].attempts
                            /\ ~Exists(y) => rows[y].status = "NONE"
  BY <1>4, <1>5, <1>6 DEF Exists
<1> QED BY <1>2, <1>4, <1>7 DEF rows, OnlyWritten

(* The commit of a node writes its row and, for a lead action, starts what the       *)
(* emitted event sets off.                                                    *)
LEMMA CommitTables ==
    ASSUME ExecutionsTypeOK, WorkersOK, RecordedOK, NEW w \in AutoWorkers, NodeCommit(w)
    PROVE  LET s == worker[w] IN
           /\ TablesKept
           /\ \A y \in Executions \ {s.x} : Exists(y) => execution'[y] = execution[y]
           /\ execution'[s.x].status =
                IF AfterNode(s).status = s.row.status THEN execution[s.x].status ELSE AfterNode(s).status
           /\ execution'[s.x].node =
                IF AfterNode(s).node = s.row.node THEN execution[s.x].node ELSE AfterNode(s).node
           /\ s.x \in Executions /\ Exists(s.x)
           /\ \A y \in Executions : ~Exists(y) /\ execution'[y].status # "NONE" =>
                cause'[y] = s.x /\ ~(CausationDepth(s.x) > MaxCausationDepth)
<1> DEFINE s == worker[w]
           rows == [execution EXCEPT ![s.x] = ChangedColumns(@, s.row, AfterNode(s))]
           acts == Definition[s.row.node].type = "LEAD" /\ s.result = "next"
<1>1. /\ s \in WorkerStates /\ WorkerShape(s) /\ s.pc = "commit" /\ s.x \in Executions /\ Exists(s.x)
      /\ s.row \in ExecutionRows /\ s.result \in Results(Definition[s.row.node].type)
  BY WorkerIs DEF WorkersOK, WorkerShape, WorkerHas, NodeCommit
<1>2. /\ AfterNode(s) \in ExecutionRows /\ AfterNode(s).attempts = s.row.attempts
      /\ AfterNode(s).status # s.row.status => AfterNode(s).status # "NONE"
  BY <1>1, NextNode
<1>3. \/ execution' = rows /\ UNCHANGED <<recorded, cause>>
      \/ \E e \in Events \ recorded :
           /\ execution' = Insert(rows, Starts(e, s.x)) /\ cause' = InsertCause(Starts(e, s.x), s.x)
           /\ recorded' = IF CausationDepth(s.x) > MaxCausationDepth THEN recorded ELSE recorded \cup {e}
  BY DEF NodeCommit
<1>4. rows = Written(s.x, s.row, AfterNode(s))
  BY DEF Written
<1> HIDE DEF s, rows
<1>5. /\ rows \in [Executions -> ExecutionRows]
      /\ \A y \in Executions : /\ Exists(y) => /\ rows[y].status # "NONE"
                                               /\ rows[y].attempts >= execution[y].attempts
                               /\ ~Exists(y) => rows[y].status = "NONE"
      /\ \A y \in Executions \ {s.x} : rows[y] = execution[y]
      /\ rows[s.x].status =
           IF AfterNode(s).status = s.row.status THEN execution[s.x].status ELSE AfterNode(s).status
      /\ rows[s.x].node =
           IF AfterNode(s).node = s.row.node THEN execution[s.x].node ELSE AfterNode(s).node
  <2>1. OnlyWritten(rows, s.x, s.row, AfterNode(s))
    BY <1>1, <1>2, <1>4, WriteStep
  <2> QED BY <2>1 DEF OnlyWritten
<1>6. CASE execution' = rows /\ UNCHANGED <<recorded, cause>>
  <2>1. TablesKept
    BY <1>5, <1>6, UpdateStep
  <2> QED BY <1>1, <1>5, <1>6, <2>1 DEF s
<1>7. ASSUME NEW e \in Events \ recorded, execution' = Insert(rows, Starts(e, s.x)),
             cause' = InsertCause(Starts(e, s.x), s.x),
             recorded' = IF CausationDepth(s.x) > MaxCausationDepth THEN recorded ELSE recorded \cup {e}
      PROVE  TablesKept /\ \A y \in Executions : Exists(y) => execution'[y] = rows[y]
  <2>1. recorded' = recorded \cup {e} \/ (Starts(e, s.x) = {} /\ recorded' = recorded)
    BY <1>7, StartsAre
  <2> QED BY <1>1, <1>5, <1>7, <2>1, InsertStep
<1>9. ASSUME NEW y \in Executions, ~Exists(y), execution'[y].status # "NONE"
      PROVE  cause'[y] = s.x /\ ~(CausationDepth(s.x) > MaxCausationDepth)
  <2>1. rows[y].status = "NONE"
    BY <1>5, <1>9
  <2>2. PICK e \in Events \ recorded :
          execution' = Insert(rows, Starts(e, s.x)) /\ cause' = InsertCause(Starts(e, s.x), s.x)
    BY <1>3, <1>9, <2>1
  <2>3. y \in Starts(e, s.x)
    BY <1>9, <2>1, <2>2 DEF Insert
  <2>4. ~(CausationDepth(s.x) > MaxCausationDepth)
    BY <2>3, StartsAre
  <2> QED BY <2>2, <2>3, <2>4 DEF InsertCause
<1>8. TablesKept /\ \A y \in Executions : Exists(y) => execution'[y] = rows[y]
  BY <1>3, <1>6, <1>7
<1> QED BY <1>1, <1>5, <1>8, <1>9 DEF s

LEMMA TablesSame ==
    ASSUME ExecutionsTypeOK, UNCHANGED <<execution, cause, recorded>>
    PROVE  TablesKept
<1>1. \A x \in Executions : execution[x].attempts \in Nat
  BY RowIs
<1>2. execution' \in [Executions -> ExecutionRows]
  BY DEF ExecutionsTypeOK
<1> QED BY <1>1, <1>2, UpdateStep DEF Exists

(* The request of an operator writes the row that it loaded. *)
OperatorNew ==
    IF operator.op = "cancel" THEN [operator.row EXCEPT !.status = "CANCELLED", !.lease = "none"]
    ELSE IF operator.op = "ui_cancel" THEN [operator.row EXCEPT !.status = "CANCELLED"]
    ELSE [operator.row EXCEPT !.status = "QUEUED", !.due = TRUE, !.lease = "none"]

LEMMA OperatorWrites ==
    ASSUME ExecutionsTypeOK, OperatorOK, OperatorCommit
    PROVE  /\ OnlyWritten(execution', operator.x, operator.row, OperatorNew)
           /\ operator.x \in Executions /\ Exists(operator.x)
           /\ OperatorNew.node = operator.row.node
<1>1. operator.x \in Executions /\ operator.row \in ExecutionRows /\ Exists(operator.x)
  BY DEF OperatorOK, OperatorCommit
<1>2. /\ OperatorNew \in ExecutionRows /\ OperatorNew.attempts = operator.row.attempts
      /\ OperatorNew.node = operator.row.node /\ OperatorNew.status # "NONE"
  BY <1>1 DEF OperatorNew, ExecutionRows, ExecutionStatus
<1>3. execution' = Written(operator.x, operator.row, OperatorNew)
  BY DEF Written, OperatorNew, OperatorCommit
<1> QED BY <1>1, <1>2, <1>3, WriteStep

(* _fail writes the row that it refreshed. *)
FailedRow(s) == [s.row EXCEPT !.status = "FAILED", !.lease = "none"]

LEMMA FailWrites ==
    ASSUME ExecutionsTypeOK, WorkersOK, NEW w \in AutoWorkers, FailExecution(w)
    PROVE  /\ OnlyWritten(execution', worker[w].x, worker[w].row, FailedRow(worker[w]))
           /\ worker[w].x \in Executions
<1>1. /\ worker[w].x \in Executions /\ Exists(worker[w].x) /\ worker[w].row \in ExecutionRows
  BY WorkerIs DEF WorkersOK, WorkerShape, WorkerHas, FailExecution
<1>2. /\ FailedRow(worker[w]) \in ExecutionRows /\ FailedRow(worker[w]).attempts = worker[w].row.attempts
      /\ FailedRow(worker[w]).status # "NONE"
  BY <1>1 DEF FailedRow, ExecutionRows, ExecutionStatus
<1>3. execution' = Written(worker[w].x, worker[w].row, FailedRow(worker[w]))
  BY DEF Written, FailedRow, FailExecution
<1> QED BY <1>1, <1>2, <1>3, WriteStep

(* The steps that change the status or the lease of rows as they are. *)
LEMMA RowSteps ==
    ASSUME ExecutionsTypeOK,
           \/ \E x \in Executions : WaitIsOver(x) \/ LeaseRunsOut(x) \/ LeaseRunsOutEarly(x)
           \/ \E w \in AutoWorkers : ResumeDueWaits(w) \/ RecoverStaleLeases(w) \/ ClaimBatch(w)
    PROVE  /\ TablesKept
           /\ \A y \in Executions : execution'[y].node = execution[y].node
           /\ \A y \in Executions : execution'[y].status = "NONE" <=> execution[y].status = "NONE"
<1>1. execution \in [Executions -> ExecutionRows] /\ \A y \in Executions : execution[y].attempts \in Nat
  BY RowIs DEF ExecutionsTypeOK
<1>2. ASSUME NEW x \in Executions, WaitIsOver(x) \/ LeaseRunsOut(x) \/ LeaseRunsOutEarly(x)
      PROVE  /\ execution' \in [Executions -> ExecutionRows]
             /\ \A y \in Executions : /\ execution'[y].status = execution[y].status
                                      /\ execution'[y].node = execution[y].node
                                      /\ execution'[y].attempts = execution[y].attempts
             /\ UNCHANGED <<cause, recorded>>
  <2>1. PICK row \in {[execution[x] EXCEPT !.due = TRUE], [execution[x] EXCEPT !.lease = "expired"]} :
          execution' = [execution EXCEPT ![x] = row]
    BY <1>2 DEF WaitIsOver, LeaseRunsOut, LeaseRunsOutEarly
  <2>2. /\ row \in ExecutionRows /\ row.status = execution[x].status /\ row.node = execution[x].node
        /\ row.attempts = execution[x].attempts
    BY <1>1 DEF ExecutionRows
  <2>3. UNCHANGED <<cause, recorded>>
    BY <1>2 DEF WaitIsOver, LeaseRunsOut, LeaseRunsOutEarly
  <2> QED BY <1>1, <2>1, <2>2, <2>3
<1>3. ASSUME NEW w \in AutoWorkers, ResumeDueWaits(w) \/ RecoverStaleLeases(w) \/ ClaimBatch(w)
      PROVE  /\ execution' \in [Executions -> ExecutionRows]
             /\ \A y \in Executions : /\ execution'[y].status = "NONE" <=> execution[y].status = "NONE"
                                      /\ execution'[y].node = execution[y].node
                                      /\ execution'[y].attempts >= execution[y].attempts
             /\ UNCHANGED <<cause, recorded>>
  <2>1. CASE ResumeDueWaits(w)
    <3> DEFINE row(y) == IF execution[y].status = "WAITING" /\ execution[y].due
                         THEN [execution[y] EXCEPT !.status = "QUEUED"] ELSE execution[y]
    <3>1. execution' = [y \in Executions |-> row(y)] /\ UNCHANGED <<cause, recorded>>
      BY <2>1 DEF ResumeDueWaits
    <3>2. \A y \in Executions : /\ row(y) \in ExecutionRows /\ row(y).node = execution[y].node
                                /\ row(y).status = "NONE" <=> execution[y].status = "NONE"
                                /\ row(y).attempts = execution[y].attempts
      BY <1>1 DEF ExecutionRows, ExecutionStatus
    <3> HIDE DEF row
    <3> QED BY <1>1, <3>1, <3>2
  <2>2. CASE RecoverStaleLeases(w)
    <3> DEFINE row(y) == IF Stale(y) THEN [execution[y] EXCEPT !.status = "QUEUED", !.lease = "none"]
                         ELSE execution[y]
    <3>1. execution' = [y \in Executions |-> row(y)] /\ UNCHANGED <<cause, recorded>>
      BY <2>2 DEF RecoverStaleLeases
    <3>2. \A y \in Executions : /\ row(y) \in ExecutionRows /\ row(y).node = execution[y].node
                                /\ row(y).status = "NONE" <=> execution[y].status = "NONE"
                                /\ row(y).attempts = execution[y].attempts
      BY <1>1 DEF ExecutionRows, ExecutionStatus, Stale
    <3> HIDE DEF row
    <3> QED BY <1>1, <3>1, <3>2
  <2>3. CASE ClaimBatch(w)
    <3> DEFINE row(y) == IF y \in {x \in Executions : Runnable(x)}
                         THEN [execution[y] EXCEPT !.status = "RUNNING", !.lease = "fresh",
                                                   !.attempts = execution[y].attempts + 1]
                         ELSE execution[y]
    <3>1. execution' = [y \in Executions |-> row(y)] /\ UNCHANGED <<cause, recorded>>
      BY <2>3 DEF ClaimBatch
    <3>2. \A y \in Executions : /\ row(y) \in ExecutionRows /\ row(y).node = execution[y].node
                                /\ row(y).status = "NONE" <=> execution[y].status = "NONE"
                                /\ row(y).attempts >= execution[y].attempts
      <4> SUFFICES ASSUME NEW y \in Executions
                   PROVE  /\ row(y) \in ExecutionRows /\ row(y).node = execution[y].node
                          /\ row(y).status = "NONE" <=> execution[y].status = "NONE"
                          /\ row(y).attempts >= execution[y].attempts
        OBVIOUS
      <4>1. execution[y] \in ExecutionRows /\ execution[y].attempts \in Nat
        BY <1>1
      <4>2. CASE Runnable(y)
        <5>1. PICK k \in Nat : k = execution[y].attempts + 1
          BY <4>1
        <5>2. row(y) = [execution[y] EXCEPT !.status = "RUNNING", !.lease = "fresh", !.attempts = k]
          BY <4>2, <5>1
        <5>3. /\ row(y) \in ExecutionRows /\ row(y).node = execution[y].node
              /\ row(y).status = "RUNNING" /\ row(y).attempts = k
          BY <4>1, <5>2 DEF ExecutionRows, ExecutionStatus
        <5> HIDE DEF row
        <5> QED BY <4>1, <4>2, <5>1, <5>3 DEF Runnable
      <4>3. CASE ~Runnable(y)
        BY <4>1, <4>3
      <4> QED BY <4>2, <4>3
    <3> HIDE DEF row
    <3> QED BY <1>1, <3>1, <3>2
  <2> QED BY <1>3, <2>1, <2>2, <2>3
<1>4. /\ execution' \in [Executions -> ExecutionRows] /\ UNCHANGED <<cause, recorded>>
      /\ \A y \in Executions : /\ execution'[y].status = "NONE" <=> execution[y].status = "NONE"
                               /\ execution'[y].node = execution[y].node
                               /\ execution'[y].attempts >= execution[y].attempts
  BY <1>1, <1>2, <1>3
<1>5. TablesKept
  BY <1>4, UpdateStep DEF Exists
<1> QED BY <1>4, <1>5

LEMMA TablesStep ==
    ASSUME ExecutionsTypeOK, WorkersOK, OperatorOK, RecordedOK, [ExecutionsNext]_execVars
    PROVE  TablesKept
<1>1. ASSUME NEW d \in Dispatchers, DispatchCommit(d) PROVE TablesKept
  <2>1. PICK e \in dispatcher[d] :
          IF e \in recorded THEN UNCHANGED <<recorded, execution, cause>>
          ELSE /\ recorded' = recorded \cup {e}
               /\ execution' = Insert(execution, Starts(e, NoExecution))
               /\ cause' = InsertCause(Starts(e, NoExecution), NoExecution)
    BY <1>1 DEF DispatchCommit
  <2>2. e \in Events /\ execution \in [Executions -> ExecutionRows]
        /\ \A x \in Executions : execution[x].attempts \in Nat
    BY RowIs DEF ExecutionsTypeOK
  <2>3. CASE e \in recorded
    BY <2>1, <2>3, TablesSame
  <2>4. CASE e \notin recorded
    BY <2>1, <2>2, <2>4, InsertStep DEF Exists
  <2> QED BY <2>3, <2>4
<1>2. CASE \/ \E d \in Dispatchers : DispatchLoad(d)
           \/ \E f \in Workflows : WorkflowToggled(f)
           \/ \E w \in AutoWorkers : PickExecution(w) \/ RunLoad(w) \/ ActCommit(w) \/ WorkerDies(w)
           \/ \E x \in Executions, op \in {"cancel", "ui_cancel", "retry"} : OperatorLoad(op, x)
           \/ UNCHANGED execVars
  <2>1. UNCHANGED <<execution, cause, recorded>>
    BY <1>2 DEF DispatchLoad, WorkflowToggled, PickExecution, RunLoad, ActCommit, WorkerDies,
                OperatorLoad, execVars
  <2> QED BY <2>1, TablesSame
<1>3. ASSUME NEW w \in AutoWorkers, FailExecution(w) PROVE TablesKept
  <2>1. UNCHANGED <<cause, recorded>> /\ execution' \in [Executions -> ExecutionRows]
        /\ OnlyWritten(execution', worker[w].x, worker[w].row, FailedRow(worker[w]))
    BY <1>3, FailWrites DEF FailExecution, OnlyWritten
  <2> QED BY <2>1, UpdateStep DEF OnlyWritten
<1>4. CASE OperatorCommit
  <2>1. UNCHANGED <<cause, recorded>> /\ execution' \in [Executions -> ExecutionRows]
        /\ OnlyWritten(execution', operator.x, operator.row, OperatorNew)
    BY <1>4, OperatorWrites DEF OperatorCommit, OnlyWritten
  <2> QED BY <2>1, UpdateStep DEF OnlyWritten
<1> QED BY <1>1, <1>2, <1>3, <1>4, CommitTables, RowSteps DEF ExecutionsNext, WorkerNext

----------------------------------------------------------------------------
(* What took effect. *)

LEMMA EffectIs ==
    ASSUME ExecutionsTypeOK, NEW x \in Executions, NEW n \in NodeIds
    PROVE  /\ Effect(x, n) \in [Executions \X NodeIds -> 0..3]
           /\ Effect(x, n)[<<x, n>>] = IF effects[<<x, n>>] < 3 THEN effects[<<x, n>>] + 1 ELSE effects[<<x, n>>]
           /\ \A y \in Executions, m \in NodeIds :
                y # x \/ m # n => Effect(x, n)[<<y, m>>] = effects[<<y, m>>]
<1>1. effects \in [Executions \X NodeIds -> 0..3] /\ <<x, n>> \in Executions \X NodeIds
  BY DEF ExecutionsTypeOK
<1>2. PICK k \in 0..3 : k = IF effects[<<x, n>>] < 3 THEN effects[<<x, n>>] + 1 ELSE effects[<<x, n>>]
  <2>1. effects[<<x, n>>] \in 0..3
    BY <1>1
  <2> QED BY <2>1
<1>3. Effect(x, n) = [effects EXCEPT ![<<x, n>>] = k]
  BY <1>2 DEF Effect
<1> QED BY <1>1, <1>2, <1>3

(* What a step adds to the effects: the node at hand of one worker, a lead action's     *)
(* with the commit of its node, a message only once.                           *)
EffectOf(w) ==
    LET x == worker[w].x n == worker[w].row.node IN
    /\ x \in Executions /\ n \in NodeIds /\ Exists(x) /\ effects' = Effect(x, n)
    /\ \/ NodeCommit(w) /\ n \in Nodes("LEAD") /\ worker[w].result = "next"
       \/ ActCommit(w) /\ n \in Nodes("CONVERSATION")
       \/ ActCommit(w) /\ n \in Nodes("SEND") /\ <<x, n>> \notin queuedSends

LEMMA EffectsStep ==
    ASSUME ExecutionsTypeOK, WorkersOK, [ExecutionsNext]_execVars
    PROVE  /\ effects' = effects \/ \E w \in AutoWorkers : EffectOf(w)
           /\ effects' \in [Executions \X NodeIds -> 0..3]
<1>1. ASSUME NEW w \in AutoWorkers, worker[w].pc \in {"act", "commit"}
      PROVE  worker[w].x \in Executions /\ worker[w].row.node \in NodeIds /\ Exists(worker[w].x)
  BY <1>1, WorkerIs DEF WorkersOK, WorkerShape, WorkerHas
<1>2. ASSUME NEW w \in AutoWorkers, ActCommit(w) PROVE effects' = effects \/ EffectOf(w)
  <2>1. /\ worker[w].pc = "act"
        /\ Definition[worker[w].row.node].type \in {"SEND", "CONVERSATION"}
    BY <1>2 DEF ActCommit, WorkersOK, WorkerShape
  <2>2. CASE Definition[worker[w].row.node].type = "SEND"
    <3>1. effects' = SendEffect(worker[w])
      BY <1>2, <2>2 DEF ActCommit
    <3> QED BY <1>1, <1>2, <2>1, <2>2, <3>1 DEF SendEffect, EffectOf, Nodes
  <2>3. CASE Definition[worker[w].row.node].type = "CONVERSATION"
    <3>1. effects' = ConversationEffect(worker[w])
      BY <1>2, <2>3 DEF ActCommit
    <3> QED BY <1>1, <1>2, <2>1, <2>3, <3>1 DEF ConversationEffect, EffectOf, Nodes
  <2> QED BY <2>1, <2>2, <2>3
<1>3. ASSUME NEW w \in AutoWorkers, NodeCommit(w) PROVE effects' = effects \/ EffectOf(w)
  <2>1. worker[w].pc = "commit" /\ effects' = LeadEffect(worker[w])
    BY <1>3 DEF NodeCommit
  <2> QED BY <1>1, <1>3, <2>1 DEF LeadEffect, EffectOf, Nodes
<1>4. ASSUME ~\E w \in AutoWorkers : ActCommit(w) \/ NodeCommit(w)
      PROVE  effects' = effects
  BY <1>4 DEF ExecutionsNext, WorkerNext, DispatchLoad, DispatchCommit, WorkflowToggled, WaitIsOver,
              LeaseRunsOut, LeaseRunsOutEarly, ResumeDueWaits, RecoverStaleLeases, ClaimBatch,
              PickExecution, RunLoad, FailExecution, WorkerDies, OperatorLoad, OperatorCommit, execVars
<1>5. effects' = effects \/ \E w \in AutoWorkers : EffectOf(w)
  BY <1>2, <1>3, <1>4
<1>6. ASSUME NEW w \in AutoWorkers, EffectOf(w) PROVE effects' \in [Executions \X NodeIds -> 0..3]
  BY <1>6, EffectIs DEF EffectOf
<1> QED BY <1>5, <1>6 DEF ExecutionsTypeOK

(* The message of a SEND node is queued with its effect. *)
LEMMA SendsStep ==
    ASSUME ExecutionsTypeOK, WorkersOK, SendsOK, [ExecutionsNext]_execVars
    PROVE  SendsOK' /\ (queuedSends \subseteq Executions \X Nodes("SEND"))'
<1>1. queuedSends \subseteq Executions \X Nodes("SEND")
  BY DEF ExecutionsTypeOK
<1>2. ASSUME NEW w \in AutoWorkers, ActCommit(w), Definition[worker[w].row.node].type = "SEND"
      PROVE  SendsOK' /\ (queuedSends \subseteq Executions \X Nodes("SEND"))'
  <2> DEFINE x == worker[w].x
             n == worker[w].row.node
  <2>1. x \in Executions /\ n \in Nodes("SEND") /\ Nodes("SEND") \subseteq NodeIds
    BY <1>2, WorkerIs DEF WorkersOK, WorkerShape, ActCommit, Nodes
  <2>2. queuedSends' = queuedSends \cup {<<x, n>>}
        /\ effects' = IF <<x, n>> \in queuedSends THEN effects ELSE Effect(x, n)
    BY <1>2 DEF ActCommit, SendEffect
  <2>3. \A y \in Executions, m \in Nodes("SEND") :
          effects'[<<y, m>>] = IF <<y, m>> \in queuedSends' THEN 1 ELSE 0
    <3> SUFFICES ASSUME NEW y \in Executions, NEW m \in Nodes("SEND")
                 PROVE  effects'[<<y, m>>] = IF <<y, m>> \in queuedSends' THEN 1 ELSE 0
      OBVIOUS
    <3>1. effects[<<y, m>>] = IF <<y, m>> \in queuedSends THEN 1 ELSE 0
      BY DEF SendsOK
    <3>2. CASE <<x, n>> \in queuedSends
      <4>1. effects' = effects /\ queuedSends' = queuedSends
        BY <2>2, <3>2
      <4> QED BY <3>1, <4>1
    <3>3. CASE <<x, n>> \notin queuedSends /\ y = x /\ m = n
      <4>1. effects[<<x, n>>] = 0 /\ effects' = Effect(x, n) /\ <<x, n>> \in queuedSends'
        BY <2>2, <3>1, <3>3
      <4>2. x \in Executions /\ n \in NodeIds
        BY <2>1
      <4>3. Effect(x, n)[<<x, n>>] = IF effects[<<x, n>>] < 3 THEN effects[<<x, n>>] + 1 ELSE effects[<<x, n>>]
        BY <4>2, EffectIs
      <4> QED BY <3>3, <4>1, <4>3
    <3>4. CASE <<x, n>> \notin queuedSends /\ (y # x \/ m # n)
      <4>1. effects' = Effect(x, n) /\ Effect(x, n)[<<y, m>>] = effects[<<y, m>>]
        BY <2>1, <2>2, <3>4, EffectIs
      <4>2. <<y, m>> \in queuedSends' <=> <<y, m>> \in queuedSends
        BY <2>2, <3>4
      <4> QED BY <3>1, <4>1, <4>2
    <3> QED BY <3>2, <3>3, <3>4
  <2> QED BY <1>1, <2>1, <2>2, <2>3 DEF SendsOK
<1>3. ASSUME ~\E w \in AutoWorkers : ActCommit(w) /\ Definition[worker[w].row.node].type = "SEND"
      PROVE  SendsOK' /\ (queuedSends \subseteq Executions \X Nodes("SEND"))'
  <2>1. UNCHANGED queuedSends
    BY <1>3 DEF ExecutionsNext, WorkerNext, DispatchLoad, DispatchCommit, WorkflowToggled, WaitIsOver,
                LeaseRunsOut, LeaseRunsOutEarly, ResumeDueWaits, RecoverStaleLeases, ClaimBatch,
                PickExecution, RunLoad, ActCommit, NodeCommit, FailExecution, WorkerDies, OperatorLoad,
                OperatorCommit, execVars
  <2>2. \A y \in Executions, m \in Nodes("SEND") : effects'[<<y, m>>] = effects[<<y, m>>]
    <3>1. ASSUME NEW w \in AutoWorkers, EffectOf(w), NEW y \in Executions, NEW m \in Nodes("SEND")
          PROVE  effects'[<<y, m>>] = effects[<<y, m>>]
      <4>1. worker[w].row.node # m /\ m \in NodeIds
        BY <1>3, <3>1 DEF EffectOf, Nodes
      <4> QED BY <3>1, <4>1, EffectIs DEF EffectOf
    <3> QED BY <3>1, EffectsStep
  <2> QED BY <1>1, <2>1, <2>2 DEF SendsOK
<1> QED BY <1>2, <1>3

----------------------------------------------------------------------------
(* The workers and the operator. *)

LEMMA WorkersStep ==
    ASSUME ExecutionsTypeOK, WorkersOK, [ExecutionsNext]_execVars
    PROVE  \/ worker' = worker
           \/ \E w \in AutoWorkers : WorkerAct(w) /\ \E s : NextState(w, s)
<1>1. ASSUME NEW w \in AutoWorkers, WorkerAct(w) PROVE \E s : NextState(w, s)
  BY <1>1, CycleStep, LoadStep, ActStep, CommitStep, FailStep DEF WorkerAct, WorkerNext
<1>2. ASSUME ~\E w \in AutoWorkers : WorkerAct(w) PROVE worker' = worker
  BY <1>2 DEF ExecutionsNext, WorkerAct, DispatchLoad, DispatchCommit, WorkflowToggled, WaitIsOver,
              LeaseRunsOut, LeaseRunsOutEarly, OperatorLoad, OperatorCommit, execVars
<1> QED BY <1>1, <1>2

LEMMA WorkersKept ==
    ASSUME ExecutionsTypeOK, WorkersOK, TablesKept, [ExecutionsNext]_execVars
    PROVE  WorkersOK' /\ worker' \in [AutoWorkers -> WorkerStates]
<1>1. \A x \in Executions : Exists(x) => Exists(x)'
  BY DEF TablesKept, RowKept, Exists
<1>2. CASE worker' = worker
  BY <1>1, <1>2 DEF WorkersOK, WorkerHas, ExecutionsTypeOK
<1>3. ASSUME NEW w \in AutoWorkers, NEW s, NextState(w, s)
      PROVE  WorkersOK' /\ worker' \in [AutoWorkers -> WorkerStates]
  <2>1. /\ worker' \in [AutoWorkers -> WorkerStates]
        /\ worker'[w] = s /\ \A v \in AutoWorkers \ {w} : worker'[v] = worker[v]
    BY <1>3, Moves DEF NextState
  <2>2. ASSUME NEW v \in AutoWorkers
        PROVE  WorkerShape(worker'[v]) /\ \A x \in Executions : WorkerHas(v, x)' => Exists(x)'
    <3>1. CASE v = w
      <4>1. \A x \in Executions : HasIn(s, x) => Exists(x)
        BY <1>3 DEF NextState, WorkersOK, Runnable, Exists
      <4> QED BY <1>1, <1>3, <2>1, <3>1, <4>1 DEF NextState, HasIn, WorkerHas
    <3>2. CASE v # w
      BY <1>1, <2>1, <3>2 DEF WorkersOK, WorkerHas
    <3> QED BY <3>1, <3>2
  <2> QED BY <2>1, <2>2 DEF WorkersOK
<1> QED BY <1>2, <1>3, WorkersStep

LEMMA OperatorKept ==
    ASSUME ExecutionsTypeOK, OperatorOK, TablesKept, [ExecutionsNext]_execVars
    PROVE  OperatorOK' /\ (operator.op \in {"none", "cancel", "ui_cancel", "retry"})'
<1>1. \A x \in Executions : Exists(x) => Exists(x)'
  BY DEF TablesKept, RowKept, Exists
<1>2. ASSUME NEW x \in Executions, NEW op \in {"cancel", "ui_cancel", "retry"}, OperatorLoad(op, x)
      PROVE  OperatorOK' /\ (operator.op \in {"none", "cancel", "ui_cancel", "retry"})'
  <2>1. operator'.op = op /\ operator'.x = x /\ operator'.row = execution[x]
    BY <1>2 DEF OperatorLoad
  <2>2. Exists(x)
    BY <1>2 DEF OperatorLoad, Exists
  <2> QED BY <1>1, <2>1, <2>2, RowIs DEF OperatorOK
<1>3. CASE OperatorCommit
  BY <1>3 DEF OperatorCommit, OperatorOK, NoRequest
<1>4. ASSUME ~OperatorCommit,
             ~\E x \in Executions, op \in {"cancel", "ui_cancel", "retry"} : OperatorLoad(op, x)
      PROVE  operator' = operator
  BY <1>4 DEF ExecutionsNext, WorkerNext, DispatchLoad, DispatchCommit, WorkflowToggled, WaitIsOver,
              LeaseRunsOut, LeaseRunsOutEarly, ResumeDueWaits, RecoverStaleLeases, ClaimBatch,
              PickExecution, RunLoad, ActCommit, NodeCommit, FailExecution, WorkerDies, execVars
<1>5. CASE operator' = operator
  BY <1>1, <1>5 DEF OperatorOK, ExecutionsTypeOK
<1> QED BY <1>2, <1>3, <1>4, <1>5

LEMMA RecordedKept ==
    ASSUME ExecutionsTypeOK, WorkersOK, RecordedOK, TablesKept, [ExecutionsNext]_execVars
    PROVE  RecordedOK'
<1>1. ASSUME NEW f \in Workflows, NEW e \in Events, Exists(<<f, e>>)' PROVE e \in recorded'
  <2>1. <<f, e>> \in Executions /\ <<f, e>>[2] = e
    BY DEF Executions
  <2>2. RowKept(<<f, e>>) /\ recorded \subseteq recorded'
    BY <2>1 DEF TablesKept
  <2> QED BY <1>1, <2>1, <2>2 DEF RecordedOK, RowKept, Exists
<1>2. ASSUME NEW x \in Executions, NEW n \in NodeIds, ~Exists(x)' PROVE effects'[<<x, n>>] = 0
  <2>1. ~Exists(x) /\ effects[<<x, n>>] = 0
    BY <1>2 DEF TablesKept, RowKept, Exists, RecordedOK
  <2>2. ASSUME NEW w \in AutoWorkers, EffectOf(w) PROVE effects'[<<x, n>>] = 0
    <3>1. worker[w].x # x
      BY <2>1, <2>2 DEF EffectOf
    <3> QED BY <2>1, <2>2, <3>1, EffectIs DEF EffectOf
  <2> QED BY <2>1, <2>2, EffectsStep
<1> QED BY <1>1, <1>2 DEF RecordedOK

----------------------------------------------------------------------------
(* The steps.  A step is added by a worker that was uncounted, or no worker becomes     *)
(* uncounted, or the limit was looked at.                                      *)
StepCounted(x) ==
    \/ steps'[x] = steps[x] /\ UncountedWorkers(x)' \subseteq UncountedWorkers(x)
    \/ steps'[x] = steps[x] /\ steps[x] < MaxSteps
    \/ /\ steps'[x] = steps[x] + 1
       /\ \E w \in UncountedWorkers(x) : UncountedWorkers(x)' \subseteq UncountedWorkers(x) \ {w}

(* A worker that moves on does not touch the others. *)
LEMMA OthersUncounted ==
    ASSUME ExecutionsTypeOK, NEW w \in AutoWorkers, NEW s, NextState(w, s), NEW x \in Executions
    PROVE  /\ worker'[w] = s
           /\ UncountedWorkers(x)' \ {w} \subseteq UncountedWorkers(x)
<1>1. worker'[w] = s /\ \A v \in AutoWorkers \ {w} : worker'[v] = worker[v]
  BY Moves DEF NextState
<1>2. \A v \in AutoWorkers \ {w} : Uncounted(v, x)' <=> Uncounted(v, x)
  BY <1>1 DEF Uncounted
<1> QED BY <1>1, <1>2 DEF UncountedWorkers

LEMMA StepsCounted ==
    ASSUME ExecutionsTypeOK, WorkersOK, [ExecutionsNext]_execVars
    PROVE  steps' \in [Executions -> Nat] /\ \A x \in Executions : StepCounted(x)
<1>1. steps \in [Executions -> Nat] /\ \A x \in Executions : steps[x] \in Nat
  <2>1. steps \in [Executions -> 0..(MaxSteps + Cardinality(AutoWorkers))]
    BY DEF ExecutionsTypeOK
  <2> QED BY <2>1
<1>2. CASE worker' = worker
  <2>1. steps' = steps \/ \E w \in AutoWorkers : ActCommit(w) \/ NodeCommit(w)
    BY DEF ExecutionsNext, WorkerNext, DispatchLoad, DispatchCommit, WorkflowToggled, WaitIsOver,
           LeaseRunsOut, LeaseRunsOutEarly, ResumeDueWaits, RecoverStaleLeases, ClaimBatch,
           PickExecution, RunLoad, FailExecution, WorkerDies, OperatorLoad, OperatorCommit, execVars
  <2>2. ASSUME NEW w \in AutoWorkers, ActCommit(w) \/ NodeCommit(w) PROVE FALSE
    <3>1. worker[w].pc \in {"act", "commit"} /\ worker'[w] = worker[w]
      BY <1>2, <2>2 DEF ActCommit, NodeCommit
    <3>2. CASE ActCommit(w)
      <4>1. PICK s : NextState(w, s) /\ s.pc = "commit"
        BY <3>2, ActStep
      <4>2. worker'[w] = s
        BY <4>1, Moves DEF NextState
      <4> QED BY <3>1, <3>2, <4>1, <4>2 DEF ActCommit
    <3>3. CASE NodeCommit(w)
      <4>1. PICK s : NextState(w, s) /\ s.pc \in {"load", "failing", "resume"}
        BY <3>3, CommitStep
      <4>2. worker'[w] = s
        BY <4>1, Moves DEF NextState
      <4> QED BY <3>1, <3>3, <4>1, <4>2 DEF NodeCommit
    <3> QED BY <2>2, <3>2, <3>3
  <2>3. \A x \in Executions : UncountedWorkers(x)' = UncountedWorkers(x)
    BY <1>2 DEF UncountedWorkers, Uncounted
  <2> QED BY <1>1, <2>1, <2>2, <2>3 DEF StepCounted
<1>3. ASSUME NEW w \in AutoWorkers, WorkerAct(w)
      PROVE  steps' \in [Executions -> Nat] /\ \A x \in Executions : StepCounted(x)
  <2>1. ASSUME NEW s, NextState(w, s), s.pc \notin {"act", "commit"}, UNCHANGED steps
        PROVE  steps' \in [Executions -> Nat] /\ \A x \in Executions : StepCounted(x)
    <3>1. \A x \in Executions : w \notin UncountedWorkers(x)'
      BY <2>1, OthersUncounted DEF UncountedWorkers, Uncounted
    <3>2. \A x \in Executions : UncountedWorkers(x)' \subseteq UncountedWorkers(x)
      BY <2>1, <3>1, OthersUncounted
    <3> QED BY <1>1, <2>1, <3>2 DEF StepCounted
  <2>2. CASE \/ ResumeDueWaits(w) \/ RecoverStaleLeases(w) \/ ClaimBatch(w) \/ PickExecution(w)
             \/ WorkerDies(w)
    <3>1. UNCHANGED steps
      BY <2>2 DEF ResumeDueWaits, RecoverStaleLeases, ClaimBatch, PickExecution, WorkerDies
    <3> QED BY <2>1, <2>2, <3>1, CycleStep
  <2>3. CASE FailExecution(w)
    <3>1. UNCHANGED steps /\ worker[w] \in WorkerStates
      BY <2>3, WorkerIs DEF FailExecution
    <3> QED BY <2>1, <2>3, <3>1, FailStep, DoneIs
  <2>4. CASE RunLoad(w)
    <3>1. UNCHANGED steps /\ worker[w] \in WorkerStates
      BY <2>4, WorkerIs DEF RunLoad
    <3>2. CASE NextState(w, Done(worker[w]))
      BY <2>1, <3>1, <3>2, DoneIs
    <3>3. ASSUME NEW s, NextState(w, s), s.pc \in {"act", "commit"} => steps[s.x] < MaxSteps
          PROVE  \A x \in Executions : StepCounted(x)
      <4> SUFFICES ASSUME NEW x \in Executions PROVE StepCounted(x)
        OBVIOUS
      <4>1. CASE s.pc \in {"act", "commit"} /\ s.x = x
        BY <3>1, <3>3, <4>1 DEF StepCounted
      <4>2. CASE ~(s.pc \in {"act", "commit"} /\ s.x = x)
        <5>1. w \notin UncountedWorkers(x)'
          BY <3>3, <4>2, OthersUncounted DEF UncountedWorkers, Uncounted
        <5> QED BY <3>1, <3>3, <5>1, OthersUncounted DEF StepCounted
      <4> QED BY <4>1, <4>2
    <3> QED BY <1>1, <2>4, <3>1, <3>2, <3>3, LoadStep
  <2>5. ASSUME NEW s, NextState(w, s), steps' = [steps EXCEPT ![worker[w].x] = @ + 1],
               worker[w].x \in Executions, Uncounted(w, worker[w].x), \A x \in Executions : ~Uncounted(w, x)'
        PROVE  steps' \in [Executions -> Nat] /\ \A x \in Executions : StepCounted(x)
    <3>1. \A x \in Executions : UncountedWorkers(x)' \subseteq UncountedWorkers(x) \ {w}
      BY <2>5, OthersUncounted DEF UncountedWorkers
    <3>2. w \in UncountedWorkers(worker[w].x)
      BY <2>5 DEF UncountedWorkers
    <3>3. steps' \in [Executions -> Nat] /\ steps'[worker[w].x] = steps[worker[w].x] + 1
          /\ \A x \in Executions : x # worker[w].x => steps'[x] = steps[x]
      BY <1>1, <2>5
    <3> QED BY <3>1, <3>2, <3>3 DEF StepCounted
  <2>6. CASE ActCommit(w)
    <3>1. /\ worker[w].x \in Executions /\ worker[w].pc = "act" /\ worker[w].result = "next"
          /\ Definition[worker[w].row.node].type \in {"SEND", "CONVERSATION"}
          /\ steps' = [steps EXCEPT ![worker[w].x] = @ + 1]
      BY <2>6, WorkerIs DEF ActCommit, WorkersOK, WorkerShape
    <3>2. PICK s : NextState(w, s) /\ s.pc = "commit" /\ s.row = worker[w].row /\ s.result = worker[w].result
      BY <2>6, ActStep
    <3>3. \A x \in Executions : ~Uncounted(w, x)'
      BY <3>1, <3>2, OthersUncounted DEF Uncounted
    <3> QED BY <2>5, <3>1, <3>2, <3>3 DEF Uncounted
  <2>7. CASE NodeCommit(w)
    <3>1. worker[w].x \in Executions /\ worker[w].pc = "commit"
      BY <2>7, WorkerIs DEF NodeCommit, WorkersOK, WorkerShape
    <3>2. PICK s : NextState(w, s) /\ s.pc \in {"load", "failing", "resume"}
      BY <2>7, CommitStep
    <3>3. \A x \in Executions : ~Uncounted(w, x)'
      BY <3>2, OthersUncounted DEF Uncounted
    <3>4. CASE worker[w].result = "next" /\ Definition[worker[w].row.node].type \in {"SEND", "CONVERSATION"}
      BY <2>1, <2>7, <3>2, <3>4 DEF NodeCommit
    <3>5. CASE ~(worker[w].result = "next" /\ Definition[worker[w].row.node].type \in {"SEND", "CONVERSATION"})
      <4>1. steps' = [steps EXCEPT ![worker[w].x] = @ + 1]
        BY <2>7, <3>5 DEF NodeCommit
      <4> QED BY <2>5, <3>1, <3>2, <3>3, <3>5, <4>1 DEF Uncounted
    <3> QED BY <3>4, <3>5
  <2> QED BY <1>3, <2>2, <2>3, <2>4, <2>6, <2>7 DEF WorkerAct, WorkerNext
<1> QED BY <1>2, <1>3, WorkersStep

(* Two workers that have passed the limit are one step over it each. *)
LEMMA StepsKept ==
    ASSUME ExecutionsTypeOK, WorkersOK, StepsOK, [ExecutionsNext]_execVars
    PROVE  StepsOK' /\ steps' \in [Executions -> 0..(MaxSteps + Cardinality(AutoWorkers))]
<1>1. /\ steps \in [Executions -> 0..(MaxSteps + Cardinality(AutoWorkers))]
      /\ MaxSteps \in Nat /\ IsFiniteSet(AutoWorkers) /\ Cardinality(AutoWorkers) \in Nat
  BY DefinitionAssumption, WorkflowExecutionsAssumption, FS_CardinalityType DEF ExecutionsTypeOK
<1>2. ASSUME NEW x \in Executions
      PROVE  /\ steps'[x] + Cardinality(UncountedWorkers(x)') <= MaxSteps + Cardinality(AutoWorkers)
             /\ steps'[x] \in Nat /\ Cardinality(UncountedWorkers(x)') \in Nat
  <2> DEFINE U == UncountedWorkers(x)
             V == UncountedWorkers(x)'
  <2>1. U \subseteq AutoWorkers /\ V \subseteq AutoWorkers
    BY DEF UncountedWorkers
  <2>2. IsFiniteSet(U) /\ IsFiniteSet(V) /\ Cardinality(U) \in Nat /\ Cardinality(V) \in Nat
        /\ Cardinality(V) <= Cardinality(AutoWorkers)
    BY <1>1, <2>1, FS_Subset, FS_CardinalityType
  <2>3. steps[x] \in Nat /\ steps'[x] \in Nat /\ StepCounted(x)
    BY <1>1, StepsCounted
  <2>4. steps[x] + Cardinality(U) <= MaxSteps + Cardinality(AutoWorkers)
    BY DEF StepsOK
  <2>5. ASSUME steps'[x] = steps[x], V \subseteq U
        PROVE  steps'[x] + Cardinality(V) <= MaxSteps + Cardinality(AutoWorkers)
    <3>1. Cardinality(V) <= Cardinality(U)
      BY <2>2, <2>5, FS_Subset
    <3> HIDE DEF U, V
    <3> QED BY <1>1, <2>2, <2>3, <2>4, <2>5, <3>1
  <2>6. ASSUME steps'[x] = steps[x], steps[x] < MaxSteps
        PROVE  steps'[x] + Cardinality(V) <= MaxSteps + Cardinality(AutoWorkers)
    <3> HIDE DEF U, V
    <3> QED BY <1>1, <2>2, <2>3, <2>6
  <2>7. ASSUME steps'[x] = steps[x] + 1, NEW w \in U, V \subseteq U \ {w}
        PROVE  steps'[x] + Cardinality(V) <= MaxSteps + Cardinality(AutoWorkers)
    <3>1. IsFiniteSet(U \ {w}) /\ Cardinality(U \ {w}) = Cardinality(U) - 1
      BY <2>2, <2>7, FS_RemoveElement
    <3>2. Cardinality(V) <= Cardinality(U \ {w})
      BY <2>7, <3>1, FS_Subset
    <3> HIDE DEF U, V
    <3> QED BY <1>1, <2>2, <2>3, <2>4, <2>7, <3>1, <3>2
  <2> QED BY <2>2, <2>3, <2>5, <2>6, <2>7 DEF StepCounted
<1>3. ASSUME NEW x \in Executions PROVE steps'[x] \in 0..(MaxSteps + Cardinality(AutoWorkers))
  <2>1. /\ steps'[x] + Cardinality(UncountedWorkers(x)') <= MaxSteps + Cardinality(AutoWorkers)
        /\ steps'[x] \in Nat /\ Cardinality(UncountedWorkers(x)') \in Nat
    BY <1>2
  <2> QED BY <1>1, <2>1
<1>4. steps' \in [Executions -> Nat]
  BY StepsCounted
<1> QED BY <1>2, <1>3, <1>4 DEF StepsOK

----------------------------------------------------------------------------
(* The types. *)

LEMMA TypeKept ==
    ASSUME ExecutionsTypeOK, WorkersOK, OperatorOK, RecordedOK, SendsOK, StepsOK,
           [ExecutionsNext]_execVars
    PROVE  ExecutionsTypeOK'
<1>1. live \subseteq Workflows /\ overrun \subseteq Executions
      /\ dispatcher \in [Dispatchers -> SUBSET Events]
      /\ \A d \in Dispatchers : Cardinality(dispatcher[d]) <= 1
  BY DEF ExecutionsTypeOK
<1>2. TablesKept
  BY TablesStep
<1>3. live' \subseteq Workflows
  <2>1. UNCHANGED live \/ \E f \in Workflows : WorkflowToggled(f)
    BY DEF ExecutionsNext, WorkerNext, DispatchLoad, DispatchCommit, WaitIsOver,
           LeaseRunsOut, LeaseRunsOutEarly, ResumeDueWaits, RecoverStaleLeases, ClaimBatch,
           PickExecution, RunLoad, ActCommit, NodeCommit, FailExecution, WorkerDies, OperatorLoad,
           OperatorCommit, execVars
  <2> QED BY <1>1, <2>1 DEF WorkflowToggled
<1>4. overrun' \subseteq Executions
  <2>1. UNCHANGED overrun \/ OperatorCommit \/ \E w \in AutoWorkers : RecoverStaleLeases(w)
    BY DEF ExecutionsNext, WorkerNext, DispatchLoad, DispatchCommit, WorkflowToggled, WaitIsOver,
           LeaseRunsOut, LeaseRunsOutEarly, ResumeDueWaits, ClaimBatch,
           PickExecution, RunLoad, ActCommit, NodeCommit, FailExecution, WorkerDies, OperatorLoad, execVars
  <2> QED BY <1>1, <2>1, OperatorWrites DEF OperatorCommit, RecoverStaleLeases
<1>5. /\ dispatcher' \in [Dispatchers -> SUBSET Events]
      /\ \A d \in Dispatchers : Cardinality(dispatcher'[d]) <= 1
  <2>1. UNCHANGED dispatcher \/ \E d \in Dispatchers : DispatchLoad(d) \/ DispatchCommit(d)
    BY DEF ExecutionsNext, WorkerNext, WorkflowToggled, WaitIsOver,
           LeaseRunsOut, LeaseRunsOutEarly, ResumeDueWaits, RecoverStaleLeases, ClaimBatch,
           PickExecution, RunLoad, ActCommit, NodeCommit, FailExecution, WorkerDies, OperatorLoad,
           OperatorCommit, execVars
  <2>2. ASSUME NEW d \in Dispatchers, NEW es \in SUBSET Events, Cardinality(es) <= 1,
               dispatcher' = [dispatcher EXCEPT ![d] = es]
        PROVE  /\ dispatcher' \in [Dispatchers -> SUBSET Events]
               /\ \A c \in Dispatchers : Cardinality(dispatcher'[c]) <= 1
    BY <1>1, <2>2
  <2>3. ASSUME NEW d \in Dispatchers, DispatchLoad(d)
        PROVE  /\ dispatcher' \in [Dispatchers -> SUBSET Events]
               /\ \A c \in Dispatchers : Cardinality(dispatcher'[c]) <= 1
    <3>1. PICK e \in Events : dispatcher' = [dispatcher EXCEPT ![d] = {e}]
      BY <2>3 DEF DispatchLoad
    <3>2. Cardinality({e}) <= 1
      <4>1. Cardinality({e}) = 1
        BY FS_Singleton
      <4> QED BY <4>1
    <3> QED BY <2>2, <3>1, <3>2
  <2>4. ASSUME NEW d \in Dispatchers, DispatchCommit(d)
        PROVE  /\ dispatcher' \in [Dispatchers -> SUBSET Events]
               /\ \A c \in Dispatchers : Cardinality(dispatcher'[c]) <= 1
    <3>1. dispatcher' = [dispatcher EXCEPT ![d] = {}]
      BY <2>4 DEF DispatchCommit
    <3>2. Cardinality({}) <= 1
      <4>1. Cardinality({}) = 0
        BY FS_EmptySet
      <4> QED BY <4>1
    <3> QED BY <2>2, <3>1, <3>2
  <2> QED BY <1>1, <2>1, <2>3, <2>4
<1> QED
  BY <1>2, <1>3, <1>4, <1>5, StepsKept, EffectsStep, SendsStep, WorkersKept, OperatorKept
  DEF ExecutionsTypeOK, TablesKept

----------------------------------------------------------------------------
(* An execution that no worker is taken out of. *)

(* Its row stays where it is, and no worker comes to it or inside it. *)
LEMMA RunSame ==
    ASSUME NEW x \in Executions, RunOK(x), execution'[x].status = execution[x].status,
           execution'[x].node = execution[x].node,
           \A n \in Nodes("LEAD") : effects'[<<x, n>>] = effects[<<x, n>>],
           \A v \in AutoWorkers : WorkerHas(v, x)' => WorkerHas(v, x),
           \A v \in AutoWorkers : Inside(v, x)' => Inside(v, x) /\ worker'[v].row = worker[v].row
    PROVE  RunOK(x)'
BY DEF RunOK

(* It is left by every worker. *)
LEMMA RunFree ==
    ASSUME NEW x \in Executions, RunOK(x), \A v \in AutoWorkers : ~WorkerHas(v, x)',
           \A n \in Nodes("LEAD") : effects'[<<x, n>>] = effects[<<x, n>>],
           execution'[x].node = execution[x].node
              \/ \A n \in Nodes("LEAD") : effects[<<x, n>>] = 0
    PROVE  RunOK(x)'
<1>1. \A v \in AutoWorkers : ~Inside(v, x)'
  BY DEF Inside, WorkerHas
<1> QED BY <1>1 DEF RunOK

LEMMA HasKept ==
    ASSUME ExecutionsTypeOK, NEW w \in AutoWorkers, NEW s, NextState(w, s), NEW x \in Executions,
           ClaimBatch(w) => ~Runnable(x)
    PROVE  /\ worker'[w] = s
           /\ \A v \in AutoWorkers : WorkerHas(v, x)' => WorkerHas(v, x)
           /\ \A v \in AutoWorkers \ {w} : Inside(v, x)' => Inside(v, x) /\ worker'[v].row = worker[v].row
<1>1. worker'[w] = s /\ \A v \in AutoWorkers \ {w} : worker'[v] = worker[v]
  BY Moves DEF NextState
<1>2. \A v \in AutoWorkers \ {w} : (WorkerHas(v, x)' => WorkerHas(v, x)) /\ (Inside(v, x)' => Inside(v, x))
  BY <1>1 DEF WorkerHas, Inside
<1>3. WorkerHas(w, x)' => WorkerHas(w, x)
  BY <1>1 DEF NextState, HasIn, WorkerHas
<1> QED BY <1>1, <1>2, <1>3

(* An execution that is not there is at no worker and has no effect. *)
LEMMA RunAbsent ==
    ASSUME ExecutionsTypeOK, WorkersOK, RecordedOK, NEW x \in Executions, RunOK(x), ~Exists(x),
           worker' = worker \/ \E w \in AutoWorkers : ~ClaimBatch(w) /\ \E s : NextState(w, s),
           effects' = effects \/ \E w \in AutoWorkers : EffectOf(w)
    PROVE  RunOK(x)'
<1>1. \A v \in AutoWorkers : ~WorkerHas(v, x)
  BY DEF WorkersOK
<1>2. \A v \in AutoWorkers : ~WorkerHas(v, x)'
  <2>1. CASE worker' = worker
    BY <1>1, <2>1 DEF WorkerHas
  <2> QED BY <1>1, <2>1, HasKept
<1>3. \A n \in Nodes("LEAD") : effects'[<<x, n>>] = effects[<<x, n>>] /\ effects[<<x, n>>] = 0
  <2>1. \A n \in Nodes("LEAD") : n \in NodeIds /\ effects[<<x, n>>] = 0
    BY DEF RecordedOK, Nodes
  <2>2. ASSUME NEW w \in AutoWorkers, EffectOf(w), NEW n \in Nodes("LEAD")
        PROVE  effects'[<<x, n>>] = effects[<<x, n>>]
    <3>1. worker[w].x # x /\ worker[w].x \in Executions /\ worker[w].row.node \in NodeIds
          /\ effects' = Effect(worker[w].x, worker[w].row.node)
      BY <2>2 DEF EffectOf
    <3>2. n \in NodeIds
      BY DEF Nodes
    <3> QED BY <3>1, <3>2, EffectIs
  <2> QED BY <2>1, <2>2
<1> QED BY <1>2, <1>3, RunFree

(* The parts of the cycle before a node, and the clock. *)
LEMMA CycleRun ==
    ASSUME ExecutionsTypeOK, WorkersOK, NEW x \in Executions \ overrun', RunOK(x), NEW w \in AutoWorkers,
           \/ ResumeDueWaits(w) \/ RecoverStaleLeases(w) \/ ClaimBatch(w) \/ PickExecution(w)
           \/ WorkerDies(w)
    PROVE  RunOK(x)'
<1>1. PICK s : NextState(w, s) /\ s.pc \in {"resume", "recover", "claim", "load"}
  BY CycleStep
<1>2. worker'[w] = s /\ UNCHANGED effects
  BY <1>1, Moves DEF NextState, ResumeDueWaits, RecoverStaleLeases, ClaimBatch, PickExecution, WorkerDies
<1>3. execution'[x].node = execution[x].node
  BY RowSteps DEF PickExecution, WorkerDies
<1>4. CASE ~(ClaimBatch(w) /\ Runnable(x))
  <2>1. /\ \A v \in AutoWorkers : WorkerHas(v, x)' => WorkerHas(v, x)
        /\ \A v \in AutoWorkers \ {w} : Inside(v, x)' => Inside(v, x) /\ worker'[v].row = worker[v].row
    BY <1>1, <1>4, HasKept
  <2>2. ~Inside(w, x)'
    BY <1>1, <1>2 DEF Inside
  <2>3. CASE execution'[x].status = execution[x].status
    BY <1>2, <1>3, <2>1, <2>2, <2>3, RunSame
  <2>4. CASE execution'[x].status # execution[x].status
    <3>1. \A v \in AutoWorkers : ~WorkerHas(v, x)
      <4>1. CASE ResumeDueWaits(w)
        <5>1. execution[x].status = "WAITING"
          BY <2>4, <4>1 DEF ResumeDueWaits
        <5> QED BY <5>1 DEF RunOK
      <4>2. CASE RecoverStaleLeases(w)
        <5>1. Stale(x)
          BY <2>4, <4>2 DEF RecoverStaleLeases
        <5>2. HolderOf(x) = {}
          BY <4>2, <5>1 DEF RecoverStaleLeases, Stale
        <5> QED BY <5>2 DEF HolderOf, WorkerHas
      <4>3. CASE ClaimBatch(w)
        <5>1. Runnable(x)
          BY <2>4, <4>3 DEF ClaimBatch
        <5> QED BY <1>4, <4>3, <5>1
      <4>4. CASE PickExecution(w) \/ WorkerDies(w)
        BY <2>4, <4>4 DEF PickExecution, WorkerDies
      <4> QED BY <4>1, <4>2, <4>3, <4>4
    <3> QED BY <1>2, <1>3, <2>1, <3>1, RunFree
  <2> QED BY <2>3, <2>4
<1>5. CASE ClaimBatch(w) /\ Runnable(x)
  <2>1. \A v \in AutoWorkers : ~WorkerHas(v, x)
    BY <1>5 DEF RunOK, Runnable
  <2>2. \A v \in AutoWorkers \ {w} : worker'[v] = worker[v]
    BY <1>1, Moves DEF NextState
  <2>3. \A v \in AutoWorkers : WorkerHas(v, x)' => v = w
    BY <2>1, <2>2 DEF WorkerHas
  <2>4. \A v \in AutoWorkers : ~Inside(v, x)'
    BY <1>1, <1>2, <2>3 DEF Inside, WorkerHas
  <2>5. execution'[x].status = "RUNNING"
    <3>1. execution'[x] = [execution[x] EXCEPT !.status = "RUNNING", !.lease = "fresh",
                                               !.attempts = execution[x].attempts + 1]
      BY <1>5 DEF ClaimBatch
    <3> QED BY <3>1, RowIs DEF ExecutionRows
  <2> QED BY <1>2, <1>3, <2>3, <2>4, <2>5 DEF RunOK
<1> QED BY <1>4, <1>5

(* The reload before a node and an action that commits on its own leave the row.       *)
LEMMA NodeRun ==
    ASSUME ExecutionsTypeOK, WorkersOK, NEW x \in Executions, RunOK(x), NEW w \in AutoWorkers,
           RunLoad(w) \/ ActCommit(w)
    PROVE  RunOK(x)'
<1>1. UNCHANGED execution /\ ~ClaimBatch(w)
  BY DEF RunLoad, ActCommit, ClaimBatch
<1>2. \A n \in Nodes("LEAD") : effects'[<<x, n>>] = effects[<<x, n>>]
  <2>1. CASE RunLoad(w)
    BY <2>1 DEF RunLoad
  <2>2. CASE ActCommit(w)
    <3>1. /\ worker[w].x \in Executions /\ worker[w].row.node \in NodeIds
          /\ Definition[worker[w].row.node].type # "LEAD"
      BY <2>2, WorkerIs DEF ActCommit, WorkersOK, WorkerShape
    <3>2. effects' = effects \/ effects' = Effect(worker[w].x, worker[w].row.node)
      BY <2>2 DEF ActCommit, SendEffect, ConversationEffect
    <3>3. \A n \in Nodes("LEAD") : n \in NodeIds /\ n # worker[w].row.node
      BY <3>1 DEF Nodes
    <3>4. \A n \in Nodes("LEAD") :
            Effect(worker[w].x, worker[w].row.node)[<<x, n>>] = effects[<<x, n>>]
      BY <3>1, <3>3, EffectIs
    <3> QED BY <3>2, <3>4
  <2> QED BY <2>1, <2>2
<1>3. ASSUME NEW s, NextState(w, s),
             s.x = x /\ s.pc \in {"act", "commit"} => s.row.node = execution[x].node /\ s.row.status = "RUNNING"
      PROVE  RunOK(x)'
  <2>1. /\ worker'[w] = s
        /\ \A v \in AutoWorkers : WorkerHas(v, x)' => WorkerHas(v, x)
        /\ \A v \in AutoWorkers \ {w} : Inside(v, x)' => Inside(v, x) /\ worker'[v].row = worker[v].row
    BY <1>1, <1>3, HasKept
  <2>2. \A v \in AutoWorkers : Inside(v, x)' =>
          worker'[v].row.node = execution[x].node /\ worker'[v].row.status = "RUNNING"
    BY <1>3, <2>1 DEF Inside, RunOK
  <2> QED BY <1>1, <1>2, <2>1, <2>2 DEF RunOK
<1>4. CASE RunLoad(w)
  <2>1. CASE NextState(w, Done(worker[w]))
    <3>1. Done(worker[w]).pc \in {"resume", "load"}
      BY WorkerIs, DoneIs
    <3> QED BY <1>3, <2>1, <3>1
  <2>2. ASSUME NEW s, NextState(w, s), s.x = worker[w].x, s.row = execution[s.x] PROVE RunOK(x)'
    <3>1. s.x = x => WorkerHas(w, x) /\ s.row = execution[x]
      BY <2>2 DEF WorkerHas
    <3>2. s.x = x => s.row.status = "RUNNING"
      BY <3>1 DEF RunOK
    <3> QED BY <1>3, <2>2, <3>1, <3>2
  <2> QED BY <1>4, <2>1, <2>2, LoadStep
<1>5. CASE ActCommit(w)
  <2>1. PICK s : NextState(w, s) /\ s.x = worker[w].x /\ s.row = worker[w].row
    BY <1>5, ActStep
  <2>2. s.x = x => Inside(w, x)
    BY <1>5, <2>1 DEF Inside, ActCommit
  <2> QED BY <1>3, <2>1, <2>2 DEF RunOK
<1> QED BY <1>4, <1>5

LEMMA FailRun ==
    ASSUME ExecutionsTypeOK, WorkersOK, NEW x \in Executions, RunOK(x), NEW w \in AutoWorkers,
           FailExecution(w)
    PROVE  RunOK(x)'
<1> DEFINE s == worker[w]
<1>1. /\ NextState(w, Done(s)) /\ Done(s).x = NoExecution /\ Done(s).pc \in {"resume", "load"}
      /\ Done(s).todo = s.todo /\ WorkerShape(s)
  BY FailStep, WorkerIs, DoneIs DEF WorkersOK
<1>2. UNCHANGED effects /\ ~ClaimBatch(w)
  BY DEF FailExecution, ClaimBatch
<1>3. /\ worker'[w] = Done(s)
      /\ \A v \in AutoWorkers : WorkerHas(v, x)' => WorkerHas(v, x)
      /\ \A v \in AutoWorkers \ {w} : Inside(v, x)' => Inside(v, x) /\ worker'[v].row = worker[v].row
  BY <1>1, <1>2, HasKept
<1>4. ~Inside(w, x)'
  BY <1>1, <1>3 DEF Inside
<1>5. OnlyWritten(execution', s.x, s.row, FailedRow(s)) /\ FailedRow(s).node = s.row.node
  BY FailWrites, WorkerIs DEF FailedRow, ExecutionRows
<1>6. CASE s.x = x
  <2>1. \A v \in AutoWorkers : ~WorkerHas(v, x)'
    <3>1. WorkerHas(w, x)
      BY <1>6 DEF WorkerHas
    <3>2. \A v \in AutoWorkers : WorkerHas(v, x)' => v = w
      BY <1>3, <3>1 DEF RunOK
    <3>3. ~WorkerHas(w, x)'
      BY <1>1, <1>3, <1>6, WorkflowExecutionsAssumption DEF WorkerHas, WorkerShape, Executions
    <3> QED BY <3>2, <3>3
  <2>2. execution'[x].node = execution[x].node
    BY <1>5, <1>6 DEF OnlyWritten
  <2> QED BY <1>2, <2>1, <2>2, RunFree
<1>7. CASE s.x # x
  <2>1. execution'[x] = execution[x]
    BY <1>5, <1>7 DEF OnlyWritten
  <2> QED BY <1>2, <1>3, <1>4, <2>1, RunSame
<1> QED BY <1>6, <1>7

(* The commit of a node moves the execution on, up the graph: a lead action that was       *)
(* done lies behind it.                                                       *)
LEMMA CommitRun ==
    ASSUME ExecutionsTypeOK, WorkersOK, RecordedOK, NEW x \in Executions, RunOK(x),
           NEW w \in AutoWorkers, NodeCommit(w)
    PROVE  RunOK(x)'
<1> DEFINE s == worker[w]
           n == s.row.node
<1>1. /\ s \in WorkerStates /\ WorkerShape(s) /\ s.pc = "commit" /\ s.x \in Executions /\ Exists(s.x)
      /\ n \in NodeIds /\ s.result \in Results(Definition[n].type) /\ s.row.status \in ExecutionStatus
  BY WorkerIs DEF NodeCommit, WorkersOK, WorkerShape, WorkerHas, ExecutionRows
<1>2. PICK t : /\ NextState(w, t) /\ t.pc \in {"load", "failing", "resume"}
               /\ GoesOn(s) \/ Fails(s) \/ t = Done(s)
  BY CommitStep
<1>3. ~ClaimBatch(w)
  BY <1>1 DEF ClaimBatch
<1>4. /\ worker'[w] = t
      /\ \A v \in AutoWorkers : WorkerHas(v, x)' => WorkerHas(v, x)
      /\ \A v \in AutoWorkers \ {w} : Inside(v, x)' => Inside(v, x) /\ worker'[v].row = worker[v].row
  BY <1>2, <1>3, HasKept
<1>5. ~Inside(w, x)'
  BY <1>2, <1>4 DEF Inside
<1>6. effects' = LeadEffect(s)
  BY DEF NodeCommit
<1>7. /\ \A y \in Executions \ {s.x} : Exists(y) => execution'[y] = execution[y]
      /\ execution'[s.x].status =
           IF AfterNode(s).status = s.row.status THEN execution[s.x].status ELSE AfterNode(s).status
      /\ execution'[s.x].node =
           IF AfterNode(s).node = s.row.node THEN execution[s.x].node ELSE AfterNode(s).node
  BY CommitTables
<1>8. CASE s.x # x
  <2>1. \A m \in Nodes("LEAD") : effects'[<<x, m>>] = effects[<<x, m>>]
    <3>1. \A m \in Nodes("LEAD") : m \in NodeIds
      BY DEF Nodes
    <3>2. effects' = effects \/ effects' = Effect(s.x, n)
      BY <1>6 DEF LeadEffect
    <3>3. \A m \in Nodes("LEAD") : Effect(s.x, n)[<<x, m>>] = effects[<<x, m>>]
      BY <1>1, <1>8, <3>1, EffectIs
    <3> QED BY <3>2, <3>3
  <2>2. CASE Exists(x)
    BY <1>4, <1>5, <1>7, <1>8, <2>1, <2>2, RunSame
  <2>3. CASE ~Exists(x)
    <3>1. \A v \in AutoWorkers : ~WorkerHas(v, x)'
      BY <1>4, <2>3 DEF WorkersOK
    <3>2. \A m \in Nodes("LEAD") : effects[<<x, m>>] = 0
      BY <2>3 DEF RecordedOK, Nodes
    <3> QED BY <2>1, <3>1, <3>2, RunFree
  <2> QED BY <2>2, <2>3
<1>9. CASE s.x = x
  <2>1. WorkerHas(w, x) /\ Inside(w, x)
    BY <1>1, <1>9 DEF WorkerHas, Inside
  <2>2. execution[x].status = "RUNNING" /\ n = execution[x].node /\ s.row.status = "RUNNING"
    BY <2>1 DEF RunOK
  <2>3. execution'[x].status = AfterNode(s).status /\ execution'[x].node = AfterNode(s).node
    BY <1>7, <1>9, <2>2
  <2>4. \A v \in AutoWorkers : WorkerHas(v, x)' => v = w
    BY <1>4, <2>1 DEF RunOK
  <2>5. WorkerHas(w, x)' => execution'[x].status = "RUNNING"
    <3>1. CASE GoesOn(s)
      <4>1. AfterNode(s).status = s.row.status
        BY <1>1, <3>1, NextNode
      <4> QED BY <2>2, <2>3, <4>1
    <3>2. CASE Fails(s)
      <4>1. AfterNode(s) = s.row
        <5>1. CASE s.result = "error"
          BY <5>1 DEF AfterNode
        <5>2. CASE s.result = "retry" /\ s.row.attempts > MaxRetries
          <6>1. ~(s.row.attempts <= MaxRetries)
            BY <5>2, WorkerIs, WorkflowExecutionsAssumption DEF ExecutionRows
          <6> QED BY <5>2, <6>1 DEF AfterNode
        <5> QED BY <3>2, <5>1, <5>2 DEF Fails
      <4> QED BY <2>2, <2>3, <4>1
    <3>3. CASE t = Done(s)
      <4>1. Done(s).todo = s.todo /\ Done(s).x = NoExecution
        BY <1>1, DoneIs
      <4>2. ~WorkerHas(w, x)'
        BY <1>1, <1>4, <1>9, <3>3, <4>1, WorkflowExecutionsAssumption DEF WorkerHas, WorkerShape, Executions
      <4> QED BY <4>2
    <3> QED BY <1>2, <3>1, <3>2, <3>3
  <2>6. \A v \in AutoWorkers : ~Inside(v, x)'
    BY <1>5, <2>4 DEF Inside, WorkerHas
  <2>7. NodePlace[n] \in Nat /\ NodePlace[AfterNode(s).node] \in Nat
        /\ (AfterNode(s).node = n \/ NodePlace[n] < NodePlace[AfterNode(s).node])
    <3>1. AfterNode(s).node \in NodeIds /\ (AfterNode(s).node = n \/ NodePlace[n] < NodePlace[AfterNode(s).node])
      BY <1>1, NextNode DEF ExecutionRows
    <3> QED BY <1>1, <3>1, PlaceIsNat
  <2>8. ASSUME NEW m \in Nodes("LEAD"), effects'[<<x, m>>] # 0
        PROVE  effects'[<<x, m>>] = 1 /\ NodePlace[m] < NodePlace[execution'[x].node]
    <3>1. m \in NodeIds /\ NodePlace[m] \in Nat
      BY PlaceIsNat DEF Nodes
    <3>2. effects[<<x, m>>] # 0 => effects[<<x, m>>] = 1 /\ NodePlace[m] < NodePlace[n]
      BY <2>2 DEF RunOK
    <3>3. CASE effects'[<<x, m>>] = effects[<<x, m>>]
      BY <2>3, <2>7, <2>8, <3>1, <3>2, <3>3
    <3>4. CASE effects'[<<x, m>>] # effects[<<x, m>>]
      <4>1. s.result = "next" /\ effects' = Effect(x, n)
        BY <1>6, <1>9, <3>4 DEF LeadEffect
      <4>2. m = n
        BY <1>1, <3>1, <3>4, <4>1, EffectIs
      <4>3. effects[<<x, n>>] = 0
        BY <2>7, <3>2, <4>2
      <4>4. effects'[<<x, n>>] = 1
        <5>1. effects'[<<x, n>>] = IF effects[<<x, n>>] < 3 THEN effects[<<x, n>>] + 1 ELSE effects[<<x, n>>]
          BY <1>1, <4>1, EffectIs
        <5> QED BY <4>3, <5>1
      <4>5. NodePlace[n] < NodePlace[AfterNode(s).node]
        BY <1>1, <4>1, NextNode DEF GoesOn
      <4> QED BY <2>3, <4>2, <4>4, <4>5
    <3> QED BY <3>3, <3>4
  <2> QED BY <2>4, <2>5, <2>6, <2>8 DEF RunOK
<1> QED BY <1>8, <1>9

(* The executions that were not taken back from a worker. *)
LEMMA RunsKept ==
    ASSUME ExecutionsTypeOK, WorkersOK, OperatorOK, RecordedOK, RunsOK, ExecutionsNext
    PROVE  RunsOK'
<1>1. overrun \subseteq overrun'
  BY DEF ExecutionsNext, WorkerNext, DispatchLoad, DispatchCommit, WorkflowToggled, WaitIsOver,
         LeaseRunsOut, LeaseRunsOutEarly, ResumeDueWaits, RecoverStaleLeases, ClaimBatch,
         PickExecution, RunLoad, ActCommit, NodeCommit, FailExecution, WorkerDies, OperatorLoad,
         OperatorCommit
<1> SUFFICES ASSUME NEW x \in Executions \ overrun' PROVE RunOK(x)'
  BY DEF RunsOK
<1>2. RunOK(x)
  BY <1>1 DEF RunsOK
<1>3. ASSUME worker' = worker, effects' = effects, execution'[x].status = execution[x].status,
             execution'[x].node = execution[x].node
      PROVE  RunOK(x)'
  BY <1>2, <1>3, RunSame DEF WorkerHas, Inside
<1>4. CASE \/ \E d \in Dispatchers : DispatchLoad(d)
           \/ \E f \in Workflows : WorkflowToggled(f)
           \/ \E y \in Executions, op \in {"cancel", "ui_cancel", "retry"} : OperatorLoad(op, y)
  BY <1>3, <1>4 DEF DispatchLoad, WorkflowToggled, OperatorLoad
<1>5. ASSUME NEW d \in Dispatchers, DispatchCommit(d) PROVE RunOK(x)'
  <2>1. worker' = worker /\ effects' = effects
    BY <1>5 DEF DispatchCommit
  <2>2. CASE ~Exists(x)
    BY <1>2, <2>1, <2>2, RunAbsent
  <2>3. CASE Exists(x)
    <3>1. PICK e \in dispatcher[d] :
            IF e \in recorded THEN UNCHANGED <<recorded, execution, cause>>
            ELSE /\ recorded' = recorded \cup {e}
                 /\ execution' = Insert(execution, Starts(e, NoExecution))
                 /\ cause' = InsertCause(Starts(e, NoExecution), NoExecution)
      BY <1>5 DEF DispatchCommit
    <3>2. e \in Events /\ execution \in [Executions -> ExecutionRows]
          /\ \A y \in Executions : execution[y].attempts \in Nat
      BY RowIs DEF ExecutionsTypeOK
    <3>3. execution'[x] = execution[x]
      BY <2>3, <3>1, <3>2, InsertStep DEF Exists
    <3> QED BY <1>3, <2>1, <3>3
  <2> QED BY <2>2, <2>3
<1>6. ASSUME NEW y \in Executions, WaitIsOver(y) \/ LeaseRunsOut(y) \/ LeaseRunsOutEarly(y)
      PROVE  RunOK(x)'
  <2>1. worker' = worker /\ effects' = effects /\ execution'[x].node = execution[x].node
    BY <1>6, RowSteps DEF WaitIsOver, LeaseRunsOut, LeaseRunsOutEarly
  <2>2. execution'[x].status = execution[x].status
    <3>1. PICK row \in {[execution[y] EXCEPT !.due = TRUE], [execution[y] EXCEPT !.lease = "expired"]} :
            execution' = [execution EXCEPT ![y] = row]
      BY <1>6 DEF WaitIsOver, LeaseRunsOut, LeaseRunsOutEarly
    <3>2. row.status = execution[y].status
      BY <3>1, RowIs DEF ExecutionRows
    <3> QED BY <3>1, <3>2 DEF ExecutionsTypeOK
  <2> QED BY <1>3, <2>1, <2>2
<1>7. CASE OperatorCommit
  <2>1. worker' = worker /\ effects' = effects
    BY <1>7 DEF OperatorCommit
  <2>2. /\ OnlyWritten(execution', operator.x, operator.row, OperatorNew)
        /\ OperatorNew.node = operator.row.node
    BY <1>7, OperatorWrites
  <2>3. CASE operator.x = x
    <3>1. HolderOf(x) = {}
      BY <1>7, <2>3 DEF OperatorCommit
    <3>2. \A v \in AutoWorkers : ~WorkerHas(v, x)'
      BY <2>1, <3>1 DEF HolderOf, WorkerHas
    <3>3. execution'[x].node = execution[x].node
      BY <2>2, <2>3 DEF OnlyWritten
    <3> QED BY <1>2, <2>1, <3>2, <3>3, RunFree
  <2>4. CASE operator.x # x
    <3>1. execution'[x] = execution[x]
      BY <2>2, <2>4 DEF OnlyWritten
    <3> QED BY <1>3, <2>1, <3>1
  <2> QED BY <2>3, <2>4
<1>8. ASSUME NEW w \in AutoWorkers, WorkerNext(w) \/ WorkerDies(w) PROVE RunOK(x)'
  BY <1>2, <1>8, CycleRun, NodeRun, FailRun, CommitRun DEF WorkerNext
<1> QED BY <1>4, <1>5, <1>6, <1>7, <1>8 DEF ExecutionsNext

----------------------------------------------------------------------------
(* The inductive invariant. *)
ExecutionsIInv ==
    /\ ExecutionsTypeOK /\ WorkersOK /\ OperatorOK /\ RecordedOK /\ SendsOK /\ StepsOK
    /\ RunsOK

LEMMA ExecutionsStart == ExecutionsInit => ExecutionsIInv
<1> SUFFICES ASSUME ExecutionsInit PROVE ExecutionsIInv
  OBVIOUS
<1>1. /\ \A x \in Executions : ~Exists(x) /\ execution[x] = NoneYet
      /\ \A w \in AutoWorkers : worker[w] = IdleWorker
      /\ \A x \in Executions, n \in NodeIds : effects[<<x, n>>] = 0
      /\ queuedSends = {} /\ overrun = {} /\ operator.op = "none"
  BY NewRows DEF ExecutionsInit, Exists, NoRequest
<1>2. \A w \in AutoWorkers, x \in Executions : ~WorkerHas(w, x)
  BY <1>1, IdleIs, WorkflowExecutionsAssumption DEF WorkerHas, Executions
<1>3. MaxSteps \in Nat /\ Cardinality(AutoWorkers) \in Nat /\ Cardinality({}) = 0
  BY DefinitionAssumption, WorkflowExecutionsAssumption, FS_CardinalityType, FS_EmptySet
<1>4. ExecutionsTypeOK
  <2>1. /\ live \subseteq Workflows /\ recorded \subseteq Events /\ overrun \subseteq Executions
        /\ queuedSends \subseteq Executions \X Nodes("SEND")
        /\ operator.op \in {"none", "cancel", "ui_cancel", "retry"}
    BY DEF ExecutionsInit, NoRequest
  <2>2. execution \in [Executions -> ExecutionRows]
    BY NewRows DEF ExecutionsInit
  <2>3. cause \in [Executions -> Executions \cup {NoExecution}]
    BY DEF ExecutionsInit
  <2>4. steps \in [Executions -> 0..(MaxSteps + Cardinality(AutoWorkers))]
    BY <1>3 DEF ExecutionsInit
  <2>5. effects \in [Executions \X NodeIds -> 0..3]
    BY DEF ExecutionsInit
  <2>6. dispatcher \in [Dispatchers -> SUBSET Events]
        /\ \A d \in Dispatchers : Cardinality(dispatcher[d]) <= 1
    BY <1>3 DEF ExecutionsInit
  <2>7. worker \in [AutoWorkers -> WorkerStates]
    BY IdleIs DEF ExecutionsInit
  <2> QED BY <2>1, <2>2, <2>3, <2>4, <2>5, <2>6, <2>7 DEF ExecutionsTypeOK
<1>5. WorkersOK
  BY <1>1, <1>2, IdleIs DEF WorkersOK
<1>6. OperatorOK /\ RecordedOK
  BY <1>1 DEF OperatorOK, RecordedOK, Executions
<1>7. SendsOK
  BY <1>1 DEF SendsOK, Nodes
<1>8. StepsOK
  <2>1. \A x \in Executions : UncountedWorkers(x) = {}
    BY <1>2 DEF UncountedWorkers, Uncounted, WorkerHas
  <2>2. \A x \in Executions : steps[x] = 0 /\ Cardinality(UncountedWorkers(x)) = 0
    BY <1>3, <2>1 DEF ExecutionsInit
  <2>3. \A x \in Executions :
          steps[x] + Cardinality(UncountedWorkers(x)) <= MaxSteps + Cardinality(AutoWorkers)
    BY <1>3, <2>2
  <2> QED BY <2>3 DEF StepsOK
<1>9. RunsOK
  BY <1>1, <1>2 DEF RunsOK, RunOK, Inside, WorkerHas, Nodes
<1> QED BY <1>4, <1>5, <1>6, <1>7, <1>8, <1>9 DEF ExecutionsIInv

LEMMA ExecutionsInvariant == ExecutionsSpec => []ExecutionsIInv
<1>1. ExecutionsIInv /\ [ExecutionsNext]_execVars => ExecutionsIInv'
  <2> SUFFICES ASSUME ExecutionsIInv, [ExecutionsNext]_execVars PROVE ExecutionsIInv'
    OBVIOUS
  <2>1. ExecutionsTypeOK /\ WorkersOK /\ OperatorOK /\ RecordedOK /\ SendsOK /\ StepsOK /\ RunsOK
    BY DEF ExecutionsIInv
  <2>2. TablesKept
    BY <2>1, TablesStep
  <2>3. ExecutionsTypeOK' /\ WorkersOK' /\ OperatorOK' /\ RecordedOK' /\ SendsOK' /\ StepsOK'
    BY <2>1, <2>2, TypeKept, WorkersKept, OperatorKept, RecordedKept, SendsStep, StepsKept
  <2>4. RunsOK'
    <3>1. CASE ExecutionsNext
      BY <2>1, <3>1, RunsKept
    <3>2. CASE UNCHANGED execVars
      BY <2>1, <3>2 DEF RunsOK, RunOK, WorkerHas, Inside, execVars
    <3> QED BY <3>1, <3>2
  <2> QED BY <2>3, <2>4 DEF ExecutionsIInv
<1> QED BY <1>1, ExecutionsStart, PTL DEF ExecutionsSpec

(* Crashes, retries, lost leases and second workers notwithstanding, a SEND node queues   *)
(* one message; a lead action takes effect once and an execution has one worker, unless *)
(* it was taken back from a worker inside it.                                  *)
THEOREM ExecutionsInvHolds == ExecutionsSpec => []ExecutionsInv
<1>1. ExecutionsIInv => ExecutionsInv
  <2> SUFFICES ASSUME ExecutionsIInv PROVE ExecutionsInv
    OBVIOUS
  <2>1. ExecutionsTypeOK /\ SendsOK /\ RunsOK
    BY DEF ExecutionsIInv
  <2>2. SendOncePerNode
    <3> SUFFICES ASSUME NEW x \in Executions, NEW n \in Nodes("SEND") PROVE effects[<<x, n>>] <= 1
      BY DEF SendOncePerNode
    <3>1. effects[<<x, n>>] = 0 \/ effects[<<x, n>>] = 1
      BY <2>1 DEF SendsOK
    <3> QED BY <3>1
  <2>3. LeadActionOnce
    <3> SUFFICES ASSUME NEW x \in Executions \ overrun, NEW n \in Nodes("LEAD")
                 PROVE  effects[<<x, n>>] <= 1
      BY DEF LeadActionOnce
    <3>1. effects[<<x, n>>] = 0 \/ effects[<<x, n>>] = 1
      BY <2>1 DEF RunsOK, RunOK
    <3> QED BY <3>1
  <2>4. OneRunner
    <3> SUFFICES ASSUME NEW x \in Executions \ overrun PROVE Cardinality(HolderOf(x)) <= 1
      BY DEF OneRunner
    <3>1. \A v, w \in HolderOf(x) : v = w
      BY <2>1 DEF RunsOK, RunOK, HolderOf, WorkerHas
    <3>2. CASE HolderOf(x) = {}
      BY <3>2, FS_EmptySet
    <3>3. ASSUME NEW w \in HolderOf(x) PROVE Cardinality(HolderOf(x)) <= 1
      <4>1. HolderOf(x) = {w}
        BY <3>1, <3>3
      <4>2. Cardinality({w}) = 1
        BY FS_Singleton
      <4> QED BY <4>1, <4>2
    <3> QED BY <3>2, <3>3
  <2> QED BY <2>1, <2>2, <2>3, <2>4 DEF ExecutionsInv
<1> QED BY <1>1, ExecutionsInvariant, PTL

(* The same event never starts a workflow again: the execution that exists stays, keeps    *)
(* its cause, and its attempts only grow.                                     *)
THEOREM EventStartsOnceHolds == ExecutionsSpec => EventStartsOnce
<1>1. ExecutionsIInv /\ [ExecutionsNext]_execVars =>
        [\A x \in Executions : execution[x].status # "NONE" =>
           /\ execution'[x].status # "NONE"
           /\ execution'[x].attempts >= execution[x].attempts
           /\ cause'[x] = cause[x]]_execVars
  <2> SUFFICES ASSUME ExecutionsIInv, [ExecutionsNext]_execVars, NEW x \in Executions,
                      execution[x].status # "NONE"
               PROVE  /\ execution'[x].status # "NONE"
                      /\ execution'[x].attempts >= execution[x].attempts
                      /\ cause'[x] = cause[x]
    OBVIOUS
  <2>1. TablesKept
    BY TablesStep DEF ExecutionsIInv
  <2> QED BY <2>1 DEF TablesKept, RowKept, Exists
<1> QED BY <1>1, ExecutionsInvariant, PTL DEF ExecutionsSpec, EventStartsOnce
----------------------------------------------------------------------------
(* How far back the causes of an execution go. *)

(* Counting up: what holds at 0 and goes on to the next number holds up to n; of the sets of  *)
(* numbers that are no larger than one it fails for, none would be the smallest.        *)
LEMMA UpTo ==
    ASSUME NEW n \in Nat, NEW S, 0 \in S, \A i \in 0..(n - 1) : i \in S => i + 1 \in S
    PROVE  \A i \in 0..n : i \in S
<1> DEFINE vs == (0..n) \ S
           Below(v) == {u \in vs : u <= v}
           T == {Below(v) : v \in vs}
           R == StrictSubsetOrdering(vs)
<1> SUFFICES ASSUME vs # {} PROVE FALSE
  OBVIOUS
<1>1. IsFiniteSet(vs)
  <2>1. 0 \in Int /\ n \in Int
    OBVIOUS
  <2>2. IsFiniteSet(0..n)
    BY <2>1, FS_Interval
  <2> QED BY <2>2, FS_Subset
<1>2. T \subseteq FiniteSubsetsOf(vs) /\ T # {}
  <2>1. \A v \in vs : Below(v) \in SUBSET vs
    OBVIOUS
  <2>2. \A v \in vs : IsFiniteSet(Below(v))
    BY <1>1, <2>1, FS_Subset
  <2> QED BY <2>1, <2>2 DEF FiniteSubsetsOf
<1>3. IsWellFoundedOn(R, FiniteSubsetsOf(vs))
  BY <1>1, FS_StrictSubsetOrderingWellFounded
<1> HIDE DEF R, T
<1>4. PICK a \in T : \A b \in T : ~(<<b, a>> \in R)
  BY <1>2, <1>3, WFMin
<1>5. PICK v \in vs : a = Below(v)
  BY DEF T
<1>6. v - 1 \in vs /\ v \in Nat
  <2>1. v # 0 /\ v \in 0..n
    OBVIOUS
  <2>2. v - 1 \in 0..(n - 1) /\ (v - 1) + 1 = v
    BY <2>1
  <2>3. v - 1 \notin S
    BY <2>2
  <2> QED BY <2>1, <2>2, <2>3
<1>7. Below(v - 1) \subseteq Below(v) /\ v \in Below(v) /\ v \notin Below(v - 1)
  <2>1. \A w \in vs : w \in Nat /\ (w <= v - 1 => w <= v)
    BY <1>6
  <2> QED BY <1>6, <2>1
<1>8. Below(v - 1) \in T
  BY <1>6 DEF T
<1>9. <<Below(v - 1), Below(v)>> \in R
  BY <1>7 DEF R, StrictSubsetOrdering
<1> QED BY <1>4, <1>5, <1>8, <1>9

(* One more step back along the causes c. *)
OneMoreCause(c, n, shorter) ==
    [x \in Executions |-> IF n = 0 THEN 0 ELSE IF c[x] = NoExecution THEN 1 ELSE 1 + shorter[c[x]]]

DepthLimit == MaxCausationDepth + 2

IsDepth(c, k, f) == f = [n \in 0..k |-> OneMoreCause(c, n, f[n - 1])]

LEMMA DepthLimitIsNat == DepthLimit \in Nat /\ MaxCausationDepth \in Nat /\ DepthLimit - 1 \in Nat
BY WorkflowExecutionsAssumption DEF DepthLimit

(* The recursive definition defines a function. *)
LEMMA DepthDefined ==
    ASSUME NEW c
    PROVE  \E f : IsDepth(c, DepthLimit, f)
<1> DEFINE S == {k \in 0..DepthLimit : \E f : IsDepth(c, k, f)}
<1>1. 0 \in S
  <2> DEFINE f == [n \in 0..0 |-> OneMoreCause(c, 0, 0)]
  <2>1. f = [n \in 0..0 |-> OneMoreCause(c, n, f[n - 1])]
    BY DEF OneMoreCause
  <2> QED BY <2>1, DepthLimitIsNat DEF IsDepth
<1>2. ASSUME NEW k \in 0..(DepthLimit - 1), k \in S
      PROVE  k + 1 \in S
  <2>0. k \in Nat /\ k + 1 \in 0..DepthLimit /\ 0..k \subseteq 0..(k + 1) /\ k + 1 \notin 0..k /\ k \in 0..k
    BY DepthLimitIsNat
  <2>1. PICK f : IsDepth(c, k, f)
    BY <1>2
  <2> DEFINE g == [n \in 0..(k + 1) |-> IF n = k + 1 THEN OneMoreCause(c, k + 1, f[k]) ELSE f[n]]
  <2>2. ASSUME NEW n \in 0..(k + 1)
        PROVE  g[n] = OneMoreCause(c, n, g[n - 1])
    <3>1. CASE n = k + 1
      <4>1. g[n - 1] = f[k]
        BY <2>0, <3>1
      <4> QED BY <3>1, <4>1
    <3>2. CASE n # k + 1 /\ n # 0
      <4>1. n \in 0..k /\ n - 1 \in 0..(k + 1) /\ n - 1 # k + 1
        BY <2>0, <3>2
      <4>2. g[n] = f[n] /\ g[n - 1] = f[n - 1]
        BY <3>2, <4>1
      <4>3. f[n] = OneMoreCause(c, n, f[n - 1])
        BY <2>1, <4>1 DEF IsDepth
      <4> QED BY <4>2, <4>3
    <3>3. CASE n = 0 /\ n # k + 1
      <4>1. 0 \in 0..k
        BY <2>0
      <4>2. g[n] = f[0] /\ f[0] = OneMoreCause(c, 0, f[0 - 1])
        BY <2>1, <3>3, <4>1 DEF IsDepth
      <4>3. OneMoreCause(c, 0, f[0 - 1]) = OneMoreCause(c, 0, g[0 - 1])
        BY DEF OneMoreCause
      <4> QED BY <3>3, <4>2, <4>3
    <3> QED BY <3>1, <3>2, <3>3
  <2>3. g = [n \in 0..(k + 1) |-> OneMoreCause(c, n, g[n - 1])]
    <3>1. g = [n \in 0..(k + 1) |-> g[n]]
      OBVIOUS
    <3> HIDE DEF g
    <3> QED BY <2>2, <3>1
  <2>4. IsDepth(c, k + 1, g)
    BY <2>3 DEF IsDepth
  <2> HIDE DEF g
  <2> QED BY <2>0, <2>4
<1>3. DepthLimit \in 0..DepthLimit
  BY DepthLimitIsNat
<1> HIDE DEF S
<1>4. \A k \in 0..DepthLimit : k \in S
  BY <1>1, <1>2, DepthLimitIsNat, UpTo
<1>5. DepthLimit \in S
  BY <1>3, <1>4
<1> QED BY <1>5 DEF S

LEMMA DepthIs == IsDepth(cause, DepthLimit, Depth) /\ IsDepth(cause', DepthLimit, Depth')
<1>1. Depth = CHOOSE f : IsDepth(cause, DepthLimit, f)
  BY DEF Depth, IsDepth, OneMoreCause, DepthLimit
<1>2. Depth' = CHOOSE f : IsDepth(cause', DepthLimit, f)
  BY DEF Depth, IsDepth, OneMoreCause, DepthLimit
<1>3. (\E f : IsDepth(cause, DepthLimit, f)) /\ (\E f : IsDepth(cause', DepthLimit, f))
  BY DepthDefined
<1> HIDE DEF Depth
<1> QED BY <1>1, <1>2, <1>3

LEMMA OneMoreCauseIs ==
    ASSUME NEW c, NEW f, IsDepth(c, DepthLimit, f), NEW n \in 0..DepthLimit, NEW x \in Executions
    PROVE  f[n][x] = IF n = 0 THEN 0 ELSE IF c[x] = NoExecution THEN 1 ELSE 1 + f[n - 1][c[x]]
<1>1. f[n] = OneMoreCause(c, n, f[n - 1])
  BY DEF IsDepth
<1>2. OneMoreCause(c, n, f[n - 1])[x] = IF n = 0 THEN 0 ELSE IF c[x] = NoExecution THEN 1 ELSE 1 + f[n - 1][c[x]]
  BY DEF OneMoreCause
<1> QED BY <1>1, <1>2

(* Causes are executions. *)
Causes(c) == c \in [Executions -> Executions \cup {NoExecution}]

LEMMA NoExecutionIsNone == NoExecution \notin Executions
BY WorkflowExecutionsAssumption DEF Executions

(* A depth is a number that grows with the number of steps allowed. *)
LEMMA DepthGrows ==
    ASSUME NEW c, Causes(c), NEW f, IsDepth(c, DepthLimit, f)
    PROVE  /\ \A n \in 0..DepthLimit, x \in Executions : f[n][x] \in Nat
           /\ \A n \in 0..(DepthLimit - 1), x \in Executions : f[n][x] <= f[n + 1][x]
<1> DEFINE S == {n \in 0..DepthLimit : \A x \in Executions : f[n][x] \in Nat}
           G == {n \in 0..(DepthLimit - 1) : \A x \in Executions : f[n][x] <= f[n + 1][x]}
<1>1. 0 \in S
  BY OneMoreCauseIs, DepthLimitIsNat
<1>2. ASSUME NEW n \in 0..(DepthLimit - 1), n \in S
      PROVE  n + 1 \in S
  <2>1. n + 1 \in 0..DepthLimit /\ n + 1 # 0 /\ (n + 1) - 1 = n
    BY DepthLimitIsNat
  <2>2. ASSUME NEW x \in Executions
        PROVE  f[n + 1][x] \in Nat
    <3>1. f[n + 1][x] = IF c[x] = NoExecution THEN 1 ELSE 1 + f[n][c[x]]
      BY <2>1, OneMoreCauseIs
    <3>2. c[x] # NoExecution => f[n][c[x]] \in Nat
      BY <1>2 DEF Causes
    <3> QED BY <3>1, <3>2
  <2> QED BY <2>1, <2>2
<1>3. \A n \in 0..DepthLimit : n \in S
  <2> HIDE DEF S
  <2> QED BY <1>1, <1>2, DepthLimitIsNat, UpTo
<1>4. 0 \in G
  <2>1. 0 \in 0..(DepthLimit - 1) /\ 1 \in 0..DepthLimit /\ 0 \in 0..DepthLimit
    BY DepthLimitIsNat DEF DepthLimit
  <2>2. ASSUME NEW x \in Executions
        PROVE  f[0][x] <= f[0 + 1][x]
    <3>1. f[0][x] = 0 /\ f[1][x] \in Nat
      BY <1>3, <2>1, OneMoreCauseIs
    <3> QED BY <3>1
  <2> QED BY <2>1, <2>2
<1>5. ASSUME NEW n \in 0..((DepthLimit - 1) - 1), n \in G
      PROVE  n + 1 \in G
  <2>1. n + 1 \in 0..(DepthLimit - 1) /\ n + 1 # 0 /\ (n + 1) - 1 = n /\ n + 1 \in 0..DepthLimit
        /\ n + 2 \in 0..DepthLimit /\ n + 2 # 0 /\ (n + 2) - 1 = n + 1 /\ (n + 1) + 1 = n + 2 /\ n \in 0..DepthLimit
    BY DepthLimitIsNat
  <2>2. ASSUME NEW x \in Executions
        PROVE  f[n + 1][x] <= f[n + 2][x]
    <3>1. f[n + 1][x] = IF c[x] = NoExecution THEN 1 ELSE 1 + f[n][c[x]]
      BY <2>1, OneMoreCauseIs
    <3>2. f[n + 2][x] = IF c[x] = NoExecution THEN 1 ELSE 1 + f[n + 1][c[x]]
      BY <2>1, OneMoreCauseIs
    <3>3. c[x] # NoExecution => c[x] \in Executions
      BY DEF Causes
    <3>4. c[x] # NoExecution =>
             f[n][c[x]] <= f[n + 1][c[x]] /\ f[n][c[x]] \in Nat /\ f[n + 1][c[x]] \in Nat
      BY <1>3, <1>5, <2>1, <3>3
    <3> QED BY <3>1, <3>2, <3>4
  <2> QED BY <2>1, <2>2
<1>6. \A n \in 0..(DepthLimit - 1) : n \in G
  <2> HIDE DEF G
  <2> QED BY <1>4, <1>5, DepthLimitIsNat, UpTo
<1> QED BY <1>3, <1>6

(* Executions whose causes stay, among themselves, keep their depth. *)
LEMMA DepthStays ==
    ASSUME NEW c, NEW d, NEW f, NEW g, IsDepth(c, DepthLimit, f), IsDepth(d, DepthLimit, g),
           NEW xs \in SUBSET Executions,
           \A x \in xs : d[x] = c[x] /\ c[x] \in xs \cup {NoExecution}
    PROVE  \A n \in 0..DepthLimit, x \in xs : g[n][x] = f[n][x]
<1> DEFINE S == {n \in 0..DepthLimit : \A x \in xs : g[n][x] = f[n][x]}
<1>1. 0 \in S
  BY OneMoreCauseIs, DepthLimitIsNat
<1>2. ASSUME NEW n \in 0..(DepthLimit - 1), n \in S
      PROVE  n + 1 \in S
  <2>1. n + 1 \in 0..DepthLimit /\ n + 1 # 0 /\ (n + 1) - 1 = n
    BY DepthLimitIsNat
  <2>2. ASSUME NEW x \in xs
        PROVE  g[n + 1][x] = f[n + 1][x]
    <3>1. f[n + 1][x] = IF c[x] = NoExecution THEN 1 ELSE 1 + f[n][c[x]]
      BY <2>1, OneMoreCauseIs
    <3>2. g[n + 1][x] = IF d[x] = NoExecution THEN 1 ELSE 1 + g[n][d[x]]
      BY <2>1, OneMoreCauseIs
    <3>3. c[x] # NoExecution => g[n][c[x]] = f[n][c[x]]
      BY <1>2
    <3> QED BY <3>1, <3>2, <3>3
  <2> QED BY <2>1, <2>2
<1> HIDE DEF S
<1>3. \A n \in 0..DepthLimit : n \in S
  BY <1>1, <1>2, DepthLimitIsNat, UpTo
<1> QED BY <1>3 DEF S

(* The cause of an execution that is there is there, too. *)
CausesOK ==
    \A x \in Executions : Exists(x) =>
        cause[x] = NoExecution \/ (cause[x] \in Executions /\ Exists(cause[x]))

(* A new execution comes with a cause that is there and not too deep. *)
LEMMA NewCauses ==
    ASSUME ExecutionsTypeOK, WorkersOK, OperatorOK, RecordedOK, [ExecutionsNext]_execVars,
           NEW x \in Executions, ~Exists(x), execution'[x].status # "NONE"
    PROVE  \E by \in {y \in Executions : Exists(y)} \cup {NoExecution} :
               cause'[x] = by /\ ~(CausationDepth(by) > MaxCausationDepth)
<1>1. execution[x].status = "NONE"
  BY DEF Exists
<1>2. ASSUME NEW d \in Dispatchers, DispatchCommit(d)
      PROVE  cause'[x] = NoExecution /\ ~(CausationDepth(NoExecution) > MaxCausationDepth)
  <2>1. PICK e \in dispatcher[d] :
          IF e \in recorded THEN UNCHANGED <<recorded, execution, cause>>
          ELSE /\ recorded' = recorded \cup {e}
               /\ execution' = Insert(execution, Starts(e, NoExecution))
               /\ cause' = InsertCause(Starts(e, NoExecution), NoExecution)
    BY <1>2 DEF DispatchCommit
  <2>2. /\ execution' = Insert(execution, Starts(e, NoExecution))
        /\ cause' = InsertCause(Starts(e, NoExecution), NoExecution)
    BY <1>1, <2>1
  <2>3. x \in Starts(e, NoExecution)
    BY <1>1, <2>2 DEF Insert
  <2>4. e \in Events
    BY DEF ExecutionsTypeOK
  <2>5. ~(CausationDepth(NoExecution) > MaxCausationDepth)
    BY <2>3, <2>4, StartsAre
  <2> QED BY <2>2, <2>3, <2>5 DEF InsertCause
<1>3. CASE \/ \E d \in Dispatchers : DispatchLoad(d)
           \/ \E f \in Workflows : WorkflowToggled(f)
           \/ \E w \in AutoWorkers : PickExecution(w) \/ RunLoad(w) \/ ActCommit(w) \/ WorkerDies(w)
           \/ \E y \in Executions, op \in {"cancel", "ui_cancel", "retry"} : OperatorLoad(op, y)
           \/ UNCHANGED execVars
  <2>1. UNCHANGED execution
    BY <1>3 DEF DispatchLoad, WorkflowToggled, PickExecution, RunLoad, ActCommit, WorkerDies,
                OperatorLoad, execVars
  <2> QED BY <1>1, <2>1
<1>4. ASSUME NEW w \in AutoWorkers, FailExecution(w) PROVE FALSE
  BY <1>4, FailWrites DEF OnlyWritten
<1>5. CASE OperatorCommit
  BY <1>5, OperatorWrites DEF OnlyWritten
<1>6. ASSUME NEW w \in AutoWorkers, NodeCommit(w)
      PROVE  \E by \in {y \in Executions : Exists(y)} \cup {NoExecution} :
                 cause'[x] = by /\ ~(CausationDepth(by) > MaxCausationDepth)
  BY <1>6, CommitTables
<1>7. CASE \/ \E y \in Executions : WaitIsOver(y) \/ LeaseRunsOut(y) \/ LeaseRunsOutEarly(y)
           \/ \E w \in AutoWorkers : ResumeDueWaits(w) \/ RecoverStaleLeases(w) \/ ClaimBatch(w)
  BY <1>1, <1>7, RowSteps
<1> QED BY <1>2, <1>3, <1>4, <1>5, <1>6, <1>7 DEF ExecutionsNext, WorkerNext

LEMMA CausationKept ==
    ASSUME ExecutionsTypeOK, WorkersOK, OperatorOK, RecordedOK, CausesOK, CausationBounded,
           [ExecutionsNext]_execVars
    PROVE  CausesOK' /\ CausationBounded'
<1> DEFINE xs == {y \in Executions : Exists(y)}
<1>1. TablesKept
  BY TablesStep
<1>2. Causes(cause) /\ Causes(cause')
  BY <1>1 DEF Causes, ExecutionsTypeOK, TablesKept
<1>3. IsDepth(cause, DepthLimit, Depth) /\ IsDepth(cause', DepthLimit, Depth')
  BY DepthIs
<1>4. \A x \in xs : cause'[x] = cause[x] /\ cause[x] \in xs \cup {NoExecution}
  BY <1>1 DEF TablesKept, RowKept, CausesOK
<1>5. \A n \in 0..DepthLimit, x \in xs : Depth'[n][x] = Depth[n][x]
  <2>1. xs \in SUBSET Executions
    OBVIOUS
  <2> HIDE DEF xs
  <2>2. \E f, g : f = Depth /\ g = Depth'
    OBVIOUS
  <2>3. PICK f, g : f = Depth /\ g = Depth'
    BY <2>2
  <2>4. PICK c, d : c = cause /\ d = cause'
    OBVIOUS
  <2>5. IsDepth(c, DepthLimit, f) /\ IsDepth(d, DepthLimit, g)
    BY <1>3, <2>3, <2>4
  <2>6. \A x \in xs : d[x] = c[x] /\ c[x] \in xs \cup {NoExecution}
    BY <1>4, <2>4
  <2>7. \A n \in 0..DepthLimit, x \in xs : g[n][x] = f[n][x]
    BY <2>1, <2>5, <2>6, DepthStays
  <2> QED BY <2>3, <2>7
<1>6. /\ DepthLimit \in 0..DepthLimit /\ DepthLimit - 1 \in 0..DepthLimit /\ DepthLimit # 0
      /\ DepthLimit - 1 \in 0..(DepthLimit - 1) /\ (DepthLimit - 1) + 1 = DepthLimit
  BY DepthLimitIsNat DEF DepthLimit
<1>7. \A x \in Executions : /\ CausationDepth(x) = Depth[DepthLimit][x]
                            /\ CausationDepth(x)' = Depth'[DepthLimit][x]
  BY NoExecutionIsNone DEF CausationDepth, DepthLimit
<1>8. \A x \in Executions : /\ Depth[DepthLimit][x] \in Nat /\ Depth[DepthLimit - 1][x] \in Nat
                            /\ Depth[DepthLimit - 1][x] <= Depth[DepthLimit][x]
  BY <1>2, <1>3, <1>6, DepthGrows
<1>9. \A x \in Executions : execution'[x].status # "NONE" /\ x \notin xs =>
        \E by \in xs \cup {NoExecution} : cause'[x] = by /\ ~(CausationDepth(by) > MaxCausationDepth)
  BY NewCauses
<1>10. \A x \in xs : execution'[x].status # "NONE"
  BY <1>1 DEF TablesKept, RowKept
<1> HIDE DEF xs
<1>11. \A x \in Executions : execution'[x].status # "NONE" => cause'[x] \in xs \cup {NoExecution}
  BY <1>4, <1>9
<1>12. CausesOK'
  BY <1>10, <1>11 DEF CausesOK, Exists, xs
<1>13. ASSUME NEW x \in Executions, execution'[x].status # "NONE"
       PROVE  CausationDepth(x)' <= MaxCausationDepth + 1
  <2>1. CASE x \in xs
    <3>1. CausationDepth(x) <= MaxCausationDepth + 1
      BY <2>1 DEF CausationBounded, xs
    <3> QED BY <1>5, <1>6, <1>7, <2>1, <3>1
  <2>2. CASE x \notin xs
    <3>1. PICK by \in xs \cup {NoExecution} :
            cause'[x] = by /\ ~(CausationDepth(by) > MaxCausationDepth)
      BY <1>9, <1>13, <2>2
    <3>2. Depth'[DepthLimit][x] = IF cause'[x] = NoExecution THEN 1
                                  ELSE 1 + Depth'[DepthLimit - 1][cause'[x]]
      BY <1>3, <1>6, OneMoreCauseIs
    <3>3. CASE by = NoExecution
      BY <1>7, <3>1, <3>2, <3>3, DepthLimitIsNat
    <3>4. CASE by \in xs
      <4>1. by \in Executions /\ by # NoExecution
        BY <3>4, NoExecutionIsNone DEF xs
      <4>2. Depth'[DepthLimit][x] = 1 + Depth[DepthLimit - 1][by]
        BY <1>5, <1>6, <3>1, <3>2, <3>4, <4>1
      <4>3. Depth[DepthLimit - 1][by] <= MaxCausationDepth
        BY <1>7, <1>8, <3>1, <4>1, DepthLimitIsNat
      <4> QED BY <1>7, <1>8, <4>1, <4>2, <4>3, DepthLimitIsNat
    <3> QED BY <3>1, <3>3, <3>4
  <2> QED BY <2>1, <2>2
<1>14. CausationBounded'
  BY <1>13 DEF CausationBounded, Exists
<1> QED BY <1>12, <1>14

(* Workflows that set each other off stop: whatever the workflows, the events and the      *)
(* limit, the way from an execution back to an event that nobody caused passes at most   *)
(* one execution more than the limit.                                         *)
THEOREM CausationBoundedHolds == ExecutionsSpec => []CausationBounded
<1>1. ExecutionsInit => CausesOK /\ CausationBounded
  <2>1. ExecutionsInit => \A x \in Executions : ~Exists(x)
    BY NewRows DEF ExecutionsInit, Exists
  <2> QED BY <2>1 DEF CausesOK, CausationBounded
<1>2. ExecutionsIInv /\ CausesOK /\ CausationBounded /\ [ExecutionsNext]_execVars
        => CausesOK' /\ CausationBounded'
  BY CausationKept DEF ExecutionsIInv
<1> QED BY <1>1, <1>2, ExecutionsInvariant, PTL DEF ExecutionsSpec
=============================================================================
