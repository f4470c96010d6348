----------------------- MODULE ScrapeLifecycleProofs ------------------------
(***************************************************************************)
(* ScrapeJobs implements JobLifecycle, for every set of jobs, clients,       *)
(* workers and tasks and every bound.  The inductive invariant is that of    *)
(* ScrapeJobsProofs: an executing task's row is RUNNING and no second task     *)
(* executes the job.                                                       *)
(***************************************************************************)
EXTENDS ScrapeJobsProofs, ScrapeJobsLifecycle

Follows(j) == Lifecycle!Stay(j) \/ Lifecycle!Move(j)

(* A job written from an out-of-date copy is disowned. *)
LEMMA Disowned ==
    ASSUME NEW j \in Jobs, j \in suspect'
    PROVE  Follows(j)
BY DEF Follows, VisibleStatus, VisibleExecutors,
       Lifecycle!Move, Lifecycle!Disown, Lifecycle!Becomes

(* What the life cycle sees of a job that nobody disowned. *)
LEMMA Visible ==
    ASSUME NEW j \in Jobs, suspect \subseteq suspect', j \notin suspect'
    PROVE  /\ VisibleStatus[j] = row[j].status /\ VisibleExecutors[j] = Executors(j)
           /\ VisibleStatus'[j] = row'[j].status /\ VisibleExecutors'[j] = Executors(j)'
BY DEF VisibleStatus, VisibleExecutors

(* A job that keeps its status and gets no new execution stays, or its task died. *)
LEMMA NothingBegins ==
    ASSUME IInv, suspect \subseteq suspect', NEW j \in Jobs, j \notin suspect',
           row'[j].status = row[j].status,
           \A t \in Tasks : Executing(t)' /\ task'[t].job = j => Executing(t) /\ task[t].job = j
    PROVE  Follows(j)
<1>1. Executors(j)' \subseteq Executors(j)
  BY DEF Executors
<1>2. \A s, t \in Executors(j) : s = t
  BY DEF IInv, SingleExecution
<1>3. Executors(j) # {} => row[j].status = "RUNNING"
  BY DEF IInv, ExecutorHoldsLease
<1>4. CASE Executors(j)' = Executors(j)
  BY <1>4, Visible DEF Follows, Lifecycle!Stay, Lifecycle!Becomes
<1>5. CASE Executors(j)' # Executors(j)
  <2>1. Executors(j)' = {} /\ row[j].status = "RUNNING"
    BY <1>1, <1>2, <1>3, <1>5
  <2> QED BY <2>1, Visible DEF Follows, Lifecycle!Move, Lifecycle!Die, Lifecycle!Becomes
<1> QED BY <1>4, <1>5

(* The same for a step that leaves all rows' statuses as they are. *)
LEMMA NothingMoves ==
    ASSUME IInv, suspect \subseteq suspect',
           \A j \in Jobs : row'[j].status = row[j].status,
           \A t \in Tasks : Executing(t)' => Executing(t) /\ task'[t].job = task[t].job
    PROVE  \A j \in Jobs : Follows(j)
BY Disowned, NothingBegins

(* The columns of an operator's request: a job that is not RUNNING moves along     *)
(* LEGAL_TRANSITIONS.                                                         *)
LEMMA RequestedIsLegal ==
    ASSUME NEW op \in OperatorRequests, NEW seen \in Rows, Permits(op, seen.status),
           Requested(op, seen).status # seen.status
    PROVE  /\ seen.status \in {"QUEUED", "PAUSED", "FAILED"}
           /\ Requested(op, seen).status \in Lifecycle!LegalTransitions[seen.status] \ {"RUNNING"}
BY DEF Requested, Permits, Rows, OperatorRequests, Lifecycle!LegalTransitions, Lifecycle!Statuses

(* Every step of the engine is a step of the life cycle for every job. *)
LEMMA StepFollows ==
    ASSUME IInv, IInv', Next
    PROVE  \A j \in Jobs : Follows(j)
<1> USE DEF IInv
<1>1. ASSUME NEW c \in Clients, NEW k \in Jobs, CreateJob(c, k) PROVE \A j \in Jobs : Follows(j)
  <2>1. UNCHANGED <<task, suspect>> /\ \A j \in Jobs \ {k} : row'[j] = row[j]
    BY <1>1 DEF CreateJob, TypeOK
  <2>2. row[k].status = "ABSENT" /\ row'[k].status = "QUEUED"
    BY <1>1 DEF CreateJob, TypeOK, Rows
  <2>3. \A t \in Tasks : Executing(t)' <=> Executing(t)
    BY <2>1 DEF Executing
  <2>4. k \notin suspect => Executors(k) = {} /\ Executors(k)' = {}
    BY <2>1, <2>2, <2>3 DEF ExecutorHoldsLease, Executors
  <2>5. k \notin suspect' => Lifecycle!Submit(k)
    BY <2>1, <2>2, <2>4, Visible DEF Lifecycle!Submit, Lifecycle!Becomes
  <2>6. Follows(k)
    BY <2>5, Disowned DEF Follows, Lifecycle!Move
  <2>7. \A j \in Jobs \ {k} : Follows(j)
    BY <2>1, <2>3, Disowned, NothingBegins
  <2> QED BY <2>6, <2>7
<1>2. ASSUME NEW c \in Clients, CommitRequest(c) PROVE \A j \in Jobs : Follows(j)
  <2>0. PICK k \in Jobs : k = req[c].job
    BY <1>2 DEF CommitRequest, InFlightOK
  <2> DEFINE seen == req[c].seen
             new == Requested(req[c].op, seen)
  <2>1. seen \in Rows /\ req[c].op \in OperatorRequests /\ Permits(req[c].op, seen.status)
    BY <1>2 DEF CommitRequest, TypeOK, InFlightOK, Requests
  <2>2. new \in Rows
    BY <2>1, RequestedType
  <2>3. task' = task /\ suspect \subseteq suspect' /\ \A j \in Jobs \ {k} : row'[j] = row[j]
    BY <1>2, <2>0 DEF CommitRequest, Commit, TypeOK
  <2>4. \A t \in Tasks : Executing(t)' <=> Executing(t)
    BY <2>3 DEF Executing
  <2>5. row'[k] = Flush(k, seen, new)
    BY <1>2, <2>0, <2>1 DEF CommitRequest, Commit, TypeOK
  <2>6. Follows(k)
    <3>1. CASE k \in suspect'
      BY <2>1, <3>1, Disowned
    <3>2. CASE k \notin suspect' /\ new.status = seen.status
      <4>1. row'[k].status = row[k].status
        BY <2>1, <2>2, <2>5, <3>2, FlushKeeps
      <4> QED BY <2>1, <2>3, <2>4, <3>2, <4>1, NothingBegins
    <3>3. CASE k \notin suspect' /\ new.status # seen.status
      <4>1. row[k].status = seen.status
        BY <1>2, <2>0, <3>3 DEF CommitRequest, Commit, Overtaken
      <4>2. /\ row[k].status \in {"QUEUED", "PAUSED", "FAILED"}
            /\ new.status \in Lifecycle!LegalTransitions[row[k].status] \ {"RUNNING"}
        BY <2>1, <3>3, <4>1, RequestedIsLegal
      <4>3. row'[k].status = new.status
        BY <2>5, <3>3 DEF Flush
      <4>4. Executors(k) = {} /\ Executors(k)' = {}
        BY <2>1, <2>3, <2>4, <3>3, <4>2 DEF ExecutorHoldsLease, Executors
      <4>5. Lifecycle!Order(k)
        BY <2>1, <2>3, <3>3, <4>2, <4>3, <4>4, Visible DEF Lifecycle!Order, Lifecycle!Becomes
      <4> QED BY <4>5 DEF Follows, Lifecycle!Move
    <3> QED BY <3>1, <3>2, <3>3
  <2>7. \A j \in Jobs \ {k} : Follows(j)
    BY <2>3, <2>4, Disowned, NothingBegins
  <2> QED BY <2>6, <2>7
<1>3. ASSUME NEW t \in Tasks, Claim(t) PROVE \A j \in Jobs : Follows(j)
  <2>0. PICK k \in Jobs : k = task[t].job
    BY <1>3 DEF Claim, InFlightOK
  <2>1. task[t] \in TaskStates
    BY DEF TypeOK
  <2>2. suspect' = suspect /\ task'[t].job = k /\ \A u \in Tasks \ {t} : task'[u] = task[u]
    BY <1>3, <2>0, <2>1 DEF Claim, TypeOK, TaskStates
  <2>3. row[k].status \in {"QUEUED", "PAUSED"} /\ row'[k].status = "RUNNING"
        /\ \A j \in Jobs \ {k} : row'[j] = row[j]
    BY <1>3, <2>0, <2>1 DEF Claim, TypeOK
  <2>4. \A u \in Tasks \ {t} : Executing(u)' <=> Executing(u)
    BY <2>2 DEF Executing
  <2>5. Executing(t)'
    <3>1. task'[t].pc = "running" /\ task'[t].outcome = task[t].outcome
      BY <1>3, <2>0, <2>1 DEF Claim, TypeOK, TaskStates
    <3>2. task[t].outcome # "unknown_actor"
      BY <1>3 DEF Claim, InFlightOK
    <3> QED BY <3>1, <3>2 DEF Executing
  <2>6. Follows(k)
    <3>1. CASE k \in suspect'
      BY <2>1, <3>1, Disowned
    <3>2. CASE k \notin suspect'
      <4>1. Executors(k) = {}
        BY <2>1, <2>2, <2>3, <3>2 DEF ExecutorHoldsLease, Executors
      <4>2. Executors(k)' = {t}
        BY <2>1, <2>2, <2>4, <2>5, <4>1 DEF Executors
      <4>3. "RUNNING" \in Lifecycle!LegalTransitions[row[k].status]
        BY <2>3 DEF Lifecycle!LegalTransitions, Lifecycle!Statuses
      <4>4. Lifecycle!Begin(k)
        BY <2>1, <2>2, <2>3, <3>2, <4>1, <4>2, <4>3, Visible DEF Lifecycle!Begin, Lifecycle!Becomes
      <4> QED BY <4>4 DEF Follows, Lifecycle!Move
    <3> QED BY <3>1, <3>2
  <2>7. ASSUME NEW j \in Jobs \ {k} PROVE Follows(j)
    <3>1. \A u \in Tasks : Executing(u)' /\ task'[u].job = j => Executing(u) /\ task[u].job = j
      BY <2>2, <2>4
    <3> QED BY <2>2, <2>3, <3>1, Disowned, NothingBegins
  <2> QED BY <2>6, <2>7
<1>4. ASSUME NEW t \in Tasks, RecordOutcome(t) PROVE \A j \in Jobs : Follows(j)
  <2>0. PICK k \in Jobs : k = task[t].job
    BY <1>4 DEF RecordOutcome, InFlightOK
  <2> DEFINE seen == task[t].seen
             new == Recorded(t)
  <2>1. task[t] \in TaskStates /\ seen \in Rows
    BY DEF TypeOK, TaskStates
  <2>2. suspect \subseteq suspect' /\ \A j \in Jobs \ {k} : row'[j] = row[j]
    BY <1>4, <2>0 DEF RecordOutcome, Commit, TypeOK
  <2>3. row'[k] = Flush(k, seen, new)
    BY <1>4, <2>0, <2>1 DEF RecordOutcome, Commit, TypeOK
  <2>4. ~Executing(t)' /\ \A u \in Tasks \ {t} : task'[u] = task[u]
    <3>1. task'[t] \in {NoTask, [NoTask EXCEPT !.pc = "clear", !.job = k],
                        [NoTask EXCEPT !.pc = "requeue", !.job = k]}
      BY <1>4, <2>0 DEF RecordOutcome, TypeOK
    <3>2. NoTask \in TaskStates /\ NoTask.pc = "idle"
      BY IdleTypes DEF NoTask
    <3>3. task'[t].pc \in {"idle", "clear", "requeue"}
      BY <3>1, <3>2 DEF TaskStates
    <3> QED BY <1>4, <3>3 DEF RecordOutcome, TypeOK, Executing
  <2>5. \A u \in Tasks : Executing(u)' => Executing(u) /\ task'[u].job = task[u].job
    BY <2>4 DEF Executing
  <2>6. Follows(k)
    <3>1. CASE k \in suspect'
      BY <2>1, <3>1, Disowned
    <3>2. CASE k \notin suspect' /\ task[t].outcome # "unknown_actor"
      <4>1. Executing(t) /\ t \in Executors(k)
        BY <1>4, <2>0, <3>2 DEF RecordOutcome, Executing, Executors
      <4>2. row[k].status = "RUNNING"
        BY <2>1, <2>2, <3>2, <4>1 DEF ExecutorHoldsLease
      <4>3. Executors(k)' = {}
        BY <2>1, <2>2, <2>4, <2>5, <3>2, <4>1 DEF SingleExecution, Executors
      <4>4. new.status \in {"COMPLETED", "CANCELLED", "PAUSED", "QUEUED", "FAILED"}
        BY <2>1 DEF Recorded, Rows
      <4>5. CASE new.status = seen.status
        <5>1. row'[k].status = row[k].status
          BY <2>3, <4>5 DEF Flush
        <5> QED BY <2>2, <2>5, <3>2, <5>1, NothingBegins
      <4>6. CASE new.status # seen.status
        <5>1. row'[k].status = new.status
          BY <2>3, <4>6 DEF Flush
        <5>2. Lifecycle!Finish(k)
          BY <2>2, <3>2, <4>1, <4>3, <4>4, <5>1, Visible
             DEF Lifecycle!Finish, Lifecycle!Becomes, Lifecycle!LegalTransitions, Lifecycle!Statuses
        <5> QED BY <5>2 DEF Follows, Lifecycle!Move
      <4> QED BY <4>5, <4>6
    <3>3. CASE k \notin suspect' /\ task[t].outcome = "unknown_actor"
      <4>1. seen.status \in {"QUEUED", "PAUSED"} /\ new.status = "FAILED"
        <5>1. seen.status \in {"QUEUED", "PAUSED"}
          BY <1>4, <3>3 DEF RecordOutcome, InFlightOK
        <5> QED BY <2>1, <3>3, <5>1 DEF Recorded, Retries, Rows
      <4>2. row[k].status = seen.status
        BY <1>4, <2>0, <3>3, <4>1 DEF RecordOutcome, Commit, Overtaken
      <4>3. row'[k].status = "FAILED"
        BY <2>3, <4>1 DEF Flush
      <4>4. Executors(k) = {} /\ Executors(k)' = {}
        BY <2>1, <2>2, <2>5, <3>3, <4>1, <4>2 DEF ExecutorHoldsLease, Executors
      <4>5. Lifecycle!Reject(k)
        BY <2>1, <2>2, <3>3, <4>1, <4>2, <4>3, <4>4, Visible DEF Lifecycle!Reject, Lifecycle!Becomes
      <4> QED BY <4>5 DEF Follows, Lifecycle!Move
    <3> QED BY <3>1, <3>2, <3>3
  <2>7. \A j \in Jobs \ {k} : Follows(j)
    BY <2>2, <2>5, Disowned, NothingBegins
  <2> QED BY <2>6, <2>7
<1>5. ASSUME NEW w \in Workers, RequeueStalled(w) PROVE \A j \in Jobs : Follows(j)
  <2> DEFINE s == sweep[w]
  <2>1. task' = task /\ suspect \subseteq suspect' /\ s \in Sweeps /\ s.found \subseteq Jobs
    BY <1>5 DEF RequeueStalled, TypeOK, Sweeps
  <2>2. \A t \in Tasks : Executing(t)' <=> Executing(t)
    BY <2>1 DEF Executing
  <2>3. ASSUME NEW k \in s.found, k \notin suspect' PROVE Follows(k)
    <3>1. s.seen[k].status = "RUNNING" /\ s.seen[k].leased # "FRESH" /\ s.seen[k] \in Rows
      BY <1>5, <2>1 DEF RequeueStalled, InFlightOK, Sweeps
    <3>2. row[k].status = "RUNNING" /\ row[k].leased # "FRESH"
      BY <1>5, <2>3, <3>1 DEF RequeueStalled, Overtaken
    <3>3. row'[k].status = "QUEUED"
      BY <1>5, <2>1, <3>1 DEF RequeueStalled, Flush, Requeued, Rows
    <3>4. Executors(k) = {} /\ Executors(k)' = {}
      BY <2>1, <2>2, <2>3, <3>2 DEF ExecutorHoldsLease, Executors
    <3>5. Lifecycle!Recover(k)
      BY <2>1, <2>3, <3>2, <3>3, <3>4, Visible DEF Lifecycle!Recover, Lifecycle!Becomes
    <3> QED BY <3>5 DEF Follows, Lifecycle!Move
  <2>4. \A j \in Jobs \ s.found : row'[j] = row[j]
    BY <1>5 DEF RequeueStalled
  <2>5. \A j \in Jobs \ s.found : Follows(j)
    BY <2>1, <2>2, <2>4, Disowned, NothingBegins
  <2> QED BY <2>1, <2>3, <2>5, Disowned
<1>6. ASSUME NEW t \in Tasks, Heartbeat(t) PROVE \A j \in Jobs : Follows(j)
  <2>1. task[t].job \in Jobs /\ UNCHANGED <<task, suspect>>
    BY <1>6 DEF Heartbeat, Executing, InFlightOK
  <2>2. \A j \in Jobs : row'[j].status = row[j].status
    BY <1>6, <2>1 DEF Heartbeat, TypeOK, Rows
  <2> QED BY <2>1, <2>2, NothingMoves DEF Executing
<1>7. ASSUME NEW k \in Jobs, LeaseRunsOut(k) PROVE \A j \in Jobs : Follows(j)
  <2>1. task' = task /\ suspect \subseteq suspect'
    BY <1>7 DEF LeaseRunsOut
  <2>2. \A j \in Jobs : row'[j].status = row[j].status
    BY <1>7 DEF LeaseRunsOut, TypeOK, Rows
  <2> QED BY <2>1, <2>2, NothingMoves DEF Executing
<1>8. ASSUME UNCHANGED <<row, suspect>>,
             \A t \in Tasks : Executing(t)' => Executing(t) /\ task'[t].job = task[t].job
      PROVE  \A j \in Jobs : Follows(j)
  BY <1>8, NothingMoves
<1>9. ASSUME UNCHANGED <<row, suspect, task>> PROVE \A j \in Jobs : Follows(j)
  BY <1>8, <1>9 DEF Executing
<1>10. ASSUME NEW t \in Tasks,
              \/ \E j \in Jobs : Dequeue(t, j)
              \/ SkipMessage(t) \/ UnknownActor(t) \/ DropControl(t) \/ RequeueDelayed(t) \/ TaskAborts(t)
       PROVE  \A j \in Jobs : Follows(j)
  <2>1. UNCHANGED <<row, suspect>> /\ \A u \in Tasks \ {t} : task'[u] = task[u]
    BY <1>10 DEF Dequeue, SkipMessage, UnknownActor, DropControl, RequeueDelayed, TaskAborts, TypeOK
  <2>2. ~Executing(t)'
    <3>1. ASSUME NEW j \in Jobs, Dequeue(t, j) PROVE task'[t].pc = "claiming"
      BY <3>1 DEF Dequeue, NoTask, TypeOK
    <3>2. CASE UnknownActor(t)
      BY <3>2 DEF UnknownActor, TypeOK, TaskStates, Executing
    <3>3. CASE SkipMessage(t) \/ DropControl(t) \/ RequeueDelayed(t) \/ TaskAborts(t)
      BY <3>3 DEF SkipMessage, DropControl, RequeueDelayed, TaskAborts, TypeOK, NoTask, Executing
    <3> QED BY <1>10, <3>1, <3>2, <3>3 DEF Executing
  <2>3. \A u \in Tasks : Executing(u)' => Executing(u) /\ task'[u].job = task[u].job
    BY <2>1, <2>2 DEF Executing
  <2> QED BY <1>8, <2>1, <2>3
<1>11. ASSUME NEW t \in Tasks,
              \/ StopAtSafePoint(t) \/ ReloadRow(t) \/ \E o \in ActorOutcomes : ActorEnds(t, o)
       PROVE  \A j \in Jobs : Follows(j)
  <2>1. UNCHANGED <<row, suspect>> /\ \A u \in Tasks \ {t} : task'[u] = task[u]
    BY <1>11 DEF StopAtSafePoint, ReloadRow, ActorEnds, TypeOK
  <2>2. Executing(t)' => Executing(t) /\ task'[t].job = task[t].job
    <3>1. CASE ReloadRow(t)
      BY <3>1 DEF ReloadRow, TypeOK, TaskStates, Executing, NoTask
    <3>2. CASE StopAtSafePoint(t) \/ \E o \in ActorOutcomes : ActorEnds(t, o)
      <4>1. task[t] \in TaskStates /\ task[t].pc = "running"
        BY <3>2 DEF StopAtSafePoint, ActorEnds, TypeOK
      <4>2. task'[t].job = task[t].job
        BY <3>2, <4>1 DEF StopAtSafePoint, ActorEnds, TypeOK, TaskStates
      <4>3. task[t].outcome # "unknown_actor"
        BY <4>1 DEF InFlightOK
      <4> QED BY <4>1, <4>2, <4>3 DEF Executing
    <3> QED BY <1>11, <3>1, <3>2
  <2>3. \A u \in Tasks : Executing(u)' => Executing(u) /\ task'[u].job = task[u].job
    BY <2>1, <2>2 DEF Executing
  <2> QED BY <1>8, <2>1, <2>3
<1>12. ASSUME NEW w \in Workers, WorkerCrash(w) PROVE \A j \in Jobs : Follows(j)
  <2>1. UNCHANGED <<row, suspect>> /\ \A t \in Tasks : task'[t] \in {NoTask, task[t]}
    BY <1>12 DEF WorkerCrash
  <2>2. \A t \in Tasks : Executing(t)' => Executing(t) /\ task'[t].job = task[t].job
    BY <2>1 DEF Executing, NoTask
  <2> QED BY <1>8, <2>1, <2>2
<1> QED
  BY <1>1, <1>2, <1>3, <1>4, <1>5, <1>6, <1>7, <1>9, <1>10, <1>11, <1>12
     DEF Next, RequestStep, TaskStep, SweepStep, LoadJob, SignalControl, ClearControl, EnqueueJob,
         LoseRequest, PromoteScheduled, DiscoverQueued, SweepStalled, SweepQueued, SweepEnqueue,
         SweepDone, SweepDies

(* Whatever operators, tasks, crashes, lost messages and sweeps do, a job that no   *)
(* writer overwrote from an out-of-date copy only ever makes the moves of its life   *)
(* cycle: LEGAL_TRANSITIONS, retry, recovery and rejection, one execution at a time.  *)
THEOREM LifecycleImplemented == Spec => ImplementsLifecycle
<1>1. Init => IInv
  BY IdleTypes, NoRowType, ConstantsAssumption
     DEF Init, IInv, TypeOK, InFlightOK, ExecutorHoldsLease, SingleExecution, Executors, Executing,
         NoRequest, NoTask, NoSweep, Stops
<1>2. IInv /\ [Next]_vars => IInv'
  BY TypeStep, InFlightStep, ExecutionStep DEF IInv
<1>3. Init => Lifecycle!LifecycleInit
  <2>1. ASSUME Init, NEW j \in Jobs PROVE row[j].status = "ABSENT" /\ Executors(j) = {} /\ suspect = {}
    BY <2>1 DEF Init, NoRow, NoTask, Executors, Executing
  <2> QED BY <2>1 DEF Init, Lifecycle!LifecycleInit, VisibleStatus, VisibleExecutors
<1>4. IInv /\ IInv' /\ [Next]_vars => [Lifecycle!LifecycleNext]_(Lifecycle!lifecycleVars)
  <2>1. ASSUME IInv, IInv', Next PROVE Lifecycle!LifecycleNext
    BY <2>1, StepFollows DEF Lifecycle!LifecycleNext, Follows
  <2>2. ASSUME UNCHANGED vars PROVE UNCHANGED Lifecycle!lifecycleVars
    BY <2>2 DEF vars, Lifecycle!lifecycleVars, VisibleStatus, VisibleExecutors, Executors, Executing
  <2> QED BY <2>1, <2>2
<1> QED BY <1>1, <1>2, <1>3, <1>4, PTL DEF Spec, ImplementsLifecycle, Lifecycle!LifecycleSpec
=============================================================================
