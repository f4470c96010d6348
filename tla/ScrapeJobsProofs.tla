-------------------------- MODULE ScrapeJobsProofs --------------------------
(***************************************************************************)
(* Proofs about ScrapeJobs for every set of jobs, clients, workers and tasks  *)
(* and every bound: type correctness, and that a job which no writer has      *)
(* touched from an out-of-date row runs at most once at a time.              *)
(***************************************************************************)
EXTENDS ScrapeJobs, TLAPS

(* Requests, tasks and sweeps in flight name a job and hold a row from which   *)
(* the step they are at is possible.                                         *)
InFlightOK ==
    /\ \A c \in Clients : req[c].pc # "idle" => req[c].job \in Jobs
    /\ \A c \in Clients : req[c].pc = "loaded" =>
           req[c].op \in OperatorRequests /\ Permits(req[c].op, req[c].seen.status)
    /\ \A t \in Tasks : task[t].pc # "idle" => task[t].job \in Jobs
    /\ \A t \in Tasks : task[t].pc = "committing"
                           => task[t].seen.status \notin {"COMPLETED", "CANCELLED"}
    /\ \A t \in Tasks : task[t].pc = "committing" /\ task[t].outcome = "unknown_actor"
                           => task[t].seen.status \in {"QUEUED", "PAUSED"}
    /\ \A t \in Tasks : task[t].pc \in {"claiming", "running"} => task[t].outcome # "unknown_actor"
    /\ \A w \in Workers : \A j \in sweep[w].found :
           sweep[w].pc = "recover" =>
               sweep[w].seen[j].status = "RUNNING" /\ sweep[w].seen[j].leased # "FRESH"

IInv == TypeOK /\ InFlightOK /\ ExecutorHoldsLease /\ SingleExecution

(* What a flushed row is made of: each column is the loaded row's new value or  *)
(* the current one.                                                          *)
LEMMA FlushType ==
    ASSUME NEW j \in Jobs, row \in [Jobs -> Rows], NEW seen \in Rows, NEW new \in Rows
    PROVE  Flush(j, seen, new) \in Rows
BY DEF Flush, Rows

LEMMA NoRowType == NoRow \in Rows
BY DEF NoRow, Rows, JobStatus, Stops, Leases

LEMMA RequestedType ==
    ASSUME NEW op \in OperatorRequests, NEW seen \in Rows, Permits(op, seen.status)
    PROVE  Requested(op, seen) \in Rows
BY DEF Requested, Permits, Rows, JobStatus, Stops, OperatorRequests

LEMMA RecordedType ==
    ASSUME NEW t \in Tasks, task[t] \in TaskStates
    PROVE  Recorded(t) \in Rows
BY DEF Recorded, Rows, TaskStates, JobStatus, Stops, Leases, Retries

(* The idle records are records of their kinds. *)
LEMMA IdleTypes ==
    /\ NoRequest \in Requests
    /\ NoTask \in TaskStates
    /\ NoSweep \in Sweeps
BY NoRowType, ConstantsAssumption
   DEF NoRequest, Requests, RequestPcs, NoTask, TaskStates, TaskPcs, Outcomes,
       NoSweep, Sweeps, SweepPcs

(* Every step keeps the types. *)
LEMMA TypeStep ==
    ASSUME TypeOK, InFlightOK, [Next]_vars
    PROVE  TypeOK'
<1>0. CASE UNCHANGED vars
  BY <1>0 DEF TypeOK, vars
<1>1. ASSUME NEW c \in Clients, NEW j \in Jobs, CreateJob(c, j) PROVE TypeOK'
  <2>1. [row[j] EXCEPT !.status = "QUEUED"] \in Rows
    BY DEF TypeOK, Rows, JobStatus
  <2>2. [NoRequest EXCEPT !.pc = "enqueue", !.job = j] \in Requests
    BY IdleTypes DEF Requests, RequestPcs
  <2> QED BY <1>1, <2>1, <2>2 DEF CreateJob, TypeOK
<1>2. ASSUME NEW c \in Clients, NEW j \in Jobs, NEW op \in OperatorRequests, LoadJob(c, op, j)
      PROVE  TypeOK'
  <2>1. [pc |-> "loaded", op |-> op, job |-> j, seen |-> row[j]] \in Requests
    BY DEF TypeOK, Requests, RequestPcs
  <2> QED BY <1>2, <2>1, ConstantsAssumption DEF LoadJob, TypeOK
<1>3. ASSUME NEW c \in Clients, CommitRequest(c) PROVE TypeOK'
  <2> DEFINE r == req[c]
  <2>1. r \in Requests /\ r.job \in Jobs /\ r.seen \in Rows
    BY <1>3 DEF CommitRequest, TypeOK, InFlightOK, Requests
  <2>2. r.op \in OperatorRequests /\ Permits(r.op, r.seen.status)
    BY <1>3 DEF CommitRequest, InFlightOK
  <2>3. Flush(r.job, r.seen, Requested(r.op, r.seen)) \in Rows
    BY <2>1, <2>2, FlushType, RequestedType DEF TypeOK
  <2>4. [r EXCEPT !.pc = NextCall(r.op, r.seen), !.seen = NoRow] \in Requests
    BY <2>1, NoRowType DEF NextCall, Requests, RequestPcs
  <2>5. req' \in [Clients -> Requests]
    BY <1>3, <2>4 DEF CommitRequest, TypeOK
  <2>6. attempt' \in [Jobs -> 0..MaxAttempts]
    <3>1. 0 \in 0..MaxAttempts /\ attempt \in [Jobs -> 0..MaxAttempts]
      BY ConstantsAssumption DEF TypeOK
    <3>2. attempt' = [attempt EXCEPT ![r.job] = 0] \/ attempt' = attempt
      BY <1>3 DEF CommitRequest
    <3> QED BY <3>1, <3>2
  <2> QED BY <1>3, <2>1, <2>3, <2>5, <2>6 DEF CommitRequest, Commit, TypeOK
<1>4. ASSUME NEW c \in Clients,
             SignalControl(c) \/ ClearControl(c) \/ EnqueueJob(c) \/ LoseRequest(c)
      PROVE  TypeOK'
  <2>1. req[c] \in Requests /\ req[c].job \in Jobs
    BY <1>4 DEF SignalControl, ClearControl, EnqueueJob, LoseRequest, TypeOK, InFlightOK, RequestPcs
  <2>2. [req[c] EXCEPT !.pc = "enqueue"] \in Requests
    BY <2>1 DEF Requests, RequestPcs
  <2>3. req' \in [Clients -> Requests]
    BY <1>4, <2>1, <2>2, IdleTypes
       DEF SignalControl, ClearControl, EnqueueJob, LoseRequest, TypeOK
  <2>4. control' \in [Jobs -> Stops] /\ ready' \in [Jobs -> 0..MaxMessages] /\ losses' \in 0..MaxLosses
    BY <1>4, <2>1, ConstantsAssumption
       DEF SignalControl, ClearControl, EnqueueJob, LoseRequest, TypeOK, SetControl, Stops,
           ApiEnqueue, Enqueue, BrokerFails
  <2> QED BY <1>4, <2>3, <2>4 DEF SignalControl, ClearControl, EnqueueJob, LoseRequest, TypeOK
<1>5. ASSUME NEW t \in Tasks, NEW j \in Jobs, Dequeue(t, j) PROVE TypeOK'
  <2>1. [NoTask EXCEPT !.pc = "claiming", !.job = j] \in TaskStates
    BY IdleTypes DEF TaskStates, TaskPcs
  <2> QED BY <1>5, <2>1, ConstantsAssumption DEF Dequeue, TypeOK
<1>6. ASSUME NEW t \in Tasks, Claim(t) PROVE TypeOK'
  <2> DEFINE j == task[t].job
  <2>1. task[t] \in TaskStates /\ j \in Jobs
    BY <1>6 DEF Claim, TypeOK, InFlightOK
  <2>2. NextAttempt(attempt[j]) \in 0..MaxAttempts
    BY <2>1, ConstantsAssumption DEF NextAttempt, TypeOK
  <2>3. [status |-> "RUNNING", stop |-> "NONE", leased |-> "FRESH", owner |-> HomeOf[t]] \in Rows
    BY ConstantsAssumption DEF Rows, JobStatus, Stops, Leases
  <2>4. [task[t] EXCEPT !.pc = "running", !.attempt = NextAttempt(attempt[j])] \in TaskStates
    BY <2>1, <2>2 DEF TaskStates, TaskPcs
  <2> QED BY <1>6, <2>1, <2>2, <2>3, <2>4 DEF Claim, TypeOK
<1>7. ASSUME NEW t \in Tasks,
             \/ SkipMessage(t) \/ UnknownActor(t) \/ StopAtSafePoint(t)
             \/ \E o \in ActorOutcomes : ActorEnds(t, o)
             \/ ReloadRow(t) \/ DropControl(t) \/ RequeueDelayed(t) \/ TaskAborts(t)
      PROVE  TypeOK'
  <2>1. task[t] \in TaskStates /\ task[t].job \in Jobs
    BY <1>7 DEF SkipMessage, UnknownActor, StopAtSafePoint, ActorEnds, ReloadRow, DropControl,
                RequeueDelayed, TaskAborts, TypeOK, InFlightOK
  <2>2. \A o \in Outcomes : [task[t] EXCEPT !.pc = "finishing", !.outcome = o] \in TaskStates
    BY <2>1 DEF TaskStates, TaskPcs
  <2>3. [task[t] EXCEPT !.pc = "committing", !.seen = row[task[t].job]] \in TaskStates
    BY <2>1 DEF TaskStates, TaskPcs, TypeOK
  <2>4. task' \in [Tasks -> TaskStates]
    <3>1. CASE \/ SkipMessage(t) \/ DropControl(t) \/ RequeueDelayed(t) \/ TaskAborts(t)
      <4>1. task' = [task EXCEPT ![t] = NoTask]
        BY <3>1 DEF SkipMessage, DropControl, RequeueDelayed, TaskAborts
      <4> QED BY <1>7, <4>1, IdleTypes DEF TypeOK
    <3>2. CASE UnknownActor(t) \/ StopAtSafePoint(t) \/ \E o \in ActorOutcomes : ActorEnds(t, o)
      <4>1. \E o \in Outcomes : task' = [task EXCEPT ![t].pc = "finishing", ![t].outcome = o]
        BY <3>2 DEF UnknownActor, StopAtSafePoint, ActorEnds, ActorOutcomes, Outcomes
      <4>2. PICK o \in Outcomes : task' = [task EXCEPT ![t] = [task[t] EXCEPT !.pc = "finishing", !.outcome = o]]
        BY <4>1 DEF TypeOK
      <4> QED BY <1>7, <2>2, <4>2 DEF TypeOK
    <3>3. CASE ReloadRow(t)
      BY <1>7, <2>3, <3>3, IdleTypes DEF ReloadRow, TypeOK
    <3> QED BY <1>7, <3>1, <3>2, <3>3
  <2>5. control' \in [Jobs -> Stops] /\ losses' \in 0..MaxLosses /\ crashes' \in 0..MaxCrashes
    BY <1>7, <2>1, ConstantsAssumption
       DEF SkipMessage, UnknownActor, StopAtSafePoint, ActorEnds, ReloadRow, DropControl,
           RequeueDelayed, TaskAborts, TypeOK, SetControl, Stops, BrokerFails
  <2>6. delayed' \in SUBSET Jobs
    BY <1>7, <2>1
       DEF SkipMessage, UnknownActor, StopAtSafePoint, ActorEnds, ReloadRow, DropControl,
           RequeueDelayed, TaskAborts, TypeOK
  <2> QED BY <1>7, <2>4, <2>5, <2>6
          DEF SkipMessage, UnknownActor, StopAtSafePoint, ActorEnds, ReloadRow, DropControl,
              RequeueDelayed, TaskAborts, TypeOK
<1>8. ASSUME NEW t \in Tasks, RecordOutcome(t) PROVE TypeOK'
  <2>1. task[t] \in TaskStates /\ task[t].job \in Jobs /\ task[t].seen \in Rows
    BY <1>8 DEF RecordOutcome, TypeOK, InFlightOK, TaskStates
  <2>2. Flush(task[t].job, task[t].seen, Recorded(t)) \in Rows
    BY <2>1, FlushType, RecordedType DEF TypeOK
  <2>3. \A p \in TaskPcs : [NoTask EXCEPT !.pc = p, !.job = task[t].job] \in TaskStates
    BY <2>1, IdleTypes DEF TaskStates
  <2>4. task' \in [Tasks -> TaskStates]
    BY <1>8, <2>3, IdleTypes DEF RecordOutcome, TypeOK, TaskPcs
  <2> QED BY <1>8, <2>1, <2>2, <2>4 DEF RecordOutcome, Commit, TypeOK
<1>9. ASSUME NEW t \in Tasks, Heartbeat(t) PROVE TypeOK'
  <2>1. task[t].job \in Jobs
    BY <1>9 DEF Heartbeat, Executing, InFlightOK
  <2>2. [row[task[t].job] EXCEPT !.leased = "FRESH"] \in Rows
    BY <2>1 DEF TypeOK, Rows, Leases
  <2> QED BY <1>9, <2>1, <2>2 DEF Heartbeat, TypeOK
<1>10. ASSUME NEW j \in Jobs, PromoteScheduled(j) \/ DiscoverQueued(j) PROVE TypeOK'
  BY <1>10, ConstantsAssumption DEF PromoteScheduled, DiscoverQueued, Enqueue, BrokerFails, TypeOK
<1>11. ASSUME NEW j \in Jobs, LeaseRunsOut(j) PROVE TypeOK'
  <2>1. [row[j] EXCEPT !.leased = "STALE"] \in Rows
    BY DEF TypeOK, Rows, Leases
  <2> QED BY <1>11, <2>1, ConstantsAssumption DEF LeaseRunsOut, TypeOK
<1>12. ASSUME NEW w \in Workers, WorkerCrash(w) PROVE TypeOK'
  BY <1>12, IdleTypes, ConstantsAssumption DEF WorkerCrash, TypeOK
<1>13. ASSUME NEW w \in Workers, RequeueStalled(w) PROVE TypeOK'
  <2>1. sweep[w] \in Sweeps
    BY DEF TypeOK
  <2>2. \A j \in sweep[w].found : j \in Jobs /\ sweep[w].seen[j] \in Rows
    BY <2>1 DEF Sweeps
  <2>3. \A j \in sweep[w].found : Requeued(sweep[w].seen[j]) \in Rows
    BY <2>2 DEF Requeued, Rows, JobStatus, Leases, Stops
  <2>4. \A j \in sweep[w].found : Flush(j, sweep[w].seen[j], Requeued(sweep[w].seen[j])) \in Rows
    BY <2>2, <2>3, FlushType DEF TypeOK
  <2>5. [NoSweep EXCEPT !.pc = "requeued", !.found = sweep[w].found] \in Sweeps
    BY <2>1, IdleTypes DEF Sweeps, SweepPcs
  <2>6. row' \in [Jobs -> Rows] /\ suspect' \in SUBSET Jobs
    BY <1>13, <2>2, <2>4 DEF RequeueStalled, TypeOK
  <2> QED BY <1>13, <2>5, <2>6 DEF RequeueStalled, TypeOK
<1>14. ASSUME NEW w \in Workers,
              \/ SweepStalled(w) \/ SweepDone(w) \/ SweepDies(w)
              \/ \E old \in SUBSET Jobs : SweepQueued(w, old)
              \/ \E j \in Jobs : SweepEnqueue(w, j)
       PROVE  TypeOK'
  <2>1. sweep[w] \in Sweeps
    BY DEF TypeOK
  <2>2. [pc |-> "recover", found |-> {j \in Jobs : Stalled(j)},
         seen |-> [j \in Jobs |-> IF j \in {k \in Jobs : Stalled(k)} THEN row[j] ELSE NoRow]] \in Sweeps
    BY NoRowType DEF TypeOK, Sweeps, SweepPcs
  <2>3. \A found \in SUBSET Jobs : /\ [sweep[w] EXCEPT !.found = found] \in Sweeps
                                   /\ [sweep[w] EXCEPT !.pc = "enqueue", !.found = found] \in Sweeps
    BY <2>1 DEF Sweeps, SweepPcs
  <2>4. [NoSweep EXCEPT !.pc = "dead"] \in Sweeps
    BY IdleTypes DEF Sweeps, SweepPcs
  <2>5. sweep[w].found \in SUBSET Jobs
    BY <2>1 DEF Sweeps
  <2>6. sweep' \in [Workers -> Sweeps]
    <3>1. CASE SweepStalled(w)
      BY <3>1, <2>2 DEF SweepStalled, TypeOK
    <3>2. CASE SweepDone(w) \/ SweepDies(w)
      BY <3>2, <2>4, IdleTypes DEF SweepDone, SweepDies, TypeOK
    <3>3. ASSUME NEW old \in SUBSET Jobs, SweepQueued(w, old) PROVE sweep' \in [Workers -> Sweeps]
      BY <3>3, <2>3, <2>5 DEF SweepQueued, TypeOK
    <3>4. ASSUME NEW j \in Jobs, SweepEnqueue(w, j) PROVE sweep' \in [Workers -> Sweeps]
      BY <3>4, <2>3, <2>5 DEF SweepEnqueue, TypeOK
    <3> QED BY <1>14, <3>1, <3>2, <3>3, <3>4
  <2>7. ready' \in [Jobs -> 0..MaxMessages] /\ losses' \in 0..MaxLosses
    BY <1>14, ConstantsAssumption
       DEF SweepStalled, SweepDone, SweepDies, SweepQueued, SweepEnqueue, TypeOK, Enqueue, BrokerFails
  <2> QED BY <1>14, <2>6, <2>7
          DEF SweepStalled, SweepDone, SweepDies, SweepQueued, SweepEnqueue, TypeOK
<1> QED
  BY <1>0, <1>1, <1>2, <1>3, <1>4, <1>5, <1>6, <1>7, <1>8, <1>9, <1>10, <1>11, <1>12, <1>13, <1>14
     DEF Next, RequestStep, TaskStep, SweepStep

(* Every step keeps what processes in flight hold. *)
LEMMA InFlightStep ==
    ASSUME TypeOK, InFlightOK, [Next]_vars
    PROVE  InFlightOK'
<1>0. CASE UNCHANGED vars
  BY <1>0 DEF InFlightOK, vars
<1>1. ASSUME NEW c \in Clients, NEW j \in Jobs, CreateJob(c, j) PROVE InFlightOK'
  BY <1>1 DEF CreateJob, InFlightOK, NoRequest, TypeOK
<1>2. ASSUME NEW c \in Clients, NEW j \in Jobs, NEW op \in OperatorRequests, LoadJob(c, op, j)
      PROVE  InFlightOK'
  <2>1. req'[c] = [pc |-> "loaded", op |-> op, job |-> j, seen |-> row[j]]
    BY <1>2 DEF LoadJob, TypeOK
  <2>2. \A d \in Clients \ {c} : req'[d] = req[d]
    BY <1>2 DEF LoadJob, TypeOK
  <2> QED BY <1>2, <2>1, <2>2 DEF LoadJob, InFlightOK
<1>3. ASSUME NEW c \in Clients, RequestStep(c) \/ LoseRequest(c) PROVE InFlightOK'
  <2>1. req[c].pc # "idle" /\ req[c].job \in Jobs
    BY <1>3 DEF RequestStep, CommitRequest, SignalControl, ClearControl, EnqueueJob, LoseRequest, InFlightOK
  <2>2. req'[c].pc # "loaded" /\ (req'[c].pc # "idle" => req'[c].job = req[c].job)
    BY <1>3, <2>1 DEF RequestStep, CommitRequest, SignalControl, ClearControl, EnqueueJob,
                      LoseRequest, NextCall, NoRequest, TypeOK, Requests
  <2>3. \A d \in Clients \ {c} : req'[d] = req[d]
    BY <1>3 DEF RequestStep, CommitRequest, SignalControl, ClearControl, EnqueueJob, LoseRequest, TypeOK
  <2>4. UNCHANGED <<task, sweep>>
    BY <1>3 DEF RequestStep, CommitRequest, SignalControl, ClearControl, EnqueueJob, LoseRequest
  <2> QED BY <2>1, <2>2, <2>3, <2>4 DEF InFlightOK
<1>4. ASSUME NEW t \in Tasks, TaskStep(t) \/ UnknownActor(t) \/ Heartbeat(t) \/ TaskAborts(t)
      PROVE  InFlightOK'
  <2>1. UNCHANGED <<req, sweep>>
    BY <1>4 DEF TaskStep, Dequeue, Claim, SkipMessage, StopAtSafePoint, ActorEnds, ReloadRow,
                RecordOutcome, DropControl, RequeueDelayed, UnknownActor, Heartbeat, TaskAborts
  <2>2. \A u \in Tasks \ {t} : task'[u] = task[u]
    BY <1>4 DEF TaskStep, Dequeue, Claim, SkipMessage, StopAtSafePoint, ActorEnds, ReloadRow,
                RecordOutcome, DropControl, RequeueDelayed, UnknownActor, Heartbeat, TaskAborts, TypeOK
  <2>3. /\ task'[t].pc # "idle" => task'[t].job \in Jobs
        /\ task'[t].pc = "committing" => task'[t].seen.status \notin {"COMPLETED", "CANCELLED"}
        /\ task'[t].pc = "committing" /\ task'[t].outcome = "unknown_actor"
             => task'[t].seen.status \in {"QUEUED", "PAUSED"}
        /\ task'[t].pc \in {"claiming", "running"} => task'[t].outcome # "unknown_actor"
    <3>1. ASSUME NEW j \in Jobs, Dequeue(t, j)
          PROVE  task'[t].pc = "claiming" /\ task'[t].job = j /\ task'[t].outcome = "success"
      BY <3>1 DEF Dequeue, NoTask, TypeOK
    <3>2. CASE Claim(t) \/ UnknownActor(t) \/ StopAtSafePoint(t)
               \/ \E o \in ActorOutcomes : ActorEnds(t, o)
      <4>1. task[t] \in TaskStates /\ task[t].job \in Jobs
        BY <3>2 DEF Claim, UnknownActor, StopAtSafePoint, ActorEnds, TypeOK, InFlightOK
      <4>2. /\ task'[t].job = task[t].job /\ task'[t].pc \in {"running", "finishing"}
            /\ task'[t].pc = "running" => task[t].pc = "claiming" /\ task'[t].outcome = task[t].outcome
        BY <3>2, <4>1 DEF Claim, UnknownActor, StopAtSafePoint, ActorEnds, TypeOK, TaskStates
      <4> QED BY <4>1, <4>2 DEF InFlightOK
    <3>3. CASE ReloadRow(t)
      BY <3>3 DEF ReloadRow, Recordable, NoTask, TypeOK, TaskStates, Outcomes, InFlightOK
    <3>4. CASE RecordOutcome(t)
      <4>1. task[t].job \in Jobs
        BY <3>4 DEF RecordOutcome, InFlightOK
      <4>2. task'[t] \in {NoTask, [NoTask EXCEPT !.pc = "clear", !.job = task[t].job],
                          [NoTask EXCEPT !.pc = "requeue", !.job = task[t].job]}
        BY <3>4 DEF RecordOutcome, TypeOK
      <4>3. CASE task'[t] = NoTask
        BY <4>3 DEF NoTask
      <4>4. CASE task'[t] = [NoTask EXCEPT !.pc = "clear", !.job = task[t].job]
        BY <4>1, <4>4, IdleTypes DEF TaskStates
      <4>5. CASE task'[t] = [NoTask EXCEPT !.pc = "requeue", !.job = task[t].job]
        BY <4>1, <4>5, IdleTypes DEF TaskStates
      <4> QED BY <4>2, <4>3, <4>4, <4>5
    <3>5. CASE SkipMessage(t) \/ DropControl(t) \/ RequeueDelayed(t) \/ TaskAborts(t)
      BY <3>5 DEF SkipMessage, DropControl, RequeueDelayed, TaskAborts, NoTask, TypeOK
    <3>6. CASE Heartbeat(t)
      BY <3>6 DEF Heartbeat, InFlightOK
    <3> QED BY <1>4, <3>1, <3>2, <3>3, <3>4, <3>5, <3>6 DEF TaskStep
  <2> QED BY <2>1, <2>2, <2>3 DEF InFlightOK
<1>5. ASSUME NEW j \in Jobs, PromoteScheduled(j) \/ DiscoverQueued(j) \/ LeaseRunsOut(j) PROVE InFlightOK'
  BY <1>5 DEF PromoteScheduled, DiscoverQueued, LeaseRunsOut, InFlightOK
<1>6. ASSUME NEW w \in Workers, WorkerCrash(w) PROVE InFlightOK'
  BY <1>6 DEF WorkerCrash, InFlightOK, NoTask, NoSweep, TypeOK
<1>7. ASSUME NEW w \in Workers, SweepStep(w) \/ SweepDies(w) PROVE InFlightOK'
  <2>1. UNCHANGED <<req, task>>
    BY <1>7 DEF SweepStep, SweepStalled, RequeueStalled, SweepQueued, SweepEnqueue, SweepDone, SweepDies
  <2>2. \A v \in Workers \ {w} : sweep'[v] = sweep[v]
    BY <1>7 DEF SweepStep, SweepStalled, RequeueStalled, SweepQueued, SweepEnqueue, SweepDone,
                SweepDies, TypeOK
  <2>3. \A j \in sweep'[w].found : sweep'[w].pc = "recover" =>
           sweep'[w].seen[j].status = "RUNNING" /\ sweep'[w].seen[j].leased # "FRESH"
    <3>1. CASE SweepStalled(w)
      BY <3>1 DEF SweepStalled, Stalled, TypeOK
    <3>2. CASE RequeueStalled(w) \/ SweepDone(w) \/ SweepDies(w)
      <4>1. sweep'[w] \in {NoSweep, [NoSweep EXCEPT !.pc = "dead"],
                           [NoSweep EXCEPT !.pc = "requeued", !.found = sweep[w].found]}
        BY <3>2 DEF RequeueStalled, SweepDone, SweepDies, TypeOK
      <4>2. NoSweep \in Sweeps /\ NoSweep.pc = "idle"
        BY IdleTypes DEF NoSweep
      <4>3. sweep'[w].pc # "recover"
        BY <4>1, <4>2 DEF Sweeps
      <4> QED BY <4>3
    <3>3. ASSUME NEW old \in SUBSET Jobs, SweepQueued(w, old) PROVE sweep'[w].pc = "enqueue"
      BY <3>3 DEF SweepQueued, TypeOK, Sweeps
    <3>4. ASSUME NEW j \in Jobs, SweepEnqueue(w, j) PROVE sweep'[w].pc = "enqueue"
      BY <3>4 DEF SweepEnqueue, TypeOK, Sweeps
    <3> QED BY <1>7, <3>1, <3>2, <3>3, <3>4 DEF SweepStep
  <2> QED BY <2>1, <2>2, <2>3 DEF InFlightOK
<1> QED
  BY <1>0, <1>1, <1>2, <1>3, <1>4, <1>5, <1>6, <1>7 DEF Next

(* A step that starts no execution, and leaves status and lease alone in the    *)
(* rows whose execution goes on, keeps both execution invariants.             *)
LEMMA ExecutionFrame ==
    ASSUME ExecutorHoldsLease, SingleExecution,
           suspect \subseteq suspect',
           \A t \in Tasks : Executing(t)' => Executing(t) /\ task'[t].job = task[t].job,
           \A j \in Jobs \ suspect' : \A t \in Tasks :
               Executing(t)' /\ task'[t].job = j
                   => /\ row'[j].status = row[j].status
                      /\ row'[j].leased = row[j].leased
                      /\ row'[j].owner = row[j].owner
    PROVE  (ExecutorHoldsLease /\ SingleExecution)'
BY DEF ExecutorHoldsLease, SingleExecution, Executors

(* A request changes the status only of a row it loaded in another status than  *)
(* RUNNING, and never touches the lease.                                      *)
LEMMA RequestedEffect ==
    ASSUME NEW op \in OperatorRequests, NEW seen \in Rows, Permits(op, seen.status)
    PROVE  /\ Requested(op, seen).leased = seen.leased
           /\ Requested(op, seen).owner = seen.owner
           /\ Requested(op, seen).status # seen.status => seen.status # "RUNNING"
BY DEF Requested, Permits, Rows, OperatorRequests

(* Columns a writer did not change are written as they are. *)
LEMMA FlushKeeps ==
    ASSUME NEW j \in Jobs, NEW seen \in Rows, NEW new \in Rows
    PROVE  /\ new.status = seen.status => Flush(j, seen, new).status = row[j].status
           /\ new.leased = seen.leased => Flush(j, seen, new).leased = row[j].leased
           /\ new.owner = seen.owner => Flush(j, seen, new).owner = row[j].owner
BY DEF Flush

(* Every step keeps: at most one execution per unsuspected job, under its      *)
(* worker's live lease.                                                      *)
LEMMA ExecutionStep ==
    ASSUME TypeOK, InFlightOK, ExecutorHoldsLease, SingleExecution, [Next]_vars
    PROVE  (ExecutorHoldsLease /\ SingleExecution)'
<1> DEFINE Goal == (ExecutorHoldsLease /\ SingleExecution)'
<1>0. CASE UNCHANGED vars
  BY <1>0, ExecutionFrame DEF vars, Executing
<1>1. ASSUME NEW c \in Clients, NEW j \in Jobs, CreateJob(c, j) PROVE Goal
  <2>1. \A t \in Tasks : ~(Executing(t) /\ task[t].job = j /\ j \notin suspect)
    BY <1>1 DEF CreateJob, ExecutorHoldsLease, Executors
  <2> QED BY <1>1, <2>1, ExecutionFrame DEF CreateJob, Executing, TypeOK
<1>2. ASSUME NEW c \in Clients, NEW j \in Jobs, NEW op \in OperatorRequests, LoadJob(c, op, j) PROVE Goal
  BY <1>2, ExecutionFrame DEF LoadJob, Executing
<1>3. ASSUME NEW c \in Clients, CommitRequest(c) PROVE Goal
  <2> DEFINE r == req[c]
             new == Requested(r.op, r.seen)
  <2>1. r.job \in Jobs /\ r.seen \in Rows /\ r.op \in OperatorRequests /\ Permits(r.op, r.seen.status)
    BY <1>3 DEF CommitRequest, TypeOK, InFlightOK, Requests
  <2>2. new \in Rows /\ new.leased = r.seen.leased /\ new.owner = r.seen.owner
        /\ (new.status # r.seen.status => r.seen.status # "RUNNING")
    BY <2>1, RequestedType, RequestedEffect
  <2>3. task' = task /\ suspect \subseteq suspect'
    BY <1>3 DEF CommitRequest, Commit
  <2>4. row' = [row EXCEPT ![r.job] = Flush(r.job, r.seen, new)]
    BY <1>3 DEF CommitRequest, Commit
  <2>5. ASSUME NEW j \in Jobs \ suspect', NEW t \in Tasks, Executing(t), task[t].job = j
        PROVE  /\ row'[j].status = row[j].status
               /\ row'[j].leased = row[j].leased
               /\ row'[j].owner = row[j].owner
    <3>1. CASE j # r.job
      BY <2>4, <3>1 DEF TypeOK
    <3>2. CASE j = r.job
      <4>1. row'[j] = Flush(j, r.seen, new)
        BY <2>1, <2>4, <3>2 DEF TypeOK
      <4>2. row[j].status = "RUNNING"
        BY <2>3, <2>5 DEF ExecutorHoldsLease, Executors
      <4>3. new.status = r.seen.status
        BY <1>3, <2>2, <2>5, <3>2, <4>2 DEF CommitRequest, Commit, Overtaken
      <4> QED BY <2>1, <2>2, <4>1, <4>3, FlushKeeps
    <3> QED BY <3>1, <3>2
  <2> QED BY <2>3, <2>5, ExecutionFrame DEF Executing
<1>4. ASSUME NEW c \in Clients,
             SignalControl(c) \/ ClearControl(c) \/ EnqueueJob(c) \/ LoseRequest(c)
      PROVE  Goal
  <2>1. UNCHANGED <<row, task, suspect>>
    BY <1>4 DEF SignalControl, ClearControl, EnqueueJob, LoseRequest
  <2> QED BY <2>1, ExecutionFrame DEF Executing
<1>5. ASSUME NEW t \in Tasks, Claim(t) PROVE Goal
  <2> DEFINE j == task[t].job
  <2>1. j \in Jobs /\ task[t] \in TaskStates
    BY <1>5 DEF Claim, InFlightOK, TypeOK
  <2>2. suspect' = suspect /\ task'[t].job = j /\ \A u \in Tasks \ {t} : task'[u] = task[u]
    BY <1>5, <2>1 DEF Claim, TypeOK, TaskStates
  <2>3. \A k \in Jobs \ {j} : row'[k] = row[k]
    BY <1>5 DEF Claim, TypeOK
  <2>4. row'[j].status = "RUNNING" /\ row'[j].leased = "FRESH" /\ row'[j].owner = HomeOf[t]
    BY <1>5, <2>1 DEF Claim, TypeOK
  <2>5. j \notin suspect => \A u \in Tasks : ~(Executing(u) /\ task[u].job = j)
    BY <1>5, <2>1 DEF Claim, ExecutorHoldsLease, Executors
  <2>6. \A u \in Tasks \ {t} : Executing(u)' <=> Executing(u)
    BY <2>2 DEF Executing
  <2>7. \A k \in Jobs \ suspect : \A u \in Tasks \ {t} :
           Executing(u)' /\ task'[u].job = k => k # j /\ Executing(u) /\ task[u].job = k
    BY <2>2, <2>5, <2>6
  <2>8. ExecutorHoldsLease'
    BY <2>2, <2>3, <2>4, <2>7 DEF ExecutorHoldsLease, Executors
  <2>9. SingleExecution'
    BY <2>2, <2>7 DEF SingleExecution, Executors
  <2> QED BY <2>8, <2>9
<1>6. ASSUME NEW t \in Tasks, RecordOutcome(t) PROVE Goal
  <2> DEFINE j == task[t].job
  <2>1. j \in Jobs /\ suspect \subseteq suspect' /\ \A k \in Jobs \ {j} : row'[k] = row[k]
    BY <1>6 DEF RecordOutcome, Commit, InFlightOK, TypeOK
  <2>2. ~Executing(t)' /\ \A u \in Tasks \ {t} : task'[u] = task[u]
    <3>1. task'[t] \in {NoTask, [NoTask EXCEPT !.pc = "clear", !.job = j],
                        [NoTask EXCEPT !.pc = "requeue", !.job = j]}
      BY <1>6 DEF RecordOutcome, TypeOK
    <3>2. NoTask \in TaskStates /\ NoTask.pc = "idle"
      BY IdleTypes DEF NoTask
    <3>3. task'[t].pc \in {"idle", "clear", "requeue"}
      BY <3>1, <3>2 DEF TaskStates
    <3> QED BY <1>6, <3>3 DEF RecordOutcome, TypeOK, Executing
  <2>3. ASSUME j \notin suspect', NEW u \in Tasks \ {t}, Executing(u), task[u].job = j
        PROVE  FALSE
    <3>1. row[j].status = "RUNNING"
      BY <2>1, <2>3 DEF ExecutorHoldsLease, Executors
    <3>2. CASE task[t].outcome # "unknown_actor"
      BY <1>6, <2>1, <2>3, <3>2 DEF RecordOutcome, Executing, SingleExecution, Executors
    <3>3. CASE task[t].outcome = "unknown_actor"
      <4>1. task[t].seen.status \in {"QUEUED", "PAUSED"} /\ task[t].seen \in Rows
        BY <1>6, <3>3 DEF RecordOutcome, InFlightOK, TypeOK, TaskStates
      <4>2. Recorded(t).status = "FAILED"
        BY <3>3, <4>1 DEF Recorded, Retries, Rows
      <4> QED BY <1>6, <2>3, <3>1, <4>1, <4>2 DEF RecordOutcome, Commit, Overtaken
    <3> QED BY <3>2, <3>3
  <2> QED BY <2>1, <2>2, <2>3, ExecutionFrame DEF Executing
<1>7. ASSUME NEW t \in Tasks, Heartbeat(t) PROVE Goal
  <2>1. task[t].job \in Jobs /\ Executing(t) /\ UNCHANGED <<task, suspect>>
    BY <1>7 DEF Heartbeat, Executing, InFlightOK
  <2>2. task[t].job \notin suspect => row[task[t].job].leased = "FRESH"
    BY <2>1 DEF ExecutorHoldsLease, Executors
  <2>3. \A k \in Jobs \ suspect : /\ row'[k].status = row[k].status
                                  /\ row'[k].leased = row[k].leased
                                  /\ row'[k].owner = row[k].owner
    BY <1>7, <2>1, <2>2 DEF Heartbeat, TypeOK, Rows
  <2> QED BY <2>1, <2>3, ExecutionFrame DEF Executing
<1>8. ASSUME NEW t \in Tasks,
             \/ \E j \in Jobs : Dequeue(t, j)
             \/ SkipMessage(t) \/ UnknownActor(t) \/ DropControl(t) \/ RequeueDelayed(t) \/ TaskAborts(t)
      PROVE  Goal
  <2>1. UNCHANGED <<row, suspect>> /\ \A u \in Tasks \ {t} : task'[u] = task[u]
    BY <1>8 DEF Dequeue, SkipMessage, UnknownActor, DropControl, RequeueDelayed, TaskAborts, TypeOK
  <2>2. ~Executing(t)'
    <3>1. ASSUME NEW j \in Jobs, Dequeue(t, j) PROVE task'[t].pc = "claiming"
      BY <3>1 DEF Dequeue, NoTask, TypeOK
    <3>2. CASE UnknownActor(t)
      BY <3>2 DEF UnknownActor, TypeOK, TaskStates, Executing
    <3>3. CASE SkipMessage(t) \/ DropControl(t) \/ RequeueDelayed(t) \/ TaskAborts(t)
      BY <3>3 DEF SkipMessage, DropControl, RequeueDelayed, TaskAborts, TypeOK, NoTask, Executing
    <3> QED BY <1>8, <3>1, <3>2, <3>3 DEF Executing
  <2> QED BY <2>1, <2>2, ExecutionFrame DEF Executing
<1>9. ASSUME NEW t \in Tasks,
             \/ StopAtSafePoint(t) \/ ReloadRow(t) \/ \E o \in ActorOutcomes : ActorEnds(t, o)
      PROVE  Goal
  <2>1. UNCHANGED <<row, suspect>> /\ \A u \in Tasks \ {t} : task'[u] = task[u]
    BY <1>9 DEF StopAtSafePoint, ReloadRow, ActorEnds, TypeOK
  <2>2. Executing(t)' => Executing(t) /\ task'[t].job = task[t].job
    <3>1. CASE ReloadRow(t)
      BY <3>1 DEF ReloadRow, TypeOK, TaskStates, Executing, NoTask
    <3>2. CASE StopAtSafePoint(t) \/ \E o \in ActorOutcomes : ActorEnds(t, o)
      <4>1. task[t] \in TaskStates /\ task[t].pc = "running"
        BY <3>2 DEF StopAtSafePoint, ActorEnds, TypeOK
      <4>2. task'[t].job = task[t].job
        BY <3>2, <4>1 DEF StopAtSafePoint, ActorEnds, TypeOK, TaskStates
      <4>3. task[t].outcome # "unknown_actor"
        BY <4>1, <1>9 DEF InFlightOK
      <4> QED BY <4>1, <4>2, <4>3 DEF Executing
    <3> QED BY <1>9, <3>1, <3>2
  <2> QED BY <2>1, <2>2, ExecutionFrame DEF Executing
<1>10. ASSUME NEW j \in Jobs, PromoteScheduled(j) \/ DiscoverQueued(j) PROVE Goal
  BY <1>10, ExecutionFrame DEF PromoteScheduled, DiscoverQueued, Executing
<1>11. ASSUME NEW j \in Jobs, LeaseRunsOut(j) PROVE Goal
  <2>1. task' = task /\ suspect \subseteq suspect' /\ \A k \in Jobs \ {j} : row'[k] = row[k]
    BY <1>11 DEF LeaseRunsOut, TypeOK
  <2>2. j \notin suspect' => Executors(j) = {}
    BY <1>11 DEF LeaseRunsOut
  <2>3. \A t \in Tasks : (Executing(t)' <=> Executing(t)) /\ task'[t].job = task[t].job
    BY <2>1 DEF Executing
  <2> QED BY <2>1, <2>2, <2>3, ExecutionFrame DEF Executors
<1>12. ASSUME NEW w \in Workers, WorkerCrash(w) PROVE Goal
  <2>1. UNCHANGED <<row, suspect>> /\ \A t \in Tasks : task'[t] \in {NoTask, task[t]}
    BY <1>12 DEF WorkerCrash
  <2>2. \A t \in Tasks : Executing(t)' => task'[t] = task[t]
    BY <2>1 DEF Executing, NoTask
  <2> QED BY <2>1, <2>2, ExecutionFrame DEF Executing
<1>13. ASSUME NEW w \in Workers, RequeueStalled(w) PROVE Goal
  <2> DEFINE s == sweep[w]
  <2>1. task' = task /\ suspect \subseteq suspect' /\ s.found \subseteq Jobs
    BY <1>13 DEF RequeueStalled, TypeOK, Sweeps
  <2>2. \A k \in Jobs \ s.found : row'[k] = row[k]
    BY <1>13 DEF RequeueStalled
  <2>3. ASSUME NEW k \in s.found, k \notin suspect', NEW t \in Tasks, Executing(t), task[t].job = k
        PROVE  FALSE
    <3>1. row[k].status = "RUNNING" /\ row[k].leased = "FRESH"
      BY <2>1, <2>3 DEF ExecutorHoldsLease, Executors
    <3>2. s.seen[k].status = "RUNNING" /\ s.seen[k].leased # "FRESH"
      BY <1>13, <2>3 DEF RequeueStalled, InFlightOK
    <3> QED BY <1>13, <2>3, <3>1, <3>2 DEF RequeueStalled, Overtaken
  <2> QED BY <2>1, <2>2, <2>3, ExecutionFrame DEF Executing
<1>14. ASSUME NEW w \in Workers,
              \/ SweepStalled(w) \/ SweepDone(w) \/ SweepDies(w)
              \/ \E old \in SUBSET Jobs : SweepQueued(w, old)
              \/ \E j \in Jobs : SweepEnqueue(w, j)
       PROVE  Goal
  <2>1. UNCHANGED <<row, task, suspect>>
    BY <1>14 DEF SweepStalled, SweepDone, SweepDies, SweepQueued, SweepEnqueue
  <2> QED BY <2>1, ExecutionFrame DEF Executing
<1> QED
  BY <1>0, <1>1, <1>2, <1>3, <1>4, <1>5, <1>6, <1>7, <1>8, <1>9, <1>10, <1>11, <1>12, <1>13, <1>14
     DEF Next, RequestStep, TaskStep, SweepStep

(* The types of the specification hold in every reachable state. *)
THEOREM TypeCorrect == Spec => []TypeOK
<1> DEFINE Inv == TypeOK /\ InFlightOK
<1>1. Init => Inv
  BY IdleTypes, NoRowType, ConstantsAssumption
     DEF Init, TypeOK, InFlightOK, NoRequest, NoTask, NoSweep, Stops
<1>2. Inv /\ [Next]_vars => Inv'
  BY TypeStep, InFlightStep
<1> QED BY <1>1, <1>2, PTL DEF Spec

(* What the two theorems below follow from. *)
LEMMA ExecutionInvariant == Spec => []IInv
<1>1. Init => IInv
  BY IdleTypes, NoRowType, ConstantsAssumption
     DEF Init, IInv, TypeOK, InFlightOK, ExecutorHoldsLease, SingleExecution, Executors, Executing,
         NoRequest, NoTask, NoSweep, Stops
<1>2. IInv /\ [Next]_vars => IInv'
  BY TypeStep, InFlightStep, ExecutionStep DEF IInv
<1> QED BY <1>1, <1>2, PTL DEF Spec

(* A job whose row no writer overwrote from an out-of-date copy, and whose      *)
(* lease never ran out under a live task, is executed by at most one task at    *)
(* a time: the promise of JobRunner.claim and the lease renewal, for any        *)
(* number of jobs, operators, workers and tasks.                             *)
THEOREM SingleExecutionHolds == Spec => []SingleExecution
<1>1. IInv => SingleExecution
  BY DEF IInv
<1> QED BY <1>1, ExecutionInvariant, PTL

(* The row of a job that is executed says so: it is RUNNING and leased, unless a   *)
(* writer overwrote it from an out-of-date copy or the lease ran out.           *)
THEOREM ExecutorHoldsLeaseHolds == Spec => []ExecutorHoldsLease
<1>1. IInv => ExecutorHoldsLease
  BY DEF IInv
<1> QED BY <1>1, ExecutionInvariant, PTL

(* What a flush writes over an unchanged terminal status: a writer that loaded  *)
(* another status has been overtaken.                                        *)
LEMMA CommitKeepsTerminal ==
    ASSUME TypeOK, NEW j \in Jobs, NEW seen \in Rows, NEW new \in Rows, Commit(j, seen, new),
           seen.status \notin {"COMPLETED", "CANCELLED"}
    PROVE  TerminalKept
<1>1. \A k \in Jobs \ {j} : row'[k] = row[k]
  BY DEF Commit, TypeOK
<1>2. row'[j] = Flush(j, seen, new)
  BY DEF Commit, TypeOK
<1>3. ASSUME j \notin suspect', row[j].status \in {"COMPLETED", "CANCELLED"}
      PROVE  new.status = seen.status
  BY <1>3 DEF Commit, Overtaken
<1>4. ASSUME j \notin suspect', row[j].status \in {"COMPLETED", "CANCELLED"}
      PROVE  row'[j].status = row[j].status
  BY <1>2, <1>3, <1>4, FlushKeeps
<1> QED BY <1>1, <1>4 DEF TerminalKept

(* Completed and cancelled jobs stay so, except under a writer that loaded the  *)
(* row while it was still in another status.                                 *)
THEOREM TerminalIsFinalHolds == Spec => TerminalIsFinal
<1> DEFINE Inv == TypeOK /\ InFlightOK
<1>1. Init => Inv
  BY IdleTypes, NoRowType, ConstantsAssumption
     DEF Init, TypeOK, InFlightOK, NoRequest, NoTask, NoSweep, Stops
<1>2. Inv /\ [Next]_vars => Inv'
  BY TypeStep, InFlightStep
<1>3. ASSUME Inv, Next PROVE TerminalKept
  <2>1. ASSUME NEW c \in Clients, CommitRequest(c) PROVE TerminalKept
    <3> DEFINE r == req[c]
    <3>1. r.job \in Jobs /\ r.seen \in Rows /\ r.op \in OperatorRequests /\ Permits(r.op, r.seen.status)
      BY <1>3, <2>1 DEF CommitRequest, TypeOK, InFlightOK, Requests
    <3>2. r.seen.status \notin {"COMPLETED", "CANCELLED"}
      BY <3>1 DEF Permits, OperatorRequests
    <3> QED BY <1>3, <2>1, <3>1, <3>2, RequestedType, CommitKeepsTerminal DEF CommitRequest
  <2>2. ASSUME NEW t \in Tasks, RecordOutcome(t) PROVE TerminalKept
    <3>1. /\ task[t].job \in Jobs /\ task[t] \in TaskStates /\ task[t].seen \in Rows
          /\ task[t].seen.status \notin {"COMPLETED", "CANCELLED"}
      BY <1>3, <2>2 DEF RecordOutcome, TypeOK, InFlightOK, TaskStates
    <3> QED BY <1>3, <2>2, <3>1, RecordedType, CommitKeepsTerminal DEF RecordOutcome
  <2>3. ASSUME NEW w \in Workers, RequeueStalled(w) PROVE TerminalKept
    BY <1>3, <2>3 DEF RequeueStalled, Overtaken, InFlightOK, TerminalKept
  <2>4. ASSUME NEW c \in Clients, NEW j \in Jobs, CreateJob(c, j) PROVE TerminalKept
    BY <1>3, <2>4 DEF CreateJob, TypeOK, TerminalKept
  <2>5. ASSUME NEW t \in Tasks, Claim(t) PROVE TerminalKept
    BY <1>3, <2>5 DEF Claim, TypeOK, InFlightOK, TerminalKept
  <2>6. ASSUME NEW t \in Tasks, Heartbeat(t) PROVE TerminalKept
    BY <1>3, <2>6 DEF Heartbeat, Executing, TypeOK, InFlightOK, Rows, TerminalKept
  <2>7. ASSUME NEW j \in Jobs, LeaseRunsOut(j) PROVE TerminalKept
    BY <1>3, <2>7 DEF LeaseRunsOut, TypeOK, Rows, TerminalKept
  <2>8. CASE UNCHANGED row
    BY <2>8 DEF TerminalKept
  <2> QED
    BY <1>3, <2>1, <2>2, <2>3, <2>4, <2>5, <2>6, <2>7, <2>8
       DEF Next, RequestStep, TaskStep, SweepStep, LoadJob, SignalControl, ClearControl, EnqueueJob,
           LoseRequest, Dequeue, SkipMessage, UnknownActor, StopAtSafePoint, ActorEnds, ReloadRow,
           DropControl, RequeueDelayed, TaskAborts, PromoteScheduled, DiscoverQueued, WorkerCrash,
           SweepStalled, SweepQueued, SweepEnqueue, SweepDone, SweepDies
<1>4. Inv /\ [Next]_vars => [TerminalKept]_vars
  BY <1>3
<1> QED BY <1>1, <1>2, <1>4, PTL DEF Spec, TerminalIsFinal

=============================================================================
