----------------------------- MODULE ScrapeJobs -----------------------------
(***************************************************************************)
(* The scrape-job engine: the `scrape_jobs` row, the queue backend and its  *)
(* control keys, the operator requests of the API process (JobEngine), the  *)
(* job tasks of the worker processes (ScrapeWorker._process and             *)
(* JobRunner.execute) and the recovery sweep (JobEngine.recover_stalled).   *)
(*                                                                         *)
(* Every handler that loads a row, awaits and then commits is two steps:    *)
(* the loaded row is kept in the process (`seen`) and the commit writes the  *)
(* columns the handler changed, whatever the row has become meanwhile.      *)
(* JobRunner.claim is the one guarded UPDATE, hence one step.                *)
(***************************************************************************)
EXTENDS Naturals, FiniteSets

CONSTANTS
    Jobs,         \* scrape jobs
    Clients,      \* concurrent operator requests of the API process
    Workers,      \* worker processes (`python -m app.worker`)
    Tasks,        \* asyncio job tasks, QBIT_WORKER_MAX_CONCURRENT_JOBS per worker
    HomeOf,       \* the worker a task runs in
    Backend,      \* "redis" or "inprocess" (build_queue_backend)
    Operations,   \* operator requests used: subset of OperatorRequests
    LossSites,    \* where a broker call may fail: subset of Sites
    MaxAttempts,  \* scrape_jobs.max_attempts
    MaxMessages,  \* bound: messages of one job waiting in the queue
    MaxLosses,    \* bound: failed broker calls
    MaxCrashes,   \* bound: worker crashes, task aborts, renewals missed by live tasks
    MaxRequests,  \* bound: operator requests on existing jobs
    None          \* SQL NULL of lease_owner, and "no job"

OperatorRequests == {"pause", "resume", "cancel", "retry"}

Sites == {"request", "runner", "promote", "sweep"}

ASSUME ConstantsAssumption ==
    /\ HomeOf \in [Tasks -> Workers]
    /\ Backend \in {"redis", "inprocess"}
    /\ Operations \subseteq OperatorRequests
    /\ LossSites \subseteq Sites
    /\ MaxAttempts \in Nat \ {0}
    /\ MaxMessages \in Nat \ {0}
    /\ MaxLosses \in Nat
    /\ MaxCrashes \in Nat
    /\ MaxRequests \in Nat
    /\ None \notin Jobs
    /\ None \notin Workers

VARIABLES
    row,      \* [Jobs -> Rows]: the committed scrape_jobs row
    attempt,  \* [Jobs -> Nat]: its attempt column
    ready,    \* [Jobs -> Nat]: copies of the job id in the queue LIST
    delayed,  \* SUBSET Jobs: members of the scheduled ZSET
    control,  \* [Jobs -> Stops]: the control key of the queue backend
    req,      \* [Clients -> Requests]: operator request in flight
    task,     \* [Tasks -> TaskStates]: job task of a worker
    sweep,    \* [Workers -> Sweeps]: recovery sweep of a worker
    losses,   \* failed broker calls so far
    crashes,  \* crashes, aborts and missed renewals so far
    requests, \* operator requests so far
    suspect   \* history: jobs written from an out-of-date row, or whose
              \* lease ran out under a live task

vars == <<row, attempt, ready, delayed, control, req, task, sweep, losses,
          crashes, requests, suspect>>

----------------------------------------------------------------------------
(* The row.  `leased` abstracts leased_at: NULL, renewed within the lease    *)
(* time, or older.  ABSENT is the job that has not been created yet.         *)

JobStatus == {"QUEUED", "RUNNING", "PAUSED", "COMPLETED", "FAILED", "CANCELLED"}
Stops == {"NONE", "PAUSE", "CANCEL"}
Leases == {"NULL", "FRESH", "STALE"}

Rows == [status : JobStatus \cup {"ABSENT"}, stop : Stops, leased : Leases,
         owner : Workers \cup {None}]

NoRow == [status |-> "ABSENT", stop |-> "NONE", leased |-> "NULL",
          owner |-> None]

RequestPcs == {"idle", "loaded", "signal", "clear", "enqueue"}
Requests == [pc : RequestPcs, op : OperatorRequests \cup {"create"},
             job : Jobs \cup {None}, seen : Rows]
NoRequest == [pc |-> "idle", op |-> "create", job |-> None, seen |-> NoRow]

Outcomes == {"success", "cancelled", "paused", "retryable", "fatal", "unknown_actor"}
TaskPcs == {"idle", "claiming", "running", "finishing", "committing", "clear", "requeue"}
TaskStates == [pc : TaskPcs, job : Jobs \cup {None}, attempt : 0..MaxAttempts,
               outcome : Outcomes, seen : Rows]
NoTask == [pc |-> "idle", job |-> None, attempt |-> 0,
           outcome |-> "success", seen |-> NoRow]

SweepPcs == {"idle", "recover", "requeued", "enqueue", "dead"}
Sweeps == [pc : SweepPcs, seen : [Jobs -> Rows], found : SUBSET Jobs]
NoSweep == [pc |-> "idle", seen |-> [j \in Jobs |-> NoRow], found |-> {}]

(* A task between its claim and the commit of its outcome: the actor may be   *)
(* producing results, and the heartbeat renews the lease.                    *)
Executing(t) ==
    /\ task[t].pc \in {"running", "finishing", "committing"}
    /\ task[t].outcome # "unknown_actor"

Executors(j) == {t \in Tasks : Executing(t) /\ task[t].job = j}

(* The unit of work of the ORM: an UPDATE sets the columns whose value        *)
(* differs from the loaded one, and leaves the others as they are by now.     *)
Flush(j, seen, new) ==
    LET Column(c) == IF new[c] = seen[c] THEN row[j][c] ELSE new[c]
    IN  [status |-> Column("status"), stop |-> Column("stop"),
         leased |-> Column("leased"), owner |-> Column("owner")]

(* The row a writer acts on is no longer the row it loaded. *)
Overtaken(j, seen) ==
    \/ row[j].status # seen.status
    \/ seen.status = "RUNNING" /\ row[j].leased # seen.leased

(* Commit of one row's changes. *)
Commit(j, seen, new) ==
    /\ row' = [row EXCEPT ![j] = Flush(j, seen, new)]
    /\ suspect' = IF new.status # seen.status /\ Overtaken(j, seen)
                  THEN suspect \cup {j} ELSE suspect

----------------------------------------------------------------------------
(* Queue backend: LIST of job ids, ZSET of delayed ids, control keys.  With   *)
(* the in-process backend the API has its own queue and control dict, which   *)
(* the worker never sees; the worker's own queue is fed from QUEUED rows.     *)

Enqueue(j) ==
    /\ ready[j] < MaxMessages
    /\ ready' = [ready EXCEPT ![j] = @ + 1]

(* A broker call fails (connection lost): the caller's exception.            *)
BrokerFails(site) ==
    /\ site \in LossSites
    /\ losses < MaxLosses
    /\ losses' = losses + 1

ApiEnqueue(j) == IF Backend = "redis" THEN Enqueue(j) ELSE UNCHANGED ready

SetControl(j, value) ==
    control' = IF Backend = "redis" THEN [control EXCEPT ![j] = value] ELSE control

(* A due delayed id moves to the LIST at the head of dequeue; the ZREM and     *)
(* the RPUSH are separate calls, so a failure between them drops the id.      *)
PromoteScheduled(j) ==
    /\ j \in delayed
    /\ delayed' = delayed \ {j}
    /\ \/ Enqueue(j) /\ UNCHANGED losses
       \/ BrokerFails("promote") /\ UNCHANGED ready
    /\ UNCHANGED <<row, attempt, control, req, task, sweep, crashes, requests, suspect>>

(* Mutant: only rows that were never leased are discovered. *)
DiscoverNeverLeased(j) ==
    /\ Backend = "inprocess"
    /\ row[j].status = "QUEUED" /\ row[j].leased = "NULL"
    /\ \A k \in Jobs : ready[k] = 0
    /\ Enqueue(j)
    /\ UNCHANGED <<row, attempt, delayed, control, req, task, sweep, losses, crashes, requests, suspect>>

(* InProcessQueueBackend._discover_queued: a QUEUED row is put on the          *)
(* worker's own queue when that queue is empty.                              *)
DiscoverQueued(j) ==
    /\ Backend = "inprocess"
    /\ row[j].status = "QUEUED"
    /\ \A k \in Jobs : ready[k] = 0
    /\ Enqueue(j)
    /\ UNCHANGED <<row, attempt, delayed, control, req, task, sweep, losses, crashes, requests, suspect>>

----------------------------------------------------------------------------
(* Operator requests (JobEngine in the API process). *)

(* create_job: the row is committed first, the enqueue is a later step.       *)
CreateJob(c, j) ==
    /\ req[c].pc = "idle"
    /\ row[j].status = "ABSENT"
    /\ row' = [row EXCEPT ![j].status = "QUEUED"]
    /\ req' = [req EXCEPT ![c] = [NoRequest EXCEPT !.pc = "enqueue", !.job = j]]
    /\ UNCHANGED <<attempt, ready, delayed, control, task, sweep, losses, crashes, requests, suspect>>

(* The states from which each request does not raise ConflictError. *)
Permits(op, status) ==
    CASE op = "pause"  -> status \in {"QUEUED", "RUNNING"}
      [] op = "resume" -> status = "PAUSED"
      [] op = "cancel" -> status \in {"QUEUED", "PAUSED", "RUNNING"}
      [] op = "retry"  -> status = "FAILED"

(* The request loads the job and passes the handler's status check. *)
LoadJob(c, op, j) ==
    /\ req[c].pc = "idle"
    /\ op \in Operations
    /\ Permits(op, row[j].status)
    /\ requests < MaxRequests
    /\ requests' = requests + 1
    /\ req' = [req EXCEPT ![c] = [pc |-> "loaded", op |-> op, job |-> j, seen |-> row[j]]]
    /\ UNCHANGED <<row, attempt, ready, delayed, control, task, sweep, losses, crashes, suspect>>

(* Mutant: the pause of a running job stores the job status as its flag. *)
RequestedStatusAsFlag(op, seen) ==
    CASE op = "pause" /\ seen.status = "QUEUED" -> [seen EXCEPT !.status = "PAUSED"]
      [] op = "pause" /\ seen.status # "QUEUED" -> [seen EXCEPT !.stop = "PAUSED"]
      [] op = "resume"                          -> [seen EXCEPT !.stop = "NONE"]
      [] op = "cancel" /\ seen.status # "RUNNING" -> [seen EXCEPT !.status = "CANCELLED"]
      [] op = "cancel" /\ seen.status = "RUNNING" -> [seen EXCEPT !.stop = "CANCEL"]
      [] op = "retry" -> [seen EXCEPT !.status = "QUEUED", !.stop = "NONE"]

(* Mutant: cancel moves a RUNNING job at once, under its task. *)
RequestedCancelAtOnce(op, seen) ==
    CASE op = "pause" /\ seen.status = "QUEUED" -> [seen EXCEPT !.status = "PAUSED"]
      [] op = "pause" /\ seen.status # "QUEUED" -> [seen EXCEPT !.stop = "PAUSE"]
      [] op = "resume"                          -> [seen EXCEPT !.stop = "NONE"]
      [] op = "cancel"                          -> [seen EXCEPT !.status = "CANCELLED"]
      [] op = "retry" -> [seen EXCEPT !.status = "QUEUED", !.stop = "NONE"]

(* The row each request commits, from the row it loaded. *)
Requested(op, seen) ==
    CASE op = "pause" /\ seen.status = "QUEUED" -> [seen EXCEPT !.status = "PAUSED"]
      [] op = "pause" /\ seen.status # "QUEUED" -> [seen EXCEPT !.stop = "PAUSE"]
      [] op = "resume"                          -> [seen EXCEPT !.stop = "NONE"]
      [] op = "cancel" /\ seen.status # "RUNNING" -> [seen EXCEPT !.status = "CANCELLED"]
      [] op = "cancel" /\ seen.status = "RUNNING" -> [seen EXCEPT !.stop = "CANCEL"]
      [] op = "retry" -> [seen EXCEPT !.status = "QUEUED", !.stop = "NONE"]

(* What follows the commit: the control key is set for a running job, deleted  *)
(* otherwise; retry goes straight to the enqueue.                            *)
NextCall(op, seen) ==
    IF op = "retry" THEN "enqueue"
    ELSE IF seen.status = "RUNNING" THEN "signal" ELSE "clear"

CommitRequest(c) ==
    LET r == req[c] IN
    /\ r.pc = "loaded"
    /\ Commit(r.job, r.seen, Requested(r.op, r.seen))
    /\ attempt' = IF r.op = "retry" THEN [attempt EXCEPT ![r.job] = 0] ELSE attempt
    /\ req' = [req EXCEPT ![c].pc = NextCall(r.op, r.seen), ![c].seen = NoRow]
    /\ UNCHANGED <<ready, delayed, control, task, sweep, losses, crashes, requests>>

SignalControl(c) ==
    /\ req[c].pc = "signal"
    /\ SetControl(req[c].job, IF req[c].op = "pause" THEN "PAUSE" ELSE "CANCEL")
    /\ req' = [req EXCEPT ![c] = NoRequest]
    /\ UNCHANGED <<row, attempt, ready, delayed, task, sweep, losses, crashes, requests, suspect>>

(* Mutant: resume ends with the control key, without the enqueue. *)
ClearControlOnly(c) ==
    /\ req[c].pc = "clear"
    /\ SetControl(req[c].job, "NONE")
    /\ req' = [req EXCEPT ![c] = NoRequest]
    /\ UNCHANGED <<row, attempt, ready, delayed, task, sweep, losses, crashes, requests, suspect>>

ClearControl(c) ==
    /\ req[c].pc = "clear"
    /\ SetControl(req[c].job, "NONE")
    /\ req' = [req EXCEPT ![c] = IF req[c].op = "resume"
                                 THEN [req[c] EXCEPT !.pc = "enqueue"] ELSE NoRequest]
    /\ UNCHANGED <<row, attempt, ready, delayed, task, sweep, losses, crashes, requests, suspect>>

EnqueueJob(c) ==
    /\ req[c].pc = "enqueue"
    /\ ApiEnqueue(req[c].job)
    /\ req' = [req EXCEPT ![c] = NoRequest]
    /\ UNCHANGED <<row, attempt, delayed, control, task, sweep, losses, crashes, requests, suspect>>

(* The broker call after the commit fails, or the API process dies there. *)
LoseRequest(c) ==
    /\ req[c].pc \in {"signal", "clear", "enqueue"}
    /\ BrokerFails("request")
    /\ req' = [req EXCEPT ![c] = NoRequest]
    /\ UNCHANGED <<row, attempt, ready, delayed, control, task, sweep, crashes, requests, suspect>>

----------------------------------------------------------------------------
(* Job tasks (ScrapeWorker._process, JobRunner.execute). *)

Dequeue(t, j) ==
    /\ task[t].pc = "idle"
    /\ ready[j] > 0
    /\ ready' = [ready EXCEPT ![j] = @ - 1]
    /\ task' = [task EXCEPT ![t] = [NoTask EXCEPT !.pc = "claiming", !.job = j]]
    /\ UNCHANGED <<row, attempt, delayed, control, req, sweep, losses, crashes, requests, suspect>>

(* attempt + 1, counted up to max_attempts: only attempt >= max_attempts is    *)
(* ever asked of it.                                                         *)
NextAttempt(a) == IF a < MaxAttempts THEN a + 1 ELSE a

(* Mutant: the UPDATE lost its WHERE status IN (QUEUED, PAUSED). *)
ClaimUnguarded(t) ==
    LET j == task[t].job IN
    /\ task[t].pc = "claiming"
    /\ row' = [row EXCEPT ![j] = [status |-> "RUNNING", stop |-> "NONE", leased |-> "FRESH",
                                  owner |-> HomeOf[t]]]
    /\ attempt' = [attempt EXCEPT ![j] = NextAttempt(@)]
    /\ task' = [task EXCEPT ![t].pc = "running", ![t].attempt = NextAttempt(attempt[j])]
    /\ UNCHANGED <<ready, delayed, control, req, sweep, losses, crashes, requests, suspect>>

(* The single guarded UPDATE: claimed iff the row is QUEUED or PAUSED. *)
Claim(t) ==
    LET j == task[t].job IN
    /\ task[t].pc = "claiming"
    /\ row[j].status \in {"QUEUED", "PAUSED"}
    /\ row' = [row EXCEPT ![j] = [status |-> "RUNNING", stop |-> "NONE", leased |-> "FRESH",
                                  owner |-> HomeOf[t]]]
    /\ attempt' = [attempt EXCEPT ![j] = NextAttempt(@)]
    /\ task' = [task EXCEPT ![t].pc = "running", ![t].attempt = NextAttempt(attempt[j])]
    /\ UNCHANGED <<ready, delayed, control, req, sweep, losses, crashes, requests, suspect>>

(* rowcount # 1: the message is dropped ("SKIP"). *)
SkipMessage(t) ==
    /\ task[t].pc = "claiming"
    /\ row[task[t].job].status \notin {"QUEUED", "PAUSED"}
    /\ task' = [task EXCEPT ![t] = NoTask]
    /\ UNCHANGED <<row, attempt, ready, delayed, control, req, sweep, losses, crashes, requests, suspect>>

(* The actor is unregistered or disabled: fail without claiming. *)
UnknownActor(t) ==
    /\ task[t].pc = "claiming"
    /\ task' = [task EXCEPT ![t].pc = "finishing", ![t].outcome = "unknown_actor"]
    /\ UNCHANGED <<row, attempt, ready, delayed, control, req, sweep, losses, crashes, requests, suspect>>

(* ControlReader: the control key, else the durable stop_requested column. *)
ControlFlag(j) == IF control[j] # "NONE" THEN control[j] ELSE row[j].stop

(* check_stopped at a safe point. *)
StopAtSafePoint(t) ==
    LET flag == ControlFlag(task[t].job) IN
    /\ task[t].pc = "running"
    /\ flag # "NONE"
    /\ task' = [task EXCEPT ![t].pc = "finishing",
                            ![t].outcome = IF flag = "CANCEL" THEN "cancelled" ELSE "paused"]
    /\ UNCHANGED <<row, attempt, ready, delayed, control, req, sweep, losses, crashes, requests, suspect>>

(* actor.run ends: exhausted or at a limit ("success"), wall-clock budget or   *)
(* worker drain ("paused"), a retryable or a fatal error.                     *)
ActorEnds(t, outcome) ==
    /\ task[t].pc = "running"
    /\ task' = [task EXCEPT ![t].pc = "finishing", ![t].outcome = outcome]
    /\ UNCHANGED <<row, attempt, ready, delayed, control, req, sweep, losses, crashes, requests, suspect>>

ActorOutcomes == {"success", "paused", "retryable", "fatal"}

(* A retryable error past its last attempt is final. *)
Retries(t) == task[t].outcome = "retryable" /\ task[t].attempt < MaxAttempts

(* Mutant: _fail_unknown_actor only spares jobs that are RUNNING. *)
RecordableUnlessRunning(t) ==
    IF task[t].outcome = "unknown_actor" THEN JobStatus \ {"RUNNING"} ELSE {"RUNNING", "QUEUED"}

(* The statuses in which each outcome may still be recorded. *)
Recordable(t) ==
    CASE task[t].outcome = "success"       -> {"RUNNING"}
      [] task[t].outcome = "cancelled"     -> JobStatus \ {"COMPLETED", "CANCELLED"}
      [] task[t].outcome = "paused"        -> {"RUNNING", "QUEUED"}
      [] task[t].outcome = "fatal"         -> {"RUNNING", "QUEUED"}
      [] task[t].outcome = "retryable"     -> IF Retries(t) THEN {"RUNNING"} ELSE {"RUNNING", "QUEUED"}
      [] task[t].outcome = "unknown_actor" -> {"QUEUED", "PAUSED"}

(* _finish_* and _schedule_retry read the row afresh ... *)
ReloadRow(t) ==
    LET j == task[t].job IN
    /\ task[t].pc = "finishing"
    /\ task' = [task EXCEPT ![t] = IF row[j].status \in Recordable(t)
                                   THEN [task[t] EXCEPT !.pc = "committing", !.seen = row[j]]
                                   ELSE NoTask]
    /\ UNCHANGED <<row, attempt, ready, delayed, control, req, sweep, losses, crashes, requests, suspect>>

Recorded(t) ==
    LET seen == task[t].seen IN
    CASE task[t].outcome = "success"   -> [seen EXCEPT !.status = "COMPLETED", !.stop = "NONE"]
      [] task[t].outcome = "cancelled" -> [seen EXCEPT !.status = "CANCELLED", !.stop = "NONE"]
      [] task[t].outcome = "paused"    -> [seen EXCEPT !.status = "PAUSED", !.stop = "NONE"]
      [] Retries(t) -> [seen EXCEPT !.status = "QUEUED", !.stop = "NONE",
                                    !.owner = None, !.leased = "NULL"]
      [] OTHER      -> [seen EXCEPT !.status = "FAILED"]

(* ... and commit the outcome; a stopped job then drops its control key, a      *)
(* retried one is enqueued with a delay.                                      *)
RecordOutcome(t) ==
    /\ task[t].pc = "committing"
    /\ Commit(task[t].job, task[t].seen, Recorded(t))
    /\ task' = [task EXCEPT ![t] =
                  CASE task[t].outcome \in {"cancelled", "paused"} ->
                         [NoTask EXCEPT !.pc = "clear", !.job = task[t].job]
                    [] Retries(t) -> [NoTask EXCEPT !.pc = "requeue", !.job = task[t].job]
                    [] OTHER      -> NoTask]
    /\ UNCHANGED <<attempt, ready, delayed, control, req, sweep, losses, crashes, requests>>

DropControl(t) ==
    /\ task[t].pc = "clear"
    /\ SetControl(task[t].job, "NONE")
    /\ task' = [task EXCEPT ![t] = NoTask]
    /\ UNCHANGED <<row, attempt, ready, delayed, req, sweep, losses, crashes, requests, suspect>>

RequeueDelayed(t) ==
    /\ task[t].pc = "requeue"
    /\ \/ delayed' = delayed \cup {task[t].job} /\ UNCHANGED losses
       \/ BrokerFails("runner") /\ UNCHANGED delayed
    /\ task' = [task EXCEPT ![t] = NoTask]
    /\ UNCHANGED <<row, attempt, ready, control, req, sweep, crashes, requests, suspect>>

(* _renew_db_lease: only the owner, only while RUNNING. *)
Heartbeat(t) ==
    LET j == task[t].job IN
    /\ Executing(t)
    /\ row[j].status = "RUNNING"
    /\ row[j].owner = HomeOf[t]
    /\ row' = [row EXCEPT ![j].leased = "FRESH"]
    /\ UNCHANGED <<attempt, ready, delayed, control, req, task, sweep, losses, crashes, requests, suspect>>

(* QBIT_WORKER_LEASE_SECONDS pass without a renewal (the age of leased_at is    *)
(* only ever asked of a RUNNING row).                                        *)
LeaseRunsOut(j) ==
    /\ row[j].status = "RUNNING"
    /\ row[j].leased = "FRESH"
    /\ row' = [row EXCEPT ![j].leased = "STALE"]
    /\ IF Executors(j) = {}
       THEN UNCHANGED <<crashes, suspect>>
       ELSE /\ crashes < MaxCrashes
            /\ crashes' = crashes + 1
            /\ suspect' = suspect \cup {j}
    /\ UNCHANGED <<attempt, ready, delayed, control, req, task, sweep, losses, requests>>

(* An exception escapes the runner (a failed commit, a cancelled task): the    *)
(* task ends, its row stays as it is.                                        *)
TaskAborts(t) ==
    /\ task[t].pc # "idle"
    /\ crashes < MaxCrashes
    /\ crashes' = crashes + 1
    /\ task' = [task EXCEPT ![t] = NoTask]
    /\ UNCHANGED <<row, attempt, ready, delayed, control, req, sweep, losses, requests, suspect>>

(* The worker process dies and is restarted: its tasks, its sweep and, with    *)
(* the in-process backend, its queue are gone.                               *)
WorkerCrash(w) ==
    /\ crashes < MaxCrashes
    /\ crashes' = crashes + 1
    /\ task' = [t \in Tasks |-> IF HomeOf[t] = w THEN NoTask ELSE task[t]]
    /\ sweep' = [sweep EXCEPT ![w] = NoSweep]
    /\ ready' = IF Backend = "redis" THEN ready ELSE [j \in Jobs |-> 0]
    /\ delayed' = IF Backend = "redis" THEN delayed ELSE {}
    /\ UNCHANGED <<row, attempt, control, req, losses, requests, suspect>>

----------------------------------------------------------------------------
(* The recovery sweep (recover_stalled, at start and periodically). *)

(* Mutants: the sweep takes every RUNNING job; it only knows missing leases. *)
StalledIfRunning(j) == row[j].status = "RUNNING"
StalledIfUnleased(j) == row[j].status = "RUNNING" /\ row[j].leased = "NULL"

(* RUNNING with an expired or missing lease. *)
Stalled(j) == row[j].status = "RUNNING" /\ row[j].leased # "FRESH"

(* Mutant: a QUEUED row counts as orphaned once its lease is old. *)
OrphanedIfStale(j) == row[j].status = "QUEUED" /\ row[j].leased = "STALE"

(* QUEUED, never leased since: an enqueue that may have been lost.  Every such  *)
(* row is old enough by some sweep; the choice in SweepQueued covers the age.  *)
Orphaned(j) == row[j].status = "QUEUED" /\ row[j].leased = "NULL"

(* The first half finds crashed jobs (a sweep that finds none is its second    *)
(* half alone) ...                                                           *)
SweepStalled(w) ==
    LET found == {j \in Jobs : Stalled(j)} IN
    /\ sweep[w].pc = "idle"
    /\ found # {}
    /\ sweep' = [sweep EXCEPT ![w] =
                    [pc |-> "recover", found |-> found,
                     seen |-> [j \in Jobs |-> IF j \in found THEN row[j] ELSE NoRow]]]
    /\ UNCHANGED <<row, attempt, ready, delayed, control, req, task, losses, crashes, requests, suspect>>

Requeued(seen) == [seen EXCEPT !.status = "QUEUED", !.owner = None,
                               !.leased = "NULL", !.stop = "NONE"]

RequeueStalled(w) ==
    LET s == sweep[w] IN
    /\ s.pc = "recover"
    /\ row' = [j \in Jobs |-> IF j \in s.found THEN Flush(j, s.seen[j], Requeued(s.seen[j]))
                                               ELSE row[j]]
    /\ suspect' = suspect \cup {j \in s.found : Overtaken(j, s.seen[j])}
    /\ sweep' = [sweep EXCEPT ![w] = [NoSweep EXCEPT !.pc = "requeued", !.found = s.found]]
    /\ UNCHANGED <<attempt, ready, delayed, control, req, task, losses, crashes, requests>>

(* ... the second half adds orphaned ones; then each is enqueued. *)
SweepQueued(w, old) ==
    /\ sweep[w].pc \in {"idle", "requeued"}
    /\ \A j \in old : Orphaned(j)
    /\ sweep[w].found \cup old # {}
    /\ sweep' = [sweep EXCEPT ![w].pc = "enqueue", ![w].found = @ \cup old]
    /\ UNCHANGED <<row, attempt, ready, delayed, control, req, task, losses, crashes, requests, suspect>>

SweepEnqueue(w, j) ==
    /\ sweep[w].pc = "enqueue"
    /\ j \in sweep[w].found
    /\ Enqueue(j)
    /\ sweep' = [sweep EXCEPT ![w].found = @ \ {j}]
    /\ UNCHANGED <<row, attempt, delayed, control, req, task, losses, crashes, requests, suspect>>

SweepDone(w) ==
    /\ sweep[w].pc = "enqueue"
    /\ sweep[w].found = {}
    /\ sweep' = [sweep EXCEPT ![w] = NoSweep]
    /\ UNCHANGED <<row, attempt, ready, delayed, control, req, task, losses, crashes, requests, suspect>>

(* The loop of _periodic_sweep has no handler: an exception of an enqueue ends  *)
(* it for the life of the worker process.                                    *)
SweepDies(w) ==
    /\ sweep[w].pc = "enqueue"
    /\ sweep[w].found # {}
    /\ BrokerFails("sweep")
    /\ sweep' = [sweep EXCEPT ![w] = [NoSweep EXCEPT !.pc = "dead"]]
    /\ UNCHANGED <<row, attempt, ready, delayed, control, req, task, crashes, requests, suspect>>

----------------------------------------------------------------------------
Init ==
    /\ row = [j \in Jobs |-> NoRow]
    /\ attempt = [j \in Jobs |-> 0]
    /\ ready = [j \in Jobs |-> 0]
    /\ delayed = {}
    /\ control = [j \in Jobs |-> "NONE"]
    /\ req = [c \in Clients |-> NoRequest]
    /\ task = [t \in Tasks |-> NoTask]
    /\ sweep = [w \in Workers |-> NoSweep]
    /\ losses = 0
    /\ crashes = 0
    /\ requests = 0
    /\ suspect = {}

RequestStep(c) ==
    \/ CommitRequest(c) \/ SignalControl(c) \/ ClearControl(c) \/ EnqueueJob(c)

TaskStep(t) ==
    \/ \E j \in Jobs : Dequeue(t, j)
    \/ Claim(t) \/ SkipMessage(t)
    \/ StopAtSafePoint(t)
    \/ \E o \in ActorOutcomes : ActorEnds(t, o)
    \/ ReloadRow(t) \/ RecordOutcome(t) \/ DropControl(t) \/ RequeueDelayed(t)

SweepStep(w) ==
    \/ SweepStalled(w) \/ RequeueStalled(w)
    \/ \E old \in SUBSET Jobs : SweepQueued(w, old)
    \/ \E j \in Jobs : SweepEnqueue(w, j)
    \/ SweepDone(w)

Next ==
    \/ \E c \in Clients, j \in Jobs : CreateJob(c, j)
    \/ \E c \in Clients, j \in Jobs, op \in OperatorRequests : LoadJob(c, op, j)
    \/ \E c \in Clients : RequestStep(c) \/ LoseRequest(c)
    \/ \E t \in Tasks : TaskStep(t) \/ UnknownActor(t) \/ Heartbeat(t) \/ TaskAborts(t)
    \/ \E j \in Jobs : PromoteScheduled(j) \/ DiscoverQueued(j) \/ LeaseRunsOut(j)
    \/ \E w \in Workers : SweepStep(w) \/ SweepDies(w) \/ WorkerCrash(w)

Spec == Init /\ [][Next]_vars

----------------------------------------------------------------------------
TypeOK ==
    /\ row \in [Jobs -> Rows]
    /\ attempt \in [Jobs -> 0..MaxAttempts]
    /\ ready \in [Jobs -> 0..MaxMessages]
    /\ delayed \in SUBSET Jobs
    /\ control \in [Jobs -> Stops]
    /\ req \in [Clients -> Requests]
    /\ task \in [Tasks -> TaskStates]
    /\ sweep \in [Workers -> Sweeps]
    /\ losses \in 0..MaxLosses
    /\ crashes \in 0..MaxCrashes
    /\ requests \in 0..MaxRequests
    /\ suspect \in SUBSET Jobs

(* One execution per job (queue.py: "double-dispatch across workers remains   *)
(* impossible"): two tasks run the actor of one job only after some writer    *)
(* committed from an out-of-date row, or a lease ran out under a live task.   *)
SingleExecution ==
    \A j \in Jobs \ suspect : \A s, t \in Executors(j) : s = t

(* resume(): "the status always reflects a worker reality": while a task      *)
(* runs the actor of a job, the row is RUNNING with a live lease of that      *)
(* task's worker, under the same exceptions.                                 *)
ExecutorHoldsLease ==
    \A j \in Jobs \ suspect : \A t \in Executors(j) :
        /\ row[j].status = "RUNNING"
        /\ row[j].leased = "FRESH"
        /\ row[j].owner = HomeOf[t]

TerminalKept ==
    \A j \in Jobs \ suspect' :
        row[j].status \in {"COMPLETED", "CANCELLED"} => row'[j].status = row[j].status

(* LEGAL_TRANSITIONS: COMPLETED and CANCELLED rows never change status again,  *)
(* unless the writer had loaded the row before it got there.                  *)
TerminalIsFinal == [][TerminalKept]_vars

----------------------------------------------------------------------------
(* Liveness.  API requests run to their end, tasks make progress (an actor     *)
(* yields, ends or raises), leases age, and every worker keeps sweeping; each  *)
(* old QUEUED row is seen by some sweep.  Operators, faults and lookups of      *)
(* disabled actors get no fairness.                                          *)

Fairness ==
    /\ \A c \in Clients : WF_vars(RequestStep(c))
    /\ \A t \in Tasks : WF_vars(TaskStep(t))
    /\ \A j \in Jobs : WF_vars(PromoteScheduled(j)) /\ WF_vars(DiscoverQueued(j))
                       /\ WF_vars(LeaseRunsOut(j))
    /\ \A w \in Workers :
         /\ WF_vars(SweepStalled(w)) /\ WF_vars(RequeueStalled(w)) /\ WF_vars(SweepDone(w))
         /\ SF_vars(SweepQueued(w, {j \in Jobs : Orphaned(j)}))
         /\ \A j \in Jobs : WF_vars(SweepEnqueue(w, j))

FairSpec == Spec /\ Fairness

(* queue.py: "a broker loss never loses a job - the recovery sweep re-enqueues *)
(* orphans": a QUEUED job is claimed, or leaves the queue by an operator's      *)
(* request or a failure.                                                     *)
QueuedIsServed ==
    \A j \in Jobs : row[j].status = "QUEUED" ~> row[j].status # "QUEUED"

(* Crash recovery: no job stays RUNNING forever, whatever happens to its task. *)
RunningEnds ==
    \A j \in Jobs : row[j].status = "RUNNING" ~> row[j].status # "RUNNING"

(* engine.py, resume: a resume whose row is committed gets the job out of PAUSED, *)
(* unless a broker call failed or a worker died (the message is all there is).  *)
ResumeIsServed ==
    \A c \in Clients, j \in Jobs :
        (req[c].pc = "clear" /\ req[c].op = "resume" /\ req[c].job = j)
            ~> row[j].status # "PAUSED" \/ losses > 0 \/ crashes > 0

=============================================================================
