---------------------------- MODULE JobLifecycle ----------------------------
(***************************************************************************)
(* What the job engine promises about one scrape job, without queue, lease, *)
(* sweep or requests: its status and the tasks that execute it.  Statuses    *)
(* move along LEGAL_TRANSITIONS (models/scrape.py), and besides by a retry,    *)
(* by the recovery of a job whose task died and by the rejection of a job     *)
(* whose actor is not registered.  ScrapeJobs implements this.              *)
(*                                                                         *)
(* Jobs do not depend on each other: in a step each of them moves or stays.   *)
(***************************************************************************)
CONSTANTS
    Jobs,    \* scrape jobs
    Tasks    \* what executes them

VARIABLES
    status,     \* [Jobs -> Statuses]
    executing   \* [Jobs -> SUBSET Tasks]: tasks that run the actor of the job

lifecycleVars == <<status, executing>>

(* UNKNOWN: some writer stored an out-of-date copy of the row, or the lease ran   *)
(* out under a live task; nothing is promised about the job from then on.       *)
Statuses == {"ABSENT", "QUEUED", "RUNNING", "PAUSED", "COMPLETED", "FAILED", "CANCELLED", "UNKNOWN"}

LegalTransitions ==
    [from \in Statuses |->
        CASE from = "QUEUED"  -> {"RUNNING", "PAUSED", "CANCELLED"}
          [] from = "RUNNING" -> {"PAUSED", "COMPLETED", "FAILED", "CANCELLED"}
          [] from = "PAUSED"  -> {"RUNNING", "CANCELLED"}
          [] from = "FAILED"  -> {"QUEUED"}
          [] OTHER            -> {}]

Becomes(j, s, es) == status'[j] = s /\ executing'[j] = es

Submit(j) == status[j] = "ABSENT" /\ Becomes(j, "QUEUED", {})

(* A task takes the job: only when nobody executes it. *)
Begin(j) ==
    /\ "RUNNING" \in LegalTransitions[status[j]]
    /\ executing[j] = {}
    /\ \E t \in Tasks : Becomes(j, "RUNNING", {t})

(* Its execution ends with an outcome; QUEUED is a failed attempt to be retried. *)
Finish(j) ==
    /\ executing[j] # {}
    /\ \E s \in LegalTransitions["RUNNING"] \cup {"QUEUED"} : Becomes(j, s, {})

(* Its task dies; the job stays RUNNING until it is recovered. *)
Die(j) == status[j] = "RUNNING" /\ Becomes(j, "RUNNING", {})

Recover(j) == status[j] = "RUNNING" /\ executing[j] = {} /\ Becomes(j, "QUEUED", {})

(* An operator moves a job that is not RUNNING; the pause and the cancel of a     *)
(* RUNNING one are left to its task.                                          *)
Order(j) ==
    /\ status[j] # "RUNNING"
    /\ \E s \in LegalTransitions[status[j]] \ {"RUNNING"} : Becomes(j, s, {})

Reject(j) == status[j] \in {"QUEUED", "PAUSED"} /\ Becomes(j, "FAILED", {})

Disown(j) == Becomes(j, "UNKNOWN", {})

Stay(j) == Becomes(j, status[j], executing[j])

Move(j) ==
    \/ Submit(j) \/ Begin(j) \/ Finish(j) \/ Die(j)
    \/ Recover(j) \/ Order(j) \/ Reject(j) \/ Disown(j)

LifecycleInit ==
    /\ status = [j \in Jobs |-> "ABSENT"]
    /\ executing = [j \in Jobs |-> {}]

LifecycleNext == \A j \in Jobs : Stay(j) \/ Move(j)

LifecycleSpec == LifecycleInit /\ [][LifecycleNext]_lifecycleVars

=============================================================================
