------------------------ MODULE ScrapeJobsLifecycle -------------------------
(* ScrapeJobs implements JobLifecycle: the refinement mapping. *)
EXTENDS ScrapeJobs

(* The status of the committed row, as long as something is promised about it. *)
VisibleStatus == [j \in Jobs |-> IF j \in suspect THEN "UNKNOWN" ELSE row[j].status]

VisibleExecutors == [j \in Jobs |-> IF j \in suspect THEN {} ELSE Executors(j)]

Lifecycle == INSTANCE JobLifecycle WITH status <- VisibleStatus, executing <- VisibleExecutors

(* The engine with its queue, leases, requests, crashes and sweeps does to a job   *)
(* only what the life cycle allows: no request, retry or recovery moves the status  *)
(* off LEGAL_TRANSITIONS, begins a second execution or changes the status of a job   *)
(* under its execution.                                                       *)
ImplementsLifecycle == Lifecycle!LifecycleSpec
=============================================================================
