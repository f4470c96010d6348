---------------------------- MODULE MCScrapeJobs ----------------------------
(* Instances of ScrapeJobs for TLC: one job, tasks placed on one worker or    *)
(* on two.                                                                  *)
EXTENDS ScrapeJobsLifecycle

CONSTANTS w1, w2, t1, t2

OneWorker == [t \in Tasks |-> w1]

TwoWorkers == [t \in Tasks |-> IF t = t1 THEN w1 ELSE w2]

TaskSymmetry == {[t \in Tasks |-> t], [t \in Tasks |-> IF t = t1 THEN t2 ELSE t1]}
=============================================================================
