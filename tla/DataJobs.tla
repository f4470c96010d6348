------------------------------- MODULE DataJobs -------------------------------
(***************************************************************************)
(* Lead imports and exports: batches uploaded and mapped by requests, run      *)
(* inline by the request or claimed by a DataJobWorker, and swept when the      *)
(* lease of a claim is old.  A session keeps the row it loaded; nothing renews *)
(* or checks the lease during a run.                                          *)
(***************************************************************************)
EXTENDS Naturals, FiniteSets

CONSTANTS
    Imports, Exports,    \* ids of import_batches and of lead_exports rows
    JobWorkers,          \* DataJobWorker processes
    JobRequests,         \* HTTP requests in progress at once
    ImportRows,          \* rows of an imported file, each a chunk of its own
    LeadCount,           \* leads in the workspace, in order of creation
    ChunkRows,           \* CHUNK: leads an export reads at once
    MaxJobs, MaxJobFaults, MaxRetired   \* bounds

ASSUME DataJobsAssumption ==
    /\ Imports \cap Exports = {} /\ Imports \cup Exports # {} /\ JobWorkers \cap JobRequests = {}
    /\ LeadCount \in Nat /\ ChunkRows \in Nat \ {0} /\ ImportRows \in Nat
    /\ MaxJobs \in Nat /\ MaxJobFaults \in Nat /\ MaxRetired \in Nat

VARIABLES
    job,        \* [DataJobIds -> JobRows]
    runner,     \* [Runners -> RunnerStates]
    copies,     \* [Imports -> [1..ImportRows -> Nat]]: leads inserted for a row of the file
    inFilter,   \* [1..LeadCount -> BOOLEAN]: the lead is neither merged nor archived
    file,       \* [Exports -> the stored file: {} or {how often it lists each lead}]
    jobFaults, retired,
    shared,     \* history: jobs a request began to run that were no longer QUEUED
    shifted     \* history: exports during which a lead left the filter

jobVars == <<job, runner, copies, inFilter, file, jobFaults, retired, shared, shifted>>

----------------------------------------------------------------------------
DataJobIds == Imports \cup Exports
Runners == JobWorkers \cup JobRequests
JobStatus == {"NONE", "QUEUED", "PROCESSING", "COMPLETED", "PARTIAL", "FAILED"}
Finished == {"COMPLETED", "PARTIAL", "FAILED"}
(* leased_at: set by a claim and by a worker's run, never by an inline run, never cleared. *)
LeaseAges == {"none", "fresh", "old"}
(* options: the duplicate strategy stored with the mapping, "unmapped" before. *)
Strategies == {"SKIP_DUPLICATES", "CREATE_NEW"}
JobRows == [status : JobStatus, options : Strategies \cup {"unmapped"}, lease : LeaseAges]
NoJob == [status |-> "NONE", options |-> "unmapped", lease |-> "none"]

RunnerSteps == {"idle", "claimed", "mapped", "rows", "finish"}
(* copy: the row as this session has it; next: the next row, or the offset and one;    *)
(* verdict: what _import_row decided about the next row; invalid: a row was rejected;   *)
(* listed: how often the file lists a lead.                                           *)
Verdicts == {"none", "insert", "skip"}
RunnerStates == [step : RunnerSteps, j : DataJobIds, copy : JobRows, next : Nat,
                 invalid : BOOLEAN, verdict : Verdicts, listed : [1..LeadCount -> Nat]]
NoneListed == [l \in 1..LeadCount |-> 0]
IdleRunner == [step |-> "idle", j |-> CHOOSE j \in DataJobIds : TRUE, copy |-> NoJob, next |-> 1,
               invalid |-> FALSE, verdict |-> "none", listed |-> NoneListed]

JobsInit ==
    /\ job = [j \in DataJobIds |-> NoJob]
    /\ runner = [r \in Runners |-> IdleRunner]
    /\ copies = [j \in Imports |-> [n \in 1..ImportRows |-> 0]]
    /\ inFilter = [l \in 1..LeadCount |-> TRUE]
    /\ file = [j \in Exports |-> {}]
    /\ jobFaults = 0 /\ retired = 0 /\ shared = {} /\ shifted = {}

MoreJobs == Cardinality({j \in DataJobIds : job[j].status # "NONE"}) < MaxJobs
Stop(r) == runner' = [runner EXCEPT ![r] = IdleRunner]
RunsNow(j) == {r \in Runners : runner[r].step \in {"rows", "finish"} /\ runner[r].j = j}

(* create_batch, LeadExportService.create: the rows they insert. *)
NewBatch == [NoJob EXCEPT !.status = "QUEUED"]
NewExport == [NoJob EXCEPT !.status = "QUEUED", !.options = "CREATE_NEW"]

(* start_import: the batch is QUEUED before its columns are mapped. *)
StartImport(j) ==
    /\ j \in Imports /\ job[j].status = "NONE" /\ MoreJobs
    /\ job' = [job EXCEPT ![j] = NewBatch]
    /\ UNCHANGED <<runner, copies, inFilter, file, jobFaults, retired, shared, shifted>>

(* map_import: the mapping is committed whatever the status of the batch; run checks the *)
(* status the request loaded.                                                          *)
MapImport(q, j, strategy) ==
    /\ j \in Imports /\ job[j].status # "NONE"
    /\ runner[q].step = "idle"
    /\ job' = [job EXCEPT ![j].options = strategy]
    /\ runner' = [runner EXCEPT ![q] = [IdleRunner EXCEPT
           !.step = "mapped", !.j = j, !.copy = job'[j]]]
    /\ UNCHANGED <<copies, inFilter, file, jobFaults, retired, shared, shifted>>

(* import_map_submit of the UI never runs the batch.  It checked that the batch was    *)
(* QUEUED when it loaded it; its commit may come later.                               *)
MapImportPage(j, strategy) ==
    /\ j \in Imports /\ job[j].status # "NONE"
    /\ job' = [job EXCEPT ![j].options = strategy]
    /\ UNCHANGED <<runner, copies, inFilter, file, jobFaults, retired, shared, shifted>>

(* create_export: counted next, then run inline or left queued. *)
CreateExport(q, j) ==
    /\ j \in Exports /\ job[j].status = "NONE" /\ MoreJobs
    /\ runner[q].step = "idle"
    /\ job' = [job EXCEPT ![j] = NewExport]
    /\ runner' = [runner EXCEPT ![q] = [IdleRunner EXCEPT
           !.step = "mapped", !.j = j, !.copy = job'[j]]]
    /\ UNCHANGED <<copies, inFilter, file, jobFaults, retired, shared, shifted>>

(* More rows than the inline limit: the request ends and the job waits for a worker. *)
LeaveQueued(q) ==
    /\ runner[q].step = "mapped"
    /\ Stop(q)
    /\ UNCHANGED <<job, copies, inFilter, file, jobFaults, retired, shared, shifted>>

(* Mutant: the claim writes the row it selected without checking it is still QUEUED. *)
ClaimUnguarded(w, j) ==
    /\ runner[w].step = "idle"
    /\ job[j].status \in {"QUEUED", "PROCESSING"}
    /\ job' = [job EXCEPT ![j].status = "PROCESSING", ![j].lease = "fresh"]
    /\ runner' = [runner EXCEPT ![w] = [IdleRunner EXCEPT
           !.step = "claimed", !.j = j, !.copy = job'[j]]]
    /\ UNCHANGED <<copies, inFilter, file, jobFaults, retired, shared, shifted>>

(* claim_next: the guarded UPDATE and its commit; the session's row follows it. *)
Claim(w, j) ==
    /\ runner[w].step = "idle"
    /\ job[j].status = "QUEUED"
    /\ job' = [job EXCEPT ![j].status = "PROCESSING", ![j].lease = "fresh"]
    /\ runner' = [runner EXCEPT ![w] = [IdleRunner EXCEPT
           !.step = "claimed", !.j = j, !.copy = job'[j]]]
    /\ UNCHANGED <<copies, inFilter, file, jobFaults, retired, shared, shifted>>

(* run of a batch or an export: refused unless the loaded status is runnable; a worker  *)
(* renews the lease once; a batch without a mapping raises and stays PROCESSING.        *)
RunJob(r) ==
    LET s == runner[r] IN
    /\ s.step \in {"claimed", "mapped"}
    /\ IF s.copy.status \notin {"QUEUED", "PROCESSING"}
       THEN Stop(r) /\ UNCHANGED <<job, shared>>
       ELSE /\ job' = [job EXCEPT
                 ![s.j].status = IF s.copy.status = "PROCESSING" THEN @ ELSE "PROCESSING",
                 ![s.j].lease = IF r \in JobWorkers THEN "fresh" ELSE @]
            /\ shared' = IF r \in JobRequests /\ job[s.j].status # "QUEUED"
                         THEN shared \cup {s.j}
                         ELSE shared
            /\ IF s.copy.options # "unmapped"
               THEN runner' = [runner EXCEPT ![r].step = "rows",
                                             ![r].copy.status = "PROCESSING"]
               ELSE Stop(r)
    /\ UNCHANGED <<copies, inFilter, file, jobFaults, retired, shifted>>

(* _import_row looks for a matching lead; nothing locks what it found. *)
MatchRow(r) ==
    LET s == runner[r] IN
    /\ s.step = "rows" /\ s.j \in Imports /\ s.next <= ImportRows /\ s.verdict = "none"
    /\ runner' = [runner EXCEPT ![r].verdict =
           IF s.copy.options = "SKIP_DUPLICATES" /\ copies[s.j][s.next] > 0
           THEN "skip" ELSE "insert"]
    /\ UNCHANGED <<job, copies, inFilter, file, jobFaults, retired, shared, shifted>>

(* The row is inserted, or skipped as a duplicate, and _flush commits the chunk. *)
FlushRow(r) ==
    LET s == runner[r] IN
    /\ s.step = "rows" /\ s.j \in Imports /\ s.next <= ImportRows /\ s.verdict # "none"
    /\ copies' = IF s.verdict = "insert" THEN [copies EXCEPT ![s.j][s.next] = @ + 1] ELSE copies
    /\ runner' = [runner EXCEPT ![r].next = @ + 1, ![r].verdict = "none"]
    /\ UNCHANGED <<job, inFilter, file, jobFaults, retired, shared, shifted>>

(* A row without a name, or with a bad field, is rejected. *)
RejectRow(r) ==
    LET s == runner[r] IN
    /\ s.step = "rows" /\ s.j \in Imports /\ s.next <= ImportRows /\ s.verdict = "none"
    /\ jobFaults < MaxJobFaults /\ jobFaults' = jobFaults + 1
    /\ runner' = [runner EXCEPT ![r].next = @ + 1, ![r].invalid = TRUE]
    /\ UNCHANGED <<job, copies, inFilter, file, retired, shared, shifted>>

(* The leads the next chunk reads: offset and limit over what is in the filter now. *)
Chunk(offset) ==
    {l \in 1..LeadCount : inFilter[l] /\
        LET before == Cardinality({k \in 1..(l - 1) : inFilter[k]})
        IN before >= offset /\ before < offset + ChunkRows}

(* The loop of the export's run: a chunk is read, written and the progress committed. *)
WriteChunk(r) ==
    LET s == runner[r] IN
    /\ s.step = "rows" /\ s.j \in Exports
    /\ runner' = IF Chunk(s.next - 1) = {}
                 THEN [runner EXCEPT ![r].step = "finish"]
                 ELSE [runner EXCEPT ![r].next = @ + ChunkRows,
                           ![r].listed = [l \in 1..LeadCount |->
                               IF l \in Chunk(s.next - 1) THEN s.listed[l] + 1 ELSE s.listed[l]]]
    /\ UNCHANGED <<job, copies, inFilter, file, jobFaults, retired, shared, shifted>>

(* Another request archives or merges a lead. *)
RetireLead(l) ==
    /\ inFilter[l] /\ retired < MaxRetired
    /\ retired' = retired + 1
    /\ inFilter' = [inFilter EXCEPT ![l] = FALSE]
    /\ shifted' = shifted \cup {j \in Exports : RunsNow(j) # {}}
    /\ UNCHANGED <<job, runner, copies, file, jobFaults, shared>>

(* The end of a run: a blind write of the final status. *)
FinishImport(r) ==
    LET s == runner[r] IN
    /\ s.step = "rows" /\ s.j \in Imports /\ s.next > ImportRows
    /\ job' = [job EXCEPT ![s.j].status = IF s.invalid THEN "PARTIAL" ELSE "COMPLETED"]
    /\ Stop(r)
    /\ UNCHANGED <<copies, inFilter, file, jobFaults, retired, shared, shifted>>

FinishExport(r) ==
    LET s == runner[r] IN
    /\ s.step = "finish"
    /\ job' = [job EXCEPT ![s.j].status = "COMPLETED"]
    /\ file' = [file EXCEPT ![s.j] = {s.listed}]
    /\ Stop(r)
    /\ UNCHANGED <<copies, inFilter, jobFaults, retired, shared, shifted>>

(* An unreadable file ends a batch as FAILED, any exception an export. *)
FailRun(r) ==
    LET s == runner[r] IN
    /\ s.step \in {"rows", "finish"}
    /\ jobFaults < MaxJobFaults /\ jobFaults' = jobFaults + 1
    /\ job' = [job EXCEPT ![s.j].status = "FAILED"]
    /\ Stop(r)
    /\ UNCHANGED <<copies, inFilter, file, retired, shared, shifted>>

(* The process dies, or an exception no handler of an import's run expects escapes. *)
CrashRunner(r) ==
    /\ runner[r].step # "idle"
    /\ jobFaults < MaxJobFaults /\ jobFaults' = jobFaults + 1
    /\ Stop(r)
    /\ UNCHANGED <<job, copies, inFilter, file, retired, shared, shifted>>

(* Half an hour passes since leased_at. *)
LeaseAgesOut(j) ==
    /\ job[j].lease = "fresh"
    /\ job' = [job EXCEPT ![j].lease = "old"]
    /\ UNCHANGED <<runner, copies, inFilter, file, jobFaults, retired, shared, shifted>>

(* Mutant: the sweep looks only at the lease, which no run clears. *)
SweepableAnyStatus(j) == job[j].lease = "old" /\ job[j].status # "FAILED"

Sweepable(j) == job[j].status = "PROCESSING" /\ job[j].lease = "old"

(* _sweep_stale, at the start of every cycle of a worker. *)
SweepStale ==
    /\ \E w \in JobWorkers : runner[w].step = "idle"
    /\ \E j \in DataJobIds : Sweepable(j)
    /\ job' = [j \in DataJobIds |->
                  IF Sweepable(j) THEN [job[j] EXCEPT !.status = "FAILED"] ELSE job[j]]
    /\ UNCHANGED <<runner, copies, inFilter, file, jobFaults, retired, shared, shifted>>

JobsNext ==
    \/ \E j \in DataJobIds : StartImport(j) \/ LeaseAgesOut(j)
    \/ \E j \in DataJobIds, st \in Strategies : MapImportPage(j, st)
    \/ \E q \in JobRequests, j \in DataJobIds :
          \/ \E st \in Strategies : MapImport(q, j, st)
          \/ CreateExport(q, j)
    \/ \E q \in JobRequests : LeaveQueued(q)
    \/ \E w \in JobWorkers, j \in DataJobIds : Claim(w, j)
    \/ \E r \in Runners : \/ RunJob(r) \/ MatchRow(r) \/ FlushRow(r) \/ RejectRow(r)
                          \/ WriteChunk(r) \/ FinishImport(r) \/ FinishExport(r)
                          \/ FailRun(r) \/ CrashRunner(r)
    \/ \E l \in 1..LeadCount : RetireLead(l)
    \/ SweepStale

JobsSpec == JobsInit /\ [][JobsNext]_jobVars

----------------------------------------------------------------------------
JobsTypeOK ==
    /\ job \in [DataJobIds -> JobRows]
    /\ \A r \in Runners : runner[r].step \in RunnerSteps /\ runner[r].j \in DataJobIds
    /\ inFilter \in [1..LeadCount -> BOOLEAN]

(* "only a row still QUEUED transitions": a row of an imported file becomes two leads    *)
(* only when a request ran the batch inline beside a worker.                           *)
RowImportedOnce ==
    \A j \in Imports : j \in shared \/ \A n \in 1..ImportRows : copies[j][n] <= 1

(* A finished import or export changes its status only at the hand of a run that had    *)
(* begun; the sweep never touches it although its lease stays on the row.              *)
FinishedStays ==
    [][\A j \in DataJobIds : job[j].status \in Finished /\ job'[j].status # job[j].status
           => \E r \in Runners : runner[r].step # "idle" /\ runner[r].j = j]_jobVars

(* The file of an export lists every lead of the workspace once, unless a lead left the  *)
(* filter between two chunks, which shifts the offsets.                                 *)
ExportIsComplete ==
    \A j \in Exports : j \in shifted \/ \A listing \in file[j] :
        \A l \in 1..LeadCount : inFilter[l] => listing[l] = 1

(* No row of a file becomes two leads, and a finished export lists every lead once. *)
JobsInv == JobsTypeOK /\ RowImportedOnce /\ ExportIsComplete
=============================================================================
