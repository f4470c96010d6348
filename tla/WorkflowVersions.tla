--------------------------- MODULE WorkflowVersions ---------------------------
(***************************************************************************)
(* WorkflowService: drafts, publication, pause, resume, archive, duplicate and *)
(* delete of automation workflows.  Requests run concurrently; each loads the  *)
(* workflow and its versions, checks, and commits the columns it changed.     *)
(***************************************************************************)
EXTENDS Naturals, FiniteSets

CONSTANTS
    Flows,           \* workflow ids
    Editors,         \* requests in progress at once
    Definitions,     \* workflow definitions that pass validation
    MaxVersions, MaxFlowOps   \* bounds

ASSUME WorkflowVersionsAssumption ==
    /\ MaxVersions \in Nat \ {0} /\ MaxFlowOps \in Nat
    /\ Flows # {} /\ Definitions # {}

VARIABLES
    flow,      \* [Flows -> FlowRows]: workflows
    version,   \* [Flows -> [1..MaxVersions -> VersionRows]]: workflow_versions
    editor,    \* [Editors -> EditorStates]
    flowOps,
    lateEdits  \* history: <<flow, version>> edited by a request that loaded it as a draft
               \* and committed after it had been published

flowVars == <<flow, version, editor, flowOps, lateEdits>>

----------------------------------------------------------------------------
(* NONE: the id is not taken yet; DELETED: its row is gone. *)
WorkflowStatus == {"NONE", "DRAFT", "ACTIVE", "PAUSED", "ARCHIVED", "DELETED"}
VersionStatus == {"NONE", "DRAFT", "PUBLISHED", "RETIRED"}
VersionNumbers == 1..MaxVersions
FlowRows == [status : WorkflowStatus, current : 0..MaxVersions]
AnyDefinition == CHOOSE d \in Definitions : TRUE
VersionRows == [status : VersionStatus, definition : Definitions]
NoFlow == [status |-> "NONE", current |-> 0]
NoVersion == [status |-> "NONE", definition |-> AnyDefinition]

EditorOps == {"update", "publish", "pause", "resume", "archive", "delete"}
(* row: the workflow as loaded; draft: its newest draft version, 0 for none; *)
(* published: the versions to retire; last: the highest version number.    *)
EditorStates == [op : EditorOps \cup {"idle"}, f : Flows, row : FlowRows,
                 draft : 0..MaxVersions, published : SUBSET VersionNumbers,
                 last : 0..MaxVersions, definition : Definitions]
IdleEditor == [op |-> "idle", f |-> CHOOSE f \in Flows : TRUE, row |-> NoFlow, draft |-> 0,
               published |-> {}, last |-> 0, definition |-> AnyDefinition]

VersionsWith(f, status) == {v \in VersionNumbers : version[f][v].status = status}
Live(f) == flow[f].status \notin {"NONE", "DELETED"}
Newest(vs) == IF vs = {} THEN 0 ELSE CHOOSE v \in vs : \A u \in vs : u <= v
LastVersion(f) == Newest(VersionNumbers \ VersionsWith(f, "NONE"))

FlowsInit ==
    /\ flow = [f \in Flows |-> NoFlow]
    /\ version = [f \in Flows |-> [v \in VersionNumbers |-> NoVersion]]
    /\ editor = [e \in Editors |-> IdleEditor]
    /\ flowOps = 0 /\ lateEdits = {}

(* create and create_from_template: a draft with a draft version 1. *)
CreateFlow(f, d) ==
    /\ flow[f].status = "NONE"
    /\ flowOps < MaxFlowOps /\ flowOps' = flowOps + 1
    /\ flow' = [flow EXCEPT ![f] = [status |-> "DRAFT", current |-> 0]]
    /\ version' = [version EXCEPT ![f] = [v \in VersionNumbers |->
           IF v = 1 THEN [status |-> "DRAFT", definition |-> d] ELSE NoVersion]]
    /\ UNCHANGED <<editor, lateEdits>>

(* duplicate: the newest definition of f as a draft of its own, never ACTIVE. *)
DuplicateFlow(f, g) ==
    /\ Live(f)
    /\ CreateFlow(g, version[f][LastVersion(f)].definition)

(* The checks each operation makes on the workflow it loaded. *)
Allowed(op, row) ==
    CASE op \in {"update", "publish", "archive"} -> row.status # "ARCHIVED"
      [] op = "pause" -> row.status = "ACTIVE"
      [] op = "resume" -> row.status = "PAUSED" /\ row.current # 0
      [] op = "delete" -> row.status = "DRAFT"

(* The request loads the workflow and, to edit or publish, its versions.  Without *)
(* a draft publish would insert version 1 again and fail.                       *)
FlowLoad(e, op, f, d) ==
    /\ editor[e].op = "idle"
    /\ Live(f) /\ Allowed(op, flow[f])
    /\ flowOps < MaxFlowOps /\ flowOps' = flowOps + 1
    /\ op = "publish" => VersionsWith(f, "DRAFT") # {}
    /\ editor' = [editor EXCEPT ![e] =
           [op |-> op, f |-> f, row |-> flow[f], draft |-> Newest(VersionsWith(f, "DRAFT")),
            published |-> VersionsWith(f, "PUBLISHED"), last |-> LastVersion(f),
            definition |-> d]]
    /\ UNCHANGED <<flow, version, lateEdits>>

(* What a session writes to the workflow: the columns it changed. *)
FlowUpdate(s, new) ==
    flow' = [flow EXCEPT ![s.f] = [c \in DOMAIN new |->
                IF new[c] = s.row[c] THEN flow[s.f][c] ELSE new[c]]]

(* Mutant: a published definition is edited in place. *)
UpdateCommitInPlace(s) ==
    LET v == IF s.draft # 0 THEN s.draft ELSE s.last IN
    /\ version' = [version EXCEPT ![s.f][v].definition = s.definition]
    /\ UNCHANGED <<flow, lateEdits>>

(* update, _upsert_draft_version: the draft is edited, or a new draft version      *)
(* inserted; (workflow, version) is unique, so one of two that insert loses.      *)
UpdateCommit(s) ==
    /\ UNCHANGED flow
    /\ IF s.draft # 0
       THEN /\ version' = [version EXCEPT ![s.f][s.draft].definition = s.definition]
            /\ lateEdits' = IF version[s.f][s.draft].status = "DRAFT" THEN lateEdits
                            ELSE lateEdits \cup {<<s.f, s.draft>>}
       ELSE /\ UNCHANGED lateEdits
            /\ IF s.last < MaxVersions /\ version[s.f][s.last + 1].status = "NONE"
               THEN version' = [version EXCEPT ![s.f][s.last + 1] =
                                   [status |-> "DRAFT", definition |-> s.definition]]
               ELSE UNCHANGED version

(* Mutant: the published versions are retired after the draft is published. *)
PublishCommitRetiresAll(s) ==
    /\ version' = [version EXCEPT ![s.f] = [v \in VersionNumbers |->
           IF v \in s.published \cup {s.draft} THEN [version[s.f][v] EXCEPT !.status = "RETIRED"]
           ELSE version[s.f][v]]]
    /\ FlowUpdate(s, [status |-> "ACTIVE", current |-> s.draft])
    /\ UNCHANGED lateEdits

(* publish: the draft is published, what was published is retired. *)
PublishCommit(s) ==
    /\ version' = [version EXCEPT ![s.f] = [v \in VersionNumbers |->
           IF v = s.draft THEN [version[s.f][v] EXCEPT !.status = "PUBLISHED"]
           ELSE IF v \in s.published THEN [version[s.f][v] EXCEPT !.status = "RETIRED"]
           ELSE version[s.f][v]]]
    /\ FlowUpdate(s, [status |-> "ACTIVE", current |-> s.draft])
    /\ UNCHANGED lateEdits

(* delete: the versions go with the workflow. *)
DeleteCommit(s) ==
    /\ flow' = [flow EXCEPT ![s.f] = [NoFlow EXCEPT !.status = "DELETED"]]
    /\ version' = [version EXCEPT ![s.f] = [v \in VersionNumbers |-> NoVersion]]
    /\ UNCHANGED lateEdits

(* pause, resume, archive *)
StatusCommit(s) ==
    /\ FlowUpdate(s, [s.row EXCEPT !.status =
           CASE s.op = "pause" -> "PAUSED" [] s.op = "resume" -> "ACTIVE"
             [] s.op = "archive" -> "ARCHIVED"])
    /\ UNCHANGED <<version, lateEdits>>

FlowCommit(e) ==
    LET s == editor[e] IN
    /\ s.op # "idle"
    /\ editor' = [editor EXCEPT ![e] = IdleEditor]
    /\ UNCHANGED flowOps
    /\ IF ~Live(s.f) THEN UNCHANGED <<flow, version, lateEdits>>
       ELSE \/ s.op = "update" /\ UpdateCommit(s)
            \/ s.op = "publish" /\ PublishCommit(s)
            \/ s.op = "delete" /\ DeleteCommit(s)
            \/ s.op \in {"pause", "resume", "archive"} /\ StatusCommit(s)

(* delete with active executions, a definition that fails validation, a lost connection *)
FlowRefused(e) ==
    /\ editor[e].op # "idle"
    /\ editor' = [editor EXCEPT ![e] = IdleEditor]
    /\ UNCHANGED <<flow, version, flowOps, lateEdits>>

FlowsNext ==
    \/ \E f \in Flows, d \in Definitions : CreateFlow(f, d)
    \/ \E f, g \in Flows : DuplicateFlow(f, g)
    \/ \E e \in Editors, op \in EditorOps, f \in Flows, d \in Definitions : FlowLoad(e, op, f, d)
    \/ \E e \in Editors : FlowCommit(e) \/ FlowRefused(e)

FlowsSpec == FlowsInit /\ [][FlowsNext]_flowVars

----------------------------------------------------------------------------
FlowsTypeOK ==
    /\ flow \in [Flows -> FlowRows]
    /\ version \in [Flows -> [VersionNumbers -> VersionRows]]
    /\ editor \in [Editors -> EditorStates]

(* However publish, edit, pause, resume, archive and delete overlap, a workflow that *)
(* was ever published has a PUBLISHED version: dispatch_event always finds one for   *)
(* an ACTIVE workflow.                                                            *)
ActiveHasPublished ==
    \A f \in Flows : flow[f].status \in {"ACTIVE", "PAUSED"} \/ flow[f].current # 0
                         => VersionsWith(f, "PUBLISHED") # {}

(* "Definitions are immutable after publication": no edit reaches a version that    *)
(* executions may refer to, but one that had loaded it as a draft when it was       *)
(* published.                                                                     *)
PublishedFrozen ==
    [][\A f \in Flows, v \in VersionNumbers :
           /\ version[f][v].status \in {"PUBLISHED", "RETIRED"}
           /\ flow'[f].status # "DELETED"
           /\ version'[f][v].definition # version[f][v].definition
           => <<f, v>> \in lateEdits']_flowVars

(* A live workflow always has the published version that its dispatcher needs. *)
FlowsInv == FlowsTypeOK /\ ActiveHasPublished
=============================================================================
