---------------------------- MODULE WorkspaceProofs ----------------------------
(***************************************************************************)
(* Proofs about what a workspace keeps, for any number of workflows, leads,     *)
(* jobs, requests and workers: the versions of workflows (WorkflowVersions),    *)
(* the rules for their graphs and times (WorkflowRules), the book of leads       *)
(* (Leads) and the imports and exports (DataJobs).                           *)
(***************************************************************************)
EXTENDS WorkflowVersions, WorkflowRules, Leads, DataJobs, FiniteSetTheorems, WellFoundedInduction, TLAPS

----------------------------------------------------------------------------
(* Sets of numbers. *)

(* A set of numbers up to n that is not empty has a largest element: of the sets of      *)
(* those that are no smaller, one has no other inside it.                      *)
LEMMA LargestOf ==
    ASSUME NEW n \in Nat, NEW vs \in SUBSET (0..n), vs # {}
    PROVE  \E v \in vs : \A u \in vs : u <= v
<1> DEFINE Above(v) == {u \in vs : v <= u}
           T == {Above(v) : v \in vs}
           R == StrictSubsetOrdering(vs)
<1>1. IsFiniteSet(vs)
  <2>1. 0 \in Int /\ n \in Int
    OBVIOUS
  <2>2. IsFiniteSet(0..n)
    BY <2>1, FS_Interval
  <2> QED BY <2>2, FS_Subset
<1>2. T \subseteq FiniteSubsetsOf(vs) /\ T # {}
  <2>1. \A v \in vs : Above(v) \in SUBSET vs
    OBVIOUS
  <2>2. \A v \in vs : IsFiniteSet(Above(v))
    BY <1>1, <2>1, FS_Subset
  <2> QED BY <2>1, <2>2 DEF FiniteSubsetsOf
<1>3. IsWellFoundedOn(R, FiniteSubsetsOf(vs))
  BY FS_StrictSubsetOrderingWellFounded
<1> HIDE DEF R, T
<1>4. PICK a \in T : \A b \in T : ~(<<b, a>> \in R)
  BY <1>2, <1>3, WFMin
<1>5. PICK v \in vs : a = Above(v)
  BY DEF T
<1>6. ASSUME NEW u \in vs, ~(u <= v) PROVE FALSE
  <2>1. Above(u) \subseteq Above(v) /\ v \in Above(v) /\ v \notin Above(u)
    <3>1. \A w \in vs : w \in Nat
      OBVIOUS
    <3>2. v < u /\ v <= v
      BY <1>6, <3>1
    <3>3. \A w \in vs : u <= w => v <= w
      BY <3>1, <3>2
    <3> QED BY <1>6, <3>2, <3>3
  <2>2. Above(u) \in T
    BY DEF T
  <2>3. <<Above(u), Above(v)>> \in R
    BY <2>1 DEF R, StrictSubsetOrdering
  <2> QED BY <1>4, <1>5, <2>2, <2>3
<1> QED BY <1>6

(* Counting up: what holds at 0 and goes on to the next number holds up to n; of the sets of  *)
(* numbers that are no larger than one it fails for, none would be the smallest.        *)
LEMMA UpTo ==
    ASSUME NEW n \in Nat, NEW S, 0 \in S, \A i \in 0..(n - 1) : i \in S => i + 1 \in S
    PROVE  \A i \in 0..n : i \in S
<1> DEFINE vs == (0..n) \ S
           Below(v) == {u \in vs : u <= v}
           T == {Below(v) : v \in vs}
           R == StrictSubsetOrdering(vs)
<1> SUFFICES ASSUME vs # {} PROVE FALSE
  OBVIOUS
<1>1. IsFiniteSet(vs)
  <2>1. 0 \in Int /\ n \in Int
    OBVIOUS
  <2>2. IsFiniteSet(0..n)
    BY <2>1, FS_Interval
  <2> QED BY <2>2, FS_Subset
<1>2. T \subseteq FiniteSubsetsOf(vs) /\ T # {}
  <2>1. \A v \in vs : Below(v) \in SUBSET vs
    OBVIOUS
  <2>2. \A v \in vs : IsFiniteSet(Below(v))
    BY <1>1, <2>1, FS_Subset
  <2> QED BY <2>1, <2>2 DEF FiniteSubsetsOf
<1>3. IsWellFoundedOn(R, FiniteSubsetsOf(vs))
  BY <1>1, FS_StrictSubsetOrderingWellFounded
<1> HIDE DEF R, T
<1>4. PICK a \in T : \A b \in T : ~(<<b, a>> \in R)
  BY <1>2, <1>3, WFMin
<1>5. PICK v \in vs : a = Below(v)
  BY DEF T
<1>6. v - 1 \in vs /\ v \in Nat
  <2>1. v # 0 /\ v \in 0..n
    OBVIOUS
  <2>2. v - 1 \in 0..(n - 1) /\ (v - 1) + 1 = v
    BY <2>1
  <2>3. v - 1 \notin S
    BY <2>2
  <2> QED BY <2>1, <2>2, <2>3
<1>7. Below(v - 1) \subseteq Below(v) /\ v \in Below(v) /\ v \notin Below(v - 1)
  <2>1. \A w \in vs : w \in Nat /\ (w <= v - 1 => w <= v)
    BY <1>6
  <2> QED BY <1>6, <2>1
<1>8. Below(v - 1) \in T
  BY <1>6 DEF T
<1>9. <<Below(v - 1), Below(v)>> \in R
  BY <1>7 DEF R, StrictSubsetOrdering
<1> QED BY <1>4, <1>5, <1>8, <1>9

----------------------------------------------------------------------------
(* Workflows and their versions. *)

Published(f) == VersionsWith(f, "PUBLISHED") # {}

(* A workflow that is there has its version 1, one that is not has none. *)
VersionsOK ==
    \A f \in Flows : /\ Live(f) => version[f][1].status # "NONE"
                     /\ ~Live(f) => flow[f].current = 0 /\ \A v \in VersionNumbers : version[f][v].status = "NONE"

(* A request that publishes has a draft; one that pauses or resumes found a workflow that *)
(* was published.                                                             *)
EditorsOK ==
    \A e \in Editors :
        /\ editor[e].op = "publish" => editor[e].draft \in VersionNumbers
        /\ editor[e].op \in {"pause", "resume"} =>
             flow[editor[e].f].status # "NONE" /\ (Live(editor[e].f) => Published(editor[e].f))

FlowsIInv == FlowsTypeOK /\ VersionsOK /\ ActiveHasPublished /\ EditorsOK

LEMMA NewestIs ==
    ASSUME NEW vs \in SUBSET VersionNumbers
    PROVE  Newest(vs) \in 0..MaxVersions /\ (vs # {} => Newest(vs) \in vs)
<1>1. CASE vs = {}
  <2>1. Newest(vs) = 0 /\ MaxVersions \in Nat
    BY <1>1, WorkflowVersionsAssumption DEF Newest
  <2> QED BY <1>1, <2>1
<1>2. CASE vs # {}
  <2>1. MaxVersions \in Nat /\ vs \in SUBSET (0..MaxVersions)
    BY WorkflowVersionsAssumption DEF VersionNumbers
  <2>2. \E v \in vs : \A u \in vs : u <= v
    BY <1>2, <2>1, LargestOf
  <2>3. Newest(vs) \in vs
    BY <1>2, <2>2 DEF Newest
  <2> QED BY <2>1, <2>3
<1> QED BY <1>1, <1>2

LEMMA FlowConstants ==
    /\ AnyDefinition \in Definitions /\ NoVersion \in VersionRows /\ NoVersion.status = "NONE"
    /\ NoFlow \in FlowRows /\ NoFlow.status = "NONE" /\ NoFlow.current = 0
    /\ IdleEditor \in EditorStates /\ IdleEditor.op = "idle"
    /\ 1 \in VersionNumbers /\ MaxVersions \in Nat
<1>1. MaxVersions \in Nat \ {0} /\ 1 \in VersionNumbers
  BY WorkflowVersionsAssumption DEF VersionNumbers
<1>2. AnyDefinition \in Definitions
  BY WorkflowVersionsAssumption DEF AnyDefinition
<1>3. NoVersion \in VersionRows /\ NoVersion.status = "NONE"
  BY <1>2 DEF NoVersion, VersionRows, VersionStatus
<1>4. NoFlow \in FlowRows /\ NoFlow.status = "NONE" /\ NoFlow.current = 0
  BY <1>1 DEF NoFlow, FlowRows, WorkflowStatus
<1>5. (CHOOSE f \in Flows : TRUE) \in Flows
  BY WorkflowVersionsAssumption
<1>6. IdleEditor \in EditorStates /\ IdleEditor.op = "idle"
  BY <1>1, <1>2, <1>4, <1>5 DEF IdleEditor, EditorStates
<1> QED BY <1>1, <1>2, <1>3, <1>4, <1>6

LEMMA FlowIs ==
    ASSUME FlowsTypeOK, NEW f \in Flows
    PROVE  /\ flow[f] \in FlowRows /\ flow[f].status \in WorkflowStatus
           /\ version[f] \in [VersionNumbers -> VersionRows]
           /\ \A v \in VersionNumbers : /\ version[f][v] \in VersionRows
                                        /\ version[f][v].status \in VersionStatus
                                        /\ version[f][v].definition \in Definitions
BY DEF FlowsTypeOK, FlowRows, VersionRows

(* The columns that a commit writes to the workflow. *)
LEMMA FlowWrite ==
    ASSUME FlowsTypeOK, NEW s \in EditorStates, NEW new \in FlowRows, FlowUpdate(s, new)
    PROVE  /\ flow' \in [Flows -> FlowRows] /\ s.f \in Flows
           /\ \A f \in Flows \ {s.f} : flow'[f] = flow[f]
           /\ flow'[s.f].status = IF new.status = s.row.status THEN flow[s.f].status ELSE new.status
           /\ flow'[s.f].current = IF new.current = s.row.current THEN flow[s.f].current ELSE new.current
<1>1. s.f \in Flows /\ s.row \in FlowRows /\ flow \in [Flows -> FlowRows]
  BY DEF EditorStates, FlowsTypeOK
<1> DEFINE row == [c \in DOMAIN new |-> IF new[c] = s.row[c] THEN flow[s.f][c] ELSE new[c]]
<1>2. /\ row \in FlowRows
      /\ row.status = IF new.status = s.row.status THEN flow[s.f].status ELSE new.status
      /\ row.current = IF new.current = s.row.current THEN flow[s.f].current ELSE new.current
  BY <1>1 DEF FlowRows
<1>3. flow' = [flow EXCEPT ![s.f] = row]
  BY DEF FlowUpdate
<1> HIDE DEF row
<1> QED BY <1>1, <1>2, <1>3

(* A step of one workflow: the others stay. *)
OnlyFlow(f) ==
    /\ flow' \in [Flows -> FlowRows] /\ version' \in [Flows -> [VersionNumbers -> VersionRows]]
    /\ \A g \in Flows \ {f} : flow'[g] = flow[g] /\ version'[g] = version[g]

(* What a commit keeps of its workflow. *)
FlowKept(f) ==
    /\ flow[f].status # "NONE" => flow'[f].status # "NONE"
    /\ flow[f].status = "DELETED" => flow'[f].status = "DELETED"
    /\ flow'[f].status \notin {"NONE", "DELETED"} => version'[f][1].status # "NONE"
    /\ flow'[f].status \in {"NONE", "DELETED"} =>
         flow'[f].current = 0 /\ \A v \in VersionNumbers : version'[f][v].status = "NONE"
    /\ Published(f) /\ Live(f) /\ Live(f)' => Published(f)'
    /\ flow'[f].status \in {"ACTIVE", "PAUSED"} \/ flow'[f].current # 0 => Published(f)'
    /\ \A v \in VersionNumbers :
         version[f][v].status \in {"PUBLISHED", "RETIRED"} /\ flow'[f].status # "DELETED"
           /\ version'[f][v].definition # version[f][v].definition => <<f, v>> \in lateEdits'

LEMMA CreateStep ==
    ASSUME FlowsIInv, NEW f \in Flows, NEW d \in Definitions, CreateFlow(f, d)
    PROVE  /\ OnlyFlow(f) /\ FlowKept(f) /\ UNCHANGED editor
           /\ flow'[f].status = "DRAFT" /\ version'[f][1].status # "NONE" /\ ~Live(f)
<1>1. FlowsTypeOK /\ VersionsOK
  BY DEF FlowsIInv
<1> DEFINE row == [status |-> "DRAFT", current |-> 0]
           vs == [v \in VersionNumbers |-> IF v = 1 THEN [status |-> "DRAFT", definition |-> d] ELSE NoVersion]
<1>2. flow' = [flow EXCEPT ![f] = row] /\ version' = [version EXCEPT ![f] = vs] /\ UNCHANGED editor
      /\ ~Live(f)
  BY DEF CreateFlow, Live
<1>3. row \in FlowRows /\ row.status = "DRAFT" /\ row.current = 0
  BY FlowConstants DEF FlowRows, WorkflowStatus
<1>4. vs \in [VersionNumbers -> VersionRows] /\ vs[1].status = "DRAFT"
  BY FlowConstants DEF VersionRows, VersionStatus
<1> HIDE DEF row, vs
<1>5. OnlyFlow(f) /\ flow'[f] = row /\ version'[f] = vs
  BY <1>1, <1>2, <1>3, <1>4 DEF OnlyFlow, FlowsTypeOK
<1>6. \A v \in VersionNumbers : version[f][v].status = "NONE"
  BY <1>1, <1>2 DEF VersionsOK
<1>7. flow[f].status = "NONE"
  BY DEF CreateFlow
<1> QED BY <1>2, <1>3, <1>4, <1>5, <1>6, <1>7 DEF FlowKept

LEMMA UpdateVersion ==
    ASSUME FlowsIInv, NEW s \in EditorStates, s.op = "update", Live(s.f), UpdateCommit(s)
    PROVE  OnlyFlow(s.f) /\ FlowKept(s.f)
<1> DEFINE f == s.f
<1>1. f \in Flows /\ FlowsTypeOK /\ VersionsOK /\ ActiveHasPublished /\ flow' = flow
      /\ s.draft \in 0..MaxVersions /\ s.last \in 0..MaxVersions /\ s.definition \in Definitions
      /\ MaxVersions \in Nat
  BY FlowConstants DEF FlowsIInv, UpdateCommit, EditorStates
<1>2. ASSUME NEW v \in VersionNumbers, NEW row \in VersionRows,
             version' = [version EXCEPT ![f] = [version[f] EXCEPT ![v] = row]],
             \/ row.status = version[f][v].status
             \/ version[f][v].status = "NONE" /\ row.status = "DRAFT",
             version[f][v].status \in {"PUBLISHED", "RETIRED"} => <<f, v>> \in lateEdits'
      PROVE  OnlyFlow(f) /\ FlowKept(f)
    <2>1. /\ version' \in [Flows -> [VersionNumbers -> VersionRows]]
          /\ version'[f][v] = row /\ \A u \in VersionNumbers \ {v} : version'[f][u] = version[f][u]
          /\ \A g \in Flows \ {f} : version'[g] = version[g]
      BY <1>1, <1>2 DEF FlowsTypeOK
    <2>2. OnlyFlow(f)
      BY <1>1, <2>1 DEF OnlyFlow, FlowsTypeOK
    <2>3. \A u \in VersionNumbers : /\ version[f][u].status = "PUBLISHED" => version'[f][u].status = "PUBLISHED"
                                    /\ version[f][u].status # "NONE" => version'[f][u].status # "NONE"
      BY <1>2, <2>1
    <2>4. Published(f) => Published(f)'
      BY <2>3 DEF Published, VersionsWith
    <2>5. /\ flow'[f].status = flow[f].status /\ flow'[f].current = flow[f].current
          /\ flow[f].status \notin {"NONE", "DELETED"} /\ version[f][1].status # "NONE"
          /\ flow[f].status \in {"ACTIVE", "PAUSED"} \/ flow[f].current # 0 => Published(f)
      BY <1>1 DEF Live, VersionsOK, ActiveHasPublished, Published
    <2>6. \A u \in VersionNumbers :
            version[f][u].status \in {"PUBLISHED", "RETIRED"} /\ version'[f][u].definition # version[f][u].definition
              => <<f, u>> \in lateEdits'
      BY <1>2, <2>1
    <2> QED BY <2>2, <2>3, <2>4, <2>5, <2>6, FlowConstants DEF FlowKept
<1>3. CASE s.draft # 0
  <2> DEFINE row == [version[f][s.draft] EXCEPT !.definition = s.definition]
  <2>1. s.draft \in VersionNumbers
    BY <1>1, <1>3 DEF VersionNumbers
  <2>2. row \in VersionRows /\ row.status = version[f][s.draft].status
    BY <1>1, <2>1, FlowIs DEF VersionRows
  <2>3. version' = [version EXCEPT ![f] = [version[f] EXCEPT ![s.draft] = row]]
    BY <1>3 DEF UpdateCommit
  <2>4. version[f][s.draft].status \in {"PUBLISHED", "RETIRED"} => <<f, s.draft>> \in lateEdits'
    BY <1>3 DEF UpdateCommit
  <2> HIDE DEF row
  <2> QED BY <1>2, <2>1, <2>2, <2>3, <2>4
<1>4. CASE s.draft = 0 /\ s.last < MaxVersions /\ version[f][s.last + 1].status = "NONE"
  <2> DEFINE row == [status |-> "DRAFT", definition |-> s.definition]
             v == s.last + 1
  <2>1. v \in VersionNumbers
    BY <1>1, <1>4 DEF VersionNumbers
  <2>2. row \in VersionRows /\ row.status = "DRAFT"
    BY <1>1 DEF VersionRows, VersionStatus
  <2>3. version' = [version EXCEPT ![f] = [version[f] EXCEPT ![v] = row]]
    BY <1>4 DEF UpdateCommit
  <2>4. version[f][v].status = "NONE"
    BY <1>4
  <2> HIDE DEF row, v
  <2> QED BY <1>2, <2>1, <2>2, <2>3, <2>4
<1>5. CASE s.draft = 0 /\ ~(s.last < MaxVersions /\ version[f][s.last + 1].status = "NONE")
  <2>1. UNCHANGED <<version, flow>>
    BY <1>1, <1>5 DEF UpdateCommit
  <2>2. /\ flow[f].status \notin {"NONE", "DELETED"} /\ version[f][1].status # "NONE"
        /\ flow[f].status \in {"ACTIVE", "PAUSED"} \/ flow[f].current # 0 => Published(f)
    BY <1>1 DEF Live, VersionsOK, ActiveHasPublished, Published
  <2>3. Published(f) => Published(f)'
    BY <2>1 DEF Published, VersionsWith
  <2> QED BY <1>1, <2>1, <2>2, <2>3 DEF OnlyFlow, FlowKept, FlowsTypeOK
<1> QED BY <1>3, <1>4, <1>5

LEMMA PublishVersion ==
    ASSUME FlowsIInv, NEW s \in EditorStates, s.draft \in VersionNumbers, Live(s.f), PublishCommit(s)
    PROVE  OnlyFlow(s.f) /\ FlowKept(s.f)
<1> DEFINE f == s.f
           new == [status |-> "ACTIVE", current |-> s.draft]
           row(v) == IF v = s.draft THEN [version[f][v] EXCEPT !.status = "PUBLISHED"]
                     ELSE IF v \in s.published THEN [version[f][v] EXCEPT !.status = "RETIRED"]
                     ELSE version[f][v]
           vs == [v \in VersionNumbers |-> row(v)]
<1>1. f \in Flows /\ FlowsTypeOK /\ VersionsOK /\ s.draft \in 0..MaxVersions /\ MaxVersions \in Nat
  BY FlowConstants DEF FlowsIInv, EditorStates
<1>2. new \in FlowRows /\ new.status = "ACTIVE" /\ new.current = s.draft
  BY <1>1 DEF FlowRows, WorkflowStatus
<1>3. FlowUpdate(s, new) /\ version' = [version EXCEPT ![f] = vs]
  BY DEF PublishCommit
<1> HIDE DEF new
<1>4. /\ flow' \in [Flows -> FlowRows]
      /\ \A g \in Flows \ {f} : flow'[g] = flow[g]
      /\ flow'[f].status \in {flow[f].status, "ACTIVE"}
  BY <1>1, <1>2, <1>3, FlowWrite
<1>5. \A v \in VersionNumbers : /\ row(v) \in VersionRows /\ row(v).definition = version[f][v].definition
                                /\ row(v).status \in {version[f][v].status, "PUBLISHED", "RETIRED"}
  BY <1>1, FlowIs DEF VersionRows, VersionStatus
<1>6. row(s.draft).status = "PUBLISHED"
  BY <1>1, FlowIs DEF VersionRows
<1> HIDE DEF row
<1>7. /\ version' \in [Flows -> [VersionNumbers -> VersionRows]]
      /\ \A v \in VersionNumbers : version'[f][v] = row(v)
      /\ \A g \in Flows \ {f} : version'[g] = version[g]
  BY <1>1, <1>3, <1>5 DEF FlowsTypeOK
<1>8. OnlyFlow(f)
  BY <1>4, <1>7 DEF OnlyFlow
<1>9. Published(f)'
  BY <1>6, <1>7 DEF Published, VersionsWith
<1>10. flow[f].status \notin {"NONE", "DELETED"} /\ version[f][1].status # "NONE" /\ version'[f][1].status # "NONE"
  BY <1>1, <1>5, <1>7, FlowConstants DEF Live, VersionsOK
<1> QED BY <1>4, <1>5, <1>7, <1>8, <1>9, <1>10 DEF FlowKept

LEMMA DeleteFlow ==
    ASSUME FlowsIInv, NEW s \in EditorStates, DeleteCommit(s)
    PROVE  OnlyFlow(s.f) /\ FlowKept(s.f) /\ flow'[s.f].status = "DELETED"
<1>1. s.f \in Flows /\ FlowsTypeOK
  BY DEF FlowsIInv, EditorStates
<1>2. /\ [NoFlow EXCEPT !.status = "DELETED"] \in FlowRows
      /\ [NoFlow EXCEPT !.status = "DELETED"].status = "DELETED"
      /\ [NoFlow EXCEPT !.status = "DELETED"].current = 0
  BY FlowConstants DEF FlowRows, WorkflowStatus
<1>3. /\ flow' \in [Flows -> FlowRows] /\ version' \in [Flows -> [VersionNumbers -> VersionRows]]
      /\ flow'[s.f] = [NoFlow EXCEPT !.status = "DELETED"]
      /\ \A v \in VersionNumbers : version'[s.f][v].status = "NONE"
      /\ \A g \in Flows \ {s.f} : flow'[g] = flow[g] /\ version'[g] = version[g]
  <2>1. [v \in VersionNumbers |-> NoVersion] \in [VersionNumbers -> VersionRows]
    BY FlowConstants
  <2> QED BY <1>1, <1>2, <2>1, FlowConstants DEF DeleteCommit, FlowsTypeOK
<1> QED BY <1>2, <1>3 DEF OnlyFlow, FlowKept, Live

LEMMA StatusOfFlow ==
    ASSUME FlowsIInv, NEW s \in EditorStates, s.op \in {"pause", "resume", "archive"},
           s.op \in {"pause", "resume"} => Published(s.f), Live(s.f), StatusCommit(s)
    PROVE  OnlyFlow(s.f) /\ FlowKept(s.f)
<1> DEFINE f == s.f
<1>1. f \in Flows /\ FlowsTypeOK /\ VersionsOK /\ ActiveHasPublished /\ version' = version
      /\ s.row \in FlowRows
  BY DEF FlowsIInv, EditorStates, StatusCommit
<1>2. PICK new : /\ new \in FlowRows /\ FlowUpdate(s, new) /\ new.current = s.row.current
                 /\ new.status = IF s.op = "pause" THEN "PAUSED" ELSE IF s.op = "resume" THEN "ACTIVE" ELSE "ARCHIVED"
  <2> DEFINE st == IF s.op = "pause" THEN "PAUSED" ELSE IF s.op = "resume" THEN "ACTIVE" ELSE "ARCHIVED"
             new == [s.row EXCEPT !.status = st]
  <2>1. new \in FlowRows /\ new.current = s.row.current /\ new.status = st
    BY <1>1 DEF FlowRows, WorkflowStatus
  <2>2. FlowUpdate(s, new)
    BY DEF StatusCommit
  <2> HIDE DEF new
  <2> QED BY <2>1, <2>2
<1>3. /\ flow' \in [Flows -> FlowRows]
      /\ \A g \in Flows \ {f} : flow'[g] = flow[g]
      /\ flow'[f].status = IF new.status = s.row.status THEN flow[f].status ELSE new.status
      /\ flow'[f].current = flow[f].current
  BY <1>1, <1>2, FlowWrite
<1>4. OnlyFlow(f)
  BY <1>1, <1>3 DEF OnlyFlow, FlowsTypeOK
<1>5. Published(f)' <=> Published(f)
  BY <1>1 DEF Published, VersionsWith
<1>6. flow[f].status \notin {"NONE", "DELETED"} /\ version[f][1].status # "NONE"
      /\ (flow[f].status \in {"ACTIVE", "PAUSED"} \/ flow[f].current # 0 => Published(f))
  BY <1>1 DEF Live, VersionsOK, ActiveHasPublished, Published
<1>7. flow'[f].status \in {flow[f].status, "PAUSED", "ACTIVE", "ARCHIVED"}
      /\ (flow'[f].status \in {"PAUSED", "ACTIVE"} => Published(f))
  BY <1>2, <1>3, <1>6
<1> QED BY <1>1, <1>3, <1>4, <1>5, <1>6, <1>7 DEF FlowKept

(* Every step of the service changes one workflow, as FlowKept says. *)
LEMMA FlowStep ==
    ASSUME FlowsIInv, FlowsNext
    PROVE  \/ UNCHANGED <<flow, version>>
           \/ \E f \in Flows : OnlyFlow(f) /\ FlowKept(f)
<1>1. FlowsTypeOK /\ VersionsOK /\ EditorsOK
  BY DEF FlowsIInv
<1>2. ASSUME NEW f \in Flows, NEW g \in Flows, DuplicateFlow(f, g)
      PROVE  \E d \in Definitions : CreateFlow(g, d)
  <2>1. Live(f) /\ version[f][1].status # "NONE" /\ 1 \in VersionNumbers
    BY <1>1, <1>2, FlowConstants DEF DuplicateFlow, VersionsOK
  <2>2. LastVersion(f) \in VersionNumbers
    <3>1. 1 \in VersionNumbers \ VersionsWith(f, "NONE")
      BY <2>1 DEF VersionsWith
    <3>2. LastVersion(f) \in VersionNumbers \ VersionsWith(f, "NONE")
      BY <3>1, NewestIs DEF LastVersion
    <3> QED BY <3>2
  <2>3. version[f][LastVersion(f)].definition \in Definitions
    BY <1>1, <2>2, FlowIs
  <2> QED BY <1>2, <2>3 DEF DuplicateFlow
<1>3. ASSUME NEW e \in Editors, FlowCommit(e)
      PROVE  UNCHANGED <<flow, version>> \/ \E f \in Flows : OnlyFlow(f) /\ FlowKept(f)
  <2> DEFINE s == editor[e]
  <2>1. s \in EditorStates /\ s.f \in Flows
    BY <1>1 DEF FlowsTypeOK, EditorStates
  <2>2. CASE ~Live(s.f)
    BY <1>3, <2>2 DEF FlowCommit
  <2>3. CASE Live(s.f) /\ s.op = "update" /\ UpdateCommit(s)
    BY <2>1, <2>3, UpdateVersion
  <2>4. CASE Live(s.f) /\ s.op = "publish" /\ PublishCommit(s)
    <3>1. s.draft \in VersionNumbers
      BY <1>1, <2>4 DEF EditorsOK
    <3> QED BY <2>1, <2>4, <3>1, PublishVersion
  <2>5. CASE Live(s.f) /\ s.op = "delete" /\ DeleteCommit(s)
    BY <2>1, <2>5, DeleteFlow
  <2>6. CASE Live(s.f) /\ s.op \in {"pause", "resume", "archive"} /\ StatusCommit(s)
    <3>1. s.op \in {"pause", "resume"} => Published(s.f)
      BY <1>1, <2>6 DEF EditorsOK
    <3> QED BY <2>1, <2>6, <3>1, StatusOfFlow
  <2> QED BY <1>3, <2>2, <2>3, <2>4, <2>5, <2>6 DEF FlowCommit
<1>4. ASSUME NEW f \in Flows, NEW d \in Definitions, CreateFlow(f, d)
      PROVE  \E g \in Flows : OnlyFlow(g) /\ FlowKept(g)
  BY <1>4, CreateStep
<1> QED BY <1>2, <1>3, <1>4 DEF FlowsNext, FlowLoad, FlowRefused

LEMMA EditorStep ==
    ASSUME FlowsIInv, [FlowsNext]_flowVars
    PROVE  /\ editor' \in [Editors -> EditorStates]
           /\ \A e \in Editors :
                \/ editor'[e] = editor[e] \/ editor'[e].op = "idle"
                \/ /\ Live(editor'[e].f) /\ UNCHANGED <<flow, version>>
                   /\ editor'[e].op = "publish" => editor'[e].draft \in VersionNumbers
                   /\ editor'[e].op \in {"pause", "resume"} => Published(editor'[e].f)
<1>1. FlowsTypeOK /\ ActiveHasPublished /\ editor \in [Editors -> EditorStates]
  BY DEF FlowsIInv, FlowsTypeOK
<1>2. ASSUME NEW e \in Editors, NEW op \in EditorOps, NEW f \in Flows, NEW d \in Definitions,
             FlowLoad(e, op, f, d)
      PROVE  \E s \in EditorStates :
               /\ editor' = [editor EXCEPT ![e] = s] /\ Live(s.f)
               /\ s.op = "publish" => s.draft \in VersionNumbers
               /\ s.op \in {"pause", "resume"} => Published(s.f)
  <2> DEFINE s == [op |-> op, f |-> f, row |-> flow[f], draft |-> Newest(VersionsWith(f, "DRAFT")),
                   published |-> VersionsWith(f, "PUBLISHED"), last |-> LastVersion(f),
                   definition |-> d]
  <2>1. /\ VersionsWith(f, "DRAFT") \in SUBSET VersionNumbers
        /\ VersionsWith(f, "PUBLISHED") \in SUBSET VersionNumbers
        /\ VersionNumbers \ VersionsWith(f, "NONE") \in SUBSET VersionNumbers
    BY DEF VersionsWith
  <2>2. /\ Newest(VersionsWith(f, "DRAFT")) \in 0..MaxVersions /\ LastVersion(f) \in 0..MaxVersions
        /\ VersionsWith(f, "DRAFT") # {} => Newest(VersionsWith(f, "DRAFT")) \in VersionNumbers
    BY <2>1, NewestIs DEF LastVersion
  <2>3. s \in EditorStates /\ s.op = op /\ s.f = f /\ s.draft = Newest(VersionsWith(f, "DRAFT"))
    BY <1>1, <2>1, <2>2, FlowIs DEF EditorStates
  <2>4. editor' = [editor EXCEPT ![e] = s] /\ Live(f) /\ Allowed(op, flow[f])
        /\ (op = "publish" => VersionsWith(f, "DRAFT") # {})
    BY <1>2 DEF FlowLoad
  <2> HIDE DEF s
  <2>5. op \in {"pause", "resume"} => flow[f].status \in {"ACTIVE", "PAUSED"}
    BY <2>4 DEF Allowed
  <2>6. op \in {"pause", "resume"} => Published(f)
    BY <1>1, <2>5 DEF ActiveHasPublished, Published
  <2> QED BY <2>2, <2>3, <2>4, <2>6
<1>3. ASSUME NEW e \in Editors, FlowCommit(e) \/ FlowRefused(e)
      PROVE  editor' = [editor EXCEPT ![e] = IdleEditor]
  BY <1>3 DEF FlowCommit, FlowRefused
<1>4. CASE \E e \in Editors, op \in EditorOps, f \in Flows, d \in Definitions : FlowLoad(e, op, f, d)
  <2>1. PICK e \in Editors, s \in EditorStates :
          /\ editor' = [editor EXCEPT ![e] = s] /\ Live(s.f)
          /\ s.op = "publish" => s.draft \in VersionNumbers
          /\ s.op \in {"pause", "resume"} => Published(s.f)
    BY <1>2, <1>4
  <2>2. UNCHANGED <<flow, version>>
    BY <1>4 DEF FlowLoad
  <2> QED BY <1>1, <2>1, <2>2
<1>5. CASE \E e \in Editors : FlowCommit(e) \/ FlowRefused(e)
  BY <1>1, <1>3, <1>5, FlowConstants
<1>6. CASE UNCHANGED editor
  BY <1>1, <1>6
<1>7. UNCHANGED editor
      \/ (\E e \in Editors, op \in EditorOps, f \in Flows, d \in Definitions : FlowLoad(e, op, f, d))
      \/ \E e \in Editors : FlowCommit(e) \/ FlowRefused(e)
  BY DEF FlowsNext, CreateFlow, DuplicateFlow, flowVars
<1> QED BY <1>4, <1>5, <1>6, <1>7

LEMMA FlowsInvariant == FlowsSpec => []FlowsIInv
<1>1. FlowsInit => FlowsIInv
  <2> SUFFICES ASSUME FlowsInit PROVE FlowsIInv
    OBVIOUS
  <2>1. FlowsTypeOK
    <3>1. [v \in VersionNumbers |-> NoVersion] \in [VersionNumbers -> VersionRows]
      BY FlowConstants
    <3> QED BY <3>1, FlowConstants DEF FlowsInit, FlowsTypeOK
  <2>2. \A f \in Flows : flow[f] = NoFlow /\ \A v \in VersionNumbers : version[f][v].status = "NONE"
    BY FlowConstants DEF FlowsInit
  <2>3. \A e \in Editors : editor[e].op = "idle"
    BY FlowConstants DEF FlowsInit
  <2> QED BY <2>1, <2>2, <2>3, FlowConstants
          DEF FlowsIInv, VersionsOK, ActiveHasPublished, EditorsOK, Live
<1>2. FlowsIInv /\ [FlowsNext]_flowVars => FlowsIInv'
  <2> SUFFICES ASSUME FlowsIInv, [FlowsNext]_flowVars PROVE FlowsIInv'
    OBVIOUS
  <2>1. FlowsTypeOK /\ VersionsOK /\ ActiveHasPublished /\ EditorsOK
    BY DEF FlowsIInv
  <2>2. UNCHANGED <<flow, version>> \/ \E f \in Flows : OnlyFlow(f) /\ FlowKept(f)
    BY FlowStep DEF flowVars
  <2>3. ASSUME NEW g \in Flows
        PROVE  /\ Live(g)' => version'[g][1].status # "NONE"
               /\ ~Live(g)' => flow'[g].current = 0 /\ \A v \in VersionNumbers : version'[g][v].status = "NONE"
               /\ flow'[g].status \in {"ACTIVE", "PAUSED"} \/ flow'[g].current # 0 => Published(g)'
               /\ flow[g].status # "NONE" => flow'[g].status # "NONE"
               /\ flow[g].status # "NONE" /\ (Live(g) => Published(g)) /\ Live(g)' => Published(g)'
    <3>1. CASE flow'[g] = flow[g] /\ version'[g] = version[g]
      BY <2>1, <3>1 DEF Live, VersionsOK, ActiveHasPublished, Published, VersionsWith
    <3>2. CASE OnlyFlow(g) /\ FlowKept(g)
      BY <2>1, <3>2 DEF FlowKept, Live
    <3> QED BY <2>2, <3>1, <3>2 DEF OnlyFlow
  <2>4. FlowsTypeOK'
    BY <2>1, <2>2, EditorStep DEF FlowsTypeOK, OnlyFlow
  <2>5. VersionsOK' /\ ActiveHasPublished'
    BY <2>3 DEF VersionsOK, ActiveHasPublished, Published
  <2>6. EditorsOK'
    BY <2>1, <2>3, <2>4, EditorStep DEF EditorsOK, FlowsTypeOK, EditorStates, Live
  <2> QED BY <2>4, <2>5, <2>6 DEF FlowsIInv
<1> QED BY <1>1, <1>2, PTL DEF FlowsSpec

(* A workflow that was ever published keeps a PUBLISHED version for the dispatcher to     *)
(* find, however edits, publications, pauses, archivals and deletions overlap.      *)
THEOREM FlowsInvHolds == FlowsSpec => []FlowsInv
<1>1. FlowsIInv => FlowsInv
  BY DEF FlowsIInv, FlowsInv
<1> QED BY <1>1, FlowsInvariant, PTL

(* No commit changes the definition of a version that was published, but the edit that   *)
(* had loaded it as a draft before it was.                                           *)
THEOREM PublishedFrozenHolds == FlowsSpec => PublishedFrozen
<1>1. FlowsIInv /\ [FlowsNext]_flowVars =>
        [\A f \in Flows, v \in VersionNumbers :
           /\ version[f][v].status \in {"PUBLISHED", "RETIRED"}
           /\ flow'[f].status # "DELETED"
           /\ version'[f][v].definition # version[f][v].definition
           => <<f, v>> \in lateEdits']_flowVars
  <2> SUFFICES ASSUME FlowsIInv, [FlowsNext]_flowVars, NEW f \in Flows, NEW v \in VersionNumbers,
                      version[f][v].status \in {"PUBLISHED", "RETIRED"},
                      flow'[f].status # "DELETED",
                      version'[f][v].definition # version[f][v].definition
               PROVE  <<f, v>> \in lateEdits'
    OBVIOUS
  <2>1. \E g \in Flows : OnlyFlow(g) /\ FlowKept(g)
    BY FlowStep DEF flowVars
  <2>2. OnlyFlow(f) /\ FlowKept(f)
    BY <2>1 DEF OnlyFlow
  <2> QED BY <2>2 DEF FlowKept
<1> QED BY <1>1, FlowsInvariant, PTL DEF FlowsSpec, PublishedFrozen

----------------------------------------------------------------------------
(* The leads: what a request loaded, and the rows that are not there.              *)

(* A request of the clerks names the leads it loaded; a merge loaded two that were          *)
(* different and not retired; a deletion or a renaming found every lead of its tag; what a   *)
(* request read, found or made has a name.                                                *)
ClerkOK(s) ==
    /\ s.op \notin {"idle", "delete", "renamed", "refresh"} => s.a \in LeadIds
    /\ s.op = "merge" => s.b \in LeadIds /\ s.a # s.b /\ s.row.into = NoLead /\ s.row2.into = NoLead
    /\ s.op = "delete" => s.whole = s.drop /\ s.add = {}
    /\ s.op # "renamed" => \A l \in LeadIds \ s.leads : s.whole \cap s.held[l] = {}
    /\ s.made \subseteq Named(s.names) /\ s.add \subseteq Named(s.names)
    /\ \A l \in LeadIds : s.held[l] \subseteq Named(s.names)

ClerksOK == \A c \in Clerks : ClerkOK(clerk[c])

(* A lead that is not there was not merged into another and has no tags; an assignment is of  *)
(* a tag that is there; a key and a mirror are the lead's own, histories aside.               *)
LeadOK(l) ==
    /\ Exists(l) \/ (~Retired(l) /\ assigned[l] = {} /\ lead[l].mirror = {})
    /\ \A t \in assigned[l] : tag[t] \in TagNames
    /\ l \in foreignKeys \/ lead[l].key \in {NoEmail, lead[l].email}
    /\ l \in lateMirrors \/ lead[l].mirror = Shown(tag, assigned[l])

LeadsIInv == LeadsInv /\ ClerksOK /\ \A l \in LeadIds : LeadOK(l)

(* The leads of Survivors are the smallest set that holds the first of them and that merging   *)
(* never leaves.                                                                      *)
SurvivorsClosed ==
    \A l \in LeadIds :
        /\ Survivors(l) \in SUBSET LeadIds
        /\ \A k \in Survivors(l) \cup {l} : lead[k].into \in Survivors(l) \cup {NoLead}
        /\ \A ls \in SUBSET LeadIds :
             lead[l].into \in ls \cup {NoLead} /\ ClosedUnderMerge(ls) => Survivors(l) \subseteq ls

LEMMA SurvivorsAreClosed == LeadsTypeOK => SurvivorsClosed
<1> SUFFICES ASSUME LeadsTypeOK, NEW l \in LeadIds
             PROVE  /\ Survivors(l) \in SUBSET LeadIds
                    /\ \A k \in Survivors(l) \cup {l} : lead[k].into \in Survivors(l) \cup {NoLead}
                    /\ \A ls \in SUBSET LeadIds :
                         lead[l].into \in ls \cup {NoLead} /\ ClosedUnderMerge(ls)
                           => Survivors(l) \subseteq ls
  BY DEF SurvivorsClosed
<1>1. \A k \in LeadIds : lead[k].into \in LeadIds \cup {NoLead}
  BY DEF LeadsTypeOK, LeadRows
<1>2. \A ls \in SUBSET LeadIds :
        lead[l].into \in ls \cup {NoLead} /\ ClosedUnderMerge(ls) => Survivors(l) \subseteq ls
  BY DEF Survivors
<1>3. lead[l].into \in Survivors(l) \cup {NoLead}
  BY <1>1 DEF Survivors
<1>4. ASSUME NEW k \in Survivors(l) PROVE lead[k].into \in Survivors(l) \cup {NoLead}
  <2>1. k \in LeadIds /\ lead[k].into \in LeadIds \cup {NoLead}
    BY <1>1 DEF Survivors
  <2>2. ASSUME NEW ls \in SUBSET LeadIds, lead[l].into \in ls \cup {NoLead}, ClosedUnderMerge(ls)
        PROVE  lead[k].into \in ls \cup {NoLead}
    BY <1>2, <2>2 DEF ClosedUnderMerge
  <2> QED BY <2>1, <2>2 DEF Survivors
<1>5. Survivors(l) \in SUBSET LeadIds
  BY DEF Survivors
<1> QED BY <1>2, <1>3, <1>4, <1>5

(* A step that changes only leads off the way of l leaves l its survivor. *)
LEMMA SurvivorKept ==
    ASSUME LeadsTypeOK, LeadsTypeOK', RetiredHasSurvivor, NEW changed \in SUBSET LeadIds,
           \A k \in LeadIds \ changed :
               lead'[k].into = lead[k].into /\ (Exists(k) => Exists(k)'),
           lateMerges \subseteq lateMerges',
           NEW l \in LeadIds, Retired(l)',
           ({l} \cup Survivors(l)') \cap (lateMerges' \cup changed) = {}
    PROVE  \E k \in Survivors(l)' : Exists(k)' /\ ~Retired(k)'
<1> DEFINE S == Survivors(l)'
<1>1. S \in SUBSET LeadIds /\ lead'[l].into \in S \cup {NoLead}
      /\ \A k \in S : lead'[k].into \in S \cup {NoLead}
  <2>1. LeadsTypeOK' => SurvivorsClosed'
    BY SurvivorsAreClosed, PTL
  <2> QED BY <2>1 DEF SurvivorsClosed
<1> HIDE DEF S
<1>2. lead[l].into \in S \cup {NoLead} /\ ClosedUnderMerge(S)
  BY <1>1 DEF ClosedUnderMerge, S
<1>3. Survivors(l) \subseteq S
  BY <1>1, <1>2, SurvivorsAreClosed DEF SurvivorsClosed
<1>4. Retired(l) /\ ({l} \cup Survivors(l)) \cap lateMerges = {}
  BY <1>3 DEF S, Retired
<1>5. PICK k \in Survivors(l) : Exists(k) /\ ~Retired(k)
  BY <1>4 DEF RetiredHasSurvivor
<1>6. k \in S /\ k \in LeadIds \ changed
  BY <1>1, <1>3, <1>5 DEF S
<1>7. Exists(k)' /\ ~Retired(k)'
  BY <1>5, <1>6 DEF Retired
<1> QED BY <1>6, <1>7 DEF S

(* The columns that a commit writes to a lead. *)
LEMMA WrittenLead ==
    ASSUME NEW l \in LeadIds, lead[l] \in LeadRows, NEW loaded \in LeadRows, NEW new \in LeadRows
    PROVE  /\ WriteLead(l, loaded, new) \in LeadRows
           /\ WriteLead(l, loaded, new).status = IF new.status = loaded.status THEN lead[l].status ELSE new.status
           /\ WriteLead(l, loaded, new).into = IF new.into = loaded.into THEN lead[l].into ELSE new.into
           /\ WriteLead(l, loaded, new).email = IF new.email = loaded.email THEN lead[l].email ELSE new.email
           /\ WriteLead(l, loaded, new).key = IF new.key = loaded.key THEN lead[l].key ELSE new.key
           /\ WriteLead(l, loaded, new).mirror = IF new.mirror = loaded.mirror THEN lead[l].mirror ELSE new.mirror
BY DEF WriteLead, LeadRows

(* What every step keeps of the leads, except the way that a lead of changed takes.   *)
LeadsKept(changed) ==
    /\ lead' \in [LeadIds -> LeadRows] /\ assigned' \in [LeadIds -> SUBSET TagIds]
    /\ tag' \in TagTables /\ candidate' \in [Pairs -> CandidateStatus]
    /\ lateMerges \subseteq lateMerges'
    /\ \A l \in LeadIds \ changed : lead'[l].into = lead[l].into /\ (Exists(l) => Exists(l)')
    /\ \A l \in LeadIds : LeadOK(l)'

LEMMA LeadIs ==
    ASSUME LeadsIInv, NEW l \in LeadIds
    PROVE  /\ lead \in [LeadIds -> LeadRows] /\ assigned \in [LeadIds -> SUBSET TagIds]
           /\ lead[l] \in LeadRows /\ assigned[l] \in SUBSET TagIds
           /\ tag \in TagTables /\ candidate \in [Pairs -> CandidateStatus]
           /\ Exists(l) \/ (lead[l].into = NoLead /\ assigned[l] = {} /\ lead[l].mirror = {})
           /\ \A t \in assigned[l] : tag[t] \in TagNames
           /\ l \in foreignKeys \/ lead[l].key \in {NoEmail, lead[l].email}
           /\ l \in lateMirrors \/ lead[l].mirror = Shown(tag, assigned[l])
BY DEF LeadsIInv, LeadsInv, LeadsTypeOK, LeadOK, Retired

(* The names that are shown of tags depend on those tags only. *)
LEMMA ShownSame ==
    ASSUME NEW ts \in SUBSET TagIds, NEW f, NEW g, \A t \in ts : f[t] = g[t]
    PROVE  Shown(f, ts) = Shown(g, ts)
BY DEF Shown

(* A step that leaves the address, the status, the assignments and their names alone. *)
LEMMA LeadSame ==
    ASSUME LeadsIInv, NEW l \in LeadIds, lead'[l].status = lead[l].status, lead'[l].into = lead[l].into,
           lead'[l].email = lead[l].email, lead'[l].key = lead[l].key, lead'[l].mirror = lead[l].mirror,
           assigned'[l] = assigned[l], \A t \in assigned[l] : tag'[t] = tag[t],
           l \in foreignKeys => l \in foreignKeys', l \in lateMirrors => l \in lateMirrors'
    PROVE  LeadOK(l)' /\ lead'[l].into = lead[l].into /\ (Exists(l) => Exists(l)')
<1>1. /\ Exists(l) \/ (lead[l].into = NoLead /\ assigned[l] = {} /\ lead[l].mirror = {})
      /\ \A t \in assigned[l] : tag[t] \in TagNames /\ assigned[l] \in SUBSET TagIds
      /\ l \in foreignKeys \/ lead[l].key \in {NoEmail, lead[l].email}
      /\ l \in lateMirrors \/ lead[l].mirror = Shown(tag, assigned[l])
  BY LeadIs
<1>2. Shown(tag', assigned[l]) = Shown(tag, assigned[l])
  <2>1. assigned[l] \in SUBSET TagIds
    BY LeadIs
  <2> QED BY <2>1, ShownSame
<1>3. l \in lateMirrors' \/ lead'[l].mirror = Shown(tag', assigned'[l])
  BY <1>1, <1>2
<1>4. \A t \in assigned'[l] : tag'[t] \in TagNames
  BY <1>1
<1>5. l \in foreignKeys' \/ lead'[l].key \in {NoEmail, lead'[l].email}
  BY <1>1
<1>6. Exists(l)' \/ (lead'[l].into = NoLead /\ assigned'[l] = {} /\ lead'[l].mirror = {})
  BY <1>1 DEF Exists
<1> QED BY <1>3, <1>4, <1>5, <1>6 DEF LeadOK, Exists, Retired

(* A step that rewrites one lead and its assignments. *)
LEMMA OneLead ==
    ASSUME LeadsIInv, NEW l \in LeadIds, NEW row \in LeadRows, NEW ts \in SUBSET TagIds,
           lead' = [lead EXCEPT ![l] = row], assigned' = [assigned EXCEPT ![l] = ts],
           tag' \in TagTables, UNCHANGED candidate,
           \A t \in TagIds : tag[t] \in TagNames => tag'[t] = tag[t],
           \A t \in ts : tag'[t] \in TagNames,
           lateMerges \subseteq lateMerges',
           \A k \in LeadIds \ {l} : /\ k \in foreignKeys => k \in foreignKeys'
                                    /\ k \in lateMirrors => k \in lateMirrors',
           row.status \in {"NONE", "GONE"} => row.into = NoLead /\ ts = {} /\ row.mirror = {},
           l \in foreignKeys' \/ row.key \in {NoEmail, row.email},
           l \in lateMirrors' \/ row.mirror = Shown(tag', ts),
           NEW changed \in SUBSET LeadIds,
           l \notin changed => row.into = lead[l].into /\ (Exists(l) => row.status \notin {"NONE", "GONE"})
    PROVE  LeadsKept(changed)
<1>1. /\ lead \in [LeadIds -> LeadRows] /\ assigned \in [LeadIds -> SUBSET TagIds]
      /\ candidate \in [Pairs -> CandidateStatus]
  BY LeadIs
<1>2. /\ lead' \in [LeadIds -> LeadRows] /\ assigned' \in [LeadIds -> SUBSET TagIds]
      /\ lead'[l] = row /\ assigned'[l] = ts
      /\ \A k \in LeadIds \ {l} : lead'[k] = lead[k] /\ assigned'[k] = assigned[k]
  BY <1>1
<1>3. ASSUME NEW k \in LeadIds \ {l}
      PROVE  LeadOK(k)' /\ lead'[k].into = lead[k].into /\ (Exists(k) => Exists(k)')
  <2>1. \A t \in assigned[k] : tag[t] \in TagNames /\ t \in TagIds
    BY LeadIs
  <2>2. \A t \in assigned[k] : tag'[t] = tag[t]
    BY <2>1
  <2> QED BY <1>2, <2>2, LeadSame
<1>4. /\ l \notin changed => lead'[l].into = lead[l].into /\ (Exists(l) => Exists(l)')
      /\ LeadOK(l)'
  BY <1>2 DEF Exists, Retired, LeadOK
<1> QED BY <1>1, <1>2, <1>3, <1>4 DEF LeadsKept

LEMMA AbsentLeadIs ==
    /\ AbsentLead \in LeadRows /\ AbsentLead.status = "NONE" /\ AbsentLead.into = NoLead
    /\ AbsentLead.email = NoEmail /\ AbsentLead.key = NoEmail /\ AbsentLead.mirror = {}
BY DEF AbsentLead, LeadRows

(* What ensure leaves: the tags that were there, and tags of every name it was asked for. *)
LEMMA EnsuredIs ==
    ASSUME LeadsIInv, NEW ns \in SUBSET TagNames, NEW f \in Ensured(ns)
    PROVE  /\ f \in TagTables /\ Of(f, ns) \in SUBSET TagIds
           /\ \A t \in TagIds : f[t] = tag[t] \/ f[t] \in TagNames
           /\ \A t \in TagIds : tag[t] \in TagNames => f[t] = tag[t]
           /\ \A t \in Of(f, ns) : f[t] \in TagNames
           /\ Shown(f, Of(f, ns)) = ns
<1>1. /\ f \in TagTables
      /\ \A t \in TagIds : f[t] = tag[t] \/ (tag[t] = NoName /\ f[t] \in ns)
      /\ ns \subseteq Shown(f, Named(f))
  BY DEF Ensured
<1>2. \A t \in TagIds : tag[t] \in TagNames => f[t] = tag[t]
  BY <1>1, LeadsAssumption
<1>3. Of(f, ns) \in SUBSET TagIds /\ \A t \in Of(f, ns) : f[t] \in ns
  BY DEF Of
<1>4. ASSUME NEW n \in ns PROVE n \in Shown(f, Of(f, ns))
  <2>1. PICK t \in Named(f) : n = f[t]
    BY <1>1, <1>4 DEF Shown
  <2>2. t \in Of(f, ns)
    BY <1>4, <2>1 DEF Of, Named
  <2> QED BY <2>1, <2>2 DEF Shown
<1>5. Shown(f, Of(f, ns)) \subseteq ns
  BY <1>3 DEF Shown
<1> QED BY <1>1, <1>2, <1>3, <1>4, <1>5

LEMMA CreateLeadKeeps ==
    ASSUME LeadsIInv, NEW l \in LeadIds, NEW e \in Emails \cup {NoEmail}, NEW ns \in SUBSET TagNames,
           CreateLead(l, e, ns)
    PROVE  LeadsKept({})
<1>1. PICK row \in LeadRows : /\ lead' = [lead EXCEPT ![l] = row] /\ row.status = "NEW"
                              /\ row.email = e /\ row.key = e /\ row.mirror = ns /\ row.into = NoLead
  <2> DEFINE row == [AbsentLead EXCEPT !.status = "NEW", !.email = e, !.key = e, !.mirror = ns]
  <2>1. /\ row \in LeadRows /\ row.status = "NEW"
        /\ row.email = e /\ row.key = e /\ row.mirror = ns /\ row.into = NoLead
    BY AbsentLeadIs DEF LeadRows
  <2>2. lead' = [lead EXCEPT ![l] = row]
    BY DEF CreateLead
  <2> HIDE DEF row
  <2> QED BY <2>1, <2>2
<1>2. PICK f \in Ensured(ns) : tag' = f
  BY DEF CreateLead
<1>3. /\ ~Exists(l) /\ assigned' = [assigned EXCEPT ![l] = Of(f, ns)]
      /\ UNCHANGED <<candidate, lateMerges, foreignKeys, lateMirrors>>
  BY <1>2 DEF CreateLead, Exists
<1>4. PICK ts \in SUBSET TagIds :
        /\ assigned' = [assigned EXCEPT ![l] = ts] /\ \A t \in ts : tag'[t] \in TagNames
        /\ tag' \in TagTables /\ \A t \in TagIds : tag[t] \in TagNames => tag'[t] = tag[t]
        /\ Shown(tag', ts) = ns
  BY <1>2, <1>3, EnsuredIs
<1>5. lead[l].into = NoLead
  BY <1>3, LeadIs
<1>6. /\ row.status \notin {"NONE", "GONE"} /\ row.key \in {NoEmail, row.email}
      /\ row.into = lead[l].into /\ row.mirror = Shown(tag', ts)
  BY <1>1, <1>4, <1>5
<1>7. \A k \in LeadIds \ {l} :
        /\ k \in foreignKeys => k \in foreignKeys'
        /\ k \in lateMirrors => k \in lateMirrors'
  BY <1>3
<1> QED BY <1>1, <1>3, <1>4, <1>6, <1>7, OneLead

(* A step that rewrites the row of one lead, its tags aside. *)
LEMMA OneRow ==
    ASSUME LeadsIInv, NEW l \in LeadIds, Exists(l), NEW row \in LeadRows,
           lead' = [lead EXCEPT ![l] = row], UNCHANGED <<assigned, tag, candidate, lateMirrors>>,
           lateMerges \subseteq lateMerges', \A k \in LeadIds \ {l} : k \in foreignKeys => k \in foreignKeys',
           row.status \notin {"NONE", "GONE"}, row.into = lead[l].into, row.mirror = lead[l].mirror,
           l \in foreignKeys' \/ row.key \in {NoEmail, row.email}
    PROVE  LeadsKept({})
<1>1. /\ assigned \in [LeadIds -> SUBSET TagIds] /\ tag \in TagTables
      /\ \A t \in assigned[l] : tag[t] \in TagNames
      /\ l \in lateMirrors \/ lead[l].mirror = Shown(tag, assigned[l])
  BY LeadIs
<1>2. PICK ts \in SUBSET TagIds : ts = assigned[l]
  BY <1>1
<1>3. assigned' = [assigned EXCEPT ![l] = ts]
  BY <1>1, <1>2
<1>4. l \in lateMirrors' \/ row.mirror = Shown(tag', ts)
  BY <1>1, <1>2
<1>5. /\ tag' \in TagTables /\ UNCHANGED candidate /\ \A t \in TagIds : tag[t] \in TagNames => tag'[t] = tag[t]
      /\ \A t \in ts : tag'[t] \in TagNames
      /\ \A k \in LeadIds \ {l} : k \in lateMirrors => k \in lateMirrors'
  BY <1>1, <1>2
<1> QED BY <1>3, <1>4, <1>5, OneLead

LEMMA FilledRow ==
    ASSUME NEW row \in LeadRows, NEW e \in Emails \cup {NoEmail}
    PROVE  /\ FillEmail(row, e) \in LeadRows /\ FillEmail(row, e).status = row.status
           /\ FillEmail(row, e).into = row.into /\ FillEmail(row, e).key = row.key
           /\ FillEmail(row, e).mirror = row.mirror
           /\ FillEmail(row, e).email = IF row.email = NoEmail THEN e ELSE row.email
BY DEF FillEmail, LeadRows

LEMMA SeenKeeps ==
    ASSUME LeadsIInv, NEW c \in Clerks, SeenCommit(c)
    PROVE  LeadsKept({})
<1>1. PICK s \in ClerkStates : s = clerk[c]
  BY DEF LeadsIInv, LeadsInv, LeadsTypeOK
<1>2. s.op = "seen" /\ s.a \in LeadIds /\ Exists(s.a)
  BY <1>1 DEF SeenCommit, LeadsIInv, ClerksOK, ClerkOK
<1>3. s.row \in LeadRows /\ s.email \in Emails \cup {NoEmail}
  BY DEF ClerkStates
<1>4. PICK new \in LeadRows : new = FillEmail(s.row, s.email)
  BY <1>3, FilledRow
<1>5. /\ new.status = s.row.status /\ new.into = s.row.into /\ new.key = s.row.key
      /\ new.mirror = s.row.mirror /\ new.email = IF s.row.email = NoEmail THEN s.email ELSE s.row.email
  BY <1>3, <1>4, FilledRow
<1>6. /\ lead' = [lead EXCEPT ![s.a] = WriteLead(s.a, s.row, new)]
      /\ UNCHANGED <<assigned, tag, candidate, lateMerges, lateMirrors>>
      /\ foreignKeys' = IF s.row.email = NoEmail /\ AddressChanged(s.a, s.row)
                        THEN foreignKeys \cup {s.a} ELSE foreignKeys
  BY <1>1, <1>4 DEF SeenCommit
<1>7. lead[s.a] \in LeadRows /\ lead[s.a].status \notin {"NONE", "GONE"}
      /\ (s.a \in foreignKeys \/ lead[s.a].key \in {NoEmail, lead[s.a].email})
  BY <1>2, LeadIs DEF Exists
<1>8. PICK row \in LeadRows :
        /\ row = WriteLead(s.a, s.row, new) /\ row.status = lead[s.a].status
        /\ row.into = lead[s.a].into /\ row.key = lead[s.a].key /\ row.mirror = lead[s.a].mirror
        /\ row.email = IF new.email = s.row.email THEN lead[s.a].email ELSE new.email
  BY <1>2, <1>3, <1>5, <1>7, WrittenLead
<1>9. s.a \in foreignKeys' \/ row.key \in {NoEmail, row.email}
  <2>1. CASE s.row.email # NoEmail
    BY <1>5, <1>6, <1>7, <1>8, <2>1
  <2>2. CASE s.row.email = NoEmail /\ AddressChanged(s.a, s.row)
    BY <1>6, <2>2
  <2>3. CASE s.row.email = NoEmail /\ ~AddressChanged(s.a, s.row)
    BY <1>6, <1>7, <1>8, <2>3 DEF AddressChanged
  <2> QED BY <2>1, <2>2, <2>3
<1> QED BY <1>2, <1>6, <1>7, <1>8, <1>9, OneRow

LEMMA EditKeeps ==
    ASSUME LeadsIInv, NEW c \in Clerks, EditCommit(c)
    PROVE  LeadsKept({})
<1>1. PICK s \in ClerkStates : s = clerk[c]
  BY DEF LeadsIInv, LeadsInv, LeadsTypeOK
<1>2. s.a \in LeadIds /\ s.op \in {"status", "edit"} /\ Exists(s.a)
  BY <1>1 DEF EditCommit, LeadsIInv, ClerksOK, ClerkOK
<1>3. s.row \in LeadRows /\ s.status \in {"NEW", "ARCHIVED"} /\ s.email \in Emails \cup {NoEmail}
  BY DEF ClerkStates
<1>4. PICK new \in LeadRows :
        /\ new = IF s.op = "status" THEN SetStatus(s.row, s.status) ELSE ApplyUpdate(s.row, s.email)
        /\ new.into = s.row.into /\ new.mirror = s.row.mirror
        /\ new.status \in {s.row.status, "NEW", "ARCHIVED"}
        /\ s.op = "status" => new.email = s.row.email /\ new.key = s.row.key
        /\ s.op = "edit" => new.email = s.email /\ new.key = s.email
  <2> DEFINE n == IF s.op = "status" THEN SetStatus(s.row, s.status) ELSE ApplyUpdate(s.row, s.email)
  <2>1. /\ n \in LeadRows /\ n.into = s.row.into /\ n.mirror = s.row.mirror
        /\ n.status \in {s.row.status, "NEW", "ARCHIVED"}
        /\ s.op = "status" => n.email = s.row.email /\ n.key = s.row.key
        /\ s.op = "edit" => n.email = s.email /\ n.key = s.email
    BY <1>3 DEF SetStatus, ApplyUpdate, LeadRows
  <2> HIDE DEF n
  <2>2. n = IF s.op = "status" THEN SetStatus(s.row, s.status) ELSE ApplyUpdate(s.row, s.email)
    BY DEF n
  <2> QED BY <2>1, <2>2
<1>5. /\ lead' = [lead EXCEPT ![s.a] = WriteLead(s.a, s.row, new)]
      /\ UNCHANGED <<assigned, tag, candidate, lateMerges, lateMirrors>>
      /\ foreignKeys' = IF s.op = "status" THEN foreignKeys
                        ELSE IF AddressChanged(s.a, s.row) THEN foreignKeys \cup {s.a}
                        ELSE foreignKeys \ {s.a}
  BY <1>1, <1>4 DEF EditCommit
<1>6. /\ lead[s.a] \in LeadRows /\ lead[s.a].status \notin {"NONE", "GONE"}
      /\ s.a \in foreignKeys \/ lead[s.a].key \in {NoEmail, lead[s.a].email}
  BY <1>2, LeadIs DEF Exists
<1>7. PICK row \in LeadRows :
        /\ row = WriteLead(s.a, s.row, new)
        /\ row.status = IF new.status = s.row.status THEN lead[s.a].status ELSE new.status
        /\ row.into = lead[s.a].into /\ row.mirror = lead[s.a].mirror
        /\ row.email = IF new.email = s.row.email THEN lead[s.a].email ELSE new.email
        /\ row.key = IF new.key = s.row.key THEN lead[s.a].key ELSE new.key
  BY <1>2, <1>3, <1>4, <1>6, WrittenLead
<1>8. row.status \notin {"NONE", "GONE"}
  BY <1>4, <1>6, <1>7
<1>9. s.a \in foreignKeys' \/ row.key \in {NoEmail, row.email}
  <2>1. CASE s.op = "status"
    BY <1>4, <1>5, <1>6, <1>7, <2>1
  <2>2. CASE s.op = "edit" /\ AddressChanged(s.a, s.row)
    BY <1>5, <2>2
  <2>3. CASE s.op = "edit" /\ ~AddressChanged(s.a, s.row)
    <3>1. lead[s.a].email = s.row.email /\ lead[s.a].key = s.row.key
      BY <2>3 DEF AddressChanged
    <3> QED BY <1>4, <1>7, <2>3, <3>1
  <2> QED BY <1>2, <2>1, <2>2, <2>3
<1>10. \A k \in LeadIds \ {s.a} : k \in foreignKeys => k \in foreignKeys'
  BY <1>5
<1> QED BY <1>2, <1>5, <1>7, <1>8, <1>9, <1>10, OneRow

LEMMA HardDeleteKeeps ==
    ASSUME LeadsIInv, NEW l \in LeadIds, HardDelete(l)
    PROVE  LeadsKept({l}) /\ l \in lateMerges'
<1>1. PICK row \in LeadRows : /\ lead' = [lead EXCEPT ![l] = row] /\ row.into = NoLead
                              /\ row.key = NoEmail /\ row.mirror = {}
  <2> DEFINE row == [AbsentLead EXCEPT !.status = "GONE"]
  <2>1. row \in LeadRows /\ row.into = NoLead /\ row.key = NoEmail /\ row.mirror = {}
    BY AbsentLeadIs DEF LeadRows
  <2>2. lead' = [lead EXCEPT ![l] = row]
    BY DEF HardDelete
  <2> HIDE DEF row
  <2> QED BY <2>1, <2>2
<1>2. /\ assigned' = [assigned EXCEPT ![l] = {}] /\ UNCHANGED <<tag, candidate, foreignKeys, lateMirrors>>
      /\ lateMerges' = lateMerges \cup {l} /\ tag' \in TagTables
  BY LeadIs DEF HardDelete
<1>3. Shown(tag', {}) = {}
  BY DEF Shown
<1>4. PICK ts \in SUBSET TagIds : ts = {}
  OBVIOUS
<1>5. assigned' = [assigned EXCEPT ![l] = ts] /\ row.mirror = Shown(tag', ts)
  BY <1>1, <1>2, <1>3, <1>4
<1> QED BY <1>1, <1>2, <1>4, <1>5, OneLead

LEMMA BulkKeeps ==
    ASSUME LeadsIInv, NEW ls \in SUBSET LeadIds, NEW st \in {"NEW", "ARCHIVED"}, BulkStatus(ls, st)
    PROVE  LeadsKept({})
<1> DEFINE row(l) == IF l \in ls /\ Exists(l) /\ ~Retired(l)
                     THEN [lead[l] EXCEPT !.status = st, !.archived = st = "ARCHIVED"] ELSE lead[l]
<1>1. UNCHANGED <<assigned, tag, candidate, lateMerges, foreignKeys, lateMirrors>>
  BY DEF BulkStatus
<1>6. lead' = [l \in LeadIds |-> row(l)]
  BY DEF BulkStatus
<1>2. ASSUME NEW l \in LeadIds
      PROVE  /\ row(l) \in LeadRows /\ row(l).into = lead[l].into /\ row(l).email = lead[l].email
             /\ row(l).key = lead[l].key /\ row(l).mirror = lead[l].mirror
             /\ row(l).status = lead[l].status \/ (Exists(l) /\ row(l).status = st)
    BY LeadIs DEF LeadRows
<1> HIDE DEF row
<1>3. lead' \in [LeadIds -> LeadRows] /\ \A l \in LeadIds : lead'[l] = row(l)
  BY <1>2, <1>6
<1>4. ASSUME NEW l \in LeadIds
      PROVE  lead'[l].into = lead[l].into /\ (Exists(l) => Exists(l)') /\ LeadOK(l)'
  <2>1. CASE lead'[l].status = lead[l].status
    BY <1>1, <1>2, <1>3, <2>1, LeadSame
  <2>2. CASE Exists(l) /\ lead'[l].status = st
    <3>1. Exists(l)' /\ lead'[l].into = lead[l].into
      BY <1>2, <1>3, <2>2 DEF Exists
    <3>2. /\ \A t \in assigned'[l] : tag'[t] \in TagNames
          /\ l \in foreignKeys' \/ lead'[l].key \in {NoEmail, lead'[l].email}
          /\ l \in lateMirrors' \/ lead'[l].mirror = Shown(tag', assigned'[l])
      BY <1>1, <1>2, <1>3, LeadIs
    <3> QED BY <3>1, <3>2 DEF LeadOK
  <2> QED BY <1>2, <1>3, <2>1, <2>2
<1>5. /\ assigned' \in [LeadIds -> SUBSET TagIds] /\ tag' \in TagTables
      /\ candidate' \in [Pairs -> CandidateStatus] /\ lateMerges \subseteq lateMerges'
  BY <1>1 DEF LeadsIInv, LeadsInv, LeadsTypeOK
<1> QED BY <1>3, <1>4, <1>5 DEF LeadsKept

(* The commit of tags: the mirrors that were due show the assignments as they are after it,  *)
(* but those that another commit outran; the other columns are those of rows.                *)
LEMMA WriteTagsKeeps ==
    ASSUME LeadsIInv, NEW s \in ClerkStates, ClerkOK(s), s.op # "renamed",
           NEW rows \in [LeadIds -> LeadRows], \A l \in LeadIds : rows[l].mirror = lead[l].mirror,
           WriteTags(s, rows)
    PROVE  /\ lead' \in [LeadIds -> LeadRows] /\ assigned' \in [LeadIds -> SUBSET TagIds]
           /\ tag' \in TagTables
           /\ \A l \in LeadIds :
                /\ lead'[l].status = rows[l].status /\ lead'[l].into = rows[l].into
                /\ lead'[l].email = rows[l].email /\ lead'[l].key = rows[l].key
                /\ \A t \in assigned'[l] : tag'[t] \in TagNames
                /\ l \in lateMirrors' \/ lead'[l].mirror = Shown(tag', assigned'[l])
                /\ ~Exists(l) => assigned'[l] = {} /\ lead'[l].mirror = {}
<1>1. /\ s.leads \in SUBSET LeadIds /\ s.held \in [LeadIds -> SUBSET TagIds] /\ s.names \in TagTables
      /\ s.made \in SUBSET TagIds /\ s.add \in SUBSET TagIds /\ s.drop \in SUBSET TagIds
      /\ s.whole \in SUBSET TagIds
  BY DEF ClerkStates
<1>2. /\ s.op = "delete" => s.whole = s.drop /\ s.add = {}
      /\ \A l \in LeadIds \ s.leads : s.whole \cap s.held[l] = {}
      /\ \A t \in s.made \cup s.add : s.names[t] \in TagNames
      /\ \A l \in LeadIds : \A t \in s.held[l] : s.names[t] \in TagNames
  BY DEF ClerkOK, Named
<1>3. /\ \A t \in s.made : tag[t] = NoName
      /\ \A t \in s.add \ s.made : tag[t] \in TagNames
      /\ tag' = [t \in TagIds |-> IF t \in s.made THEN s.names[t]
                                 ELSE IF s.op = "delete" /\ t \in s.whole THEN GoneName ELSE tag[t]]
  BY DEF WriteTags, Named
<1>4. /\ assigned' = [l \in LeadIds |->
                        IF l \in s.leads /\ Exists(l) THEN (assigned[l] \ s.drop) \cup s.add
                        ELSE IF s.op = "delete" THEN assigned[l] \ s.whole ELSE assigned[l]]
      /\ lateMirrors' = (lateMirrors \ Due(s)) \cup Outrun(s)
  BY DEF WriteTags
<1>5. lead' = [l \in LeadIds |-> IF l \in s.leads /\ Exists(l)
                                 THEN [rows[l] EXCEPT !.mirror = RefreshMirror(s, l)] ELSE rows[l]]
  BY DEF WriteTags
<1>6. tag \in TagTables /\ assigned \in [LeadIds -> SUBSET TagIds]
  BY DEF LeadsIInv, LeadsInv, LeadsTypeOK
<1>7. /\ tag' \in TagTables
      /\ \A t \in TagIds : tag'[t] = IF t \in s.made THEN s.names[t]
                                     ELSE IF s.op = "delete" /\ t \in s.whole THEN GoneName ELSE tag[t]
  BY <1>1, <1>3, <1>6 DEF TagTables
<1>8. /\ assigned' \in [LeadIds -> SUBSET TagIds]
      /\ \A l \in LeadIds :
            assigned'[l] = IF l \in s.leads /\ Exists(l) THEN (assigned[l] \ s.drop) \cup s.add
                           ELSE IF s.op = "delete" THEN assigned[l] \ s.whole ELSE assigned[l]
  BY <1>1, <1>4, <1>6
<1>9. ASSUME NEW l \in LeadIds
      PROVE  Left(s, l) \in SUBSET TagIds /\ RefreshMirror(s, l) \in SUBSET TagNames
  <2>1. Left(s, l) \in SUBSET TagIds /\ \A t \in Left(s, l) : s.names[t] \in TagNames
    BY <1>1, <1>2 DEF Left
  <2> QED BY <2>1 DEF RefreshMirror, Shown
<1>10. lead' \in [LeadIds -> LeadRows]
       /\ \A l \in LeadIds :
            /\ lead'[l].status = rows[l].status /\ lead'[l].into = rows[l].into
            /\ lead'[l].email = rows[l].email /\ lead'[l].key = rows[l].key
            /\ lead'[l].mirror = IF l \in s.leads /\ Exists(l) THEN RefreshMirror(s, l)
                                 ELSE lead[l].mirror
  <2> DEFINE row(l) == IF l \in s.leads /\ Exists(l)
                       THEN [rows[l] EXCEPT !.mirror = RefreshMirror(s, l)] ELSE rows[l]
  <2>1. ASSUME NEW l \in LeadIds
        PROVE  /\ row(l) \in LeadRows /\ row(l).status = rows[l].status /\ row(l).into = rows[l].into
               /\ row(l).email = rows[l].email /\ row(l).key = rows[l].key
               /\ row(l).mirror = IF l \in s.leads /\ Exists(l) THEN RefreshMirror(s, l)
                                  ELSE lead[l].mirror
    <3>1. rows[l] \in LeadRows /\ rows[l].mirror = lead[l].mirror
      OBVIOUS
    <3>2. PICK m \in SUBSET TagNames : m = RefreshMirror(s, l)
      BY <1>9
    <3> QED BY <3>1, <3>2 DEF LeadRows
  <2>2. lead' = [l \in LeadIds |-> row(l)]
    BY <1>5
  <2> HIDE DEF row
  <2> QED BY <2>1, <2>2
<1>11. ASSUME NEW l \in LeadIds
       PROVE  \A t \in assigned'[l] : tag'[t] \in TagNames
  <2>1. \A t \in assigned[l] : t \in TagIds /\ tag[t] \in TagNames /\ t \notin s.made
    BY <1>3, LeadIs, LeadsAssumption
  <2>2. \A t \in s.add : tag'[t] \in TagNames
    BY <1>1, <1>2, <1>3, <1>7
  <2>3. \A t \in assigned[l] : tag'[t] = IF s.op = "delete" /\ t \in s.whole THEN GoneName ELSE tag[t]
    BY <1>7, <2>1
  <2> QED BY <1>2, <1>8, <2>1, <2>2, <2>3
<1>12. ASSUME NEW l \in LeadIds, l \notin lateMirrors'
       PROVE  lead'[l].mirror = Shown(tag', assigned'[l])
  <2>1. l \notin Outrun(s) /\ (l \in lateMirrors => l \in Due(s))
    BY <1>4, <1>12
  <2>2. /\ l \in s.leads => s.held[l] = assigned[l]
        /\ l \in s.leads => \A t \in Left(s, l) \ s.made : s.names[t] = tag[t]
        /\ s.op = "delete" => s.whole \cap (assigned[l] \ s.held[l]) = {}
    BY <2>1 DEF Outrun
  <2>3. l \in Due(s) => l \in s.leads
    BY <1>2 DEF Due
  <2>4. CASE l \in s.leads /\ Exists(l)
    <3>1. assigned'[l] = Left(s, l) /\ lead'[l].mirror = Shown(s.names, Left(s, l))
      BY <1>8, <1>10, <2>2, <2>4 DEF Left, RefreshMirror
    <3>2. ASSUME NEW t \in Left(s, l) PROVE s.names[t] = tag'[t]
      <4>1. t \in TagIds /\ (s.op = "delete" => t \notin s.whole)
        BY <1>2, <1>9 DEF Left
      <4> QED BY <1>7, <2>2, <2>4, <4>1
    <3>3. Left(s, l) \in SUBSET TagIds
      BY <1>9
    <3> QED BY <3>1, <3>2, <3>3, ShownSame
  <2>5. CASE l \in s.leads /\ ~Exists(l)
    <3>1. assigned'[l] = {} /\ lead'[l].mirror = {}
      BY <1>8, <1>10, <2>5, LeadIs
    <3> QED BY <3>1 DEF Shown
  <2>6. CASE l \notin s.leads
    <3>1. lead'[l].mirror = lead[l].mirror /\ l \notin lateMirrors
      BY <1>10, <2>1, <2>3, <2>6
    <3>2. lead[l].mirror = Shown(tag, assigned[l]) /\ assigned[l] \in SUBSET TagIds
          /\ \A t \in assigned[l] : tag[t] \in TagNames
      BY <3>1, LeadIs
    <3>3. s.op = "delete" => s.whole \cap assigned[l] = {}
      BY <1>2, <2>2, <2>6
    <3>4. assigned'[l] = assigned[l]
      BY <1>8, <2>6, <3>3
    <3>5. \A t \in assigned[l] : tag[t] = tag'[t]
      BY <1>3, <1>7, <3>2, <3>3, LeadsAssumption
    <3> QED BY <3>1, <3>2, <3>4, <3>5, ShownSame
  <2> QED BY <2>4, <2>5, <2>6
<1>13. ASSUME NEW l \in LeadIds, ~Exists(l)
       PROVE  assigned'[l] = {} /\ lead'[l].mirror = {}
  BY <1>8, <1>10, <1>13, LeadIs
<1> QED BY <1>7, <1>8, <1>10, <1>11, <1>12, <1>13

(* The commit of a request whose rows change only leads that are there. *)
LEMMA TagsWritten ==
    ASSUME LeadsIInv, NEW s \in ClerkStates, ClerkOK(s), s.op # "renamed",
           NEW rows \in [LeadIds -> LeadRows], WriteTags(s, rows),
           NEW changed \in SUBSET LeadIds,
           \A l \in LeadIds :
               /\ rows[l].mirror = lead[l].mirror
               /\ ~Exists(l) => rows[l] = lead[l]
               /\ Exists(l) => rows[l].status \notin {"NONE", "GONE"}
               /\ l \notin changed => rows[l].into = lead[l].into
               /\ l \in foreignKeys' \/ rows[l].key \in {NoEmail, rows[l].email},
           lateMerges \subseteq lateMerges', candidate' \in [Pairs -> CandidateStatus]
    PROVE  LeadsKept(changed) /\ \A l \in LeadIds : /\ lead'[l].into = rows[l].into
                                                    /\ Exists(l) => Exists(l)'
<1>1. /\ lead' \in [LeadIds -> LeadRows] /\ assigned' \in [LeadIds -> SUBSET TagIds]
      /\ tag' \in TagTables
      /\ \A l \in LeadIds :
           /\ lead'[l].status = rows[l].status /\ lead'[l].into = rows[l].into
           /\ lead'[l].email = rows[l].email /\ lead'[l].key = rows[l].key
           /\ \A t \in assigned'[l] : tag'[t] \in TagNames
           /\ l \in lateMirrors' \/ lead'[l].mirror = Shown(tag', assigned'[l])
           /\ ~Exists(l) => assigned'[l] = {} /\ lead'[l].mirror = {}
  BY WriteTagsKeeps
<1>2. ASSUME NEW l \in LeadIds
      PROVE  LeadOK(l)' /\ lead'[l].into = rows[l].into /\ (Exists(l) => Exists(l)')
             /\ (l \notin changed => lead'[l].into = lead[l].into)
  <2>1. Exists(l) => Exists(l)'
    BY <1>1 DEF Exists
  <2>2. ~Exists(l) => lead'[l].into = NoLead /\ assigned'[l] = {} /\ lead'[l].mirror = {}
    BY <1>1, LeadIs
  <2> QED BY <1>1, <2>1, <2>2 DEF LeadOK, Retired
<1> QED BY <1>1, <1>2 DEF LeadsKept

LEMMA TagKeeps ==
    ASSUME LeadsIInv, NEW c \in Clerks, TagCommit(c)
    PROVE  LeadsKept({})
<1>1. PICK s \in ClerkStates : s = clerk[c]
  BY DEF LeadsIInv, LeadsInv, LeadsTypeOK
<1>2. ClerkOK(s) /\ s.op # "renamed" /\ WriteTags(s, lead) /\ UNCHANGED <<candidate, lateMerges, foreignKeys>>
  BY <1>1 DEF TagCommit, LeadsIInv, ClerksOK
<1>3. PICK rows \in [LeadIds -> LeadRows] : rows = lead
  BY DEF LeadsIInv, LeadsInv, LeadsTypeOK
<1>4. WriteTags(s, rows)
  BY <1>2, <1>3
<1>5. candidate' \in [Pairs -> CandidateStatus]
  BY <1>2 DEF LeadsIInv, LeadsInv, LeadsTypeOK
<1>6. \A l \in LeadIds :
        /\ rows[l].mirror = lead[l].mirror /\ rows[l] = lead[l] /\ rows[l].into = lead[l].into
        /\ Exists(l) => rows[l].status \notin {"NONE", "GONE"}
        /\ l \in foreignKeys' \/ rows[l].key \in {NoEmail, rows[l].email}
  BY <1>2, <1>3, LeadIs DEF Exists
<1> QED BY <1>2, <1>4, <1>5, <1>6, TagsWritten

(* A step that creates or renames a tag. *)
LEMMA TableKeeps ==
    ASSUME LeadsIInv, UNCHANGED <<lead, assigned, candidate, lateMerges, foreignKeys>>,
           tag' \in TagTables, lateMirrors \subseteq lateMirrors',
           \A l \in LeadIds : \A t \in assigned[l] :
               tag'[t] \in TagNames /\ (l \in lateMirrors' \/ tag'[t] = tag[t])
    PROVE  LeadsKept({})
<1>1. ASSUME NEW l \in LeadIds
      PROVE  LeadOK(l)' /\ lead'[l].into = lead[l].into /\ (Exists(l) => Exists(l)')
  <2>1. CASE \A t \in assigned[l] : tag'[t] = tag[t]
    BY <2>1, LeadSame
  <2>2. CASE l \in lateMirrors'
    <3>1. /\ \A t \in assigned'[l] : tag'[t] \in TagNames
          /\ l \in foreignKeys' \/ lead'[l].key \in {NoEmail, lead'[l].email}
          /\ lead'[l].into = lead[l].into /\ (Exists(l) => Exists(l)')
          /\ Exists(l)' \/ (lead'[l].into = NoLead /\ assigned'[l] = {} /\ lead'[l].mirror = {})
      BY LeadIs DEF Exists
    <3> QED BY <2>2, <3>1 DEF LeadOK, Retired
  <2> QED BY <2>1, <2>2
<1>2. lead' \in [LeadIds -> LeadRows] /\ assigned' \in [LeadIds -> SUBSET TagIds]
      /\ candidate' \in [Pairs -> CandidateStatus]
  BY DEF LeadsIInv, LeadsInv, LeadsTypeOK
<1> QED BY <1>1, <1>2 DEF LeadsKept

LEMMA CreateTagKeeps ==
    ASSUME LeadsIInv, NEW n \in TagNames, CreateTag(n)
    PROVE  LeadsKept({})
<1>1. PICK f \in Ensured({n}) : tag' = f
  BY DEF CreateTag
<1>2. UNCHANGED <<lead, assigned, candidate, lateMerges, foreignKeys, lateMirrors>>
  BY DEF CreateTag
<1>3. {n} \in SUBSET TagNames
  OBVIOUS
<1>4. tag' \in TagTables /\ \A t \in TagIds : tag[t] \in TagNames => tag'[t] = tag[t]
  BY <1>1, <1>3, EnsuredIs
<1>5. \A l \in LeadIds : \A t \in assigned[l] : tag'[t] \in TagNames /\ tag'[t] = tag[t]
  BY <1>4, LeadIs
<1> QED BY <1>2, <1>4, <1>5, TableKeeps

LEMMA RenameTagKeeps ==
    ASSUME LeadsIInv, NEW c \in Clerks, NEW t \in TagIds, NEW n \in TagNames, RenameTag(c, t, n)
    PROVE  LeadsKept({})
<1>1. /\ UNCHANGED <<lead, assigned, candidate, lateMerges, foreignKeys>>
      /\ tag' = [tag EXCEPT ![t] = n] /\ lateMirrors' = lateMirrors \cup Carriers(t)
  BY DEF RenameTag
<1>2. tag \in TagTables
  BY DEF LeadsIInv, LeadsInv, LeadsTypeOK
<1>3. tag' \in TagTables /\ tag'[t] = n /\ \A u \in TagIds \ {t} : tag'[u] = tag[u]
  BY <1>1, <1>2 DEF TagTables
<1>4. ASSUME NEW l \in LeadIds, NEW u \in assigned[l]
      PROVE  tag'[u] \in TagNames /\ (l \in lateMirrors' \/ tag'[u] = tag[u])
  <2>1. u \in TagIds /\ tag[u] \in TagNames
    BY LeadIs
  <2>2. u = t => l \in lateMirrors'
    BY <1>1 DEF Carriers
  <2> QED BY <1>3, <2>1, <2>2
<1> QED BY <1>1, <1>3, <1>4, TableKeeps

LEMMA ImportKeeps ==
    ASSUME LeadsIInv, NEW c \in Clerks, ImportCommit(c)
    PROVE  LeadsKept({})
<1>1. PICK s \in ClerkStates : s = clerk[c]
  BY DEF LeadsIInv, LeadsInv, LeadsTypeOK
<1>2. ClerkOK(s) /\ s.op = "import" /\ s.a \in LeadIds
  BY <1>1 DEF ImportCommit, LeadsIInv, ClerksOK, ClerkOK
<1>3. s.row \in LeadRows /\ s.email \in Emails \cup {NoEmail}
  BY DEF ClerkStates
<1>4. PICK new \in LeadRows :
        /\ WriteTags(s, [lead EXCEPT ![s.a] = WriteLead(s.a, s.row, new)])
        /\ foreignKeys' = IF s.email # NoEmail /\ (new.email # s.email \/ AddressChanged(s.a, s.row))
                          THEN foreignKeys \cup {s.a} ELSE foreignKeys
        /\ new.status = s.row.status /\ new.into = s.row.into /\ new.mirror = s.row.mirror
        /\ new.email = IF s.row.email = NoEmail THEN s.email ELSE s.row.email
        /\ new.key = IF s.email = NoEmail THEN s.row.key ELSE s.email
  <2>1. PICK filled \in LeadRows : filled = FillEmail(s.row, s.email)
    BY <1>3, FilledRow
  <2>2. /\ filled.status = s.row.status /\ filled.into = s.row.into /\ filled.mirror = s.row.mirror
        /\ filled.email = IF s.row.email = NoEmail THEN s.email ELSE s.row.email
        /\ filled.key = s.row.key
    BY <1>3, <2>1, FilledRow
  <2> DEFINE new == IF s.email = NoEmail THEN filled ELSE [filled EXCEPT !.key = s.email]
  <2>3. /\ new \in LeadRows /\ new.status = filled.status /\ new.into = filled.into
        /\ new.mirror = filled.mirror /\ new.email = filled.email
        /\ new.key = IF s.email = NoEmail THEN filled.key ELSE s.email
    BY <1>3 DEF LeadRows
  <2>4. /\ WriteTags(s, [lead EXCEPT ![s.a] = WriteLead(s.a, s.row, new)])
        /\ foreignKeys' = IF s.email # NoEmail /\ (new.email # s.email \/ AddressChanged(s.a, s.row))
                          THEN foreignKeys \cup {s.a} ELSE foreignKeys
    BY <1>1, <2>1 DEF ImportCommit
  <2> HIDE DEF new
  <2> QED BY <2>2, <2>3, <2>4
<1>5. /\ Exists(s.a) /\ UNCHANGED <<candidate, lateMerges>>
      /\ candidate' \in [Pairs -> CandidateStatus]
  BY <1>1, <1>2, LeadsAssumption DEF ImportCommit, WriteTags, LeadsIInv, LeadsInv, LeadsTypeOK
<1>6. /\ lead[s.a] \in LeadRows /\ lead[s.a].status \notin {"NONE", "GONE"}
      /\ s.a \in foreignKeys \/ lead[s.a].key \in {NoEmail, lead[s.a].email}
  BY <1>2, <1>5, LeadIs DEF Exists
<1>7. PICK row \in LeadRows :
        /\ row = WriteLead(s.a, s.row, new) /\ row.status = lead[s.a].status
        /\ row.into = lead[s.a].into /\ row.mirror = lead[s.a].mirror
        /\ row.email = IF new.email = s.row.email THEN lead[s.a].email ELSE new.email
        /\ row.key = IF new.key = s.row.key THEN lead[s.a].key ELSE new.key
  BY <1>2, <1>3, <1>4, <1>6, WrittenLead
<1>8. s.a \in foreignKeys' \/ row.key \in {NoEmail, row.email}
  <2>1. CASE s.email = NoEmail
    BY <1>4, <1>6, <1>7, <2>1
  <2>2. CASE s.email # NoEmail /\ (new.email # s.email \/ AddressChanged(s.a, s.row))
    BY <1>4, <2>2
  <2>3. CASE s.email # NoEmail /\ new.email = s.email /\ ~AddressChanged(s.a, s.row)
    BY <1>4, <1>6, <1>7, <2>3 DEF AddressChanged
  <2> QED BY <2>1, <2>2, <2>3
<1>9. PICK rows \in [LeadIds -> LeadRows] :
        WriteTags(s, rows) /\ rows[s.a] = row /\ \A l \in LeadIds \ {s.a} : rows[l] = lead[l]
  <2>1. lead \in [LeadIds -> LeadRows]
    BY DEF LeadsIInv, LeadsInv, LeadsTypeOK
  <2>2. PICK rows : rows = [lead EXCEPT ![s.a] = row]
    OBVIOUS
  <2>3. rows \in [LeadIds -> LeadRows] /\ rows[s.a] = row /\ \A l \in LeadIds \ {s.a} : rows[l] = lead[l]
    BY <1>2, <2>1, <2>2
  <2>4. WriteTags(s, rows)
    BY <1>4, <1>7, <2>2
  <2> QED BY <2>3, <2>4
<1>10. \A l \in LeadIds :
         /\ rows[l].mirror = lead[l].mirror
         /\ ~Exists(l) => rows[l] = lead[l]
         /\ Exists(l) => rows[l].status \notin {"NONE", "GONE"}
         /\ rows[l].into = lead[l].into
         /\ l \in foreignKeys' \/ rows[l].key \in {NoEmail, rows[l].email}
  <2>1. ASSUME NEW l \in LeadIds, l # s.a
        PROVE  /\ rows[l].mirror = lead[l].mirror
               /\ ~Exists(l) => rows[l] = lead[l]
               /\ Exists(l) => rows[l].status \notin {"NONE", "GONE"}
               /\ rows[l].into = lead[l].into
               /\ l \in foreignKeys' \/ rows[l].key \in {NoEmail, rows[l].email}
    BY <1>4, <1>9, <2>1, LeadIs DEF Exists
  <2> QED BY <1>5, <1>6, <1>7, <1>8, <1>9, <2>1
<1> QED BY <1>2, <1>5, <1>9, <1>10, TagsWritten

(* A merge retires the merged lead into the primary, which stays, unless one of the two   *)
(* was merged meanwhile.                                                              *)
LEMMA MergeKeeps ==
    ASSUME LeadsIInv, NEW c \in Clerks, MergeCommit(c), NEW s \in ClerkStates, s = clerk[c]
    PROVE  /\ LeadsKept({s.b}) /\ s.a \in LeadIds /\ s.b \in LeadIds
           /\ lead'[s.a].into = lead[s.a].into /\ Exists(s.a)'
           /\ {s.a, s.b} \subseteq lateMerges' \/ (lead[s.a].into = NoLead /\ lead'[s.b].into = s.a)
           /\ lead'[s.b].into # NoLead /\ candidate' = ResolveCandidates(s.a, s.b)
<1> DEFINE retire == [s.row2 EXCEPT !.status = "ARCHIVED", !.archived = TRUE, !.into = s.a]
<1>1. /\ s.a \in LeadIds /\ s.b \in LeadIds /\ s.a # s.b /\ Exists(s.a) /\ Exists(s.b)
      /\ s.row.into = NoLead /\ s.row2.into = NoLead /\ s.a # NoLead
      /\ ClerkOK(s) /\ s.op = "merge"
  BY LeadsAssumption DEF MergeCommit, WriteTags, LeadsIInv, ClerksOK, ClerkOK
<1>2. s.row \in LeadRows /\ s.row2 \in LeadRows /\ s.row2.email \in Emails \cup {NoEmail}
  BY DEF ClerkStates, LeadRows
<1>3. PICK fill \in LeadRows :
        /\ fill = FillEmail(s.row, s.row2.email) /\ fill.status = s.row.status /\ fill.into = s.row.into
        /\ fill.key = s.row.key /\ fill.mirror = s.row.mirror
        /\ fill.email = IF s.row.email = NoEmail THEN s.row2.email ELSE s.row.email
  BY <1>2, FilledRow
<1>4. /\ retire \in LeadRows /\ retire.status = "ARCHIVED" /\ retire.into = s.a
      /\ retire.key = s.row2.key /\ retire.mirror = s.row2.mirror /\ retire.email = s.row2.email
  BY <1>1, <1>2 DEF LeadRows
<1>5. /\ WriteTags(s, [lead EXCEPT ![s.a] = WriteLead(s.a, s.row, fill),
                                   ![s.b] = WriteLead(s.b, s.row2, retire)])
      /\ candidate' = ResolveCandidates(s.a, s.b)
      /\ lateMerges' = IF lead[s.a].into # s.row.into \/ lead[s.b].into # s.row2.into
                       THEN lateMerges \cup {s.a, s.b} ELSE lateMerges
      /\ foreignKeys' = IF s.row.email = NoEmail /\ AddressChanged(s.a, s.row)
                        THEN foreignKeys \cup {s.a} ELSE foreignKeys
  BY <1>3 DEF MergeCommit
<1> HIDE DEF retire
<1>6. /\ lead[s.a] \in LeadRows /\ lead[s.b] \in LeadRows
      /\ lead[s.a].status \notin {"NONE", "GONE"} /\ lead[s.b].status \notin {"NONE", "GONE"}
      /\ s.a \in foreignKeys \/ lead[s.a].key \in {NoEmail, lead[s.a].email}
      /\ s.b \in foreignKeys \/ lead[s.b].key \in {NoEmail, lead[s.b].email}
  BY <1>1, LeadIs DEF Exists
<1>7. PICK kept \in LeadRows :
        /\ kept = WriteLead(s.a, s.row, fill) /\ kept.status = lead[s.a].status
        /\ kept.into = lead[s.a].into /\ kept.key = lead[s.a].key /\ kept.mirror = lead[s.a].mirror
        /\ kept.email = IF fill.email = s.row.email THEN lead[s.a].email ELSE fill.email
  BY <1>1, <1>2, <1>3, <1>6, WrittenLead
<1>8. PICK gone \in LeadRows :
        /\ gone = WriteLead(s.b, s.row2, retire) /\ gone.status \in {"ARCHIVED", lead[s.b].status}
        /\ gone.into = s.a /\ gone.key = lead[s.b].key /\ gone.mirror = lead[s.b].mirror
        /\ gone.email = lead[s.b].email
  BY <1>1, <1>2, <1>4, <1>6, WrittenLead
<1>9. s.a \in foreignKeys' \/ kept.key \in {NoEmail, kept.email}
  <2>1. CASE s.row.email # NoEmail
    BY <1>3, <1>5, <1>6, <1>7, <2>1
  <2>2. CASE s.row.email = NoEmail /\ AddressChanged(s.a, s.row)
    BY <1>5, <2>2
  <2>3. CASE s.row.email = NoEmail /\ ~AddressChanged(s.a, s.row)
    BY <1>5, <1>6, <1>7, <2>3 DEF AddressChanged
  <2> QED BY <2>1, <2>2, <2>3
<1>10. PICK rows \in [LeadIds -> LeadRows] :
         /\ WriteTags(s, rows) /\ rows[s.a] = kept /\ rows[s.b] = gone
         /\ \A l \in LeadIds \ {s.a, s.b} : rows[l] = lead[l]
  <2>1. lead \in [LeadIds -> LeadRows]
    BY DEF LeadsIInv, LeadsInv, LeadsTypeOK
  <2>2. PICK rows : rows = [lead EXCEPT ![s.a] = kept, ![s.b] = gone]
    OBVIOUS
  <2>3. /\ rows \in [LeadIds -> LeadRows] /\ rows[s.a] = kept /\ rows[s.b] = gone
        /\ \A l \in LeadIds \ {s.a, s.b} : rows[l] = lead[l]
    BY <1>1, <2>1, <2>2
  <2>4. WriteTags(s, rows)
    BY <1>5, <1>7, <1>8, <2>2
  <2> QED BY <2>3, <2>4
<1>11. \A l \in LeadIds :
         /\ rows[l].mirror = lead[l].mirror
         /\ ~Exists(l) => rows[l] = lead[l]
         /\ Exists(l) => rows[l].status \notin {"NONE", "GONE"}
         /\ l \notin {s.b} => rows[l].into = lead[l].into
         /\ l \in foreignKeys' \/ rows[l].key \in {NoEmail, rows[l].email}
  <2>1. ASSUME NEW l \in LeadIds, l \notin {s.a, s.b}
        PROVE  /\ rows[l].mirror = lead[l].mirror
               /\ ~Exists(l) => rows[l] = lead[l]
               /\ Exists(l) => rows[l].status \notin {"NONE", "GONE"}
               /\ l \notin {s.b} => rows[l].into = lead[l].into
               /\ l \in foreignKeys' \/ rows[l].key \in {NoEmail, rows[l].email}
    BY <1>5, <1>10, <2>1, LeadIs DEF Exists
  <2>2. /\ rows[s.a].mirror = lead[s.a].mirror /\ rows[s.a].status \notin {"NONE", "GONE"}
        /\ rows[s.a].into = lead[s.a].into
        /\ s.a \in foreignKeys' \/ rows[s.a].key \in {NoEmail, rows[s.a].email}
    BY <1>6, <1>7, <1>9, <1>10
  <2>3. /\ rows[s.b].mirror = lead[s.b].mirror /\ rows[s.b].status \notin {"NONE", "GONE"}
        /\ s.b \in foreignKeys' \/ rows[s.b].key \in {NoEmail, rows[s.b].email}
    BY <1>5, <1>6, <1>8, <1>10
  <2> QED BY <1>1, <2>1, <2>2, <2>3
<1>12. candidate' \in [Pairs -> CandidateStatus] /\ lateMerges \subseteq lateMerges'
  <2>1. candidate \in [Pairs -> CandidateStatus]
    BY DEF LeadsIInv, LeadsInv, LeadsTypeOK
  <2> QED BY <1>5, <2>1 DEF ResolveCandidates, CandidateStatus
<1>13. LeadsKept({s.b}) /\ \A l \in LeadIds : lead'[l].into = rows[l].into /\ (Exists(l) => Exists(l)')
  <2>1. s.op # "renamed" /\ {s.b} \in SUBSET LeadIds
    BY <1>1
  <2> QED BY <1>1, <1>10, <1>11, <1>12, <2>1, TagsWritten
<1>14. lead'[s.a].into = lead[s.a].into /\ Exists(s.a)' /\ lead'[s.b].into = s.a
  BY <1>1, <1>7, <1>8, <1>10, <1>13
<1>15. {s.a, s.b} \subseteq lateMerges' \/ (lead[s.a].into = NoLead /\ lead'[s.b].into = s.a)
  BY <1>1, <1>5, <1>14
<1> QED BY <1>1, <1>5, <1>13, <1>14, <1>15

(* Where a step sends the leads that it gives another way: nowhere that RetiredHasSurvivor *)
(* speaks of, or into a lead that is there and not retired.                           *)
NewWay(changed) ==
    \/ changed \subseteq lateMerges'
    \/ \E a, b \in LeadIds : /\ changed = {b} /\ lead'[b].into = a
                             /\ Exists(a)' /\ lead'[a].into = NoLead

(* The requests that have only read so far, and those that have failed. *)
Reads ==
    \/ \E c \in Clerks, l \in LeadIds, e \in Emails : SeenLoad(c, l, e)
    \/ \E c \in Clerks, l \in LeadIds, e \in Emails \cup {NoEmail}, ns \in SUBSET TagNames :
          ImportLoad(c, l, e, ns)
    \/ \E c \in Clerks, a, b \in LeadIds : ScanLoad(c, a, b) \/ MergeLoad(c, a, b)
    \/ \E c \in Clerks, op \in {"status", "edit"}, l \in LeadIds, e \in Emails \cup {NoEmail},
          st \in {"NEW", "ARCHIVED"} : EditLoad(c, op, l, e, st)
    \/ \E c \in Clerks, l \in LeadIds, n \in TagNames : AssignLoad(c, l, n)
    \/ \E c \in Clerks, l \in LeadIds, t \in TagIds : UnassignLoad(c, l, t)
    \/ \E c \in Clerks, t \in TagIds : DeleteLoad(c, t)
    \/ \E c \in Clerks : RenameLoad(c) \/ ClerkFails(c)

LEMMA ReadsLeave ==
    Reads => UNCHANGED <<lead, assigned, tag, candidate, lateMerges, foreignKeys, lateMirrors>>
<1>1. ASSUME NEW c, NEW l, NEW e, SeenLoad(c, l, e)
      PROVE  UNCHANGED <<lead, assigned, tag, candidate, lateMerges, foreignKeys, lateMirrors>>
  BY <1>1 DEF SeenLoad
<1>2. ASSUME NEW c, NEW l, NEW e, NEW ns, ImportLoad(c, l, e, ns)
      PROVE  UNCHANGED <<lead, assigned, tag, candidate, lateMerges, foreignKeys, lateMirrors>>
  BY <1>2 DEF ImportLoad
<1>3. ASSUME NEW c, NEW a, NEW b, ScanLoad(c, a, b) \/ MergeLoad(c, a, b)
      PROVE  UNCHANGED <<lead, assigned, tag, candidate, lateMerges, foreignKeys, lateMirrors>>
  BY <1>3 DEF ScanLoad, MergeLoad
<1>4. ASSUME NEW c, NEW op, NEW l, NEW e, NEW st, EditLoad(c, op, l, e, st)
      PROVE  UNCHANGED <<lead, assigned, tag, candidate, lateMerges, foreignKeys, lateMirrors>>
  BY <1>4 DEF EditLoad
<1>5. ASSUME NEW c, NEW l, NEW t, AssignLoad(c, l, t) \/ UnassignLoad(c, l, t) \/ DeleteLoad(c, t)
      PROVE  UNCHANGED <<lead, assigned, tag, candidate, lateMerges, foreignKeys, lateMirrors>>
  BY <1>5 DEF AssignLoad, UnassignLoad, DeleteLoad
<1>6. ASSUME NEW c, RenameLoad(c) \/ ClerkFails(c)
      PROVE  UNCHANGED <<lead, assigned, tag, candidate, lateMerges, foreignKeys, lateMirrors>>
  BY <1>6 DEF RenameLoad, ClerkFails
<1> QED BY <1>1, <1>2, <1>3, <1>4, <1>5, <1>6 DEF Reads

LEMMA LeadsStep ==
    ASSUME LeadsIInv, [LeadsNext]_leadVars
    PROVE  \E changed \in SUBSET LeadIds : LeadsKept(changed) /\ NewWay(changed)
<1>1. ASSUME LeadsKept({}) PROVE \E changed \in SUBSET LeadIds : LeadsKept(changed) /\ NewWay(changed)
  BY <1>1 DEF NewWay
<1>2. /\ lead \in [LeadIds -> LeadRows] /\ assigned \in [LeadIds -> SUBSET TagIds]
      /\ tag \in TagTables /\ candidate \in [Pairs -> CandidateStatus]
  BY DEF LeadsIInv, LeadsInv, LeadsTypeOK
<1>3. ASSUME UNCHANGED <<lead, assigned, tag, lateMerges, foreignKeys, lateMirrors>>,
             candidate' \in [Pairs -> CandidateStatus]
      PROVE  LeadsKept({})
  <2>1. ASSUME NEW l \in LeadIds
        PROVE  LeadOK(l)' /\ lead'[l].into = lead[l].into /\ (Exists(l) => Exists(l)')
    BY <1>3, LeadSame
  <2> QED BY <1>2, <1>3, <2>1 DEF LeadsKept
<1>4. CASE \E c \in Clerks : SeenCommit(c) \/ ImportCommit(c) \/ EditCommit(c) \/ TagCommit(c)
  BY <1>1, <1>4, SeenKeeps, ImportKeeps, EditKeeps, TagKeeps
<1>5. CASE \E l \in LeadIds, e \in Emails \cup {NoEmail}, ns \in SUBSET TagNames : CreateLead(l, e, ns)
  BY <1>1, <1>5, CreateLeadKeeps
<1>6. CASE Reads \/ UNCHANGED leadVars
  <2>1. UNCHANGED <<lead, assigned, tag, candidate, lateMerges, foreignKeys, lateMirrors>>
    BY <1>6, ReadsLeave DEF leadVars
  <2> QED BY <1>1, <1>2, <1>3, <2>1
<1>7. ASSUME NEW p \in Pairs, NEW v \in {"KEPT_BOTH", "IGNORED"}, ResolveDuplicate(p, v)
      PROVE  LeadsKept({})
  <2>1. UNCHANGED <<lead, assigned, tag, lateMerges, foreignKeys, lateMirrors>>
        /\ candidate' = [candidate EXCEPT ![p] = v] /\ v \in CandidateStatus
    BY <1>7 DEF ResolveDuplicate, CandidateStatus
  <2>2. candidate' \in [Pairs -> CandidateStatus]
    BY <1>2, <2>1
  <2> QED BY <1>3, <2>1, <2>2
<1>8. ASSUME NEW c \in Clerks, RecordCandidate(c)
      PROVE  LeadsKept({})
  <2>1. UNCHANGED <<lead, assigned, tag, lateMerges, foreignKeys, lateMirrors>>
    BY <1>8 DEF RecordCandidate
  <2>2. PICK p : candidate' = [candidate EXCEPT ![p] =
                                  IF candidate[p] = "NONE" THEN "PENDING" ELSE candidate[p]]
    BY <1>8 DEF RecordCandidate
  <2>3. candidate' \in [Pairs -> CandidateStatus]
    BY <1>2, <2>2 DEF CandidateStatus
  <2> QED BY <1>3, <2>1, <2>3
<1>9. CASE \E c \in Clerks : MergeCommit(c)
  <2>1. PICK c \in Clerks : MergeCommit(c)
    BY <1>9
  <2>2. PICK s \in ClerkStates : s = clerk[c]
    BY DEF LeadsIInv, LeadsInv, LeadsTypeOK
  <2>3. /\ LeadsKept({s.b}) /\ s.a \in LeadIds /\ s.b \in LeadIds
        /\ lead'[s.a].into = lead[s.a].into /\ Exists(s.a)'
        /\ {s.a, s.b} \subseteq lateMerges' \/ (lead[s.a].into = NoLead /\ lead'[s.b].into = s.a)
    BY <2>1, <2>2, MergeKeeps
  <2>4. NewWay({s.b})
    BY <2>3 DEF NewWay
  <2> QED BY <2>3, <2>4
<1>10. CASE \E ls \in SUBSET LeadIds, st \in {"NEW", "ARCHIVED"} : BulkStatus(ls, st)
  BY <1>1, <1>10, BulkKeeps
<1>11. CASE \E l \in LeadIds : HardDelete(l)
  <2>1. PICK l \in LeadIds : LeadsKept({l}) /\ l \in lateMerges'
    BY <1>11, HardDeleteKeeps
  <2>2. NewWay({l})
    BY <2>1 DEF NewWay
  <2> QED BY <2>1, <2>2
<1>12. CASE \/ \E n \in TagNames : CreateTag(n)
            \/ \E c \in Clerks, t \in TagIds, n \in TagNames : RenameTag(c, t, n)
  BY <1>1, <1>12, CreateTagKeeps, RenameTagKeeps
<1>13. CASE LeadsNext
  BY <1>1, <1>4, <1>5, <1>6, <1>7, <1>8, <1>9, <1>10, <1>11, <1>12, <1>13 DEF LeadsNext, Reads
<1> QED BY <1>6, <1>13

LEMMA IdleClerkIs == IdleClerk \in ClerkStates /\ ClerkOK(IdleClerk) /\ IdleClerk.op = "idle"
<1>1. IdleClerk \in ClerkStates
  <2>1. [l \in LeadIds |-> {}] \in [LeadIds -> SUBSET TagIds]
    OBVIOUS
  <2>2. [t \in TagIds |-> NoName] \in TagTables
    BY DEF TagTables
  <2> QED BY <2>1, <2>2, AbsentLeadIs DEF IdleClerk, ClerkStates, ClerkOps
<1>2. /\ IdleClerk.op = "idle" /\ IdleClerk.made = {} /\ IdleClerk.add = {} /\ IdleClerk.whole = {}
      /\ \A l \in LeadIds : IdleClerk.held[l] = {}
  BY DEF IdleClerk
<1> QED BY <1>1, <1>2 DEF ClerkOK

(* A request that has only begun. *)
LEMMA IdleFields ==
    /\ IdleClerk.made = {} /\ IdleClerk.add = {} /\ IdleClerk.whole = {} /\ IdleClerk.leads = {}
    /\ \A l \in LeadIds : IdleClerk.held[l] = {}
BY DEF IdleClerk

(* What a request r has after it read the tags f for the leads ls, having been s before.    *)
ReadOf(r, s, ls, f) ==
    /\ r \in ClerkStates /\ r.made \subseteq Named(f) /\ r.names = f /\ r.leads = ls
    /\ r.op = s.op /\ r.a = s.a /\ r.b = s.b /\ r.row = s.row /\ r.row2 = s.row2
    /\ r.add = s.add /\ r.drop = s.drop /\ r.whole = s.whole
    /\ \A l \in LeadIds : r.held[l] \subseteq Named(f)

(* The tags that a request reads have names. *)
LEMMA ReadIs ==
    ASSUME LeadsIInv, NEW s \in ClerkStates, NEW ls \in SUBSET LeadIds, NEW f \in TagTables,
           \A t \in TagIds : f[t] = tag[t] \/ f[t] \in TagNames,
           \A t \in TagIds : tag[t] \in TagNames => f[t] = tag[t]
    PROVE  ReadOf(TagsRead(s, ls, f), s, ls, f)
<1> DEFINE h == [l \in LeadIds |-> IF l \in ls THEN assigned[l] ELSE {}]
           made == Created(f)
<1>1. assigned \in [LeadIds -> SUBSET TagIds] /\ \A l \in LeadIds : \A t \in assigned[l] : tag[t] \in TagNames
  BY LeadIs DEF LeadsIInv, LeadsInv, LeadsTypeOK
<1>2. h \in [LeadIds -> SUBSET TagIds]
  BY <1>1
<1>3. \A l \in LeadIds : h[l] \subseteq Named(f)
  BY <1>1 DEF Named
<1>4. made \in SUBSET TagIds /\ made \subseteq Named(f)
  BY DEF Created, Named
<1> HIDE DEF h, made
<1>5. PICK r : r = TagsRead(s, ls, f)
  OBVIOUS
<1>6. r = [s EXCEPT !.leads = ls, !.names = f, !.made = made, !.held = h]
  BY <1>5 DEF TagsRead, h, made
<1>7. /\ r \in ClerkStates /\ r.made = made /\ r.names = f /\ r.leads = ls /\ r.held = h
      /\ r.op = s.op /\ r.a = s.a /\ r.b = s.b /\ r.row = s.row /\ r.row2 = s.row2
      /\ r.add = s.add /\ r.drop = s.drop /\ r.whole = s.whole
  BY <1>2, <1>4, <1>6 DEF ClerkStates
<1>8. ReadOf(r, s, ls, f)
  BY <1>3, <1>4, <1>7 DEF ReadOf
<1> QED BY <1>5, <1>8

(* A request that reads no tags. *)
LEMMA PlainRead ==
    ASSUME NEW s \in ClerkStates, s.op # "delete", s.whole = {}, s.made = {}, s.add = {},
           \A l \in LeadIds : s.held[l] = {}, s.op # "idle" => s.a \in LeadIds,
           s.op = "merge" => s.b \in LeadIds /\ s.a # s.b /\ s.row.into = NoLead /\ s.row2.into = NoLead
    PROVE  ClerkOK(s)
BY DEF ClerkOK

(* A request that reads the tags of one lead, to add or take away some. *)
LEMMA TagRead ==
    ASSUME LeadsIInv, NEW s \in ClerkStates, NEW ls \in SUBSET LeadIds, NEW f \in TagTables,
           \A t \in TagIds : f[t] = tag[t] \/ f[t] \in TagNames,
           \A t \in TagIds : tag[t] \in TagNames => f[t] = tag[t],
           s.op \notin {"idle", "delete", "renamed", "refresh"}, s.a \in LeadIds, s.whole = {},
           s.add \subseteq Named(f),
           s.op = "merge" => s.b \in LeadIds /\ s.a # s.b /\ s.row.into = NoLead /\ s.row2.into = NoLead
    PROVE  TagsRead(s, ls, f) \in ClerkStates /\ ClerkOK(TagsRead(s, ls, f))
<1>1. ReadOf(TagsRead(s, ls, f), s, ls, f)
  BY ReadIs
<1>2. PICK r : r = TagsRead(s, ls, f)
  OBVIOUS
<1>3. ReadOf(r, s, ls, f)
  BY <1>1, <1>2
<1>4. r \in ClerkStates /\ ClerkOK(r)
  BY <1>3 DEF ReadOf, ClerkOK
<1> QED BY <1>2, <1>4

(* A request of the clerks loads what its commit relies on. *)
LEMMA ClerkStep ==
    ASSUME LeadsIInv, [LeadsNext]_leadVars
    PROVE  clerk' \in [Clerks -> ClerkStates] /\ ClerksOK'
<1>1. clerk \in [Clerks -> ClerkStates] /\ ClerksOK /\ tag \in TagTables
  BY DEF LeadsIInv, LeadsInv, LeadsTypeOK
<1>2. ASSUME NEW c \in Clerks, NEW s \in ClerkStates, ClerkOK(s), clerk' = [clerk EXCEPT ![c] = s]
      PROVE  clerk' \in [Clerks -> ClerkStates] /\ ClerksOK'
  <2>1. \A d \in Clerks : clerk'[d] = IF d = c THEN s ELSE clerk[d]
    BY <1>1, <1>2
  <2>2. ASSUME NEW d \in Clerks PROVE ClerkOK(clerk'[d])
    BY <1>1, <1>2, <2>1 DEF ClerksOK
  <2> QED BY <1>1, <1>2, <2>2 DEF ClerksOK
<1>3. ASSUME UNCHANGED clerk PROVE clerk' \in [Clerks -> ClerkStates] /\ ClerksOK'
  BY <1>1, <1>3 DEF ClerksOK
<1>4. ASSUME NEW c \in Clerks, Close(c) PROVE clerk' \in [Clerks -> ClerkStates] /\ ClerksOK'
  BY <1>2, <1>4, IdleClerkIs DEF Close
<1>5. ASSUME NEW c \in Clerks, NEW a \in LeadIds, NEW b \in LeadIds, ScanLoad(c, a, b)
      PROVE  clerk' \in [Clerks -> ClerkStates] /\ ClerksOK'
  <2> DEFINE s == [IdleClerk EXCEPT !.op = "candidate", !.a = a, !.b = b]
  <2>1. /\ s \in ClerkStates /\ s.op = "candidate" /\ s.a = a /\ s.made = {} /\ s.add = {}
        /\ s.whole = {} /\ \A l \in LeadIds : s.held[l] = {}
    BY IdleClerkIs, IdleFields DEF ClerkStates, ClerkOps
  <2>2. clerk' = [clerk EXCEPT ![c] = s]
    BY <1>5 DEF ScanLoad, Begin
  <2> HIDE DEF s
  <2>3. ClerkOK(s)
    BY <2>1, PlainRead
  <2> QED BY <1>2, <2>1, <2>2, <2>3
<1>6. ASSUME NEW c \in Clerks, NEW a \in LeadIds, NEW b \in LeadIds, MergeLoad(c, a, b)
      PROVE  clerk' \in [Clerks -> ClerkStates] /\ ClerksOK'
  <2> DEFINE moved == assigned[b] \ assigned[a]
             ls == IF moved = {} THEN {} ELSE {a}
             s == [IdleClerk EXCEPT !.op = "merge", !.a = a, !.b = b,
                     !.row = lead[a], !.row2 = lead[b], !.add = moved]
  <2>1. /\ lead[a] \in LeadRows /\ lead[b] \in LeadRows /\ moved \in SUBSET TagIds
        /\ moved \subseteq Named(tag)
    BY LeadIs DEF Named
  <2>2. /\ clerk' = [clerk EXCEPT ![c] = TagsRead(s, ls, tag)]
        /\ a # b /\ lead[a].into = NoLead /\ lead[b].into = NoLead
    BY <1>6 DEF MergeLoad, Begin, Retired
  <2>3. ls \in SUBSET LeadIds
    OBVIOUS
  <2> HIDE DEF moved, ls
  <2>4. /\ s \in ClerkStates /\ s.op = "merge" /\ s.a = a /\ s.b = b /\ s.row = lead[a]
        /\ s.row2 = lead[b] /\ s.add = moved /\ s.whole = {}
    BY <2>1, IdleClerkIs, IdleFields DEF ClerkStates, ClerkOps
  <2> HIDE DEF s
  <2>5. TagsRead(s, ls, tag) \in ClerkStates /\ ClerkOK(TagsRead(s, ls, tag))
    BY <1>1, <2>1, <2>2, <2>3, <2>4, TagRead
  <2> QED BY <1>2, <2>2, <2>5
<1>7. ASSUME NEW c \in Clerks, NEW op \in {"status", "edit"}, NEW l \in LeadIds,
             NEW e \in Emails \cup {NoEmail}, NEW st \in {"NEW", "ARCHIVED"}, EditLoad(c, op, l, e, st)
      PROVE  clerk' \in [Clerks -> ClerkStates] /\ ClerksOK'
  <2> DEFINE s == [IdleClerk EXCEPT !.op = op, !.a = l, !.row = lead[l], !.email = e, !.status = st]
  <2>1. /\ s \in ClerkStates /\ s.op = op /\ s.a = l /\ s.made = {} /\ s.add = {}
        /\ s.whole = {} /\ \A k \in LeadIds : s.held[k] = {}
    BY IdleClerkIs, IdleFields, LeadIs DEF ClerkStates, ClerkOps
  <2>2. clerk' = [clerk EXCEPT ![c] = s]
    BY <1>7 DEF EditLoad, Begin
  <2> HIDE DEF s
  <2>3. ClerkOK(s)
    BY <2>1, PlainRead
  <2> QED BY <1>2, <2>1, <2>2, <2>3
<1>8. ASSUME NEW c \in Clerks, NEW l \in LeadIds, NEW e \in Emails, SeenLoad(c, l, e)
      PROVE  clerk' \in [Clerks -> ClerkStates] /\ ClerksOK'
  <2> DEFINE s == [IdleClerk EXCEPT !.op = "seen", !.a = l, !.row = lead[l], !.email = e]
  <2>1. /\ s \in ClerkStates /\ s.op = "seen" /\ s.a = l /\ s.made = {} /\ s.add = {}
        /\ s.whole = {} /\ \A k \in LeadIds : s.held[k] = {}
    BY IdleClerkIs, IdleFields, LeadIs DEF ClerkStates, ClerkOps
  <2>2. clerk' = [clerk EXCEPT ![c] = s]
    BY <1>8 DEF SeenLoad, Begin
  <2> HIDE DEF s
  <2>3. ClerkOK(s)
    BY <2>1, PlainRead
  <2> QED BY <1>2, <2>1, <2>2, <2>3
<1>9. ASSUME NEW c \in Clerks, NEW l \in LeadIds, NEW e \in Emails \cup {NoEmail},
             NEW ns \in SUBSET TagNames, ImportLoad(c, l, e, ns)
      PROVE  clerk' \in [Clerks -> ClerkStates] /\ ClerksOK'
  <2> DEFINE s == [IdleClerk EXCEPT !.op = "import", !.a = l, !.row = lead[l], !.email = e]
             wanted == lead[l].mirror \cup ns
  <2>1. /\ s \in ClerkStates /\ s.op = "import" /\ s.a = l /\ s.made = {} /\ s.add = {}
        /\ s.whole = {} /\ \A k \in LeadIds : s.held[k] = {}
    BY IdleClerkIs, IdleFields, LeadIs DEF ClerkStates, ClerkOps
  <2>2. wanted \in SUBSET TagNames /\ assigned[l] \in SUBSET TagIds
    BY LeadIs DEF LeadRows
  <2>3. \/ clerk' = [clerk EXCEPT ![c] = s]
        \/ \E f \in Ensured(wanted) :
             clerk' = [clerk EXCEPT ![c] =
                         TagsRead([s EXCEPT !.add = Of(f, wanted) \ assigned[l],
                                            !.drop = assigned[l] \ Of(f, wanted)], {l}, f)]
    BY <1>9 DEF ImportLoad, Begin
  <2> HIDE DEF s, wanted
  <2>4. CASE clerk' = [clerk EXCEPT ![c] = s]
    <3>1. ClerkOK(s)
      BY <2>1, PlainRead
    <3> QED BY <1>2, <2>1, <2>4, <3>1
  <2>5. ASSUME NEW f \in Ensured(wanted),
               clerk' = [clerk EXCEPT ![c] =
                           TagsRead([s EXCEPT !.add = Of(f, wanted) \ assigned[l],
                                              !.drop = assigned[l] \ Of(f, wanted)], {l}, f)]
        PROVE  clerk' \in [Clerks -> ClerkStates] /\ ClerksOK'
    <3>1. /\ f \in TagTables /\ \A t \in TagIds : f[t] = tag[t] \/ f[t] \in TagNames
          /\ \A t \in TagIds : tag[t] \in TagNames => f[t] = tag[t]
          /\ Of(f, wanted) \in SUBSET TagIds /\ \A t \in Of(f, wanted) : f[t] \in TagNames
      BY <2>2, EnsuredIs
    <3>2. PICK add \in SUBSET TagIds, drop \in SUBSET TagIds :
            add = Of(f, wanted) \ assigned[l] /\ drop = assigned[l] \ Of(f, wanted)
      BY <2>2, <3>1
    <3>6. add \subseteq Named(f)
      BY <3>1, <3>2 DEF Named
    <3> DEFINE r == [s EXCEPT !.add = add, !.drop = drop]
    <3>3. r \in ClerkStates /\ r.op = "import" /\ r.a = l /\ r.whole = {} /\ r.add = add
      BY <2>1 DEF ClerkStates
    <3>4. clerk' = [clerk EXCEPT ![c] = TagsRead(r, {l}, f)]
      BY <2>5, <3>2
    <3> HIDE DEF r
    <3>5. TagsRead(r, {l}, f) \in ClerkStates /\ ClerkOK(TagsRead(r, {l}, f))
      BY <3>1, <3>3, <3>6, TagRead
    <3> QED BY <1>2, <3>4, <3>5
  <2> QED BY <2>3, <2>4, <2>5
<1>10. ASSUME NEW c \in Clerks, NEW l \in LeadIds, NEW n \in TagNames, AssignLoad(c, l, n)
       PROVE  clerk' \in [Clerks -> ClerkStates] /\ ClerksOK'
  <2>1. PICK f \in Ensured({n}) :
          clerk' = [clerk EXCEPT ![c] = TagsRead([IdleClerk EXCEPT !.op = "assign", !.a = l,
                                                     !.add = Of(f, {n})], {l}, f)]
    BY <1>10 DEF AssignLoad, Begin
  <2>2. {n} \in SUBSET TagNames
    OBVIOUS
  <2>3. /\ f \in TagTables /\ \A t \in TagIds : f[t] = tag[t] \/ f[t] \in TagNames
        /\ \A t \in TagIds : tag[t] \in TagNames => f[t] = tag[t]
        /\ Of(f, {n}) \in SUBSET TagIds /\ \A t \in Of(f, {n}) : f[t] \in TagNames
    BY <2>2, EnsuredIs
  <2>4. PICK add \in SUBSET TagIds : add = Of(f, {n}) /\ add \subseteq Named(f)
    BY <2>3 DEF Named
  <2> DEFINE s == [IdleClerk EXCEPT !.op = "assign", !.a = l, !.add = add]
  <2>5. s \in ClerkStates /\ s.op = "assign" /\ s.a = l /\ s.whole = {} /\ s.add = add
    BY IdleClerkIs, IdleFields DEF ClerkStates, ClerkOps
  <2>6. clerk' = [clerk EXCEPT ![c] = TagsRead(s, {l}, f)]
    BY <2>1, <2>4
  <2> HIDE DEF s
  <2>7. TagsRead(s, {l}, f) \in ClerkStates /\ ClerkOK(TagsRead(s, {l}, f))
    BY <2>3, <2>4, <2>5, TagRead
  <2> QED BY <1>2, <2>6, <2>7
<1>11. ASSUME NEW c \in Clerks, NEW l \in LeadIds, NEW t \in TagIds, UnassignLoad(c, l, t)
       PROVE  clerk' \in [Clerks -> ClerkStates] /\ ClerksOK'
  <2> DEFINE s == [IdleClerk EXCEPT !.op = "unassign", !.a = l, !.drop = {t}]
  <2>1. s \in ClerkStates /\ s.op = "unassign" /\ s.a = l /\ s.whole = {} /\ s.add = {}
    BY IdleClerkIs, IdleFields DEF ClerkStates, ClerkOps
  <2>2. clerk' = [clerk EXCEPT ![c] = TagsRead(s, {l}, tag)]
    BY <1>11 DEF UnassignLoad, Begin
  <2> HIDE DEF s
  <2>3. TagsRead(s, {l}, tag) \in ClerkStates /\ ClerkOK(TagsRead(s, {l}, tag))
    BY <1>1, <2>1, TagRead
  <2> QED BY <1>2, <2>2, <2>3
<1>12. ASSUME NEW s \in ClerkStates, s.op \in {"delete", "refresh"}, s.add = {},
              s.op = "delete" => s.whole = s.drop
       PROVE  LET ls == {l \in LeadIds : s.whole \cap assigned[l] # {}}
                  r == [TagsRead(s, ls, tag) EXCEPT !.held = assigned]
              IN r \in ClerkStates /\ ClerkOK(r)
  <2> DEFINE ls == {l \in LeadIds : s.whole \cap assigned[l] # {}}
             r == [TagsRead(s, ls, tag) EXCEPT !.held = assigned]
  <2>2. ls \in SUBSET LeadIds
    OBVIOUS
  <2>3. assigned \in [LeadIds -> SUBSET TagIds] /\ \A l \in LeadIds : assigned[l] \subseteq Named(tag)
    BY LeadIs DEF Named, LeadsIInv, LeadsInv, LeadsTypeOK
  <2>4. \A l \in LeadIds \ ls : s.whole \cap assigned[l] = {}
    OBVIOUS
  <2> HIDE DEF ls
  <2>5. ReadOf(TagsRead(s, ls, tag), s, ls, tag)
    BY <1>1, <2>2, ReadIs
  <2>6. PICK q : q = TagsRead(s, ls, tag)
    OBVIOUS
  <2>7. /\ q \in ClerkStates /\ q.made \subseteq Named(tag) /\ q.names = tag /\ q.leads = ls
        /\ q.op = s.op /\ q.add = {} /\ q.drop = s.drop /\ q.whole = s.whole
    BY <1>12, <2>5, <2>6 DEF ReadOf
  <2>8. r = [q EXCEPT !.held = assigned]
    BY <2>6
  <2> HIDE DEF r
  <2>9. /\ r \in ClerkStates /\ r.made = q.made /\ r.names = tag /\ r.leads = ls /\ r.held = assigned
        /\ r.op = s.op /\ r.add = {} /\ r.drop = s.drop /\ r.whole = s.whole
    BY <2>3, <2>7, <2>8 DEF ClerkStates
  <2>10. ClerkOK(r)
    BY <1>12, <2>3, <2>4, <2>7, <2>9 DEF ClerkOK
  <2> QED BY <2>9, <2>10 DEF r, ls
<1>13. ASSUME NEW c \in Clerks, NEW t \in TagIds, DeleteLoad(c, t)
       PROVE  clerk' \in [Clerks -> ClerkStates] /\ ClerksOK'
  <2> DEFINE s == [IdleClerk EXCEPT !.op = "delete", !.drop = {t}, !.whole = {t}]
             r == [TagsRead(s, Carriers(t), tag) EXCEPT !.held = assigned]
  <2>1. s \in ClerkStates /\ s.op = "delete" /\ s.add = {} /\ s.drop = {t} /\ s.whole = {t}
    BY IdleClerkIs, IdleFields DEF ClerkStates, ClerkOps
  <2>2. clerk' = [clerk EXCEPT ![c] = r]
    BY <1>13 DEF DeleteLoad, Begin
  <2> HIDE DEF s
  <2>3. Carriers(t) = {l \in LeadIds : s.whole \cap assigned[l] # {}}
    BY <2>1 DEF Carriers
  <2>4. r \in ClerkStates /\ ClerkOK(r)
    BY <1>12, <2>1, <2>3
  <2> HIDE DEF r
  <2> QED BY <1>2, <2>2, <2>4
<1>14. ASSUME NEW c \in Clerks, RenameLoad(c)
       PROVE  clerk' \in [Clerks -> ClerkStates] /\ ClerksOK'
  <2> DEFINE whole == clerk[c].whole
             s == [IdleClerk EXCEPT !.op = "refresh", !.whole = whole]
             ls == {l \in LeadIds : whole \cap assigned[l] # {}}
             r == [TagsRead(s, ls, tag) EXCEPT !.held = assigned]
  <2>1. whole \in SUBSET TagIds
    BY <1>1 DEF ClerkStates
  <2>2. clerk' = [clerk EXCEPT ![c] = r]
    BY <1>14 DEF RenameLoad
  <2> HIDE DEF whole
  <2>3. s \in ClerkStates /\ s.op = "refresh" /\ s.add = {} /\ s.whole = whole
    BY <2>1, IdleClerkIs, IdleFields DEF ClerkStates, ClerkOps
  <2> HIDE DEF s
  <2>4. r \in ClerkStates /\ ClerkOK(r)
    BY <1>12, <2>3
  <2> HIDE DEF r
  <2> QED BY <1>2, <2>2, <2>4
<1>15. ASSUME NEW c \in Clerks, NEW t \in TagIds, NEW n \in TagNames, RenameTag(c, t, n)
       PROVE  clerk' \in [Clerks -> ClerkStates] /\ ClerksOK'
  <2> DEFINE s == [IdleClerk EXCEPT !.op = "renamed", !.whole = {t}]
  <2>1. /\ s \in ClerkStates /\ s.op = "renamed" /\ s.made = {} /\ s.add = {}
        /\ \A l \in LeadIds : s.held[l] = {}
    BY IdleClerkIs, IdleFields DEF ClerkStates, ClerkOps
  <2>2. clerk' = [clerk EXCEPT ![c] = s]
    BY <1>15 DEF RenameTag, Begin
  <2> HIDE DEF s
  <2>3. ClerkOK(s)
    BY <2>1 DEF ClerkOK
  <2> QED BY <1>2, <2>1, <2>2, <2>3
<1>16. ASSUME NEW c \in Clerks,
              \/ RecordCandidate(c) \/ SeenCommit(c) \/ ImportCommit(c) \/ MergeCommit(c)
              \/ EditCommit(c) \/ TagCommit(c) \/ ClerkFails(c)
       PROVE  clerk' \in [Clerks -> ClerkStates] /\ ClerksOK'
  <2>1. Close(c)
    BY <1>16 DEF RecordCandidate, SeenCommit, ImportCommit, MergeCommit, EditCommit, TagCommit, ClerkFails
  <2> QED BY <1>4, <2>1
<1>17. ASSUME \/ \E l \in LeadIds, e \in Emails \cup {NoEmail}, ns \in SUBSET TagNames : CreateLead(l, e, ns)
              \/ \E p \in Pairs, v \in {"KEPT_BOTH", "IGNORED"} : ResolveDuplicate(p, v)
              \/ \E ls \in SUBSET LeadIds, st \in {"NEW", "ARCHIVED"} : BulkStatus(ls, st)
              \/ \E l \in LeadIds : HardDelete(l)
              \/ \E n \in TagNames : CreateTag(n)
              \/ UNCHANGED leadVars
       PROVE  clerk' \in [Clerks -> ClerkStates] /\ ClerksOK'
  <2>1. UNCHANGED clerk
    BY <1>17 DEF CreateLead, ResolveDuplicate, BulkStatus, HardDelete, CreateTag, leadVars
  <2> QED BY <1>3, <2>1
<1> QED BY <1>5, <1>6, <1>7, <1>8, <1>9, <1>10, <1>11, <1>13, <1>14, <1>15, <1>16, <1>17 DEF LeadsNext

LEMMA LeadsInvariant == LeadsSpec => []LeadsIInv
<1>1. LeadsInit => LeadsIInv
  <2> SUFFICES ASSUME LeadsInit PROVE LeadsIInv
    OBVIOUS
  <2>1. LeadsTypeOK
    BY AbsentLeadIs, IdleClerkIs DEF LeadsInit, LeadsTypeOK, CandidateStatus, TagTables
  <2>2. \A l \in LeadIds : lead[l] = AbsentLead /\ assigned[l] = {}
    BY DEF LeadsInit
  <2>3. \A l \in LeadIds : LeadOK(l) /\ ~Retired(l)
    <3>1. Shown(tag, {}) = {}
      BY DEF Shown
    <3> QED BY <2>2, <3>1, AbsentLeadIs DEF LeadOK, Retired
  <2>4. ClerksOK
    BY IdleClerkIs DEF LeadsInit, ClerksOK
  <2>5. RetiredHasSurvivor /\ KeyIsOwn /\ MirrorShowsTags
    BY <2>3 DEF RetiredHasSurvivor, KeyIsOwn, MirrorShowsTags, LeadOK
  <2> QED BY <2>1, <2>3, <2>4, <2>5 DEF LeadsIInv, LeadsInv
<1>2. LeadsIInv /\ [LeadsNext]_leadVars => LeadsIInv'
  <2> SUFFICES ASSUME LeadsIInv, [LeadsNext]_leadVars PROVE LeadsIInv'
    OBVIOUS
  <2>1. PICK changed \in SUBSET LeadIds : LeadsKept(changed) /\ NewWay(changed)
    BY LeadsStep
  <2>2. ClerksOK' /\ LeadsTypeOK'
    BY <2>1, ClerkStep DEF LeadsKept, LeadsTypeOK
  <2>3. \A l \in LeadIds : LeadOK(l)'
    BY <2>1 DEF LeadsKept
  <2>7. KeyIsOwn' /\ MirrorShowsTags'
    BY <2>3 DEF KeyIsOwn, MirrorShowsTags, LeadOK
  <2>4. ASSUME NEW l \in LeadIds, Retired(l)', ({l} \cup Survivors(l)') \cap lateMerges' = {}
        PROVE  \E k \in Survivors(l)' : Exists(k)' /\ ~Retired(k)'
    <3>1. CASE ({l} \cup Survivors(l)') \cap changed = {}
      <4>1. /\ LeadsTypeOK /\ RetiredHasSurvivor /\ lateMerges \subseteq lateMerges'
            /\ \A k \in LeadIds \ changed :
                 lead'[k].into = lead[k].into /\ (Exists(k) => Exists(k)')
        BY <2>1 DEF LeadsKept, LeadsIInv, LeadsInv
      <4>2. ({l} \cup Survivors(l)') \cap (lateMerges' \cup changed) = {}
        BY <2>4, <3>1
      <4> QED BY <2>2, <2>4, <4>1, <4>2, SurvivorKept
    <3>2. CASE ({l} \cup Survivors(l)') \cap changed # {}
      <4>1. PICK a \in LeadIds, b \in LeadIds : /\ changed = {b} /\ lead'[b].into = a
                                                /\ Exists(a)' /\ lead'[a].into = NoLead
        BY <2>1, <2>4, <3>2 DEF NewWay
      <4>2. LeadsTypeOK' => SurvivorsClosed'
        BY SurvivorsAreClosed, PTL
      <4>3. b \in Survivors(l)' \cup {l} /\ a # NoLead
        BY <3>2, <4>1, LeadsAssumption
      <4>4. a \in Survivors(l)'
        BY <2>2, <4>1, <4>2, <4>3 DEF SurvivorsClosed
      <4> QED BY <4>1, <4>4 DEF Retired
    <3> QED BY <3>1, <3>2
  <2>5. RetiredHasSurvivor'
    BY <2>4 DEF RetiredHasSurvivor
  <2> QED BY <2>2, <2>3, <2>5, <2>7 DEF LeadsIInv, LeadsInv
<1> QED BY <1>1, <1>2, PTL DEF LeadsSpec

(* However creations, imports, merges, edits, deletions and tag changes overlap, a retired    *)
(* lead leads to one that is there, a match key is that of its lead's address, and the tags     *)
(* column shows the names of the assignments, but for the leads that the histories name.       *)
THEOREM LeadsInvHolds == LeadsSpec => []LeadsInv
<1>1. LeadsIInv => LeadsInv
  BY DEF LeadsIInv
<1> QED BY <1>1, LeadsInvariant, PTL

(* A reviewed pair is never opened again, and a merge closes only the pairs of the lead   *)
(* that it retires.                                                                   *)
THEOREM ReviewsKeptHolds == LeadsSpec => ReviewsKept
<1>1. LeadsIInv /\ [LeadsNext]_leadVars =>
        [\A p \in Pairs :
         /\ candidate[p] \notin {"NONE", "PENDING"} => candidate'[p] \notin {"NONE", "PENDING"}
         /\ candidate[p] # "MERGED" /\ candidate'[p] = "MERGED"
              => \E l \in p : lead'[l].into # NoLead]_leadVars
  <2> SUFFICES ASSUME LeadsIInv, LeadsNext, NEW p \in Pairs
               PROVE  /\ candidate[p] \notin {"NONE", "PENDING"} => candidate'[p] \notin {"NONE", "PENDING"}
                      /\ candidate[p] # "MERGED" /\ candidate'[p] = "MERGED"
                           => \E l \in p : lead'[l].into # NoLead
    OBVIOUS
  <2>1. candidate \in [Pairs -> CandidateStatus]
    BY DEF LeadsIInv, LeadsInv, LeadsTypeOK
  <2>2. CASE UNCHANGED candidate
    BY <2>2
  <2>3. CASE \E c \in Clerks : RecordCandidate(c)
    BY <2>1, <2>3 DEF RecordCandidate
  <2>4. CASE \E q \in Pairs, v \in {"KEPT_BOTH", "IGNORED"} : ResolveDuplicate(q, v)
    BY <2>1, <2>4 DEF ResolveDuplicate
  <2>5. CASE \E c \in Clerks : MergeCommit(c)
    <3>1. PICK c \in Clerks : MergeCommit(c)
      BY <2>5
    <3>2. PICK s \in ClerkStates : s = clerk[c]
      BY DEF LeadsIInv, LeadsInv, LeadsTypeOK
    <3>3. lead'[s.b].into # NoLead /\ candidate' = ResolveCandidates(s.a, s.b)
      BY <3>1, <3>2, MergeKeeps
    <3>4. candidate'[p] = IF candidate[p] = "PENDING" /\ s.b \in p THEN "MERGED" ELSE candidate[p]
      BY <3>3 DEF ResolveCandidates
    <3> QED BY <3>3, <3>4
  <2>6. UNCHANGED candidate \/ (\E c \in Clerks : RecordCandidate(c)) \/ (\E c \in Clerks : MergeCommit(c))
        \/ \E q \in Pairs, v \in {"KEPT_BOTH", "IGNORED"} : ResolveDuplicate(q, v)
    <3>1. Reads => UNCHANGED candidate
      BY ReadsLeave
    <3>2. ASSUME NEW c, SeenCommit(c) \/ ImportCommit(c) \/ EditCommit(c) \/ TagCommit(c)
          PROVE  UNCHANGED candidate
      BY <3>2 DEF SeenCommit, ImportCommit, EditCommit, TagCommit
    <3> QED BY <3>1, <3>2 DEF LeadsNext, Reads, CreateLead, BulkStatus, HardDelete, CreateTag, RenameTag
  <2> QED BY <2>2, <2>3, <2>4, <2>5, <2>6
<1> QED BY <1>1, LeadsInvariant, PTL DEF LeadsSpec, ReviewsKept

----------------------------------------------------------------------------
(* The imports and exports: what a runner has claimed and how far it is.           *)

(* The leads of the filter that an export reads before l. *)
Earlier(l) == {k \in 1..(l - 1) : inFilter[k]}

Holds(r) == runner[r].step \in {"claimed", "rows", "finish"}

JobStateOK ==
    /\ runner \in [Runners -> RunnerStates]
    /\ copies \in [Imports -> [1..ImportRows -> Nat]]
    /\ file \in [Exports -> SUBSET [1..LeadCount -> Nat]]

(* A runner that has not begun is at the start; one that has taken its job found it begun. *)
RunnerOK(r) ==
    LET s == runner[r] IN
    /\ s.step \in {"claimed", "mapped"} => s.next = 1 /\ s.verdict = "none" /\ s.listed = NoneListed
    /\ s.step = "mapped" => r \in JobRequests
    /\ s.step = "finish" => s.j \in Exports
    /\ s.step = "rows" => s.next >= 1
    /\ Holds(r) \/ (s.step = "mapped" /\ s.copy.status = "PROCESSING")
         => job[s.j].status \notin {"NONE", "QUEUED"}

(* Only an inline run gives a job a second runner. *)
OneRunner ==
    \A r1, r2 \in Runners :
        Holds(r1) /\ Holds(r2) /\ runner[r1].j = runner[r2].j /\ runner[r1].j \notin shared => r1 = r2

(* The rows that the runner of a batch has not reached are not in the workspace. *)
RowsOK ==
    \A j \in Imports : \A n \in 1..ImportRows :
        /\ job[j].status \in {"NONE", "QUEUED"} => copies[j][n] = 0
        /\ j \notin shared =>
             /\ copies[j][n] <= 1
             /\ \A r \in Runners : Holds(r) /\ runner[r].j = j /\ runner[r].next <= n => copies[j][n] = 0

(* The runner of an export has listed what it has read of the filter, once each.     *)
ListedOK(r) ==
    LET s == runner[r] IN
    \A l \in 1..LeadCount : inFilter[l] /\ s.j \in Exports \ shifted =>
        /\ s.step = "rows" => s.listed[l] = IF Cardinality(Earlier(l)) < s.next - 1 THEN 1 ELSE 0
        /\ s.step = "finish" => s.listed[l] = 1

JobsIInv ==
    /\ JobsInv /\ JobStateOK /\ OneRunner /\ RowsOK
    /\ \A r \in Runners : RunnerOK(r) /\ ListedOK(r)

LEMMA EarlierIs ==
    ASSUME NEW l \in 1..LeadCount
    PROVE  IsFiniteSet(Earlier(l)) /\ Cardinality(Earlier(l)) \in Nat
<1>1. l - 1 \in Nat
  BY DataJobsAssumption
<1>2. IsFiniteSet(1..(l - 1))
  BY <1>1, FS_Interval
<1>3. IsFiniteSet(Earlier(l))
  BY <1>2, FS_Subset DEF Earlier
<1> QED BY <1>3, FS_CardinalityType

(* When an export finds no lead at its offset, it has read every lead of the filter.  *)
LEMMA NothingLeft ==
    ASSUME NEW offset \in Nat, Chunk(offset) = {}, NEW l \in 1..LeadCount, inFilter[l]
    PROVE  Cardinality(Earlier(l)) < offset
<1> DEFINE far == {k \in 1..LeadCount : inFilter[k] /\ ~(Cardinality(Earlier(k)) < offset)}
           back == {LeadCount - k : k \in far}
<1> SUFFICES ASSUME l \in far PROVE FALSE
  OBVIOUS
<1>1. LeadCount \in Nat /\ ChunkRows \in Nat \ {0}
  BY DataJobsAssumption
<1>2. \E m \in far : \A k \in far : m <= k
  <2>1. back \in SUBSET (0..LeadCount) /\ back # {}
    BY <1>1
  <2>2. PICK x \in back : \A y \in back : y <= x
    BY <1>1, <2>1, LargestOf
  <2>3. PICK m \in far : x = LeadCount - m
    BY <2>2
  <2>4. ASSUME NEW k \in far PROVE m <= k
    <3>1. LeadCount - k \in back /\ k \in Nat /\ m \in Nat
      BY <1>1
    <3>2. LeadCount - k <= LeadCount - m
      BY <2>2, <2>3, <3>1
    <3> QED BY <1>1, <3>1, <3>2
  <2> QED BY <2>4
<1>3. PICK m \in far : \A k \in far : m <= k
  BY <1>2
<1>4. m \in 1..LeadCount /\ inFilter[m] /\ ~(Cardinality(Earlier(m)) < offset)
      /\ Cardinality(Earlier(m)) \in Nat
  BY EarlierIs
<1>5. Cardinality(Earlier(m)) # offset
  <2>1. m \notin Chunk(offset)
    OBVIOUS
  <2> QED BY <1>1, <1>4, <2>1 DEF Chunk, Earlier
<1>6. Earlier(m) \in SUBSET (0..LeadCount) /\ Earlier(m) # {}
  <2>1. Earlier(m) # {}
    BY <1>4, <1>5, FS_EmptySet
  <2> QED BY <1>1, <1>4, <2>1 DEF Earlier
<1>7. PICK k \in Earlier(m) : \A i \in Earlier(m) : i <= k
  BY <1>1, <1>6, LargestOf
<1>8. k \in 1..(m - 1) /\ inFilter[k] /\ k \in 1..LeadCount
  BY <1>1, <1>4, <1>7 DEF Earlier
<1>9. Earlier(m) = Earlier(k) \cup {k} /\ k \notin Earlier(k)
  BY <1>1, <1>4, <1>7, <1>8 DEF Earlier
<1>10. Cardinality(Earlier(m)) = Cardinality(Earlier(k)) + 1 /\ Cardinality(Earlier(k)) \in Nat
  BY <1>8, <1>9, EarlierIs, FS_AddElement
<1>11. k \in far
  BY <1>4, <1>5, <1>8, <1>10
<1> QED BY <1>1, <1>3, <1>4, <1>8, <1>11

(* A step of the jobs: none goes back to QUEUED. *)
JobsOnward ==
    /\ job' \in [DataJobIds -> JobRows]
    /\ \A j \in DataJobIds : job'[j].status \in {"NONE", "QUEUED"} => job[j].status \in {"NONE", "QUEUED"}

(* What a step of runner r, or of no runner at all, keeps.  A runner that takes a job      *)
(* keeps the one it had, or finds it QUEUED, or is named in the history.               *)
JobsKept(r) ==
    /\ JobsOnward
    /\ UNCHANGED <<inFilter, shifted>> /\ shared \subseteq shared'
    /\ runner' \in [Runners -> RunnerStates] /\ \A q \in Runners \ {r} : runner'[q] = runner[q]
    /\ r \in Runners /\ runner'[r] # runner[r] =>
         /\ RunnerOK(r)' /\ ListedOK(r)'
         /\ Holds(r)' => \/ /\ Holds(r) /\ runner'[r].j = runner[r].j
                            /\ runner'[r].next >= runner[r].next
                         \/ job[runner'[r].j].status = "QUEUED"
                         \/ runner'[r].j \in shared'
    /\ file' \in [Exports -> SUBSET [1..LeadCount -> Nat]]
    /\ ExportIsComplete'

LEMMA JobFacts ==
    ASSUME JobsIInv
    PROVE  /\ job \in [DataJobIds -> JobRows] /\ inFilter \in [1..LeadCount -> BOOLEAN]
           /\ runner \in [Runners -> RunnerStates] /\ copies \in [Imports -> [1..ImportRows -> Nat]]
           /\ file \in [Exports -> SUBSET [1..LeadCount -> Nat]]
           /\ ExportIsComplete /\ OneRunner /\ RowsOK
           /\ \A r \in Runners : RunnerOK(r) /\ ListedOK(r) /\ runner[r] \in RunnerStates /\ runner[r].j \in DataJobIds
BY DEF JobsIInv, JobsInv, JobsTypeOK, JobStateOK, RunnerStates

(* All of the invariant but the rows. *)
LEMMA JobsKeptKeeps ==
    ASSUME JobsIInv, NEW r, JobsKept(r)
    PROVE  /\ JobsTypeOK' /\ ExportIsComplete' /\ OneRunner'
           /\ \A q \in Runners : RunnerOK(q)' /\ ListedOK(q)'
<1>1. \A q \in Runners : /\ RunnerOK(q) /\ ListedOK(q) /\ runner[q] \in RunnerStates
                         /\ runner[q].j \in DataJobIds /\ runner'[q] \in RunnerStates
  BY JobFacts DEF JobsKept, JobsOnward
<1>2. JobsTypeOK'
  BY <1>1, JobFacts DEF JobsKept, JobsOnward, JobsTypeOK, RunnerStates
<1>3. ASSUME NEW q \in Runners, runner'[q] = runner[q]
      PROVE  RunnerOK(q)' /\ ListedOK(q)'
  <2>1. RunnerOK(q)'
    <3>1. RunnerOK(q) /\ runner[q].j \in DataJobIds
      BY <1>1
    <3>2. job'[runner[q].j].status \in {"NONE", "QUEUED"} => job[runner[q].j].status \in {"NONE", "QUEUED"}
      BY <3>1 DEF JobsKept, JobsOnward
    <3> QED BY <1>3, <3>1, <3>2 DEF RunnerOK, Holds
  <2>2. ListedOK(q)'
    <3>1. ListedOK(q) /\ UNCHANGED <<inFilter, shifted>>
      BY <1>1 DEF JobsKept, JobsOnward
    <3> QED BY <1>3, <3>1 DEF ListedOK, Earlier
  <2> QED BY <2>1, <2>2
<1>4. \A q \in Runners : RunnerOK(q)' /\ ListedOK(q)'
  BY <1>3 DEF JobsKept, JobsOnward
<1>5. ASSUME NEW q \in Runners, NEW p \in Runners, q # p, Holds(q)', Holds(p)',
             runner'[q].j = runner'[p].j, runner'[q].j \notin shared', runner'[p] = runner[p]
      PROVE  FALSE
  <2>1. OneRunner /\ shared \subseteq shared'
    BY JobFacts DEF JobsKept, JobsOnward
  <2>2. Holds(p) /\ job[runner[p].j].status # "QUEUED"
    BY <1>1, <1>5 DEF RunnerOK, Holds
  <2>3. Holds(q) /\ runner'[q].j = runner[q].j
    BY <1>5, <2>2 DEF JobsKept, JobsOnward, Holds
  <2> QED BY <1>5, <2>1, <2>2, <2>3 DEF OneRunner
<1>6. OneRunner'
  <2> SUFFICES ASSUME NEW q \in Runners, NEW p \in Runners, q # p, Holds(q)', Holds(p)',
                      runner'[q].j = runner'[p].j, runner'[q].j \notin shared'
               PROVE  FALSE
    BY DEF OneRunner
  <2>1. runner'[p] = runner[p] \/ runner'[q] = runner[q]
    BY DEF JobsKept, JobsOnward
  <2> QED BY <1>5, <2>1
<1>7. ExportIsComplete'
  BY DEF JobsKept, JobsOnward
<1> QED BY <1>2, <1>4, <1>6, <1>7

(* And the rows, when none is written. *)
LEMMA RowsKept ==
    ASSUME JobsIInv, NEW r, JobsKept(r), UNCHANGED copies
    PROVE  JobsIInv'
<1>1. /\ copies \in [Imports -> [1..ImportRows -> Nat]] /\ RowsOK /\ shared \subseteq shared'
      /\ \A j \in Imports : j \in DataJobIds
  BY JobFacts DEF JobsKept, JobsOnward, DataJobIds
<1>2. ASSUME NEW j \in Imports, NEW n \in 1..ImportRows
      PROVE  /\ job'[j].status \in {"NONE", "QUEUED"} => copies[j][n] = 0
             /\ j \notin shared' =>
                  /\ copies[j][n] <= 1
                  /\ \A q \in Runners : Holds(q)' /\ runner'[q].j = j /\ runner'[q].next <= n => copies[j][n] = 0
  <2>1. job'[j].status \in {"NONE", "QUEUED"} => copies[j][n] = 0
    BY <1>1 DEF JobsKept, JobsOnward, RowsOK
  <2>2. j \notin shared' => copies[j][n] <= 1
    BY <1>1 DEF RowsOK
  <2>3. ASSUME j \notin shared', NEW q \in Runners, Holds(q)', runner'[q].j = j, runner'[q].next <= n
        PROVE  copies[j][n] = 0
    <3>1. CASE runner'[q] = runner[q]
      BY <1>1, <2>3, <3>1 DEF RowsOK, Holds
    <3>2. CASE runner'[q] # runner[q]
      <4>1. q = r
        BY <3>2 DEF JobsKept, JobsOnward
      <4>2. CASE Holds(q) /\ runner'[q].j = runner[q].j /\ runner'[q].next >= runner[q].next
        <5>1. runner[q].next \in Nat /\ runner'[q].next \in Nat /\ n \in Nat
          BY JobFacts DEF JobsKept, JobsOnward, RunnerStates
        <5>2. runner[q].next <= n
          BY <2>3, <4>2, <5>1
        <5> QED BY <1>1, <2>3, <4>2, <5>2 DEF RowsOK
      <4>3. CASE job[runner'[q].j].status = "QUEUED"
        BY <1>1, <2>3, <4>3 DEF RowsOK
      <4> QED BY <2>3, <3>2, <4>1, <4>2, <4>3 DEF JobsKept, JobsOnward
    <3> QED BY <3>1, <3>2
  <2> QED BY <2>1, <2>2, <2>3
<1>3. RowsOK' /\ RowImportedOnce'
  BY <1>2 DEF RowsOK, RowImportedOnce
<1>4. JobStateOK'
  BY <1>1 DEF JobStateOK, JobsKept, JobsOnward
<1> QED BY <1>3, <1>4, JobsKeptKeeps DEF JobsIInv, JobsInv

LEMMA IdleRunnerIs ==
    /\ IdleRunner \in RunnerStates /\ IdleRunner.step = "idle" /\ IdleRunner.next = 1
    /\ IdleRunner.verdict = "none" /\ IdleRunner.listed = NoneListed
<1>1. (CHOOSE j \in DataJobIds : TRUE) \in DataJobIds
  BY DataJobsAssumption DEF DataJobIds
<1>2. NoJob \in JobRows
  BY DEF NoJob, JobRows, JobStatus, LeaseAges
<1>3. NoneListed \in [1..LeadCount -> Nat]
  BY DEF NoneListed
<1>4. IdleRunner \in RunnerStates
  BY <1>1, <1>2, <1>3 DEF IdleRunner, RunnerStates, RunnerSteps, Verdicts
<1> QED BY <1>4 DEF IdleRunner

LEMMA JobWritten ==
    ASSUME JobsIInv, NEW j \in DataJobIds, NEW row \in JobRows, job' = [job EXCEPT ![j] = row],
           row.status \in {"NONE", "QUEUED"} => job[j].status \in {"NONE", "QUEUED"}
    PROVE  JobsOnward /\ job'[j] = row
BY JobFacts DEF JobsOnward

(* A step that moves no runner and a runner that stops keep the invariant. *)
LEMMA NoRunnerKeeps ==
    ASSUME JobsIInv, JobsOnward, UNCHANGED <<runner, copies, inFilter, file, shared, shifted>>
    PROVE  JobsIInv'
<1>1. ExportIsComplete'
  BY JobFacts DEF ExportIsComplete
<1>2. JobsKept(0)
  BY <1>1, JobFacts DEF JobsKept
<1> QED BY <1>2, RowsKept

LEMMA StopKeeps ==
    ASSUME JobsIInv, NEW r \in Runners, Stop(r), JobsOnward,
           UNCHANGED <<copies, inFilter, shifted>>, shared \subseteq shared',
           file' \in [Exports -> SUBSET [1..LeadCount -> Nat]], ExportIsComplete'
    PROVE  JobsIInv'
<1>1. /\ runner' \in [Runners -> RunnerStates] /\ \A q \in Runners \ {r} : runner'[q] = runner[q]
      /\ runner'[r] = IdleRunner
  BY JobFacts, IdleRunnerIs DEF Stop
<1>2. RunnerOK(r)' /\ ListedOK(r)' /\ ~Holds(r)'
  BY <1>1, IdleRunnerIs DEF RunnerOK, ListedOK, Holds
<1>3. JobsKept(r)
  BY <1>1, <1>2 DEF JobsKept
<1> QED BY <1>3, RowsKept

(* A runner that starts on a job, or takes it. *)
LEMMA BeginKeeps ==
    ASSUME JobsIInv, NEW r \in Runners, JobsOnward, NEW s \in RunnerStates,
           runner' = [runner EXCEPT ![r] = s], s.next = 1, s.verdict = "none", s.listed = NoneListed,
           \/ s.step = "mapped" /\ r \in JobRequests
           \/ s.step = "claimed" /\ job[s.j].status = "QUEUED" /\ job'[s.j].status = "PROCESSING",
           s.copy = job'[s.j],
           UNCHANGED <<copies, inFilter, file, shared, shifted>>
    PROVE  JobsIInv'
<1>1. /\ runner' \in [Runners -> RunnerStates] /\ \A q \in Runners \ {r} : runner'[q] = runner[q]
      /\ runner'[r] = s
  BY JobFacts
<1>2. RunnerOK(r)' /\ ListedOK(r)'
  BY <1>1 DEF RunnerOK, ListedOK, Holds
<1>3. Holds(r)' => job[runner'[r].j].status = "QUEUED"
  BY <1>1 DEF Holds
<1>4. ExportIsComplete'
  BY JobFacts DEF ExportIsComplete
<1>5. JobsKept(r)
  BY <1>1, <1>2, <1>3, <1>4, JobFacts DEF JobsKept
<1> QED BY <1>5, RowsKept

LEMMA JobRequestSteps ==
    ASSUME JobsIInv,
           \/ \E j \in DataJobIds : StartImport(j) \/ LeaseAgesOut(j)
           \/ \E j \in DataJobIds, st \in Strategies : MapImportPage(j, st)
           \/ SweepStale
    PROVE  JobsIInv'
<1>1. /\ job \in [DataJobIds -> JobRows] /\ \A j \in DataJobIds : job[j] \in JobRows
  BY JobFacts
<1>2. ASSUME NEW j \in DataJobIds, StartImport(j) PROVE JobsIInv'
  <2>1. NewBatch \in JobRows /\ NewBatch.status = "QUEUED"
    BY DEF NewBatch, NoJob, JobRows, JobStatus, LeaseAges
  <2>2. job' = [job EXCEPT ![j] = NewBatch] /\ job[j].status = "NONE"
        /\ UNCHANGED <<runner, copies, inFilter, file, shared, shifted>>
    BY <1>2 DEF StartImport
  <2> QED BY <2>1, <2>2, JobWritten, NoRunnerKeeps
<1>3. ASSUME NEW j \in DataJobIds, LeaseAgesOut(j) PROVE JobsIInv'
  <2> DEFINE row == [job[j] EXCEPT !.lease = "old"]
  <2>1. row \in JobRows /\ row.status = job[j].status
    BY <1>1 DEF JobRows, LeaseAges
  <2>2. job' = [job EXCEPT ![j] = row] /\ UNCHANGED <<runner, copies, inFilter, file, shared, shifted>>
    BY <1>3 DEF LeaseAgesOut
  <2> HIDE DEF row
  <2> QED BY <2>1, <2>2, JobWritten, NoRunnerKeeps
<1>4. ASSUME NEW j \in DataJobIds, NEW st \in Strategies, MapImportPage(j, st) PROVE JobsIInv'
  <2> DEFINE row == [job[j] EXCEPT !.options = st]
  <2>1. row \in JobRows /\ row.status = job[j].status
    BY <1>1 DEF JobRows
  <2>2. job' = [job EXCEPT ![j] = row] /\ UNCHANGED <<runner, copies, inFilter, file, shared, shifted>>
    BY <1>4 DEF MapImportPage
  <2> HIDE DEF row
  <2> QED BY <2>1, <2>2, JobWritten, NoRunnerKeeps
<1>5. ASSUME SweepStale PROVE JobsIInv'
  <2> DEFINE row(j) == IF Sweepable(j) THEN [job[j] EXCEPT !.status = "FAILED"] ELSE job[j]
  <2>1. ASSUME NEW j \in DataJobIds
        PROVE  row(j) \in JobRows /\ (row(j).status \in {"NONE", "QUEUED"} => row(j) = job[j])
    BY <1>1 DEF JobRows, JobStatus
  <2>2. job' = [j \in DataJobIds |-> row(j)] /\ UNCHANGED <<runner, copies, inFilter, file, shared, shifted>>
    BY <1>5 DEF SweepStale
  <2> HIDE DEF row
  <2>3. JobsOnward
    BY <2>1, <2>2 DEF JobsOnward
  <2> QED BY <2>2, <2>3, NoRunnerKeeps
<1> QED BY <1>2, <1>3, <1>4, <1>5

LEMMA BeginSteps ==
    ASSUME JobsIInv,
           \/ \E q \in JobRequests, j \in DataJobIds :
                 (\E st \in Strategies : MapImport(q, j, st)) \/ CreateExport(q, j)
           \/ \E w \in JobWorkers, j \in DataJobIds : Claim(w, j)
    PROVE  JobsIInv'
<1>1. /\ job \in [DataJobIds -> JobRows] /\ \A j \in DataJobIds : job[j] \in JobRows
  BY JobFacts
<1>2. ASSUME NEW r \in Runners, NEW j \in DataJobIds, NEW step \in {"mapped", "claimed"},
             NEW row \in JobRows, job' = [job EXCEPT ![j] = row],
             row.status \in {"NONE", "QUEUED"} => job[j].status \in {"NONE", "QUEUED"},
             runner' = [runner EXCEPT ![r] = [IdleRunner EXCEPT !.step = step, !.j = j, !.copy = job'[j]]],
             \/ step = "mapped" /\ r \in JobRequests
             \/ step = "claimed" /\ job[j].status = "QUEUED" /\ row.status = "PROCESSING",
             UNCHANGED <<copies, inFilter, file, shared, shifted>>
      PROVE  JobsIInv'
  <2>1. JobsOnward /\ job'[j] = row
    BY <1>2, JobWritten
  <2> DEFINE s == [IdleRunner EXCEPT !.step = step, !.j = j, !.copy = row]
  <2>2. /\ s \in RunnerStates /\ s.step = step /\ s.j = j /\ s.next = 1 /\ s.verdict = "none"
        /\ s.listed = NoneListed /\ s.copy = row
    BY IdleRunnerIs DEF RunnerStates, RunnerSteps
  <2>3. runner' = [runner EXCEPT ![r] = s]
    BY <1>2, <2>1
  <2> HIDE DEF s
  <2>4. \/ s.step = "mapped" /\ r \in JobRequests
        \/ s.step = "claimed" /\ job[s.j].status = "QUEUED" /\ job'[s.j].status = "PROCESSING"
    BY <1>2, <2>1, <2>2
  <2>5. UNCHANGED <<copies, inFilter, file, shared, shifted>> /\ s.copy = job'[s.j]
    BY <1>2, <2>1, <2>2
  <2> QED BY <2>1, <2>2, <2>3, <2>4, <2>5, BeginKeeps
<1>3. ASSUME NEW q \in JobRequests, NEW j \in DataJobIds, NEW st \in Strategies, MapImport(q, j, st)
      PROVE  JobsIInv'
  <2> DEFINE row == [job[j] EXCEPT !.options = st]
  <2>1. row \in JobRows /\ row.status = job[j].status
    BY <1>1 DEF JobRows
  <2>2. /\ job' = [job EXCEPT ![j] = row] /\ UNCHANGED <<copies, inFilter, file, shared, shifted>>
        /\ runner' = [runner EXCEPT ![q] = [IdleRunner EXCEPT !.step = "mapped", !.j = j, !.copy = job'[j]]]
    BY <1>3 DEF MapImport
  <2> HIDE DEF row
  <2> QED BY <1>2, <2>1, <2>2 DEF Runners
<1>4. ASSUME NEW q \in JobRequests, NEW j \in DataJobIds, CreateExport(q, j)
      PROVE  JobsIInv'
  <2>1. NewExport \in JobRows /\ NewExport.status = "QUEUED"
    BY DEF NewExport, NoJob, JobRows, JobStatus, LeaseAges, Strategies
  <2>2. /\ job' = [job EXCEPT ![j] = NewExport] /\ job[j].status = "NONE"
        /\ UNCHANGED <<copies, inFilter, file, shared, shifted>>
        /\ runner' = [runner EXCEPT ![q] = [IdleRunner EXCEPT !.step = "mapped", !.j = j, !.copy = job'[j]]]
    BY <1>4 DEF CreateExport
  <2> QED BY <1>2, <2>1, <2>2 DEF Runners
<1>5. ASSUME NEW w \in JobWorkers, NEW j \in DataJobIds, Claim(w, j)
      PROVE  JobsIInv'
  <2> DEFINE row == [job[j] EXCEPT !.status = "PROCESSING", !.lease = "fresh"]
  <2>1. row \in JobRows /\ row.status = "PROCESSING"
    BY <1>1 DEF JobRows, JobStatus, LeaseAges
  <2>2. /\ job' = [job EXCEPT ![j] = row] /\ UNCHANGED <<copies, inFilter, file, shared, shifted>>
        /\ runner' = [runner EXCEPT ![w] = [IdleRunner EXCEPT !.step = "claimed", !.j = j, !.copy = job'[j]]]
        /\ job[j].status = "QUEUED"
    BY <1>1, <1>5 DEF Claim
  <2> HIDE DEF row
  <2> QED BY <1>2, <2>1, <2>2 DEF Runners
<1> QED BY <1>3, <1>4, <1>5

LEMMA StopSteps ==
    ASSUME JobsIInv, NEW r \in Runners,
           LeaveQueued(r) \/ FinishImport(r) \/ FinishExport(r) \/ FailRun(r) \/ CrashRunner(r)
    PROVE  JobsIInv'
<1> DEFINE s == runner[r]
<1>1. /\ job \in [DataJobIds -> JobRows] /\ s \in RunnerStates /\ s.j \in DataJobIds
      /\ job[s.j] \in JobRows /\ file \in [Exports -> SUBSET [1..LeadCount -> Nat]]
      /\ ExportIsComplete /\ RunnerOK(r) /\ ListedOK(r)
  BY JobFacts
<1>2. JobsOnward
  <2>1. ASSUME NEW st \in {"PARTIAL", "COMPLETED", "FAILED"}, job' = [job EXCEPT ![s.j].status = st]
        PROVE  JobsOnward
    <3> DEFINE row == [job[s.j] EXCEPT !.status = st]
    <3>1. row \in JobRows /\ row.status = st
      BY <1>1 DEF JobRows, JobStatus
    <3>2. job' = [job EXCEPT ![s.j] = row]
      BY <2>1
    <3> HIDE DEF row
    <3> QED BY <1>1, <3>1, <3>2, JobWritten
  <2>2. UNCHANGED job => JobsOnward
    BY <1>1 DEF JobsOnward
  <2> QED BY <2>1, <2>2 DEF LeaveQueued, FinishImport, FinishExport, FailRun, CrashRunner
<1>3. Stop(r) /\ UNCHANGED <<copies, inFilter, shifted, shared>>
  BY DEF LeaveQueued, FinishImport, FinishExport, FailRun, CrashRunner
<1>4. file' \in [Exports -> SUBSET [1..LeadCount -> Nat]] /\ ExportIsComplete'
  <2>1. CASE UNCHANGED file
    BY <1>1, <1>3, <2>1 DEF ExportIsComplete
  <2>2. CASE FinishExport(r)
    <3>1. s.step = "finish" /\ s.j \in Exports /\ file' = [file EXCEPT ![s.j] = {s.listed}]
          /\ s.listed \in [1..LeadCount -> Nat]
      BY <1>1, <2>2 DEF FinishExport, RunnerOK, RunnerStates
    <3>2. file' \in [Exports -> SUBSET [1..LeadCount -> Nat]] /\ file'[s.j] = {s.listed}
          /\ \A j \in Exports \ {s.j} : file'[j] = file[j]
      BY <1>1, <3>1
    <3>3. s.j \in shifted \/ \A l \in 1..LeadCount : inFilter[l] => s.listed[l] = 1
      BY <1>1, <3>1 DEF ListedOK
    <3>4. ASSUME NEW j \in Exports, j \notin shifted, NEW listing \in file'[j],
                 NEW l \in 1..LeadCount, inFilter[l]
          PROVE  listing[l] = 1
      BY <1>1, <3>2, <3>3, <3>4 DEF ExportIsComplete
    <3> QED BY <1>3, <3>2, <3>4 DEF ExportIsComplete
  <2> QED BY <2>1, <2>2 DEF LeaveQueued, FinishImport, FailRun, CrashRunner
<1> QED BY <1>2, <1>3, <1>4, StopKeeps

(* A runner that goes on with the job it has, or takes it, and writes no row. *)
LEMMA GoOnKeeps ==
    ASSUME JobsIInv, NEW r \in Runners, JobsOnward, NEW s \in RunnerStates,
           runner' = [runner EXCEPT ![r] = s], s.step \in {"rows", "finish"},
           s.j = runner[r].j, s.next >= 1, s.next >= runner[r].next,
           s.step = "finish" => s.j \in Exports,
           job'[s.j].status \notin {"NONE", "QUEUED"},
           Holds(r) \/ job[s.j].status = "QUEUED" \/ s.j \in shared',
           \A l \in 1..LeadCount : inFilter[l] /\ s.j \in Exports \ shifted =>
             /\ s.step = "rows" => s.listed[l] = IF Cardinality(Earlier(l)) < s.next - 1 THEN 1 ELSE 0
             /\ s.step = "finish" => s.listed[l] = 1,
           UNCHANGED <<inFilter, file, shifted>>, shared \subseteq shared'
    PROVE  JobsKept(r)
<1>1. /\ runner' \in [Runners -> RunnerStates] /\ \A q \in Runners \ {r} : runner'[q] = runner[q]
      /\ runner'[r] = s
  BY JobFacts
<1>2. RunnerOK(r)'
  BY <1>1 DEF RunnerOK, Holds
<1>3. ListedOK(r)'
  BY <1>1 DEF ListedOK, Earlier
<1>4. ExportIsComplete'
  BY JobFacts DEF ExportIsComplete
<1> QED BY <1>1, <1>2, <1>3, <1>4, JobFacts DEF JobsKept

LEMMA RunJobKeeps ==
    ASSUME JobsIInv, NEW r \in Runners, RunJob(r)
    PROVE  JobsIInv'
<1> DEFINE s == runner[r]
           row == [job[s.j] EXCEPT !.status = IF s.copy.status = "PROCESSING" THEN @ ELSE "PROCESSING",
                                   !.lease = IF r \in JobWorkers THEN "fresh" ELSE @]
           go == [s EXCEPT !.step = "rows", !.copy.status = "PROCESSING"]
<1>1. /\ job \in [DataJobIds -> JobRows] /\ runner \in [Runners -> RunnerStates]
      /\ s \in RunnerStates /\ s.j \in DataJobIds
      /\ job[s.j] \in JobRows /\ file \in [Exports -> SUBSET [1..LeadCount -> Nat]]
      /\ ExportIsComplete /\ RunnerOK(r) /\ ListedOK(r)
  BY JobFacts
<1>2. /\ s.step \in {"claimed", "mapped"} /\ UNCHANGED <<copies, inFilter, file, shifted>>
      /\ s.next = 1 /\ s.listed = NoneListed
  BY <1>1 DEF RunJob, RunnerOK
<1>3. ExportIsComplete'
  BY <1>1, <1>2 DEF ExportIsComplete
<1>4. CASE UNCHANGED <<job, shared>> /\ Stop(r)
  <2>1. JobsOnward
    BY <1>1, <1>4 DEF JobsOnward
  <2> QED BY <1>1, <1>2, <1>3, <1>4, <2>1, StopKeeps
<1>5. CASE ~(UNCHANGED <<job, shared>> /\ Stop(r))
  <2>1. /\ job' = [job EXCEPT ![s.j] = row]
        /\ shared' = IF r \in JobRequests /\ job[s.j].status # "QUEUED" THEN shared \cup {s.j} ELSE shared
        /\ runner' = [runner EXCEPT ![r] = go] \/ Stop(r)
    BY <1>1, <1>5 DEF RunJob
  <2>2. row \in JobRows /\ row.status \in {job[s.j].status, "PROCESSING"}
        /\ (s.copy.status # "PROCESSING" => row.status = "PROCESSING")
    BY <1>1 DEF JobRows, JobStatus, LeaseAges
  <2> HIDE DEF row
  <2>3. JobsOnward /\ job'[s.j] = row
    BY <1>1, <2>1, <2>2, JobWritten
  <2>4. CASE Stop(r)
    BY <1>1, <1>2, <1>3, <2>1, <2>3, <2>4, StopKeeps
  <2>5. CASE runner' = [runner EXCEPT ![r] = go]
    <3>1. go \in RunnerStates /\ go.step = "rows" /\ go.j = s.j /\ go.next = 1 /\ go.listed = NoneListed
      BY <1>1, <1>2 DEF RunnerStates, RunnerSteps, JobRows, JobStatus
    <3> HIDE DEF go
    <3>2. job'[go.j].status \notin {"NONE", "QUEUED"}
      BY <1>1, <1>2, <2>2, <2>3, <3>1 DEF RunnerOK, Holds
    <3>3. Holds(r) \/ job[go.j].status = "QUEUED" \/ go.j \in shared'
      BY <1>1, <1>2, <2>1, <3>1 DEF RunnerOK, Holds
    <3>4. ASSUME NEW l \in 1..LeadCount
          PROVE  go.listed[l] = IF Cardinality(Earlier(l)) < go.next - 1 THEN 1 ELSE 0
      BY <3>1, EarlierIs DEF NoneListed
    <3>5. shared \subseteq shared' /\ UNCHANGED <<inFilter, file, shifted>> /\ UNCHANGED copies
          /\ go.j = runner[r].j /\ go.next >= 1 /\ go.next >= runner[r].next
      BY <1>2, <2>1, <3>1
    <3>6. JobsKept(r)
      BY <2>3, <2>5, <3>1, <3>2, <3>3, <3>4, <3>5, GoOnKeeps
    <3> QED BY <3>5, <3>6, RowsKept
  <2> QED BY <2>1, <2>4, <2>5
<1> QED BY <1>4, <1>5

(* A run moves within its file: what JobsKept asks of its runner. *)
LEMMA MoveOn ==
    ASSUME JobsIInv, NEW r \in Runners, NEW s \in RunnerStates, runner[r].step = "rows",
           runner' = [runner EXCEPT ![r] = s], s.step = "rows", s.j = runner[r].j,
           runner[r].j \in Imports, s.next >= runner[r].next,
           UNCHANGED <<job, inFilter, file, shared, shifted>>
    PROVE  JobsKept(r)
<1>1. /\ runner[r] \in RunnerStates /\ RunnerOK(r) /\ job \in [DataJobIds -> JobRows]
      /\ runner[r].j \notin Exports
  BY JobFacts, DataJobsAssumption
<1>2. runner[r].next >= 1 /\ Holds(r) /\ job[s.j].status \notin {"NONE", "QUEUED"}
  BY <1>1 DEF RunnerOK, Holds
<1>3. s.next \in Nat /\ runner[r].next \in Nat
  BY <1>1 DEF RunnerStates
<1>4. JobsOnward
  BY <1>1 DEF JobsOnward
<1>5. ASSUME NEW l \in 1..LeadCount, inFilter[l], s.j \in Exports \ shifted
      PROVE  FALSE
  BY <1>1, <1>5
<1>6. s.next >= 1 /\ job'[s.j].status \notin {"NONE", "QUEUED"} /\ shared \subseteq shared'
  BY <1>2, <1>3
<1> QED BY <1>2, <1>4, <1>5, <1>6, GoOnKeeps

LEMMA RowSteps ==
    ASSUME JobsIInv, NEW r \in Runners, MatchRow(r) \/ RejectRow(r) \/ FlushRow(r)
    PROVE  JobsIInv'
<1> DEFINE s == runner[r]
<1>1. /\ s \in RunnerStates /\ s.step = "rows" /\ s.j \in Imports /\ s.next \in Nat
      /\ s.next <= ImportRows /\ s.next >= 1
      /\ copies \in [Imports -> [1..ImportRows -> Nat]] /\ ImportRows \in Nat
      /\ UNCHANGED <<job, inFilter, file, shared, shifted>>
  BY JobFacts, DataJobsAssumption DEF MatchRow, RejectRow, FlushRow, RunnerOK, RunnerStates
<1>2. ASSUME NEW new \in RunnerStates, new.next = s.next \/ new.next = s.next + 1
      PROVE  new.next >= runner[r].next
  BY <1>1, <1>2
<1>3. CASE MatchRow(r)
  <2>1. PICK v \in Verdicts : runner' = [runner EXCEPT ![r].verdict = v] /\ UNCHANGED copies
    BY <1>3 DEF MatchRow, Verdicts
  <2> DEFINE new == [s EXCEPT !.verdict = v]
  <2>2. new \in RunnerStates /\ new.step = s.step /\ new.j = s.j /\ new.next = s.next
    BY <1>1 DEF RunnerStates
  <2>3. runner' = [runner EXCEPT ![r] = new]
    BY <2>1
  <2> HIDE DEF new
  <2>4. JobsKept(r)
    BY <1>1, <2>2, <2>3, <1>2, MoveOn
  <2> QED BY <2>1, <2>4, RowsKept
<1>4. CASE RejectRow(r)
  <2> DEFINE next == s.next + 1
             new == [s EXCEPT !.next = next, !.invalid = TRUE]
  <2>1. new \in RunnerStates /\ new.step = s.step /\ new.j = s.j /\ new.next = s.next + 1
    <3>1. next \in Nat
      BY <1>1
    <3> HIDE DEF next
    <3>2. new \in RunnerStates /\ new.step = s.step /\ new.j = s.j /\ new.next = next
      BY <1>1, <3>1 DEF RunnerStates
    <3> QED BY <3>2 DEF next
  <2>2. runner' = [runner EXCEPT ![r] = new] /\ UNCHANGED copies
    BY <1>1, <1>4, JobFacts DEF RejectRow
  <2> HIDE DEF new
  <2>3. JobsKept(r)
    BY <1>1, <2>1, <2>2, <1>2, MoveOn
  <2> QED BY <2>2, <2>3, RowsKept
<1>5. CASE FlushRow(r)
  <2> DEFINE next == s.next + 1
             new == [s EXCEPT !.next = next, !.verdict = "none"]
  <2>1. new \in RunnerStates /\ new.step = s.step /\ new.j = s.j /\ new.next = s.next + 1
    <3>1. next \in Nat
      BY <1>1
    <3> HIDE DEF next
    <3>2. new \in RunnerStates /\ new.step = s.step /\ new.j = s.j /\ new.next = next
      BY <1>1, <3>1 DEF RunnerStates, Verdicts
    <3> QED BY <3>2 DEF next
  <2>2. /\ runner' = [runner EXCEPT ![r] = new]
        /\ copies' = [copies EXCEPT ![s.j][s.next] = copies[s.j][s.next] + 1] \/ UNCHANGED copies
    BY <1>1, <1>5, JobFacts DEF FlushRow
  <2> HIDE DEF new
  <2>3. JobsKept(r)
    BY <1>1, <2>1, <2>2, <1>2, MoveOn
  <2>4. CASE UNCHANGED copies
    BY <2>3, <2>4, RowsKept
  <2>5. CASE copies' = [copies EXCEPT ![s.j][s.next] = copies[s.j][s.next] + 1]
    <3>1. s.next \in 1..ImportRows
      BY <1>1
    <3>2. /\ copies' \in [Imports -> [1..ImportRows -> Nat]]
          /\ copies'[s.j][s.next] = copies[s.j][s.next] + 1
          /\ \A j \in Imports, n \in 1..ImportRows : j # s.j \/ n # s.next => copies'[j][n] = copies[j][n]
      BY <1>1, <2>5, <3>1
    <3>3. RowsOK /\ OneRunner /\ Holds(r) /\ RunnerOK(r) /\ job[s.j].status \notin {"NONE", "QUEUED"}
      BY <1>1, JobFacts DEF RunnerOK, Holds
    <3>4. runner' \in [Runners -> RunnerStates] /\ runner'[r] = new
          /\ \A q \in Runners \ {r} : runner'[q] = runner[q]
      BY <2>1, <2>2, JobFacts
    <3>5. ASSUME NEW j \in Imports, NEW n \in 1..ImportRows
          PROVE  /\ job[j].status \in {"NONE", "QUEUED"} => copies'[j][n] = 0
                 /\ j \notin shared =>
                      /\ copies'[j][n] <= 1
                      /\ \A q \in Runners : Holds(q)' /\ runner'[q].j = j /\ runner'[q].next <= n
                           => copies'[j][n] = 0
      <4>1. CASE j # s.j
        <5>1. copies'[j][n] = copies[j][n]
          BY <3>2, <4>1
        <5>2. /\ j \notin shared => copies[j][n] <= 1
              /\ job[j].status \in {"NONE", "QUEUED"} => copies[j][n] = 0
          BY <3>3 DEF RowsOK
        <5>3. ASSUME j \notin shared, NEW q \in Runners, Holds(q)', runner'[q].j = j, runner'[q].next <= n
              PROVE  copies[j][n] = 0
          <6>1. q # r
            BY <1>1, <2>1, <3>4, <4>1, <5>3
          <6>2. runner'[q] = runner[q]
            BY <3>4, <6>1
          <6>3. Holds(q) /\ runner[q].j = j /\ runner[q].next <= n
            BY <5>3, <6>2 DEF Holds
          <6> QED BY <3>3, <5>3, <6>3 DEF RowsOK
        <5> QED BY <1>1, <5>1, <5>2, <5>3
      <4>2. CASE j = s.j /\ n = s.next
        <5>1. j \notin shared => copies[j][n] = 0
          BY <1>1, <3>1, <3>3, <4>2 DEF RowsOK
        <5>2. j \notin shared => copies'[j][n] = 1
          BY <3>2, <4>2, <5>1
        <5>3. ASSUME j \notin shared, NEW q \in Runners, Holds(q)', runner'[q].j = j, runner'[q].next <= n
              PROVE  FALSE
          <6>1. q = r
            BY <3>3, <3>4, <4>2, <5>3 DEF OneRunner, Holds
          <6> QED BY <1>1, <2>1, <3>4, <4>2, <5>3, <6>1
        <5> QED BY <3>3, <4>2, <5>2, <5>3
      <4>3. CASE j = s.j /\ n # s.next
        <5>1. copies'[j][n] = copies[j][n]
          BY <3>2, <4>3
        <5>2. j \notin shared => copies[j][n] <= 1
          BY <3>3 DEF RowsOK
        <5>3. ASSUME j \notin shared, NEW q \in Runners, Holds(q)', runner'[q].j = j, runner'[q].next <= n
              PROVE  copies[j][n] = 0
          <6>1. q = r
            BY <3>3, <3>4, <4>3, <5>3 DEF OneRunner, Holds
          <6>2. runner[r].next <= n
            BY <1>1, <2>1, <3>4, <5>3, <6>1
          <6> QED BY <3>3, <4>3, <5>3, <6>2 DEF RowsOK
        <5> QED BY <3>3, <4>3, <5>1, <5>2, <5>3
      <4> QED BY <4>1, <4>2, <4>3
    <3>6. RowsOK' /\ RowImportedOnce'
      BY <1>1, <3>5 DEF RowsOK, RowImportedOnce
    <3>7. JobStateOK'
      BY <2>3, <3>2 DEF JobStateOK, JobsKept
    <3> QED BY <2>3, <3>6, <3>7, JobsKeptKeeps DEF JobsIInv, JobsInv
  <2> QED BY <2>2, <2>4, <2>5
<1> QED BY <1>3, <1>4, <1>5

LEMMA WriteChunkKeeps ==
    ASSUME JobsIInv, NEW r \in Runners, WriteChunk(r)
    PROVE  JobsIInv'
<1> DEFINE s == runner[r]
<1>1. /\ s \in RunnerStates /\ s.step = "rows" /\ s.j \in Exports /\ s.next \in Nat /\ s.next >= 1
      /\ runner \in [Runners -> RunnerStates] /\ job \in [DataJobIds -> JobRows]
      /\ s.listed \in [1..LeadCount -> Nat]
      /\ ListedOK(r) /\ Holds(r) /\ job[s.j].status \notin {"NONE", "QUEUED"}
      /\ UNCHANGED <<job, copies, inFilter, file, shared, shifted>>
  BY JobFacts DEF WriteChunk, RunnerOK, Holds, RunnerStates
<1>2. JobsOnward
  BY <1>1 DEF JobsOnward
<1>3. ASSUME NEW l \in 1..LeadCount, inFilter[l], s.j \notin shifted
      PROVE  s.listed[l] = IF Cardinality(Earlier(l)) < s.next - 1 THEN 1 ELSE 0
  BY <1>1, <1>3 DEF ListedOK
<1>4. s.next - 1 \in Nat
  BY <1>1
<1>5. CASE Chunk(s.next - 1) = {}
  <2> DEFINE new == [s EXCEPT !.step = "finish"]
  <2>1. /\ new \in RunnerStates /\ new.step = "finish" /\ new.j = s.j /\ new.next = s.next
        /\ new.listed = s.listed
    BY <1>1 DEF RunnerStates, RunnerSteps
  <2>2. runner' = [runner EXCEPT ![r] = new]
    BY <1>1, <1>5 DEF WriteChunk
  <2> HIDE DEF new
  <2>3. ASSUME NEW l \in 1..LeadCount, inFilter[l], new.j \in Exports \ shifted
        PROVE  new.listed[l] = 1
    <3>1. Cardinality(Earlier(l)) < s.next - 1
      BY <1>4, <1>5, <2>3, NothingLeft
    <3> QED BY <1>3, <2>1, <2>3, <3>1
  <2>4. new.next >= 1 /\ new.next >= runner[r].next /\ new.step # "rows"
    BY <1>1, <2>1
  <2>5. JobsKept(r)
    BY <1>1, <1>2, <2>1, <2>2, <2>3, <2>4, GoOnKeeps
  <2> QED BY <1>1, <2>5, RowsKept
<1>6. CASE Chunk(s.next - 1) # {}
  <2> DEFINE next == s.next + ChunkRows
             listed == [l \in 1..LeadCount |->
                          IF l \in Chunk(s.next - 1) THEN s.listed[l] + 1 ELSE s.listed[l]]
             new == [s EXCEPT !.next = next, !.listed = listed]
  <2>1. next \in Nat /\ next >= 1 /\ next >= s.next /\ listed \in [1..LeadCount -> Nat]
    BY <1>1, DataJobsAssumption
  <2>2. \A l \in 1..LeadCount : listed[l] = IF l \in Chunk(s.next - 1) THEN s.listed[l] + 1 ELSE s.listed[l]
    OBVIOUS
  <2>3. runner' = [runner EXCEPT ![r] = new]
    BY <1>1, <1>6 DEF WriteChunk
  <2> HIDE DEF listed
  <2>4. next = s.next + ChunkRows
    OBVIOUS
  <2> HIDE DEF next
  <2>5. /\ new \in RunnerStates /\ new.step = "rows" /\ new.j = s.j /\ new.next = next
        /\ new.listed = listed
    BY <1>1, <2>1 DEF RunnerStates
  <2> HIDE DEF new
  <2>6. ASSUME NEW l \in 1..LeadCount, inFilter[l], new.j \in Exports \ shifted
        PROVE  new.listed[l] = IF Cardinality(Earlier(l)) < new.next - 1 THEN 1 ELSE 0
    <3>1. PICK n \in Nat : n = Cardinality(Earlier(l))
      BY EarlierIs
    <3>2. l \in Chunk(s.next - 1) <=> n >= s.next - 1 /\ n < s.next - 1 + ChunkRows
      BY <1>4, <2>6, <3>1, DataJobsAssumption DEF Chunk, Earlier
    <3>3. s.listed[l] = IF n < s.next - 1 THEN 1 ELSE 0
      BY <1>3, <2>5, <2>6, <3>1
    <3>4. new.listed[l] = IF n < new.next - 1 THEN 1 ELSE 0
      BY <1>1, <2>2, <2>4, <2>5, <3>1, <3>2, <3>3, DataJobsAssumption
    <3> QED BY <3>1, <3>4
  <2>7. new.next >= 1 /\ new.next >= runner[r].next /\ new.step # "finish"
    BY <2>1, <2>5
  <2>8. JobsKept(r)
    BY <1>1, <1>2, <2>3, <2>5, <2>6, <2>7, GoOnKeeps
  <2> QED BY <1>1, <2>8, RowsKept
<1> QED BY <1>5, <1>6

(* A lead leaves the filter: the exports under way are named in the history. *)
LEMMA RetireLeadKeeps ==
    ASSUME JobsIInv, NEW l \in 1..LeadCount, RetireLead(l)
    PROVE  JobsIInv'
<1>1. /\ inFilter' = [inFilter EXCEPT ![l] = FALSE] /\ UNCHANGED <<job, runner, copies, file, shared>>
      /\ shifted' = shifted \cup {j \in Exports : RunsNow(j) # {}}
  BY DEF RetireLead
<1>2. /\ JobsTypeOK /\ JobStateOK /\ OneRunner /\ RowsOK /\ RowImportedOnce /\ ExportIsComplete
      /\ \A r \in Runners : RunnerOK(r)
  BY DEF JobsIInv, JobsInv
<1>3. inFilter' \in [1..LeadCount -> BOOLEAN] /\ \A k \in 1..LeadCount : inFilter'[k] => inFilter[k]
  BY <1>1, <1>2 DEF JobsTypeOK
<1>4. JobsTypeOK' /\ JobStateOK' /\ OneRunner' /\ RowsOK' /\ RowImportedOnce'
  <2>1. JobsTypeOK' /\ JobStateOK'
    BY <1>1, <1>2, <1>3 DEF JobsTypeOK, JobStateOK
  <2>2. OneRunner'
    BY <1>1, <1>2 DEF OneRunner, Holds
  <2>3. RowsOK' /\ RowImportedOnce'
    BY <1>1, <1>2 DEF RowsOK, RowImportedOnce, Holds
  <2> QED BY <2>1, <2>2, <2>3
<1>5. ExportIsComplete'
  BY <1>1, <1>2, <1>3 DEF ExportIsComplete
<1>6. ASSUME NEW r \in Runners PROVE RunnerOK(r)' /\ ListedOK(r)'
  <2>1. RunnerOK(r)'
    BY <1>1, <1>2 DEF RunnerOK, Holds
  <2>2. runner[r].step \in {"rows", "finish"} /\ runner[r].j \in Exports => runner[r].j \in shifted'
    BY <1>1 DEF RunsNow
  <2>3. ListedOK(r)'
    BY <1>1, <2>2 DEF ListedOK
  <2> QED BY <2>1, <2>3
<1> QED BY <1>4, <1>5, <1>6 DEF JobsIInv, JobsInv

LEMMA JobsInvariant == JobsSpec => []JobsIInv
<1>1. JobsInit => JobsIInv
  <2> SUFFICES ASSUME JobsInit PROVE JobsIInv
    OBVIOUS
  <2>1. NoJob \in JobRows /\ NoJob.status = "NONE"
    BY DEF NoJob, JobRows, JobStatus, LeaseAges
  <2>2. /\ job = [j \in DataJobIds |-> NoJob] /\ runner = [r \in Runners |-> IdleRunner]
        /\ copies = [j \in Imports |-> [n \in 1..ImportRows |-> 0]]
        /\ inFilter = [l \in 1..LeadCount |-> TRUE] /\ file = [j \in Exports |-> {}]
    BY DEF JobsInit
  <2>3. JobsTypeOK /\ JobStateOK
    BY <2>1, <2>2, IdleRunnerIs DEF JobsTypeOK, JobStateOK, RunnerStates
  <2>4. \A r \in Runners : runner[r].step = "idle"
    BY <2>2, IdleRunnerIs
  <2>5. \A j \in Imports, n \in 1..ImportRows : copies[j][n] = 0
    BY <2>2
  <2>6. OneRunner /\ RowsOK /\ RowImportedOnce /\ ExportIsComplete
    BY <2>2, <2>4, <2>5 DEF OneRunner, RowsOK, RowImportedOnce, ExportIsComplete, Holds
  <2>7. \A r \in Runners : RunnerOK(r) /\ ListedOK(r)
    BY <2>4 DEF RunnerOK, ListedOK, Holds
  <2> QED BY <2>3, <2>6, <2>7 DEF JobsIInv, JobsInv
<1>2. JobsIInv /\ [JobsNext]_jobVars => JobsIInv'
  <2> SUFFICES ASSUME JobsIInv, [JobsNext]_jobVars PROVE JobsIInv'
    OBVIOUS
  <2>1. CASE UNCHANGED jobVars
    <3>1. JobsOnward
      BY <2>1, JobFacts DEF JobsOnward, jobVars
    <3>2. UNCHANGED <<runner, copies, inFilter, file, shared, shifted>>
      BY <2>1 DEF jobVars
    <3> QED BY <3>1, <3>2, NoRunnerKeeps
  <2>2. CASE JobsNext
    BY <2>2, JobRequestSteps, BeginSteps, StopSteps, RunJobKeeps, RowSteps, WriteChunkKeeps, RetireLeadKeeps
       DEF JobsNext, Runners
  <2> QED BY <2>1, <2>2
<1> QED BY <1>1, <1>2, PTL DEF JobsSpec

(* However requests, workers, crashes and the sweep overlap, a row of an imported file      *)
(* becomes one lead unless a request ran the batch that a worker had, and a finished export *)
(* lists each lead of the filter once unless one left it during the run.                  *)
THEOREM JobsInvHolds == JobsSpec => []JobsInv
<1>1. JobsIInv => JobsInv
  BY DEF JobsIInv
<1> QED BY <1>1, JobsInvariant, PTL

(* A finished import or export changes its status only while a run of it is under way.   *)
THEOREM FinishedStaysHolds == JobsSpec => FinishedStays
<1>1. JobsIInv /\ [JobsNext]_jobVars =>
        [\A j \in DataJobIds : job[j].status \in Finished /\ job'[j].status # job[j].status
           => \E r \in Runners : runner[r].step # "idle" /\ runner[r].j = j]_jobVars
  <2> SUFFICES ASSUME JobsIInv, JobsNext, NEW j \in DataJobIds, job[j].status \in Finished,
                      job'[j].status # job[j].status
               PROVE  \E r \in Runners : runner[r].step # "idle" /\ runner[r].j = j
    OBVIOUS
  <2>1. job \in [DataJobIds -> JobRows] /\ \A i \in DataJobIds : job[i] \in JobRows
    BY JobFacts
  <2>2. job[j].status \notin {"NONE", "QUEUED", "PROCESSING"}
    BY DEF Finished
  <2>3. ASSUME NEW i \in DataJobIds, StartImport(i) PROVE FALSE
    BY <2>1, <2>2, <2>3 DEF StartImport
  <2>4. ASSUME NEW i \in DataJobIds, LeaseAgesOut(i) PROVE FALSE
    BY <2>1, <2>4 DEF LeaseAgesOut, JobRows
  <2>5. ASSUME NEW i \in DataJobIds, NEW st, MapImportPage(i, st) \/ \E q \in JobRequests : MapImport(q, i, st)
        PROVE  FALSE
    <3>1. job' = [job EXCEPT ![i].options = st]
      BY <2>5 DEF MapImportPage, MapImport
    <3> QED BY <2>1, <3>1 DEF JobRows
  <2>6. ASSUME NEW i \in DataJobIds, NEW q \in JobRequests, CreateExport(q, i) PROVE FALSE
    BY <2>1, <2>2, <2>6 DEF CreateExport
  <2>7. ASSUME NEW i \in DataJobIds, NEW w \in JobWorkers, Claim(w, i) PROVE FALSE
    BY <2>1, <2>2, <2>7 DEF Claim
  <2>8. ASSUME SweepStale PROVE FALSE
    BY <2>1, <2>2, <2>8 DEF SweepStale, Sweepable
  <2>9. ASSUME NEW r \in Runners,
               \/ RunJob(r) \/ MatchRow(r) \/ FlushRow(r) \/ RejectRow(r) \/ WriteChunk(r)
               \/ FinishImport(r) \/ FinishExport(r) \/ FailRun(r) \/ CrashRunner(r) \/ LeaveQueued(r)
        PROVE  runner[r].step # "idle" /\ runner[r].j = j
    <3>1. runner[r].step # "idle"
      BY <2>9 DEF RunJob, MatchRow, FlushRow, RejectRow, WriteChunk, FinishImport, FinishExport, FailRun,
                  CrashRunner, LeaveQueued
    <3>2. \A i \in DataJobIds \ {runner[r].j} : job'[i] = job[i]
      BY <2>1, <2>9 DEF RunJob, MatchRow, FlushRow, RejectRow, WriteChunk, FinishImport, FinishExport, FailRun,
                        CrashRunner, LeaveQueued
    <3> QED BY <3>1, <3>2
  <2>10. ASSUME NEW l \in 1..LeadCount, RetireLead(l) PROVE FALSE
    BY <2>10 DEF RetireLead
  <2> QED BY <2>3, <2>4, <2>5, <2>6, <2>7, <2>8, <2>9, <2>10 DEF JobsNext, Runners
<1> QED BY <1>1, JobsInvariant, PTL DEF JobsSpec, FinishedStays

----------------------------------------------------------------------------
(* Workflow rules: the slots of a schedule. *)

(* A time is so many whole periods and a rest. *)
LEMMA Division ==
    ASSUME NEW n \in Nat, NEW d \in Nat \ {0}
    PROVE  \E q \in Nat, r \in 0..(d - 1) : n \div d = q /\ n % d = r /\ n = (q * d) + r
<1>1. n \div d \in Nat /\ n % d \in 0..(d - 1)
  <2>1. n \div d \in Int /\ n \div d >= 0 /\ n % d >= 0 /\ n % d < d /\ n % d \in Int
    OBVIOUS
  <2> QED BY <2>1
<1>2. n = ((n \div d) * d) + (n % d)
  OBVIOUS
<1> QED BY <1>1, <1>2

LEMMA Divided ==
    ASSUME NEW q \in Nat, NEW d \in Nat \ {0}, NEW r \in 0..(d - 1)
    PROVE  /\ ((q * d) + r) \div d = q /\ ((q * d) + r) % d = r
           /\ (q * d) + r \in Nat /\ q * d \in Nat
OBVIOUS

(* Whole periods that lie a rest apart: none comes between. *)
LEMMA NextPeriod ==
    ASSUME NEW d \in Nat \ {0}, NEW p \in Nat, NEW q \in Nat, p < q
    PROVE  (p * d) + d <= q * d
<1>1. PICK k \in Nat : q = p + 1 + k
  <2>1. q - p - 1 \in Nat /\ q = p + 1 + (q - p - 1)
    OBVIOUS
  <2> QED BY <2>1
<1>2. q * d = (p * d) + d + (k * d) /\ k * d \in Nat /\ p * d \in Nat
  BY <1>1
<1> QED BY <1>2

(* The last time up to `now` with the rest r. *)
LEMMA LastWithRest ==
    ASSUME NEW now \in Nat, NEW d \in Nat \ {0}, NEW r \in 0..(d - 1)
    PROVE  LET s == ((now \div d) * d) + r IN
           /\ s \in Nat /\ s % d = r
           /\ s <= now \/ s - d < 0 \/ (s - d \in 0..now /\ (s - d) % d = r)
           /\ s >= d => s - d \in Nat
           /\ \A u \in 0..now : u % d = r => u <= s /\ (s > now => s >= d /\ u <= s - d)
           /\ (r = 0 => s <= now)
<1>1. PICK q \in Nat, e \in 0..(d - 1) : now \div d = q /\ now = (q * d) + e
  BY Division
<1> DEFINE s == (q * d) + r
<1>2. s \in Nat /\ s % d = r /\ q * d \in Nat
  BY Divided
<1>3. s - d < 0 \/ (s - d \in Nat /\ s - d < now /\ (s - d) % d = r)
  <2>1. CASE q = 0
    BY <1>2, <2>1
  <2>2. CASE q # 0
    <3>1. PICK k \in Nat : q = k + 1
      <4>1. q - 1 \in Nat /\ q = (q - 1) + 1
        BY <2>2
      <4> QED BY <4>1
    <3>2. q * d = (k * d) + d /\ k * d \in Nat
      BY <3>1
    <3>3. s - d = (k * d) + r
      BY <3>2
    <3>4. ((k * d) + r) % d = r /\ (k * d) + r \in Nat
      BY Divided
    <3>5. (k * d) + r < now
      BY <1>1, <3>2
    <3> QED BY <3>3, <3>4, <3>5
  <2> QED BY <2>1, <2>2
<1>4. ASSUME NEW u \in 0..now, u % d = r
      PROVE  u <= s /\ (s > now => s >= d /\ u <= s - d)
  <2>0. u \in Nat
    OBVIOUS
  <2>1. PICK p \in Nat, f \in 0..(d - 1) : u % d = f /\ u = (p * d) + f
    BY <2>0, Division
  <2>2. u = (p * d) + r /\ p * d \in Nat
    BY <1>4, <2>1
  <2>3. CASE p < q
    <3>1. (p * d) + d <= q * d
      BY <2>3, NextPeriod
    <3> QED BY <1>2, <2>2, <3>1
  <2>4. CASE p = q
    BY <1>1, <1>2, <2>2, <2>4
  <2>5. CASE q < p
    <3>1. (q * d) + d <= p * d
      BY <2>5, NextPeriod
    <3>2. now < u
      BY <1>1, <1>2, <2>2, <3>1
    <3> QED BY <3>2
  <2> QED BY <2>3, <2>4, <2>5
<1>5. r = 0 => s <= now
  BY <1>1, <1>2
<1>6. s = ((now \div d) * d) + r
  BY <1>1
<1> HIDE DEF s
<1>7. s - d < 0 \/ (s - d \in 0..now /\ (s - d) % d = r)
  BY <1>2, <1>3
<1> QED BY <1>2, <1>4, <1>5, <1>6, <1>7

LEMMA MaxIs ==
    ASSUME NEW n \in Nat, NEW vs \in SUBSET (0..n), NEW v \in vs, \A u \in vs : u <= v
    PROVE  Max(vs) = v
<1>1. \A u \in vs : u \in Nat
  OBVIOUS
<1>2. \E x \in vs : \A y \in vs : x >= y
  BY <1>1
<1>3. Max(vs) \in vs /\ \A y \in vs : Max(vs) >= y
  BY <1>2 DEF Max
<1>4. PICK m \in vs : m = Max(vs)
  BY <1>3
<1>5. m >= v /\ m <= v /\ m \in Nat /\ v \in Nat
  BY <1>1, <1>3, <1>4
<1> QED BY <1>4, <1>5

LEMMA PeriodsAre ==
    Hour \in Nat \ {0} /\ Day \in Nat \ {0} /\ Week \in Nat \ {0} /\ Horizon \in Nat
BY WorkflowRulesAssumption

(* current_slot is the latest slot that has come. *)
LEMMA CurrentIsLatest ==
    ASSUME NEW c \in Schedules, NEW now \in Clock
    PROVE  CurrentSlot(c, now) = LatestSlot(c, now)
<1> DEFINE slots == {s \in 0..now : IsSlot(c, s)}
<1>1. now \in Nat
  BY PeriodsAre DEF Clock
<1>2. ASSUME NEW v \in slots, \A u \in slots : u <= v PROVE LatestSlot(c, now) = v
  <2>1. slots \in SUBSET (0..now) /\ slots # {}
    OBVIOUS
  <2> HIDE DEF slots
  <2>2. Max(slots) = v
    BY <1>1, <1>2, <2>1, MaxIs
  <2> QED BY <2>1, <2>2 DEF slots, LatestSlot
<1>3. slots = {} => LatestSlot(c, now) = NoSlot
  BY DEF LatestSlot
<1>4. CASE c.type = "once"
  <2>1. c.at \in Nat
    BY <1>4, PeriodsAre DEF Schedules, Clock
  <2>2. \A s : IsSlot(c, s) <=> s = c.at
    BY <1>4 DEF IsSlot
  <2>3. CurrentSlot(c, now) = IF c.at <= now THEN c.at ELSE NoSlot
    BY <1>4 DEF CurrentSlot
  <2>4. CASE c.at <= now
    <3>1. c.at \in slots /\ \A u \in slots : u <= c.at
      BY <1>1, <2>1, <2>2, <2>4
    <3> QED BY <1>2, <2>3, <2>4, <3>1
  <2>5. CASE ~(c.at <= now)
    <3>1. slots = {}
      BY <1>1, <2>1, <2>2, <2>5
    <3> QED BY <1>3, <2>3, <2>5, <3>1
  <2> QED BY <2>4, <2>5
<1>5. ASSUME NEW d \in Nat \ {0}, \A s : IsSlot(c, s) <=> s % d = 0,
             CurrentSlot(c, now) = (now \div d) * d
      PROVE  CurrentSlot(c, now) = LatestSlot(c, now)
  <2>1. 0 \in 0..(d - 1) /\ (now \div d) * d = ((now \div d) * d) + 0
    <3>1. PICK q \in Nat : now \div d = q
      BY <1>1, Division
    <3> QED BY <3>1
  <2>2. PICK s : s = (now \div d) * d
    OBVIOUS
  <2>3. s \in Nat /\ s % d = 0 /\ s <= now /\ \A u \in 0..now : u % d = 0 => u <= s
    BY <1>1, <2>1, <2>2, LastWithRest
  <2>4. s \in slots /\ \A u \in slots : u <= s
    BY <1>1, <1>5, <2>3
  <2> QED BY <1>2, <1>5, <2>2, <2>4
<1>6. CASE c.type = "hourly"
  <2>1. (\A s : IsSlot(c, s) <=> s % Hour = 0) /\ CurrentSlot(c, now) = (now \div Hour) * Hour
    BY <1>6 DEF IsSlot, CurrentSlot
  <2> QED BY <1>5, <2>1, PeriodsAre
<1>7. CASE c.type = "interval"
  <2>1. c.minutes \in Nat \ {0}
    BY <1>7, PeriodsAre DEF Schedules
  <2>2. (\A s : IsSlot(c, s) <=> s % c.minutes = 0) /\ CurrentSlot(c, now) = (now \div c.minutes) * c.minutes
    BY <1>7 DEF IsSlot, CurrentSlot
  <2> QED BY <1>5, <2>1, <2>2
<1>8. CASE c.type = "daily"
  <2>1. c.time \in 0..(Day - 1)
    BY <1>8 DEF Schedules
  <2>2. \A s : IsSlot(c, s) <=> s % Day = c.time
    BY <1>8 DEF IsSlot
  <2>3. PICK s : s = ((now \div Day) * Day) + c.time
    OBVIOUS
  <2>4. CurrentSlot(c, now) = IF s <= now THEN s ELSE IF s >= Day THEN s - Day ELSE NoSlot
    BY <1>8, <2>3 DEF CurrentSlot
  <2>5. /\ s \in Nat /\ s % Day = c.time
        /\ s <= now \/ s - Day < 0 \/ (s - Day \in 0..now /\ (s - Day) % Day = c.time)
        /\ \A u \in 0..now : u % Day = c.time => u <= s /\ (s > now => s >= Day /\ u <= s - Day)
    BY <1>1, <2>1, <2>3, LastWithRest, PeriodsAre
  <2>6. CASE s <= now
    <3>1. s \in slots /\ \A u \in slots : u <= s
      BY <1>1, <2>2, <2>5, <2>6
    <3> QED BY <1>2, <2>4, <2>6, <3>1
  <2>7. CASE s > now /\ s >= Day
    <3>1. s - Day \in slots
      BY <1>1, <2>2, <2>5, <2>7, PeriodsAre
    <3>2. \A u \in slots : u <= s - Day
      BY <2>2, <2>5, <2>7
    <3>3. CurrentSlot(c, now) = s - Day
      BY <1>1, <2>4, <2>5, <2>7, PeriodsAre
    <3> QED BY <1>2, <3>1, <3>2, <3>3
  <2>8. CASE s > now /\ s < Day
    <3>1. slots = {}
      BY <2>2, <2>5, <2>8, PeriodsAre
    <3>2. CurrentSlot(c, now) = NoSlot
      BY <1>1, <2>4, <2>5, <2>8, PeriodsAre
    <3> QED BY <1>3, <3>1, <3>2
  <2> QED BY <1>1, <2>5, <2>6, <2>7, <2>8, PeriodsAre
<1> QED BY <1>4, <1>6, <1>7, <1>8 DEF Schedules

(* It has come, and what a cycle fires lies after the publication. *)
LEMMA SlotHasCome ==
    ASSUME NEW c \in Schedules, NEW now \in Clock, NEW published \in Clock,
           Fires(c, now, published) # NoSlot
    PROVE  Fires(c, now, published) \in published..now
<1>1. now \in Nat /\ published \in Nat
  BY PeriodsAre DEF Clock
<1>2. CurrentSlot(c, now) = NoSlot \/ CurrentSlot(c, now) \in 0..now
  <2>1. LatestSlot(c, now) = NoSlot \/ LatestSlot(c, now) \in 0..now
    <3> DEFINE slots == {s \in 0..now : IsSlot(c, s)}
    <3>1. CASE slots = {}
      BY <3>1 DEF LatestSlot
    <3>2. CASE slots # {}
      <4>1. PICK v \in slots : \A u \in slots : u <= v
        BY <1>1, <3>2, LargestOf
      <4>2. slots \in SUBSET (0..now)
        OBVIOUS
      <4> HIDE DEF slots
      <4>3. Max(slots) = v
        BY <1>1, <4>1, <4>2, MaxIs
      <4> QED BY <3>2, <4>1, <4>2, <4>3 DEF LatestSlot, slots
    <3> QED BY <3>1, <3>2
  <2> QED BY <2>1, CurrentIsLatest
<1> QED BY <1>1, <1>2 DEF Fires

----------------------------------------------------------------------------
(* Workflow rules: business hours. *)

LEMMA OnADay ==
    ASSUME NEW t \in Nat
    PROVE  /\ Midnight(t) \in Nat /\ Weekday(t) \in 0..(Week - 1)
           /\ Midnight(t) <= t /\ t < Midnight(t) + Day
           /\ \A o \in 0..(Day - 1) : /\ Midnight(Midnight(t) + o) = Midnight(t)
                                      /\ Weekday(Midnight(t) + o) = Weekday(t)
<1>1. PICK q \in Nat, e \in 0..(Day - 1) : t \div Day = q /\ t = (q * Day) + e
  BY Division, PeriodsAre
<1>2. Midnight(t) = q * Day /\ q * Day \in Nat
  BY <1>1, Divided, PeriodsAre DEF Midnight
<1>3. Weekday(t) = q % Week
  BY <1>1 DEF Weekday
<1>4. q % Week \in 0..(Week - 1)
  BY Division, PeriodsAre
<1>5. \A o \in 0..(Day - 1) : ((q * Day) + o) \div Day = q
  BY Divided, PeriodsAre
<1>6. \A o \in 0..(Day - 1) : Midnight((q * Day) + o) = q * Day /\ Weekday((q * Day) + o) = q % Week
  BY <1>5 DEF Midnight, Weekday
<1>7. PICK m \in Nat : m = q * Day
  BY <1>2
<1>8. m <= t /\ t < m + Day
  BY <1>1, <1>7, PeriodsAre
<1> QED BY <1>2, <1>3, <1>4, <1>6, <1>7, <1>8

(* The opening of a day, if it is a time, lies on that day, and inside the window if it is   *)
(* a business day and the window opens before it closes.                               *)
LEMMA OpeningIs ==
    ASSUME NEW b \in Windows, b.start # Day, NEW t \in Nat
    PROVE  LET o == Midnight(t) + b.start IN
           /\ o \in Nat /\ Midnight(o) + b.start = o /\ Weekday(o) = Weekday(t)
           /\ InWindow(b, o) <=> Weekday(t) \in OpenDays(b) /\ b.start <= b.end
<1>1. Midnight(t) \in Nat /\ b.start \in 0..(Day - 1) /\ b.end \in Nat /\ b.start \in Nat
  <2>1. Midnight(t) \in Nat
    BY OnADay
  <2>2. b.start \in 0..Day /\ b.end \in 0..Day
    BY DEF Windows
  <2> QED BY <2>1, <2>2, PeriodsAre
<1>2. /\ Midnight(Midnight(t) + b.start) = Midnight(t)
      /\ Weekday(Midnight(t) + b.start) = Weekday(t)
  BY <1>1, OnADay
<1>3. Midnight(t) + b.start <= Midnight(t) + b.end <=> b.start <= b.end
  BY <1>1
<1> QED BY <1>1, <1>2, <1>3 DEF InWindow

(* The time looked at in the round k, and what that round decides. *)
LookedAt(wakeAt, b, k) ==
    IF k = Week + 1 THEN wakeAt ELSE Midnight(wakeAt + ((Week + 1 - k) * Day)) + b.start
IsOpen(wakeAt, b, k) == Weekday(LookedAt(wakeAt, b, k)) \in OpenDays(b)

Round(wakeAt, b, k, later) ==
    IF k = 0 THEN wakeAt
    ELSE IF b.start = Day \/ (IsOpen(wakeAt, b, k) /\ b.end = Day) THEN Raised
    ELSE IF InWindow(b, LookedAt(wakeAt, b, k)) THEN wakeAt
    ELSE IF /\ IsOpen(wakeAt, b, k)
            /\ LookedAt(wakeAt, b, k) < Midnight(LookedAt(wakeAt, b, k)) + b.start
         THEN Midnight(LookedAt(wakeAt, b, k)) + b.start
    ELSE later

IsShift(wakeAt, b, f) == f = [k \in 0..(Week + 1) |-> Round(wakeAt, b, k, f[k - 1])]

(* The day that is looked at in the round k. *)
LEMMA DayLookedAt ==
    ASSUME NEW b \in Windows, b.start # Day, NEW wakeAt \in Nat, NEW k \in 0..Week
    PROVE  \E t \in Nat : /\ t = wakeAt + ((Week + 1 - k) * Day)
                          /\ LookedAt(wakeAt, b, k) = Midnight(t) + b.start
                          /\ Weekday(LookedAt(wakeAt, b, k)) = Weekday(t)
<1>1. k # Week + 1 /\ k \in Nat
  BY PeriodsAre
<1>2. PICK t \in Nat : t = wakeAt + ((Week + 1 - k) * Day)
  <2>1. PICK j \in Nat : j = Week + 1 - k
    BY PeriodsAre
  <2>2. j * Day \in Nat
    BY PeriodsAre
  <2> QED BY <2>1, <2>2
<1>3. LookedAt(wakeAt, b, k) = Midnight(t) + b.start
  BY <1>1, <1>2 DEF LookedAt
<1> QED BY <1>2, <1>3, OpeningIs

(* A later day is never a reason to put the wait off: it raises, or the wait stays. *)
LEMMA LaterDays ==
    ASSUME NEW b \in Windows, b.start # Day, NEW wakeAt \in Nat, NEW k \in 0..Week, k # 0, NEW later
    PROVE  /\ IsOpen(wakeAt, b, k) /\ b.end = Day => Round(wakeAt, b, k, later) = Raised
           /\ ~(IsOpen(wakeAt, b, k) /\ b.end = Day) =>
                  Round(wakeAt, b, k, later) \in {wakeAt, later}
           /\ ~IsOpen(wakeAt, b, k) => Round(wakeAt, b, k, later) = later
<1>1. PICK t \in Nat : LookedAt(wakeAt, b, k) = Midnight(t) + b.start
  BY DayLookedAt
<1>2. PICK o \in Nat : o = Midnight(t) + b.start /\ Midnight(o) + b.start = o
  BY OpeningIs
<1>3. ~(o < o)
  OBVIOUS
<1>4. InWindow(b, o) => Weekday(o) \in OpenDays(b)
  BY DEF InWindow
<1> QED BY <1>1, <1>2, <1>3, <1>4 DEF Round, IsOpen

(* Shift takes the rounds one by one, from the last day. *)
LEMMA ShiftTakesRounds ==
    ASSUME NEW b \in Windows, NEW wakeAt \in Nat
    PROVE  \E f : /\ ShiftToBusinessHours(wakeAt, b) = f[Week + 1]
                 /\ \A k \in 0..(Week + 1) : f[k] = Round(wakeAt, b, k, f[k - 1])
<1> DEFINE Shift == CHOOSE f : IsShift(wakeAt, b, f)
           n == Week + 1
<1>1. n \in Nat /\ n # 0 /\ n \in 0..n
  BY PeriodsAre
<1>2. \E f : IsShift(wakeAt, b, f)
  <2> DEFINE Def(g, k) == Round(wakeAt, b, k, g[k - 1])
             S == {k \in 0..n : \E g : g = [i \in 0..k |-> Def(g, i)]}
  <2>1. 0 \in S
    <3> DEFINE g == [i \in 0..0 |-> wakeAt]
    <3>1. \A i \in 0..0 : Def(g, i) = wakeAt
      BY DEF Round
    <3>2. g = [i \in 0..0 |-> Def(g, i)]
      BY <3>1
    <3> HIDE DEF g
    <3> QED BY <1>1, <3>2
  <2>2. ASSUME NEW k \in 0..(n - 1), k \in S PROVE k + 1 \in S
    <3>1. k \in Nat /\ k + 1 \in 0..n /\ k + 1 \notin 0..k
      BY <1>1
    <3>2. PICK g : g = [i \in 0..k |-> Def(g, i)]
      BY <2>2
    <3> DEFINE h == [i \in 0..(k + 1) |-> IF i = k + 1 THEN Def(g, k + 1) ELSE g[i]]
    <3>3. ASSUME NEW i \in 0..(k + 1) PROVE h[i] = Def(h, i)
      <4>1. CASE i = 0
        <5>1. g[0] = Def(g, 0) /\ h[0] = g[0]
          BY <3>1, <3>2
        <5> QED BY <4>1, <5>1 DEF Round
      <4>2. CASE i # 0
        <5>1. i - 1 \in 0..k /\ i - 1 \in 0..(k + 1) /\ i - 1 # k + 1
          BY <3>1, <4>2
        <5>2. h[i - 1] = g[i - 1]
          BY <5>1
        <5>3. CASE i = k + 1
          BY <3>1, <5>2, <5>3
        <5>4. CASE i # k + 1
          <6>1. i \in 0..k /\ h[i] = g[i]
            BY <3>1, <5>4
          <6>2. g[i] = Def(g, i)
            BY <3>2, <6>1
          <6> QED BY <5>2, <6>1, <6>2
        <5> QED BY <5>3, <5>4
      <4> QED BY <4>1, <4>2
    <3>4. h = [i \in 0..(k + 1) |-> h[i]]
      OBVIOUS
    <3> HIDE DEF h, Def
    <3>5. h = [i \in 0..(k + 1) |-> Def(h, i)]
      BY <3>3, <3>4
    <3> QED BY <3>1, <3>5
  <2> HIDE DEF S
  <2>3. \A k \in 0..n : k \in S
    BY <1>1, <2>1, <2>2, UpTo
  <2>4. n \in S
    BY <1>1, <2>3
  <2> QED BY <2>4 DEF S, IsShift
<1>3. IsShift(wakeAt, b, Shift)
  BY <1>2
<1>4. ShiftToBusinessHours(wakeAt, b) = Shift[n]
  BY DEF ShiftToBusinessHours, IsShift, Round, LookedAt, IsOpen
<1> HIDE DEF Shift
<1>5. \A k \in 0..n : Shift[k] = Round(wakeAt, b, k, Shift[k - 1])
  BY <1>3 DEF IsShift
<1> QED BY <1>4, <1>5

(* Every day of the week is looked at. *)
LEMMA DayComes ==
    ASSUME NEW t \in Nat, NEW d \in 0..(Week - 1)
    PROVE  \E j \in 0..(Week - 1) : Weekday(t + (j * Day)) = d
<1>1. PICK q \in Nat, e \in 0..(Day - 1) : t \div Day = q /\ t = (q * Day) + e
  BY Division, PeriodsAre
<1>2. PICK w \in Nat, r \in 0..(Week - 1) : q = (w * Week) + r
  BY Division, PeriodsAre
<1>3. PICK j \in 0..(Week - 1), v \in Nat : q + j = (v * Week) + d
  <2>1. CASE d >= r
    <3>1. d - r \in 0..(Week - 1) /\ q + (d - r) = (w * Week) + d
      <4>1. PICK m \in Nat : m = w * Week
        BY PeriodsAre
      <4> QED BY <1>2, <2>1, <4>1, PeriodsAre
    <3> QED BY <3>1
  <2>2. CASE d < r
    <3>1. (d - r) + Week \in 0..(Week - 1) /\ q + ((d - r) + Week) = ((w + 1) * Week) + d
      <4>1. PICK m \in Nat : m = w * Week
        BY PeriodsAre
      <4>2. (w + 1) * Week = m + Week
        BY <4>1, PeriodsAre
      <4> QED BY <1>2, <2>2, <4>1, <4>2, PeriodsAre
    <3>2. w + 1 \in Nat
      OBVIOUS
    <3> QED BY <3>1, <3>2
  <2> QED BY <2>1, <2>2, PeriodsAre
<1>4. t + (j * Day) = ((q + j) * Day) + e /\ q + j \in Nat
  BY <1>1, PeriodsAre
<1>5. (t + (j * Day)) \div Day = q + j
  BY <1>4, Divided, PeriodsAre
<1>6. (q + j) % Week = d
  <2>1. ((v * Week) + d) % Week = d
    BY Divided, PeriodsAre
  <2> QED BY <1>3, <2>1
<1> QED BY <1>5, <1>6 DEF Weekday

(* A closing time that is none fails the wait if there is any business day. *)
LEMMA BadClosing ==
    ASSUME NEW b \in Windows, b.start # Day, b.end = Day, NEW wakeAt \in Nat,
           NEW d \in 0..(Week - 1), d \in OpenDays(b)
    PROVE  ShiftToBusinessHours(wakeAt, b) = Raised
<1>1. PICK f : /\ ShiftToBusinessHours(wakeAt, b) = f[Week + 1]
               /\ \A k \in 0..(Week + 1) : f[k] = Round(wakeAt, b, k, f[k - 1])
  BY ShiftTakesRounds
<1>2. PICK j \in 0..(Week - 1) : Weekday(wakeAt + (j * Day)) = d
  BY DayComes
<1>3. PICK k \in 1..(Week + 1) : k = Week + 1 - j
  BY PeriodsAre
<1>4. IsOpen(wakeAt, b, k)
  <2>1. CASE j = 0
    <3>1. wakeAt + (j * Day) = wakeAt /\ k = Week + 1
      BY <1>3, <2>1, PeriodsAre
    <3> QED BY <1>2, <3>1 DEF IsOpen, LookedAt
  <2>2. CASE j # 0
    <3>1. k \in 0..Week /\ Week + 1 - k = j
      BY <1>3, <2>2, PeriodsAre
    <3>2. Weekday(LookedAt(wakeAt, b, k)) = Weekday(wakeAt + (j * Day))
      BY <3>1, DayLookedAt
    <3> QED BY <1>2, <3>2 DEF IsOpen
  <2> QED BY <2>1, <2>2
<1> DEFINE last == Week + 1 - k
           S == {i \in 0..last : f[k + i] = Raised}
<1>5. last \in Nat /\ k \in Nat /\ k # 0 /\ k + last = Week + 1 /\ k \in 0..(Week + 1)
  BY PeriodsAre
<1>6. 0 \in S
  <2>1. f[k] = Round(wakeAt, b, k, f[k - 1])
    BY <1>1, <1>5
  <2>2. f[k] = Raised /\ k + 0 = k
    BY <1>4, <1>5, <2>1 DEF Round
  <2> QED BY <1>5, <2>2
<1>7. ASSUME NEW i \in 0..(last - 1), i \in S PROVE i + 1 \in S
  <2>1. /\ i + 1 \in 0..last /\ k + (i + 1) \in 0..(Week + 1) /\ k + (i + 1) # 0
        /\ (k + (i + 1)) - 1 = k + i
    BY <1>5, PeriodsAre
  <2>2. PICK m \in 0..(Week + 1) : m = k + (i + 1)
    BY <2>1
  <2>3. f[m] = Round(wakeAt, b, m, Raised) /\ m # 0
    <3>1. f[k + i] = Raised /\ m - 1 = k + i
      BY <1>7, <2>1, <2>2
    <3> QED BY <1>1, <2>1, <2>2, <3>1
  <2>4. Round(wakeAt, b, m, Raised) = Raised
    <3>1. CASE IsOpen(wakeAt, b, m)
      BY <2>3, <3>1 DEF Round
    <3>2. CASE ~IsOpen(wakeAt, b, m)
      BY <2>3, <3>2 DEF Round, IsOpen, InWindow
    <3> QED BY <3>1, <3>2
  <2> QED BY <2>1, <2>2, <2>3, <2>4
<1> HIDE DEF S
<1>8. \A i \in 0..last : i \in S
  BY <1>5, <1>6, <1>7, UpTo
<1>9. last \in S
  <2>1. last \in 0..last
    BY <1>5
  <2> QED BY <1>8, <2>1
<1>10. f[k + last] = Raised
  BY <1>9 DEF S
<1> QED BY <1>1, <1>5, <1>10

(* Where no day fails the wait, the later days leave it. *)
LEMMA LaterDaysLeave ==
    ASSUME NEW b \in Windows, b.start # Day, NEW wakeAt \in Nat,
           b.end # Day \/ OpenDays(b) \cap 0..(Week - 1) = {},
           NEW f, \A k \in 0..(Week + 1) : f[k] = Round(wakeAt, b, k, f[k - 1])
    PROVE  f[Week] = wakeAt
<1> DEFINE S == {k \in 0..Week : f[k] = wakeAt}
<1>1. 0 \in S
  <2>1. 0 \in 0..Week /\ 0 \in 0..(Week + 1)
    BY PeriodsAre
  <2> QED BY <2>1 DEF Round
<1>2. ASSUME NEW k \in 0..(Week - 1), k \in S PROVE k + 1 \in S
  <2>1. PICK m \in 0..Week : m = k + 1 /\ m # 0 /\ m \in 0..(Week + 1) /\ m - 1 = k
    BY PeriodsAre
  <2>2. f[m] = Round(wakeAt, b, m, wakeAt)
    BY <1>2, <2>1
  <2>3. ~(IsOpen(wakeAt, b, m) /\ b.end = Day)
    <3>1. PICK t \in Nat : Weekday(LookedAt(wakeAt, b, m)) = Weekday(t)
      BY DayLookedAt
    <3>2. Weekday(t) \in 0..(Week - 1)
      BY OnADay
    <3> QED BY <3>1, <3>2 DEF IsOpen
  <2>4. Round(wakeAt, b, m, wakeAt) \in {wakeAt, wakeAt}
    BY <2>1, <2>3, LaterDays
  <2> QED BY <2>1, <2>2, <2>4
<1>3. Week \in Nat /\ Week \in 0..Week
  BY PeriodsAre
<1> HIDE DEF S
<1>4. \A k \in 0..Week : k \in S
  BY <1>1, <1>2, <1>3, UpTo
<1>5. Week \in S
  BY <1>3, <1>4
<1> QED BY <1>5 DEF S

(* A wait is never shortened, and put off only to the opening of its own day. *)
LEMMA WakesLater ==
    ASSUME NEW b \in Windows, NEW wakeAt \in Nat
    PROVE  LET at == ShiftToBusinessHours(wakeAt, b)
               opening == Midnight(wakeAt) + b.start
           IN  IF b.start = Day \/ (b.end = Day /\ OpenDays(b) \cap 0..(Week - 1) # {})
               THEN at = Raised
               ELSE IF Weekday(wakeAt) \in OpenDays(b) /\ wakeAt < opening
               THEN at = opening /\ (b.start <= b.end => InWindow(b, at))
               ELSE at = wakeAt
<1>1. PICK f : /\ ShiftToBusinessHours(wakeAt, b) = f[Week + 1]
               /\ \A k \in 0..(Week + 1) : f[k] = Round(wakeAt, b, k, f[k - 1])
  BY ShiftTakesRounds
<1>2. /\ Week + 1 # 0 /\ Week + 1 \in 0..(Week + 1) /\ (Week + 1) - 1 = Week
      /\ LookedAt(wakeAt, b, Week + 1) = wakeAt
  BY PeriodsAre DEF LookedAt
<1>3. f[Week + 1] = Round(wakeAt, b, Week + 1, f[Week])
  BY <1>1, <1>2
<1>4. CASE b.start = Day
  BY <1>1, <1>2, <1>3, <1>4 DEF Round
<1>5. CASE b.start # Day /\ b.end = Day /\ OpenDays(b) \cap 0..(Week - 1) # {}
  BY <1>5, BadClosing
<1>6. CASE b.start # Day /\ ~(b.end = Day /\ OpenDays(b) \cap 0..(Week - 1) # {})
  <2>1. f[Week] = wakeAt
    BY <1>1, <1>6, LaterDaysLeave
  <2>2. Weekday(wakeAt) \in 0..(Week - 1)
    BY OnADay
  <2>3. ~(Weekday(wakeAt) \in OpenDays(b) /\ b.end = Day)
    BY <1>6, <2>2
  <2>4. PICK o \in Nat : /\ o = Midnight(wakeAt) + b.start
                         /\ InWindow(b, o) <=> Weekday(wakeAt) \in OpenDays(b) /\ b.start <= b.end
    BY <1>6, OpeningIs
  <2>5. f[Week + 1] = IF InWindow(b, wakeAt) THEN wakeAt
                      ELSE IF Weekday(wakeAt) \in OpenDays(b) /\ wakeAt < o THEN o ELSE wakeAt
    BY <1>2, <1>3, <1>6, <2>1, <2>3, <2>4 DEF Round, IsOpen
  <2>6. InWindow(b, wakeAt) => ~(wakeAt < o)
    BY <2>4 DEF InWindow
  <2> QED BY <1>1, <1>6, <2>4, <2>5, <2>6
<1> QED BY <1>4, <1>5, <1>6

----------------------------------------------------------------------------
(* Workflow rules: graphs. *)

Sound(g) == \A n \in DOMAIN g : Outgoing(g, n) \subseteq DOMAIN g

(* One step along every edge. *)
Step(g, s) == UNION {Outgoing(g, m) : m \in s}

LEMMA StepInside ==
    ASSUME NEW g, Sound(g), NEW s \in SUBSET (DOMAIN g)
    PROVE  Step(g, s) \in SUBSET (DOMAIN g)
BY DEF Sound, Step

(* What is taken again and again. *)
Iterates(F, a, n, f) ==
    /\ f[0] = a
    /\ \A k \in 0..(n - 1) : f[k + 1] = F[f[k]]

LEMMA IteratesExist ==
    ASSUME NEW A, NEW F \in [A -> A], NEW a \in A, NEW n \in Nat
    PROVE  \E f \in [0..n -> A] : Iterates(F, a, n, f)
<1> DEFINE S == {k \in 0..n : \E f \in [0..k -> A] : Iterates(F, a, k, f)}
<1>1. 0 \in S
  <2> DEFINE f == [k \in 0..0 |-> a]
  <2>1. f \in [0..0 -> A] /\ f[0] = a /\ 0..(0 - 1) = {}
    OBVIOUS
  <2> HIDE DEF f
  <2> QED BY <2>1 DEF Iterates
<1>2. ASSUME NEW k \in 0..(n - 1), k \in S PROVE k + 1 \in S
  <2>1. k \in Nat /\ k + 1 \in 0..n /\ 0..k \subseteq 0..(k + 1) /\ k + 1 \notin 0..k /\ k \in 0..k
        /\ k + 1 \in 0..(k + 1) /\ 0 \in 0..k
    OBVIOUS
  <2>2. PICK f \in [0..k -> A] : Iterates(F, a, k, f)
    BY <1>2
  <2> DEFINE h == [j \in 0..(k + 1) |-> IF j = k + 1 THEN F[f[k]] ELSE f[j]]
  <2>3. h \in [0..(k + 1) -> A]
    <3>1. F[f[k]] \in A
      BY <2>1
    <3>2. \A j \in 0..(k + 1) : j # k + 1 => j \in 0..k
      BY <2>1
    <3> QED BY <3>1, <3>2
  <2>4. h[0] = a
    BY <2>1, <2>2 DEF Iterates
  <2>5. ASSUME NEW j \in 0..k PROVE h[j + 1] = F[h[j]]
    <3>1. CASE j = k
      BY <2>1, <3>1
    <3>2. CASE j # k
      <4>1. j \in 0..(k - 1) /\ j + 1 \in 0..k /\ j + 1 # k + 1 /\ j # k + 1 /\ j \in 0..(k + 1)
            /\ j + 1 \in 0..(k + 1)
        BY <2>1, <3>2
      <4>2. h[j + 1] = f[j + 1] /\ h[j] = f[j]
        BY <4>1
      <4> QED BY <2>2, <4>1, <4>2 DEF Iterates
    <3> QED BY <3>1, <3>2
  <2>6. (k + 1) - 1 = k
    BY <2>1
  <2> HIDE DEF h
  <2>7. Iterates(F, a, k + 1, h)
    BY <2>4, <2>5, <2>6 DEF Iterates
  <2> QED BY <2>1, <2>3, <2>7
<1>3. n \in 0..n
  OBVIOUS
<1> HIDE DEF S
<1>4. \A k \in 0..n : k \in S
  BY <1>1, <1>2, UpTo
<1>5. n \in S
  BY <1>3, <1>4
<1> QED BY <1>5 DEF S

Triggers(g) == {n \in DOMAIN g : g[n].type = "TRIGGER"}

IsReach(g, k, f) == f = [j \in 0..k |-> IF j = 0 THEN Triggers(g) ELSE Step(g, f[j - 1])]

(* Reach takes the steps one by one. *)
LEMMA ReachIs ==
    ASSUME NEW g, Sound(g), NEW size \in Nat
    PROVE  \E h \in [0..size -> SUBSET (DOMAIN g)] :
               /\ h[0] = Triggers(g)
               /\ \A j \in 0..(size - 1) : h[j + 1] = Step(g, h[j])
               /\ \A k \in 0..size : Reach(g, k) = h[k]
<1> DEFINE A == SUBSET (DOMAIN g)
           F == [s \in A |-> Step(g, s)]
<1>1. F \in [A -> A] /\ Triggers(g) \in A
  BY StepInside DEF Triggers
<1> HIDE DEF A
<1>2. PICK h \in [0..size -> A] : Iterates(F, Triggers(g), size, h)
  BY <1>1, IteratesExist
<1>3. \A j \in 0..(size - 1) : j \in 0..size /\ h[j] \in A /\ h[j + 1] = F[h[j]]
  BY <1>2 DEF Iterates
<1>4. h[0] = Triggers(g) /\ \A j \in 0..(size - 1) : h[j + 1] = Step(g, h[j])
  BY <1>2, <1>3 DEF Iterates
<1>5. ASSUME NEW k \in 0..size PROVE Reach(g, k) = h[k]
  <2> DEFINE R == CHOOSE f : IsReach(g, k, f)
             f0 == [j \in 0..k |-> h[j]]
             S == {j \in 0..k : R[j] = h[j]}
  <2>1. k \in Nat /\ 0 \in 0..k /\ k \in 0..k
    OBVIOUS
  <2>2. IsReach(g, k, f0)
    <3>1. ASSUME NEW j \in 0..k
          PROVE  h[j] = IF j = 0 THEN Triggers(g) ELSE Step(g, f0[j - 1])
      <4>1. CASE j = 0
        BY <1>4, <4>1
      <4>2. CASE j # 0
        <5>1. j - 1 \in 0..(size - 1) /\ j - 1 \in 0..k /\ (j - 1) + 1 = j
          BY <4>2
        <5> QED BY <1>4, <4>2, <5>1
      <4> QED BY <4>1, <4>2
    <3> QED BY <3>1 DEF IsReach
  <2>3. IsReach(g, k, R)
    BY <2>2
  <2>4. Reach(g, k) = R[k]
    BY DEF Reach, IsReach, Triggers, Step
  <2> HIDE DEF R
  <2>5. 0 \in S
    BY <1>4, <2>1, <2>3 DEF IsReach
  <2>6. ASSUME NEW j \in 0..(k - 1), j \in S PROVE j + 1 \in S
    <3>1. j + 1 \in 0..k /\ j + 1 # 0 /\ (j + 1) - 1 = j /\ j \in 0..(size - 1)
      BY <2>1
    <3>2. R[j + 1] = Step(g, R[j])
      BY <2>3, <3>1 DEF IsReach
    <3> QED BY <1>4, <2>6, <3>1, <3>2
  <2> HIDE DEF S
  <2>7. \A j \in 0..k : j \in S
    BY <2>1, <2>5, <2>6, UpTo
  <2>8. k \in S
    BY <2>1, <2>7
  <2> QED BY <2>4, <2>8 DEF S
<1> QED BY <1>2, <1>4, <1>5 DEF A

IsVisited(g, n, size, f) == f = [k \in 0..size |-> IF k = 0 THEN {n} ELSE f[k - 1] \cup Step(g, f[k - 1])]

(* What the walk has visited is what some number of steps reaches. *)
LEMMA VisitedIs ==
    ASSUME NEW g, Sound(g), NEW size \in Nat, size = Cardinality(DOMAIN g),
           NEW n \in DOMAIN g, NEW h \in [0..size -> SUBSET (DOMAIN g)],
           h[0] = {n}, \A j \in 0..(size - 1) : h[j + 1] = Step(g, h[j])
    PROVE  Visited(g, n) = UNION {h[k] : k \in 0..size}
<1> DEFINE v == [k \in 0..size |-> UNION {h[j] : j \in 0..k}]
           V == CHOOSE f : IsVisited(g, n, size, f)
           S == {k \in 0..size : V[k] = v[k]}
<1>1. \A k \in 0..(size - 1) : v[k + 1] = v[k] \cup Step(g, v[k])
  <2> SUFFICES ASSUME NEW k \in 0..(size - 1) PROVE v[k + 1] = v[k] \cup Step(g, v[k])
    OBVIOUS
  <2>1. k \in Nat /\ k \in 0..size /\ k + 1 \in 0..size /\ 0..(k + 1) = (0..k) \cup {k + 1}
    OBVIOUS
  <2>2. v[k + 1] = v[k] \cup h[k + 1]
    BY <2>1
  <2>3. h[k + 1] \subseteq Step(g, v[k])
    <3>1. h[k + 1] = Step(g, h[k]) /\ h[k] \subseteq v[k]
      BY <2>1
    <3> QED BY <3>1 DEF Step
  <2>4. Step(g, v[k]) \subseteq v[k + 1]
    <3> SUFFICES ASSUME NEW y \in Step(g, v[k]) PROVE y \in v[k + 1]
      OBVIOUS
    <3>1. PICK m \in v[k] : y \in Outgoing(g, m)
      BY DEF Step
    <3>2. PICK j \in 0..k : m \in h[j]
      BY <2>1, <3>1
    <3>3. j \in 0..(size - 1) /\ j + 1 \in 0..(k + 1)
      BY <2>1
    <3>4. y \in h[j + 1]
      BY <3>1, <3>2, <3>3 DEF Step
    <3> QED BY <2>1, <3>3, <3>4
  <2> QED BY <2>2, <2>3, <2>4
<1>2. v[0] = {n}
  <2>1. 0..0 = {0} /\ 0 \in 0..size
    OBVIOUS
  <2> QED BY <2>1
<1>3. v = [k \in 0..size |-> v[k]] /\ v[size] = UNION {h[k] : k \in 0..size}
  OBVIOUS
<1> HIDE DEF v
<1>4. IsVisited(g, n, size, v)
  <2>1. ASSUME NEW k \in 0..size
        PROVE  v[k] = IF k = 0 THEN {n} ELSE v[k - 1] \cup Step(g, v[k - 1])
    <3>1. CASE k = 0
      BY <1>2, <3>1
    <3>2. CASE k # 0
      <4>1. k - 1 \in 0..(size - 1) /\ (k - 1) + 1 = k
        BY <3>2
      <4> QED BY <1>1, <3>2, <4>1
    <3> QED BY <3>1, <3>2
  <2> QED BY <1>3, <2>1 DEF IsVisited
<1>5. IsVisited(g, n, size, V)
  BY <1>4
<1>6. Visited(g, n) = V[size]
  BY DEF Visited, IsVisited, Step
<1> HIDE DEF V
<1>7. 0 \in S
  BY <1>2, <1>5 DEF IsVisited
<1>8. ASSUME NEW k \in 0..(size - 1), k \in S PROVE k + 1 \in S
  <2>1. k + 1 \in 0..size /\ k + 1 # 0 /\ (k + 1) - 1 = k
    OBVIOUS
  <2>2. V[k + 1] = V[k] \cup Step(g, V[k])
    BY <1>5, <2>1 DEF IsVisited
  <2> QED BY <1>1, <1>8, <2>1, <2>2
<1> HIDE DEF S
<1>9. \A k \in 0..size : k \in S
  BY <1>7, <1>8, UpTo
<1>10. size \in S
  <2>1. size \in 0..size
    OBVIOUS
  <2> QED BY <1>9, <2>1
<1> QED BY <1>3, <1>6, <1>10 DEF S

Walks(g) == (DOMAIN g) \X SUBSET (DOMAIN g)

IsWalk(g, f) ==
    f = [p \in Walks(g) |-> /\ p[1] \notin p[2]
                            /\ \A m \in Outgoing(g, p[1]) : f[<<m, p[2] \cup {p[1]}>>]]

(* The walk is a function: it is true of the largest set of pairs that are left only to   *)
(* pairs of the set.                                                          *)
LEMMA WalkExists ==
    ASSUME NEW g, Sound(g)
    PROVE  \E f : IsWalk(g, f)
<1> DEFINE Next1(p) == {<<m, p[2] \cup {p[1]}>> : m \in Outgoing(g, p[1])}
           Good(T) == \A p \in T : p[1] \notin p[2] /\ Next1(p) \subseteq T
           S == UNION {T \in SUBSET Walks(g) : Good(T)}
           f == [p \in Walks(g) |-> p \in S]
<1>1. S \subseteq Walks(g) /\ Good(S)
  OBVIOUS
<1>2. \A p \in Walks(g) : Next1(p) \subseteq Walks(g)
  <2> SUFFICES ASSUME NEW p \in Walks(g), NEW m \in Outgoing(g, p[1])
               PROVE  <<m, p[2] \cup {p[1]}>> \in Walks(g)
    OBVIOUS
  <2>1. p[1] \in DOMAIN g /\ p[2] \in SUBSET (DOMAIN g)
    BY DEF Walks
  <2>2. m \in DOMAIN g
    BY <2>1 DEF Sound
  <2> QED BY <2>1, <2>2 DEF Walks
<1>3. ASSUME NEW p \in Walks(g), p[1] \notin p[2], Next1(p) \subseteq S
      PROVE  p \in S
  <2>1. Good(S \cup {p}) /\ S \cup {p} \in SUBSET Walks(g)
    BY <1>1, <1>3
  <2> QED BY <2>1
<1>4. ASSUME NEW p \in Walks(g)
      PROVE  p \in S <=> (p[1] \notin p[2] /\ \A m \in Outgoing(g, p[1]) : <<m, p[2] \cup {p[1]}>> \in S)
  <2>1. p \in S => p[1] \notin p[2] /\ Next1(p) \subseteq S
    BY <1>1
  <2> HIDE DEF S
  <2> QED BY <1>3, <2>1
<1> HIDE DEF S
<1>5. ASSUME NEW p \in Walks(g)
      PROVE  (p \in S) <=> (/\ p[1] \notin p[2]
                            /\ \A m \in Outgoing(g, p[1]) : f[<<m, p[2] \cup {p[1]}>>])
  <2>1. \A m \in Outgoing(g, p[1]) : f[<<m, p[2] \cup {p[1]}>>] = (<<m, p[2] \cup {p[1]}>> \in S)
    BY <1>2
  <2> HIDE DEF f
  <2>2. (\A m \in Outgoing(g, p[1]) : f[<<m, p[2] \cup {p[1]}>>])
          <=> (\A m \in Outgoing(g, p[1]) : <<m, p[2] \cup {p[1]}>> \in S)
    BY <2>1, Zenon
  <2> QED BY <1>4, <2>2
<1>6. IsWalk(g, f)
  <2> DEFINE X(p) == /\ p[1] \notin p[2]
                     /\ \A m \in Outgoing(g, p[1]) : f[<<m, p[2] \cup {p[1]}>>]
             h == [p \in Walks(g) |-> X(p)]
  <2>1. ASSUME NEW p \in Walks(g) PROVE f[p] = h[p]
    <3>1. f[p] \in BOOLEAN /\ h[p] \in BOOLEAN
      OBVIOUS
    <3>2. f[p] <=> h[p]
      BY <1>5
    <3> HIDE DEF f, h
    <3> QED BY <3>1, <3>2
  <2>2. f = [p \in Walks(g) |-> f[p]] /\ h = [p \in Walks(g) |-> h[p]]
    OBVIOUS
  <2>3. f = h
    <3> HIDE DEF f, h
    <3> QED BY <2>1, <2>2
  <2> HIDE DEF f
  <2> QED BY <2>3 DEF IsWalk
<1> QED BY <1>6

LEMMA WalkIs ==
    ASSUME NEW g, Sound(g)
    PROVE  \E f : IsWalk(g, f) /\ Walk(g) = [n \in DOMAIN g |-> f[<<n, {}>>]]
<1> DEFINE W == CHOOSE f : IsWalk(g, f)
<1>1. IsWalk(g, W)
  BY WalkExists
<1>2. Walk(g) = [n \in DOMAIN g |-> W[<<n, {}>>]]
  BY DEF Walk, IsWalk, Walks
<1> HIDE DEF W
<1> QED BY <1>1, <1>2

(* A walk that succeeds meets after k steps only nodes that are not among k nodes met     *)
(* before: after as many steps as there are nodes, none.                      *)
LEMMA WalkEnds ==
    ASSUME NEW g, Sound(g), IsFiniteSet(DOMAIN g), NEW size \in Nat, size = Cardinality(DOMAIN g),
           NEW n \in DOMAIN g, Walk(g)[n], NEW h \in [0..size -> SUBSET (DOMAIN g)],
           h[0] = {n}, \A j \in 0..(size - 1) : h[j + 1] = Step(g, h[j])
    PROVE  h[size] = {}
<1>1. PICK f : IsWalk(g, f) /\ Walk(g) = [m \in DOMAIN g |-> f[<<m, {}>>]]
  BY WalkIs
<1>2. ASSUME NEW m \in DOMAIN g, NEW p \in SUBSET (DOMAIN g), f[<<m, p>>]
      PROVE  m \notin p /\ \A x \in Outgoing(g, m) : f[<<x, p \cup {m}>>]
  <2>1. <<m, p>> \in Walks(g)
    BY DEF Walks
  <2>2. f[<<m, p>>] = (m \notin p /\ \A x \in Outgoing(g, m) : f[<<x, p \cup {m}>>])
    BY <1>1, <2>1 DEF IsWalk
  <2> QED BY <1>2, <2>2
<1> DEFINE S == {k \in 0..size : \A m \in h[k] : \E p \in SUBSET (DOMAIN g) : Cardinality(p) = k /\ f[<<m, p>>]}
<1>3. 0 \in S
  <2>1. {} \in SUBSET (DOMAIN g) /\ Cardinality({}) = 0
    BY FS_EmptySet
  <2>2. f[<<n, {}>>]
    BY <1>1
  <2>3. \A m \in h[0] : f[<<m, {}>>]
    BY <2>2
  <2>4. \A m \in h[0] : \E p \in SUBSET (DOMAIN g) : Cardinality(p) = 0 /\ f[<<m, p>>]
    BY <2>1, <2>3
  <2> QED BY <2>4
<1>4. ASSUME NEW k \in 0..(size - 1), k \in S PROVE k + 1 \in S
  <2>1. k + 1 \in 0..size /\ k \in 0..size
    OBVIOUS
  <2>2. ASSUME NEW x \in h[k + 1]
        PROVE  \E p \in SUBSET (DOMAIN g) : Cardinality(p) = k + 1 /\ f[<<x, p>>]
    <3>1. PICK m \in h[k] : x \in Outgoing(g, m)
      <4>1. x \in Step(g, h[k])
        OBVIOUS
      <4> QED BY <4>1 DEF Step
    <3>2. PICK p \in SUBSET (DOMAIN g) : Cardinality(p) = k /\ f[<<m, p>>]
      BY <1>4
    <3>3. m \in DOMAIN g
      BY <2>1
    <3>4. m \notin p /\ f[<<x, p \cup {m}>>]
      BY <1>2, <3>1, <3>2, <3>3
    <3>5. IsFiniteSet(p)
      BY FS_Subset
    <3>6. Cardinality(p \cup {m}) = k + 1
      BY <3>2, <3>4, <3>5, FS_AddElement
    <3>7. p \cup {m} \in SUBSET (DOMAIN g)
      BY <3>3
    <3> QED BY <3>4, <3>6, <3>7
  <2> QED BY <2>1, <2>2
<1> HIDE DEF S
<1>5. \A k \in 0..size : k \in S
  BY <1>3, <1>4, UpTo
<1>6. size \in 0..size
  OBVIOUS
<1>7. size \in S
  BY <1>5, <1>6
<1> SUFFICES ASSUME NEW m \in h[size] PROVE FALSE
  OBVIOUS
<1>8. PICK p \in SUBSET (DOMAIN g) : Cardinality(p) = size /\ f[<<m, p>>]
  BY <1>7 DEF S
<1>9. p = DOMAIN g
  BY <1>8, FS_Subset
<1>10. m \in DOMAIN g
  BY <1>6
<1> QED BY <1>2, <1>8, <1>9, <1>10

(* As many ids as nodes: no two nodes with one id. *)
LEMMA IdsAreDistinct ==
    ASSUME NEW nodes, IsFiniteSet(nodes), NEW length \in Nat, Cardinality(nodes) <= length,
           Cardinality({n.id : n \in nodes}) = length
    PROVE  Cardinality(nodes) = length /\ \A m, n \in nodes : m.id = n.id => m = n
<1> DEFINE ids == {n.id : n \in nodes}
           f == [n \in nodes |-> n.id]
<1>1. f \in Surjection(nodes, ids)
  BY DEF Surjection
<1>2. Cardinality(ids) <= Cardinality(nodes) /\ (Cardinality(ids) = Cardinality(nodes) <=> f \in Injection(nodes, ids))
  BY <1>1, FS_Surjection
<1>3. Cardinality(nodes) = length
  BY <1>2, FS_CardinalityType
<1>4. f \in Injection(nodes, ids)
  BY <1>2, <1>3
<1>5. \A m, n \in nodes : f[m] = f[n] => m = n
  BY <1>4 DEF Injection, IsInjective
<1> QED BY <1>3, <1>5

(* A definition that validate_graph accepts can be run. *)
LEMMA AcceptedRuns ==
    ASSUME NEW d, NEW nodes, nodes = d.nodes, nodes \subseteq NodeSpecs, IsFiniteSet(nodes),
           ValidateGraph(d)
    PROVE  LET g == GraphOf(nodes) size == Cardinality(DOMAIN g) IN
           /\ \A k \in 0..size : \A n \in Reach(g, k) :
                  n \in DOMAIN g /\ (g[n].type # "END" => Outgoing(g, n) # {})
           /\ Reach(g, size) = {}
           /\ UNION {Reach(g, k) : k \in 0..size} = DOMAIN g
<1> DEFINE g == GraphOf(nodes)
           ids == {n.id : n \in nodes}
<1>1. IsFiniteSet(ids) /\ DOMAIN g = ids /\ \A i \in ids : g[i] \in nodes /\ g[i].id = i
  <2>1. IsFiniteSet(ids)
    <3> DEFINE f == [n \in nodes |-> n.id]
    <3>1. f \in Surjection(nodes, ids)
      BY DEF Surjection
    <3> HIDE DEF f, ids
    <3> QED BY <3>1, FS_Surjection
  <2> QED BY <2>1 DEF GraphOf
<1>2. PICK size \in Nat : size = Cardinality(DOMAIN g)
  BY <1>1, FS_CardinalityType
<1>3. /\ Cardinality(Triggers(g)) = 1 /\ \A n \in DOMAIN g : NodeIsSound(g, n)
      /\ Walk(g)[Only(Triggers(g))] /\ Visited(g, Only(Triggers(g))) = DOMAIN g
  BY DEF ValidateGraph, Triggers
<1> HIDE DEF g
<1>4. ASSUME NEW n \in DOMAIN g
      PROVE  Outgoing(g, n) \subseteq DOMAIN g /\ (g[n].type # "END" => Outgoing(g, n) # {})
  <2>1. /\ g[n].type # "END" => g[n].next # NoTarget
        /\ g[n].next # NoTarget => g[n].next \in DOMAIN g
        /\ g[n].type = "CONDITION" => g[n].no \in DOMAIN g
        /\ g[n].type = "BRANCH" => g[n].branches \subseteq DOMAIN g
    BY <1>3 DEF NodeIsSound
  <2> QED BY <2>1 DEF Outgoing
<1>5. Sound(g)
  BY <1>4 DEF Sound
<1>6. PICK n \in DOMAIN g : Triggers(g) = {n} /\ Only(Triggers(g)) = n
  <2>1. Triggers(g) \subseteq DOMAIN g
    BY DEF Triggers
  <2>2. IsFiniteSet(Triggers(g))
    BY <1>1, <2>1, FS_Subset
  <2>3. PICK n : Triggers(g) = {n}
    BY <1>3, <2>2, FS_Singleton
  <2>4. Only({n}) = n
    BY DEF Only
  <2> QED BY <2>1, <2>3, <2>4
<1>7. Walk(g)[n] /\ Visited(g, n) = DOMAIN g
  BY <1>3, <1>6
<1>b. PICK h \in [0..size -> SUBSET (DOMAIN g)] :
           /\ h[0] = Triggers(g)
           /\ \A j \in 0..(size - 1) : h[j + 1] = Step(g, h[j])
           /\ \A k \in 0..size : Reach(g, k) = h[k]
  BY <1>5, ReachIs
<1>8. /\ h[0] = {n}
      /\ \A j \in 0..(size - 1) : h[j + 1] = Step(g, h[j])
      /\ \A k \in 0..size : Reach(g, k) = h[k]
  BY <1>6, <1>b
<1>9. h[size] = {}
  BY <1>1, <1>2, <1>5, <1>7, <1>8, WalkEnds
<1>10. Visited(g, n) = UNION {h[k] : k \in 0..size}
  BY <1>2, <1>5, <1>8, VisitedIs
<1>11. size \in 0..size
  OBVIOUS
<1>12. UNION {Reach(g, k) : k \in 0..size} = UNION {h[k] : k \in 0..size}
  BY <1>8
<1>13. \A k \in 0..size : Reach(g, k) \subseteq DOMAIN g
  BY <1>8
<1>14. /\ \A k \in 0..size : \A m \in Reach(g, k) :
              m \in DOMAIN g /\ (g[m].type # "END" => Outgoing(g, m) # {})
       /\ Reach(g, size) = {}
       /\ UNION {Reach(g, k) : k \in 0..size} = DOMAIN g
  BY <1>4, <1>7, <1>8, <1>9, <1>10, <1>11, <1>12, <1>13
<1> QED BY <1>2, <1>14 DEF g

----------------------------------------------------------------------------
(* An answer is what the rule says of the question. *)
GraphQuestions ==
    {[kind |-> "graph", nodes |-> d.nodes, length |-> d.length] : d \in WorkflowDefinitions}
Questions ==
    GraphQuestions
    \cup {[kind |-> "slot", schedule |-> c, now |-> t, published |-> p] : c \in Schedules, t \in Clock, p \in Clock}
    \cup {[kind |-> "wait", window |-> b, now |-> t, seconds |-> w] : b \in Windows, t \in Clock, w \in 0..Hour}

RulesIInv ==
    /\ answer = Unanswered
       \/ (question.kind = "graph" /\ answer = [kind |-> "graph", valid |-> ValidateGraph(question)])
       \/ (question.kind = "slot" /\ answer = [kind |-> "slot", slot |-> CurrentSlot(question.schedule, question.now),
                  fires |-> Fires(question.schedule, question.now, question.published)])
       \/ (question.kind = "wait" /\ answer = [kind |-> "wait", asked |-> WakeAt(question.now, question.seconds, Hour),
                  at |-> ShiftToBusinessHours(WakeAt(question.now, question.seconds, Hour), question.window)])
    /\ question \in Questions
    /\ question.kind = "graph" => Cardinality(question.nodes) <= question.length

LEMMA RulesInvariant == RulesSpec => []RulesIInv
<1>1. RulesInit => RulesIInv
  <2> SUFFICES ASSUME RulesInit PROVE RulesIInv
    OBVIOUS
  <2>1. \/ question = [kind |-> "graph", nodes |-> {}, length |-> 0]
        \/ \E c \in Schedules, t, p \in Clock :
               question = [kind |-> "slot", schedule |-> c, now |-> t, published |-> p]
        \/ \E b \in Windows, t \in Clock, w \in 0..Hour :
               question = [kind |-> "wait", window |-> b, now |-> t, seconds |-> w]
    BY DEF RulesInit
  <2>2. question \in Questions /\ (question.kind = "graph" => Cardinality(question.nodes) <= question.length)
    <3>1. CASE question = [kind |-> "graph", nodes |-> {}, length |-> 0]
      <4> DEFINE d == [nodes |-> {}, length |-> 0]
      <4>1. IsFiniteSet({}) /\ Cardinality({}) = 0
        BY FS_EmptySet
      <4>2. d \in WorkflowDefinitions
        BY <4>1 DEF WorkflowDefinitions
      <4>3. question = [kind |-> "graph", nodes |-> d.nodes, length |-> d.length]
        BY <3>1
      <4> HIDE DEF d
      <4>4. question \in Questions
        BY <4>2, <4>3 DEF Questions, GraphQuestions
      <4> QED BY <3>1, <4>1, <4>4
    <3>2. CASE \E c \in Schedules, t, p \in Clock :
                   question = [kind |-> "slot", schedule |-> c, now |-> t, published |-> p]
      BY <3>2 DEF Questions
    <3>3. CASE \E b \in Windows, t \in Clock, w \in 0..Hour :
                   question = [kind |-> "wait", window |-> b, now |-> t, seconds |-> w]
      BY <3>3 DEF Questions
    <3> QED BY <2>1, <3>1, <3>2, <3>3
  <2> QED BY <2>2 DEF RulesInit, RulesIInv
<1>2. RulesIInv /\ [RulesNext]_ruleVars => RulesIInv'
  <2> SUFFICES ASSUME RulesIInv, [RulesNext]_ruleVars PROVE RulesIInv'
    OBVIOUS
  <2>1. CASE UNCHANGED ruleVars
    BY <2>1 DEF ruleVars, RulesIInv
  <2>2. ASSUME UNCHANGED question, AnswerGraph PROVE RulesIInv'
    BY <2>2 DEF RulesIInv, AnswerGraph
  <2>3. ASSUME UNCHANGED question, AnswerSlot PROVE RulesIInv'
    BY <2>3 DEF RulesIInv, AnswerSlot
  <2>4. ASSUME UNCHANGED question, AnswerWait PROVE RulesIInv'
    BY <2>4 DEF RulesIInv, AnswerWait
  <2>5. ASSUME answer = Unanswered, NEW n \in NodeSpecs, AddNode(n) PROVE RulesIInv'
    <3>1. question \in GraphQuestions
      BY <2>5 DEF AddNode, RulesIInv, Questions
    <3>2. PICK d \in WorkflowDefinitions :
               question = [kind |-> "graph", nodes |-> d.nodes, length |-> d.length]
      BY <3>1 DEF GraphQuestions
    <3>3. d.nodes \subseteq NodeSpecs /\ IsFiniteSet(d.nodes) /\ d.length \in Nat
          /\ Cardinality(d.nodes) <= d.length
      BY <3>2 DEF WorkflowDefinitions, RulesIInv
    <3> DEFINE e == [nodes |-> d.nodes \cup {n}, length |-> d.length + 1]
    <3>4. IsFiniteSet(d.nodes \cup {n}) /\ Cardinality(d.nodes \cup {n}) <= d.length + 1
      <4>1. Cardinality(d.nodes) \in Nat
        BY <3>3, FS_CardinalityType
      <4>2. CASE n \in d.nodes
        <5>1. d.nodes \cup {n} = d.nodes
          BY <4>2
        <5> QED BY <3>3, <4>1, <5>1
      <4>3. CASE n \notin d.nodes
        <5>1. IsFiniteSet(d.nodes \cup {n}) /\ Cardinality(d.nodes \cup {n}) = Cardinality(d.nodes) + 1
          BY <3>3, <4>3, FS_AddElement
        <5> QED BY <3>3, <4>1, <5>1
      <4> QED BY <4>2, <4>3
    <3>5. e \in WorkflowDefinitions
      BY <3>3, <3>4 DEF WorkflowDefinitions
    <3>6. question' = [kind |-> "graph", nodes |-> e.nodes, length |-> e.length] /\ answer' = Unanswered
      BY <2>5, <3>2 DEF AddNode
    <3>7. Cardinality(question'.nodes) <= question'.length
      BY <3>4, <3>6
    <3> HIDE DEF e
    <3>8. question' \in Questions
      BY <3>5, <3>6 DEF Questions, GraphQuestions
    <3> QED BY <3>6, <3>7, <3>8 DEF RulesIInv
  <2> QED BY <2>1, <2>2, <2>3, <2>4, <2>5 DEF RulesNext
<1> QED BY <1>1, <1>2, PTL DEF RulesSpec

(* Whatever the graph, the schedule or the window, however long the day and large the      *)
(* graph: a definition that validate_graph lets through can be run and ends, current_slot *)
(* is the latest slot that has come, and a wait is never shortened.            *)
THEOREM RulesInvHolds == RulesSpec => []RulesInv
<1>1. RulesIInv => RulesInv
  <2> SUFFICES ASSUME RulesIInv PROVE RulesInv
    OBVIOUS
  <2>1. AcceptedGraphRuns
    <3> SUFFICES ASSUME answer.kind = "graph", answer.valid PROVE AcceptedGraphRuns
      BY DEF AcceptedGraphRuns
    <3>1. question.kind = "graph" /\ ValidateGraph(question) /\ Cardinality(question.nodes) <= question.length
      BY DEF RulesIInv, Unanswered
    <3>2. question.nodes \subseteq NodeSpecs /\ IsFiniteSet(question.nodes) /\ question.length \in Nat
      BY <3>1 DEF RulesIInv, Questions, GraphQuestions, WorkflowDefinitions
    <3>3. Cardinality({n.id : n \in question.nodes}) = question.length
      <4>1. DOMAIN GraphOf(question.nodes) = {n.id : n \in question.nodes}
        BY DEF GraphOf
      <4> QED BY <3>1, <4>1 DEF ValidateGraph
    <3>4. question.length = Cardinality(question.nodes) /\ \A m, n \in question.nodes : m.id = n.id => m = n
      BY <3>1, <3>2, <3>3, IdsAreDistinct
    <3> QED BY <3>1, <3>2, <3>4, AcceptedRuns DEF AcceptedGraphRuns
  <2>2. SlotIsLatest
    <3> SUFFICES ASSUME answer.kind = "slot" PROVE SlotIsLatest
      BY DEF SlotIsLatest
    <3>1. /\ question.kind = "slot" /\ answer.slot = CurrentSlot(question.schedule, question.now)
          /\ answer.fires = Fires(question.schedule, question.now, question.published)
      BY DEF RulesIInv, Unanswered
    <3>2. question.schedule \in Schedules /\ question.now \in Clock /\ question.published \in Clock
      BY <3>1 DEF RulesIInv, Questions, GraphQuestions
    <3> QED BY <3>1, <3>2, CurrentIsLatest, SlotHasCome DEF SlotIsLatest
  <2>3. WaitIsNotShortened
    <3> SUFFICES ASSUME answer.kind = "wait" PROVE WaitIsNotShortened
      BY DEF WaitIsNotShortened
    <3>1. /\ question.kind = "wait" /\ answer.asked = WakeAt(question.now, question.seconds, Hour)
          /\ answer.at = ShiftToBusinessHours(answer.asked, question.window)
      BY DEF RulesIInv, Unanswered
    <3>2. question.window \in Windows /\ question.now \in Nat /\ question.seconds \in 0..Hour
      BY <3>1, PeriodsAre DEF RulesIInv, Questions, GraphQuestions, Clock
    <3>3. answer.asked \in Nat
      <4>1. PICK m \in Nat : m = Min({question.seconds, Hour})
        <5>1. \E x \in {question.seconds, Hour} : \A y \in {question.seconds, Hour} : x <= y
          BY <3>2, PeriodsAre
        <5>2. Min({question.seconds, Hour}) \in {question.seconds, Hour}
          BY <5>1 DEF Min
        <5> QED BY <3>2, <5>2, PeriodsAre
      <4> QED BY <3>1, <3>2, <4>1 DEF WakeAt
    <3> QED BY <3>1, <3>2, <3>3, WakesLater DEF WaitIsNotShortened
  <2> QED BY <2>1, <2>2, <2>3 DEF RulesInv
<1> QED BY <1>1, RulesInvariant, PTL
================================================================================
