---------------------------- MODULE MCWorkspace -----------------------------
(***************************************************************************)
(* What a workspace keeps: leads (Leads), the imports and exports that     *)
(* move them (DataJobs), workflows and their versions (WorkflowVersions)   *)
(* and the rules those are checked against (WorkflowRules).  A behaviour   *)
(* is one of a single part.                                                *)
(***************************************************************************)
EXTENDS WorkflowVersions, WorkflowRules, Leads, DataJobs, TLC

CONSTANT MaxBook   \* bound

VARIABLE part

workspaceVars == <<part, flowVars, ruleVars, leadVars, jobVars>>

(* Leads and graph nodes share their values: they occur in different parts. *)
WorkspaceSymmetry == Permutations(LeadIds) \cup Permutations(Clerks)

(* The leads, addresses, tags and operations of a behaviour, together, are at most MaxBook:   *)
(* with three operations three leads, two leads and a tag, a lead and two addresses, ...  *)
AddressesInUse ==
    Emails \cap (UNION {{lead[l].email, lead[l].key} : l \in LeadIds}
                  \cup {clerk[c].email : c \in Clerks})
TagsInUse == {t \in TagIds : tag[t] # NoName \/ \E c \in Clerks : t \in clerk[c].made}
NamesInUse ==
    TagNames \cap (Shown(tag, TagIds) \cup UNION {lead[l].mirror : l \in LeadIds}
                    \cup UNION {Shown(clerk[c].names, TagIds) : c \in Clerks})
BookSize ==
    Cardinality({l \in LeadIds : lead[l].status # "NONE"})
      + Cardinality(AddressesInUse) + Cardinality(TagsInUse)

(* What nothing mentions yet is interchangeable: the lowest of it is taken first.        *)
InOrder(ids, used, then) == \A x \in then \ used, y \in ids : y < x => y \in then
BookBound ==
    /\ BookSize' + leadOps' <= MaxBook
    /\ InOrder(Emails, AddressesInUse, AddressesInUse')
    /\ InOrder(TagIds, TagsInUse, TagsInUse')
    /\ InOrder(TagNames, NamesInUse, NamesInUse')

WorkspaceInit ==
    /\ part \in {"flows", "rules", "leads", "jobs"}
    /\ FlowsInit
    /\ IF part = "rules" THEN RulesInit ELSE question = Unanswered /\ answer = Unanswered
    /\ LeadsInit
    /\ JobsInit

WorkspaceNext ==
    /\ UNCHANGED part
    /\ \/ part = "flows" /\ FlowsNext /\ UNCHANGED <<ruleVars, leadVars, jobVars>>
       \/ part = "rules" /\ RulesNext /\ UNCHANGED <<flowVars, leadVars, jobVars>>
       \/ part = "leads" /\ LeadsNext /\ BookBound /\ UNCHANGED <<flowVars, ruleVars, jobVars>>
       \/ part = "jobs" /\ JobsNext /\ UNCHANGED <<flowVars, ruleVars, leadVars>>

WorkspaceSpec == WorkspaceInit /\ [][WorkspaceNext]_workspaceVars
=============================================================================
