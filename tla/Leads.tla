--------------------------------- MODULE Leads ---------------------------------
(***************************************************************************)
(* The lead workspace: create, import, edit, status, bulk actions, tags,        *)
(* duplicate candidates and MergeService.  Requests overlap: each loads rows,   *)
(* then its commit writes the columns it changed.  No row is locked between     *)
(* the two.                                                                  *)
(***************************************************************************)
EXTENDS Naturals, FiniteSets

CONSTANTS
    LeadIds, TagIds, TagNames,
    Clerks,       \* requests in progress at once
    Emails,       \* normalised email addresses
    NoEmail, NoLead,
    NoName, GoneName,   \* of a tag not created yet, of a deleted one
    MaxLeadOps    \* bound

ASSUME LeadsAssumption ==
    /\ NoEmail \notin Emails /\ NoLead \notin LeadIds /\ MaxLeadOps \in Nat
    /\ NoName \notin TagNames /\ GoneName \notin TagNames /\ NoName # GoneName

VARIABLES
    lead,        \* [LeadIds -> LeadRows]
    assigned,    \* [LeadIds -> SUBSET TagIds]: lead_tag_assignments
    tag,         \* TagTables: lead_tags, the name of each tag
    candidate,   \* [Pairs -> CandidateStatus]
    clerk,       \* [Clerks -> ClerkStates]
    leadOps,
    lateMerges,  \* history: leads of a merge whose rows changed between load and commit
    foreignKeys, \* history: leads that kept an address beside the key of another one, or
                 \* whose address was written from an out-of-date copy
    lateMirrors  \* history: leads whose tags or tag names changed behind the last refresh

leadVars == <<lead, assigned, tag, candidate, clerk, leadOps, lateMerges, foreignKeys, lateMirrors>>

----------------------------------------------------------------------------
(* status: "NONE" before creation, "GONE" after a hard delete, "NEW" for every other     *)
(* status but ARCHIVED; email and key: the display address and email_norm; mirror: the  *)
(* denormalised tags column.                                                           *)
LeadRows == [status : {"NONE", "NEW", "ARCHIVED", "GONE"}, archived : BOOLEAN,
             into : LeadIds \cup {NoLead}, email : Emails \cup {NoEmail},
             key : Emails \cup {NoEmail}, mirror : SUBSET TagNames]
AbsentLead == [status |-> "NONE", archived |-> FALSE, into |-> NoLead, email |-> NoEmail,
               key |-> NoEmail, mirror |-> {}]
Pairs == {p \in SUBSET LeadIds : Cardinality(p) = 2}     \* canonical (a, b)
CandidateStatus == {"NONE", "PENDING", "MERGED", "KEPT_BOTH", "IGNORED"}
TagTables == [TagIds -> TagNames \cup {NoName, GoneName}]

ClerkOps == {"idle", "candidate", "merge", "status", "edit", "seen", "import",
             "assign", "unassign", "delete", "renamed", "refresh"}
(* a, b: the leads; row, row2: as loaded; email, status: the new value; leads: those whose  *)
(* mirror it rewrites, held: their assignments as it read them; names: the tags as it sees  *)
(* them, made: those it named itself; add, drop: the tags it assigns and takes away;      *)
(* whole: the tag it deletes or renames, for all leads.                                 *)
ClerkStates == [op : ClerkOps, a : LeadIds \cup {NoLead}, b : LeadIds \cup {NoLead},
                row : LeadRows, row2 : LeadRows, email : Emails \cup {NoEmail},
                status : {"NEW", "ARCHIVED"}, leads : SUBSET LeadIds,
                held : [LeadIds -> SUBSET TagIds], names : TagTables,
                made : SUBSET TagIds, add : SUBSET TagIds, drop : SUBSET TagIds,
                whole : SUBSET TagIds]
IdleClerk == [op |-> "idle", a |-> NoLead, b |-> NoLead, row |-> AbsentLead,
              row2 |-> AbsentLead, email |-> NoEmail, status |-> "NEW", leads |-> {},
              held |-> [l \in LeadIds |-> {}], names |-> [t \in TagIds |-> NoName],
              made |-> {}, add |-> {}, drop |-> {}, whole |-> {}]

Exists(l) == lead[l].status \notin {"NONE", "GONE"}
Retired(l) == lead[l].into # NoLead

LeadsInit ==
    /\ lead = [l \in LeadIds |-> AbsentLead]
    /\ assigned = [l \in LeadIds |-> {}] /\ tag = [t \in TagIds |-> NoName]
    /\ candidate = [p \in Pairs |-> "NONE"]
    /\ clerk = [c \in Clerks |-> IdleClerk]
    /\ leadOps = 0 /\ lateMerges = {} /\ foreignKeys = {} /\ lateMirrors = {}

MoreLeadOps == leadOps < MaxLeadOps /\ leadOps' = leadOps + 1
Begin(c, s) == clerk[c].op = "idle" /\ clerk' = [clerk EXCEPT ![c] = s]
Close(c) == clerk' = [clerk EXCEPT ![c] = IdleClerk]

AddressChanged(l, row) == lead[l].email # row.email \/ lead[l].key # row.key

(* A session writes a column only when it changed the value it had loaded. *)
WriteLead(l, loaded, new) ==
    [col \in DOMAIN new |-> IF new[col] = loaded[col] THEN lead[l][col] ELSE new[col]]

----------------------------------------------------------------------------
(* Tags.  The mirror of a lead shows the names of its assignments.                  *)
Named(f) == {t \in TagIds : f[t] \in TagNames}
Shown(f, ts) == {f[t] : t \in ts}
Carriers(t) == {l \in LeadIds : t \in assigned[l]}

(* TagService.ensure: the tags of these names are found, or created beside the others. *)
Ensured(ns) ==
    {f \in TagTables :
        /\ \A t \in TagIds : f[t] = tag[t] \/ (tag[t] = NoName /\ f[t] \in ns)
        /\ ns \subseteq Shown(f, Named(f))
        /\ \A t, u \in Named(f) : f[t] = f[u] => t = u}
Of(f, ns) == {t \in TagIds : f[t] \in ns}
Created(f) == {t \in TagIds : f[t] # tag[t]}

(* What a request reads before it rewrites the mirrors of ls. *)
TagsRead(s, ls, f) ==
    [s EXCEPT !.leads = ls, !.names = f, !.made = Created(f),
              !.held = [l \in LeadIds |-> IF l \in ls THEN assigned[l] ELSE {}]]

(* The assignments of l as the request leaves them. *)
Left(s, l) == (s.held[l] \ s.drop) \cup s.add

(* _refresh_mirror reads the names back after the flush of its own rows; it does not see  *)
(* another request's uncommitted ones.                                                 *)
RefreshMirror(s, l) == Shown(s.names, Left(s, l))

(* The leads whose mirror the request has to rewrite, and those of which an assignment or  *)
(* a tag name changed between its read and its commit.                                  *)
Due(s) == s.leads \cup {l \in LeadIds : s.whole \cap s.held[l] # {}}
Outrun(s) ==
    {l \in LeadIds :
        \/ l \in s.leads /\ s.held[l] # assigned[l]
        \/ l \in s.leads /\ \E t \in Left(s, l) \ s.made : s.names[t] # tag[t]
        \/ s.op = "delete" /\ s.whole \cap (assigned[l] \ s.held[l]) # {}}

(* The commit of a request's tag rows and mirrors, rows being the leads with its other   *)
(* columns written.  The database refuses a name or an assignment that is there already,  *)
(* and an assignment of a lead or tag that is gone; a deleted tag takes every assignment. *)
WriteTags(s, rows) ==
    /\ s.a # NoLead => Exists(s.a)
    /\ \A t \in s.made : tag[t] = NoName /\ s.names[t] \notin Shown(tag, TagIds)
    /\ s.add \ s.made \subseteq Named(tag)
    /\ \A l \in s.leads : s.add \cap assigned[l] = {}
    /\ tag' = [t \in TagIds |-> IF t \in s.made THEN s.names[t]
                                 ELSE IF s.op = "delete" /\ t \in s.whole THEN GoneName ELSE tag[t]]
    /\ assigned' = [l \in LeadIds |->
                        IF l \in s.leads /\ Exists(l) THEN (assigned[l] \ s.drop) \cup s.add
                        ELSE IF s.op = "delete" THEN assigned[l] \ s.whole ELSE assigned[l]]
    /\ lead' = [l \in LeadIds |-> IF l \in s.leads /\ Exists(l)
                                   THEN [rows[l] EXCEPT !.mirror = RefreshMirror(s, l)] ELSE rows[l]]
    /\ lateMirrors' = (lateMirrors \ Due(s)) \cup Outrun(s)

(* TagService.create *)
CreateTag(n) ==
    /\ n \notin Shown(tag, TagIds) /\ MoreLeadOps
    /\ tag' \in Ensured({n})
    /\ UNCHANGED <<lead, assigned, candidate, clerk, lateMerges, foreignKeys, lateMirrors>>

(* assign takes a name, unassign an id. *)
AssignLoad(c, l, n) ==
    /\ Exists(l) /\ MoreLeadOps
    /\ \E f \in Ensured({n}) :
          /\ Of(f, {n}) \cap assigned[l] = {}
          /\ Begin(c, TagsRead([IdleClerk EXCEPT !.op = "assign", !.a = l, !.add = Of(f, {n})],
                               {l}, f))
    /\ UNCHANGED <<lead, assigned, tag, candidate, lateMerges, foreignKeys, lateMirrors>>

UnassignLoad(c, l, t) ==
    /\ Exists(l) /\ t \in assigned[l] /\ MoreLeadOps
    /\ Begin(c, TagsRead([IdleClerk EXCEPT !.op = "unassign", !.a = l, !.drop = {t}], {l}, tag))
    /\ UNCHANGED <<lead, assigned, tag, candidate, lateMerges, foreignKeys, lateMirrors>>

(* delete: the leads whose mirrors it will rewrite are those it finds first. *)
DeleteLoad(c, t) ==
    /\ t \in Named(tag) /\ MoreLeadOps
    /\ Begin(c, [TagsRead([IdleClerk EXCEPT !.op = "delete", !.drop = {t}, !.whole = {t}],
                          Carriers(t), tag) EXCEPT !.held = assigned])
    /\ UNCHANGED <<lead, assigned, tag, candidate, lateMerges, foreignKeys, lateMirrors>>

(* rename: one transaction for the name, a second one for the mirrors.  Between the two,  *)
(* and for good when the second never comes, the mirrors show the old name.             *)
RenameTag(c, t, n) ==
    /\ t \in Named(tag) /\ n \notin Shown(tag, TagIds \ {t}) /\ MoreLeadOps
    /\ tag' = [tag EXCEPT ![t] = n]
    /\ lateMirrors' = lateMirrors \cup Carriers(t)
    /\ Begin(c, [IdleClerk EXCEPT !.op = "renamed", !.whole = {t}])
    /\ UNCHANGED <<lead, assigned, candidate, lateMerges, foreignKeys>>

RenameLoad(c) ==
    LET whole == clerk[c].whole
        s == TagsRead([IdleClerk EXCEPT !.op = "refresh", !.whole = whole],
                      {l \in LeadIds : whole \cap assigned[l] # {}}, tag)
    IN
    /\ clerk[c].op = "renamed"
    /\ clerk' = [clerk EXCEPT ![c] = [s EXCEPT !.held = assigned]]
    /\ UNCHANGED <<lead, assigned, tag, candidate, leadOps, lateMerges, foreignKeys, lateMirrors>>

TagCommit(c) ==
    /\ clerk[c].op \in {"assign", "unassign", "delete", "refresh"}
    /\ WriteTags(clerk[c], lead)
    /\ Close(c)
    /\ UNCHANGED <<candidate, leadOps, lateMerges, foreignKeys>>

----------------------------------------------------------------------------
(* create_lead, an imported or ingested lead: one transaction with its tags, which the    *)
(* assignments keep from being renamed or deleted until its commit.                     *)
CreateLead(l, e, ns) ==
    /\ lead[l].status = "NONE"
    /\ lead' = [lead EXCEPT ![l] = [AbsentLead EXCEPT !.status = "NEW", !.email = e,
                                                      !.key = e, !.mirror = ns]]
    /\ tag' \in Ensured(ns)
    /\ assigned' = [assigned EXCEPT ![l] = Of(tag', ns)]
    /\ UNCHANGED <<candidate, clerk, leadOps, lateMerges, foreignKeys, lateMirrors>>

(* A lead matched by an ingested item or an imported row, by any of its keys: the session   *)
(* holds it until the batch commits.  An import may bring tags.                          *)
SeenLoad(c, l, e) ==
    /\ Exists(l) /\ MoreLeadOps
    /\ Begin(c, [IdleClerk EXCEPT !.op = "seen", !.a = l, !.row = lead[l], !.email = e])
    /\ UNCHANGED <<lead, assigned, tag, candidate, lateMerges, foreignKeys, lateMirrors>>

ImportLoad(c, l, e, ns) ==
    LET s == [IdleClerk EXCEPT !.op = "import", !.a = l, !.row = lead[l], !.email = e]
        wanted == lead[l].mirror \cup ns
    IN
    /\ Exists(l) /\ MoreLeadOps
    /\ \/ ns = {} /\ Begin(c, s)
       \/ /\ ns # {}
          /\ \E f \in Ensured(wanted) :      \* sync_names
                Begin(c, TagsRead([s EXCEPT !.add = Of(f, wanted) \ assigned[l],
                                            !.drop = assigned[l] \ Of(f, wanted)], {l}, f))
    /\ UNCHANGED <<lead, assigned, tag, candidate, lateMerges, foreignKeys, lateMirrors>>

FillEmail(row, e) == IF row.email = NoEmail THEN [row EXCEPT !.email = e] ELSE row

(* LeadService.create_or_update on a match: fills an empty email, not its key. *)
SeenCommit(c) ==
    LET s == clerk[c] IN
    /\ s.op = "seen" /\ Exists(s.a)
    /\ lead' = [lead EXCEPT ![s.a] = WriteLead(s.a, s.row, FillEmail(s.row, s.email))]
    /\ foreignKeys' = IF s.row.email = NoEmail /\ AddressChanged(s.a, s.row)
                      THEN foreignKeys \cup {s.a} ELSE foreignKeys
    /\ Close(c)
    /\ UNCHANGED <<assigned, tag, candidate, leadOps, lateMerges, lateMirrors>>

(* UPDATE_EXISTING: fills an empty email and overwrites the key, whatever the email is. *)
ImportCommit(c) ==
    LET s == clerk[c]
        filled == FillEmail(s.row, s.email)
        new == IF s.email = NoEmail THEN filled ELSE [filled EXCEPT !.key = s.email]
    IN
    /\ s.op = "import"
    /\ WriteTags(s, [lead EXCEPT ![s.a] = WriteLead(s.a, s.row, new)])
    /\ foreignKeys' = IF s.email # NoEmail /\ (new.email # s.email \/ AddressChanged(s.a, s.row))
                      THEN foreignKeys \cup {s.a} ELSE foreignKeys
    /\ Close(c)
    /\ UNCHANGED <<candidate, leadOps, lateMerges>>

----------------------------------------------------------------------------
(* The matches find_duplicates offers; LOW ones by name only, so any two leads may match. *)
Matches(a, b) == a # b /\ Exists(a) /\ Exists(b) /\ ~Retired(a) /\ ~Retired(b)

ScanLoad(c, a, b) ==
    /\ Matches(a, b) /\ MoreLeadOps
    /\ Begin(c, [IdleClerk EXCEPT !.op = "candidate", !.a = a, !.b = b])
    /\ UNCHANGED <<lead, assigned, tag, candidate, lateMerges, foreignKeys, lateMirrors>>

(* Mutant: a pair found again is opened again. *)
RecordCandidateAgain(c) ==
    /\ clerk[c].op = "candidate"
    /\ candidate' = [candidate EXCEPT ![{clerk[c].a, clerk[c].b}] = "PENDING"]
    /\ Close(c)
    /\ UNCHANGED <<lead, assigned, tag, leadOps, lateMerges, foreignKeys, lateMirrors>>

(* record_candidate: a known pair is left alone, whatever became of it. *)
RecordCandidate(c) ==
    LET p == {clerk[c].a, clerk[c].b} IN
    /\ clerk[c].op = "candidate"
    /\ candidate' = [candidate EXCEPT ![p] = IF @ = "NONE" THEN "PENDING" ELSE @]
    /\ Close(c)
    /\ UNCHANGED <<lead, assigned, tag, leadOps, lateMerges, foreignKeys, lateMirrors>>

(* resolve_duplicate: whatever the candidate's status. *)
ResolveDuplicate(p, verdict) ==
    /\ candidate[p] # "NONE" /\ MoreLeadOps
    /\ candidate' = [candidate EXCEPT ![p] = verdict]
    /\ UNCHANGED <<lead, assigned, tag, clerk, lateMerges, foreignKeys, lateMirrors>>

(* Mutant: the primary may be a retired lead. *)
MergeLoadAnyPrimary(c, primary, merged) ==
    /\ primary # merged /\ Exists(primary) /\ Exists(merged) /\ ~Retired(merged)
    /\ MoreLeadOps
    /\ Begin(c, [IdleClerk EXCEPT !.op = "merge", !.a = primary, !.b = merged,
                    !.row = lead[primary], !.row2 = lead[merged]])
    /\ UNCHANGED <<lead, assigned, tag, candidate, lateMerges, foreignKeys, lateMirrors>>

(* merge: the checks on the two rows it loads. *)
MergeLoad(c, primary, merged) ==
    /\ primary # merged /\ Exists(primary) /\ Exists(merged)
    /\ ~Retired(primary) /\ ~Retired(merged)
    /\ MoreLeadOps
    /\ LET moved == assigned[merged] \ assigned[primary] IN
       Begin(c, TagsRead([IdleClerk EXCEPT !.op = "merge", !.a = primary, !.b = merged,
                             !.row = lead[primary], !.row2 = lead[merged], !.add = moved],
                         IF moved = {} THEN {} ELSE {primary}, tag))
    /\ UNCHANGED <<lead, assigned, tag, candidate, lateMerges, foreignKeys, lateMirrors>>

(* _resolve_candidates *)
ResolveCandidates(primary, merged) ==
    [p \in Pairs |-> IF candidate[p] = "PENDING" /\ merged \in p THEN "MERGED" ELSE candidate[p]]

(* The merge's commit: the primary's empty fields are filled, tags and candidates moved,  *)
(* the merged lead retired.                                                             *)
MergeCommit(c) ==
    LET s == clerk[c]
        retire == [s.row2 EXCEPT !.status = "ARCHIVED", !.archived = TRUE, !.into = s.a]
    IN
    /\ s.op = "merge" /\ Exists(s.b)
    /\ WriteTags(s, [lead EXCEPT ![s.a] = WriteLead(s.a, s.row, FillEmail(s.row, s.row2.email)),
                                 ![s.b] = WriteLead(s.b, s.row2, retire)])
    /\ candidate' = ResolveCandidates(s.a, s.b)
    /\ lateMerges' = IF lead[s.a].into # s.row.into \/ lead[s.b].into # s.row2.into
                     THEN lateMerges \cup {s.a, s.b} ELSE lateMerges
    /\ foreignKeys' = IF s.row.email = NoEmail /\ AddressChanged(s.a, s.row)
                      THEN foreignKeys \cup {s.a} ELSE foreignKeys
    /\ Close(c)
    /\ UNCHANGED leadOps

----------------------------------------------------------------------------
(* update_lead refuses a retired lead; change_status, archive and restore do not. *)
EditLoad(c, op, l, e, st) ==
    /\ Exists(l) /\ op \in {"status", "edit"}
    /\ IF op = "edit" THEN ~Retired(l) /\ st = lead[l].status ELSE e = lead[l].email /\ st # lead[l].status
    /\ MoreLeadOps
    /\ Begin(c, [IdleClerk EXCEPT !.op = op, !.a = l, !.row = lead[l], !.email = e, !.status = st])
    /\ UNCHANGED <<lead, assigned, tag, candidate, lateMerges, foreignKeys, lateMirrors>>

(* set_status: archived_at follows the status. *)
SetStatus(row, st) ==
    IF row.status = st THEN row
    ELSE [row EXCEPT !.status = st, !.archived = st = "ARCHIVED"]

(* apply_update: the address and its key together. *)
ApplyUpdate(row, e) == [row EXCEPT !.email = e, !.key = e]

EditCommit(c) ==
    LET s == clerk[c]
        new == IF s.op = "status" THEN SetStatus(s.row, s.status) ELSE ApplyUpdate(s.row, s.email)
    IN
    /\ s.op \in {"status", "edit"} /\ Exists(s.a)
    /\ lead' = [lead EXCEPT ![s.a] = WriteLead(s.a, s.row, new)]
    /\ foreignKeys' = IF s.op = "status" THEN foreignKeys
                      ELSE IF AddressChanged(s.a, s.row) THEN foreignKeys \cup {s.a}
                      ELSE foreignKeys \ {s.a}
    /\ Close(c)
    /\ UNCHANGED <<assigned, tag, candidate, leadOps, lateMerges, lateMirrors>>

(* bulk_action: one UPDATE over the leads that are not retired. *)
BulkStatus(ls, st) ==
    /\ ls # {} /\ MoreLeadOps
    /\ lead' = [l \in LeadIds |-> IF l \in ls /\ Exists(l) /\ ~Retired(l)
                                  THEN [lead[l] EXCEPT !.status = st, !.archived = st = "ARCHIVED"]
                                  ELSE lead[l]]
    /\ UNCHANGED <<assigned, tag, candidate, clerk, lateMerges, foreignKeys, lateMirrors>>

(* Hard delete: the assignments go with the lead; candidates and merge pointers stay. *)
HardDelete(l) ==
    /\ Exists(l) /\ MoreLeadOps
    /\ lead' = [lead EXCEPT ![l] = [AbsentLead EXCEPT !.status = "GONE"]]
    /\ assigned' = [assigned EXCEPT ![l] = {}]
    /\ lateMerges' = lateMerges \cup {l}
    /\ UNCHANGED <<tag, candidate, clerk, foreignKeys, lateMirrors>>

(* The request fails, or the rows it loaded are gone. *)
ClerkFails(c) ==
    /\ clerk[c].op # "idle" /\ Close(c)
    /\ UNCHANGED <<lead, assigned, tag, candidate, leadOps, lateMerges, foreignKeys, lateMirrors>>

LeadsNext ==
    \/ \E l \in LeadIds, e \in Emails \cup {NoEmail}, ns \in SUBSET TagNames : CreateLead(l, e, ns)
    \/ \E c \in Clerks, l \in LeadIds, e \in Emails : SeenLoad(c, l, e)
    \/ \E c \in Clerks, l \in LeadIds, e \in Emails \cup {NoEmail}, ns \in SUBSET TagNames :
          ImportLoad(c, l, e, ns)
    \/ \E c \in Clerks, a, b \in LeadIds : ScanLoad(c, a, b) \/ MergeLoad(c, a, b)
    \/ \E p \in Pairs, v \in {"KEPT_BOTH", "IGNORED"} : ResolveDuplicate(p, v)
    \/ \E c \in Clerks, op \in {"status", "edit"}, l \in LeadIds, e \in Emails \cup {NoEmail},
          st \in {"NEW", "ARCHIVED"} : EditLoad(c, op, l, e, st)
    \/ \E n \in TagNames : CreateTag(n)
    \/ \E c \in Clerks, l \in LeadIds, n \in TagNames : AssignLoad(c, l, n)
    \/ \E c \in Clerks, l \in LeadIds, t \in TagIds : UnassignLoad(c, l, t)
    \/ \E c \in Clerks, t \in TagIds : DeleteLoad(c, t)
    \/ \E c \in Clerks, t \in TagIds, n \in TagNames : RenameTag(c, t, n)
    \/ \E c \in Clerks : \/ RecordCandidate(c) \/ SeenCommit(c) \/ ImportCommit(c)
                         \/ MergeCommit(c) \/ EditCommit(c) \/ RenameLoad(c)
                         \/ TagCommit(c) \/ ClerkFails(c)
    \/ \E ls \in SUBSET LeadIds, st \in {"NEW", "ARCHIVED"} : BulkStatus(ls, st)
    \/ \E l \in LeadIds : HardDelete(l)

LeadsSpec == LeadsInit /\ [][LeadsNext]_leadVars

----------------------------------------------------------------------------
LeadsTypeOK ==
    /\ lead \in [LeadIds -> LeadRows]
    /\ assigned \in [LeadIds -> SUBSET TagIds] /\ tag \in TagTables
    /\ candidate \in [Pairs -> CandidateStatus]
    /\ clerk \in [Clerks -> ClerkStates]

(* The leads l was merged into, directly or further on: those in every set of leads that *)
(* holds the first of them and is closed under merging.                                *)
ClosedUnderMerge(ls) == \A k \in ls : lead[k].into \in ls \cup {NoLead}
Survivors(l) ==
    {k \in LeadIds : \A ls \in SUBSET LeadIds :
        lead[l].into \in ls \cup {NoLead} /\ ClosedUnderMerge(ls) => k \in ls}

(* Merging never closes a circle: a retired lead still leads to one that is not, unless  *)
(* the two rows of a merge changed between its check and its commit or a lead on the     *)
(* way was deleted.                                                                    *)
RetiredHasSurvivor ==
    \A l \in LeadIds : Retired(l) /\ ({l} \cup Survivors(l)) \cap lateMerges = {}
        => \E k \in Survivors(l) : Exists(k) /\ ~Retired(k)

(* "resolved pairs are never resurrected", and a pair closed as MERGED has a retired    *)
(* lead: no review is lost because one of the pair was the primary of another merge.    *)
ReviewsKept ==
    [][\A p \in Pairs :
         /\ candidate[p] \notin {"NONE", "PENDING"} => candidate'[p] \notin {"NONE", "PENDING"}
         /\ candidate[p] # "MERGED" /\ candidate'[p] = "MERGED"
              => \E l \in p : lead'[l].into # NoLead]_leadVars

(* A lead's match key is that of its address, or deduplication would merge a stranger      *)
(* into it: until an edit, except where an import kept another address beside its own key,  *)
(* or writes of the address overlapped.                                                 *)
KeyIsOwn ==
    \A l \in LeadIds : l \in foreignKeys \/ lead[l].key \in {NoEmail, lead[l].email}

(* The tags column "is refreshed after every mutation": it shows the names of the          *)
(* assignments, until the next refresh after a rename's first commit or after two requests  *)
(* changed them at once.                                                                 *)
MirrorShowsTags ==
    \A l \in LeadIds : l \in lateMirrors \/ lead[l].mirror = Shown(tag, assigned[l])

(* The book of leads is consistent: merges lead to a survivor, match keys belong to  *)
(* their leads, the tags column shows the assignments.                             *)
LeadsInv == LeadsTypeOK /\ RetiredHasSurvivor /\ KeyIsOwn /\ MirrorShowsTags
=============================================================================
