-------------------------- MODULE CampaignDelivery --------------------------
(***************************************************************************)
(* Campaign delivery: the `campaigns`, `campaign_recipients` and            *)
(* `campaign_queue` rows, the operator requests of the API                   *)
(* (CampaignService), the launch pipeline (process_launch, run by the        *)
(* worker and inline by the UI) and the send cycle of the worker processes    *)
(* (CampaignWorker.process_cycle with QueueService).                         *)
(*                                                                         *)
(* A process keeps what it loaded across its awaits; a commit overwrites the  *)
(* row whatever it has become.  Only the claim of queue items and the bulk    *)
(* updates of cancel look at the status they replace.                        *)
(***************************************************************************)
EXTENDS Naturals, FiniteSets

CONSTANTS
    Campaigns,    \* campaigns
    Recipients,   \* leads an audience may resolve to, with their queue item
    CampaignOf,   \* the campaign a recipient row belongs to
    Workers,      \* worker processes running _campaign_loop
    Clients,      \* concurrent operator requests
    Operations,   \* operator requests used: subset of OperatorRequests
    Findings,     \* pre-send findings used: subset of PreSendFindings
    Changes,      \* changes of leads used: subset of {"suppress", "delete"}
    MaxAttempts,  \* QBIT_MARKETING_MAX_ATTEMPTS
    MaxRequests,  \* bound: operator requests
    MaxFaults,    \* bound: crashes, worker-level exceptions, lost answers,
                  \*        leases outlived by a live worker
    None          \* "no campaign", "no recipient"

OperatorRequests == {"launch", "pause", "resume", "cancel", "archive"}

PreSendFindings == {"rate", "skip", "misconfigured"}

Procs == Workers \cup Clients

ASSUME ConstantsAssumption ==
    /\ CampaignOf \in [Recipients -> Campaigns]
    /\ Operations \subseteq OperatorRequests
    /\ Findings \subseteq PreSendFindings
    /\ Changes \subseteq {"suppress", "delete"}
    /\ MaxAttempts \in Nat \ {0}
    /\ MaxRequests \in Nat
    /\ MaxFaults \in Nat
    /\ Workers \cap Clients = {}
    /\ None \notin Campaigns
    /\ None \notin Recipients

VARIABLES
    camp,       \* [Campaigns -> CampaignStatus]: campaigns.status
    rcpt,       \* [Recipients -> RecipientStatus or "NONE"]: the snapshot row
    item,       \* [Recipients -> Items]: the campaign_queue row
    proc,       \* [Procs -> ProcStates]: what each process has in hand
    sent,       \* [Recipients -> Nat]: messages the provider accepted
    suppressed, \* SUBSET Recipients: addresses on the suppression list
    deleted,    \* SUBSET Recipients: leads hard-deleted (lead_id is NULL)
    requests,   \* operator requests so far
    faults,     \* faults so far
    suspect,    \* history: recipients whose lease, answer or launch was lost,
                \* or whose status a launch wrote from an out-of-date row
    raced       \* history: campaigns whose status was written from an
                \* out-of-date row

vars == <<camp, rcpt, item, proc, sent, suppressed, deleted, requests, faults, suspect, raced>>

----------------------------------------------------------------------------
CampaignStatus == {"DRAFT", "SCHEDULED", "QUEUED", "RUNNING", "PAUSED", "COMPLETED",
                   "CANCELLED", "FAILED", "ARCHIVED"}
RecipientStatus == {"PENDING", "ELIGIBLE", "INELIGIBLE", "SENDING", "SENT", "FAILED",
                    "SKIPPED", "CANCELLED"}
QueueStatus == {"WAITING", "PROCESSING", "COMPLETED", "FAILED", "RETRY", "CANCELLED"}

(* "NONE": the row does not exist.  `expired`: locked_at is older than the     *)
(* lease of a PROCESSING item.                                               *)
Items == [status : QueueStatus \cup {"NONE"}, attempts : Nat, expired : BOOLEAN]
NoItem == [status |-> "NONE", attempts |-> 0, expired |-> FALSE]

Pending == {"WAITING", "RETRY", "PROCESSING"}
Verdicts == {"INELIGIBLE", "SENT", "FAILED", "SKIPPED", "CANCELLED"}

ProcPcs == {"idle",
            "loaded", "cancel_items", "cancel_recipients",       \* requests
            "launch", "insert", "pending", "mark", "enqueue", "run",       \* process_launch
            "promote", "pick", "claim", "recover", "item",       \* process_cycle
            "presend", "release", "drop", "skip", "begin", "sending", "accepted",
            "failing", "verdict", "finish"}

(* op: the request, or the error class of a failed send; camps: campaigns      *)
(* loaded; camp: the one in hand; seen: its loaded status; todo: recipients     *)
(* loaded or items claimed; cur: the item being sent; stale: expired items      *)
(* found; att: attempts of the claimed items as loaded.                       *)
ProcStates == [pc : ProcPcs, op : OperatorRequests \cup {"none", "TRANSIENT", "FINAL"},
               camps : SUBSET Campaigns, camp : Campaigns \cup {None},
               seen : CampaignStatus \cup {"none"}, todo : SUBSET Recipients,
               cur : Recipients \cup {None}, stale : SUBSET Recipients,
               att : [Recipients -> Nat]]

NoAttempts == [r \in Recipients |-> 0]
Idle == [pc |-> "idle", op |-> "none", camps |-> {}, camp |-> None, seen |-> "none",
         todo |-> {}, cur |-> None, stale |-> {}, att |-> NoAttempts]

RecipientsOf(c) == {r \in Recipients : CampaignOf[r] = c}

Snapshotted(c) == \E r \in RecipientsOf(c) : rcpt[r] # "NONE"

(* The item a worker is working on, or has claimed for this cycle. *)
Holding(w) ==
    IF proc[w].pc \in {"mark", "enqueue"} THEN {} ELSE proc[w].todo \cup ({proc[w].cur} \ {None})

(* A fault that this model counts. *)
Fault == faults < MaxFaults /\ faults' = faults + 1

(* Commit of a campaign status; the writer had loaded the status `seen`. *)
SetStatus(c, seen, status) ==
    /\ camp' = [camp EXCEPT ![c] = status]
    /\ raced' = IF camp[c] = seen THEN raced ELSE raced \cup {c}

Become(p, state) == proc' = [proc EXCEPT ![p] = state]

Goto(p, pc) == Become(p, [proc[p] EXCEPT !.pc = pc])

----------------------------------------------------------------------------
(* Operator requests. *)

Permits(op, status) ==
    CASE op = "launch"  -> status \in {"DRAFT", "SCHEDULED"}
      [] op = "pause"   -> status = "RUNNING"
      [] op = "resume"  -> status = "PAUSED"
      [] op = "cancel"  -> status \in {"SCHEDULED", "QUEUED", "RUNNING", "PAUSED"}
      [] op = "archive" -> status \in {"COMPLETED", "CANCELLED", "FAILED", "DRAFT"}

(* The request loads the campaign and passes its status check (a launch also   *)
(* its validation report).                                                   *)
LoadCampaign(k, op, c) ==
    /\ proc[k].pc = "idle"
    /\ op \in Operations
    /\ Permits(op, camp[c])
    /\ requests < MaxRequests
    /\ requests' = requests + 1
    /\ Become(k, [Idle EXCEPT !.pc = "loaded", !.op = op, !.camp = c, !.seen = camp[c]])
    /\ UNCHANGED <<camp, rcpt, item, sent, suppressed, deleted, faults, suspect, raced>>

(* request_launch: SEND_NOW campaigns are queued and, from the UI, launched     *)
(* inline; SCHEDULED ones are armed.  Either can be, the operator may edit the   *)
(* schedule until then.                                                      *)
RequestLaunch(k) ==
    LET c == proc[k].camp IN
    /\ proc[k].pc = "loaded" /\ proc[k].op = "launch"
    /\ \/ /\ SetStatus(c, proc[k].seen, "QUEUED")
          /\ \/ Become(k, Idle)
             \/ Become(k, [Idle EXCEPT !.pc = "launch", !.camps = {c}])
       \/ /\ SetStatus(c, proc[k].seen, "SCHEDULED")
          /\ Become(k, Idle)
    /\ UNCHANGED <<rcpt, item, sent, suppressed, deleted, requests, faults, suspect>>

Requested(op) ==
    CASE op = "pause" -> "PAUSED" [] op = "resume" -> "RUNNING"
      [] op = "cancel" -> "CANCELLED" [] op = "archive" -> "ARCHIVED"

CommitRequest(k) ==
    /\ proc[k].pc = "loaded" /\ proc[k].op # "launch"
    /\ SetStatus(proc[k].camp, proc[k].seen, Requested(proc[k].op))
    /\ Become(k, IF proc[k].op = "cancel"
                 THEN [Idle EXCEPT !.pc = "cancel_items", !.camp = proc[k].camp] ELSE Idle)
    /\ UNCHANGED <<rcpt, item, sent, suppressed, deleted, requests, faults, suspect>>

(* cancel: QueueService.cancel_pending, then the recipients not yet sending. *)
CancelPending(k) ==
    /\ proc[k].pc = "cancel_items"
    /\ item' = [r \in Recipients |->
                  IF CampaignOf[r] = proc[k].camp /\ item[r].status \in Pending
                  THEN [item[r] EXCEPT !.status = "CANCELLED", !.expired = FALSE] ELSE item[r]]
    /\ Goto(k, "cancel_recipients")
    /\ UNCHANGED <<camp, rcpt, sent, suppressed, deleted, requests, faults, suspect, raced>>

(* Mutant: the recipient of a send under way is cancelled too. *)
CancelRecipientsInFlight(k) ==
    /\ proc[k].pc = "cancel_recipients"
    /\ rcpt' = [r \in Recipients |->
                  IF CampaignOf[r] = proc[k].camp /\ rcpt[r] \in {"PENDING", "ELIGIBLE", "SENDING"}
                  THEN "CANCELLED" ELSE rcpt[r]]
    /\ Become(k, Idle)
    /\ UNCHANGED <<camp, item, sent, suppressed, deleted, requests, faults, suspect, raced>>

CancelRecipients(k) ==
    /\ proc[k].pc = "cancel_recipients"
    /\ rcpt' = [r \in Recipients |->
                  IF CampaignOf[r] = proc[k].camp /\ rcpt[r] \in {"PENDING", "ELIGIBLE"}
                  THEN "CANCELLED" ELSE rcpt[r]]
    /\ Become(k, Idle)
    /\ UNCHANGED <<camp, item, sent, suppressed, deleted, requests, faults, suspect, raced>>

----------------------------------------------------------------------------
(* process_launch, in a worker or inline in a UI request. *)

(* snapshot: a campaign that already has recipients is left as it is ... *)
CheckSnapshot(p, c) ==
    /\ proc[p].pc = "launch"
    /\ c \in proc[p].camps
    /\ Become(p, IF Snapshotted(c)
                 THEN [proc[p] EXCEPT !.camps = @ \ {c}]
                 ELSE [proc[p] EXCEPT !.pc = "insert", !.camps = @ \ {c}, !.camp = c])
    /\ UNCHANGED <<camp, rcpt, item, sent, suppressed, deleted, requests, faults, suspect, raced>>

(* ... otherwise the audience becomes PENDING rows in one commit.  A launch      *)
(* that ran meanwhile has inserted the same leads: the unique constraint ends   *)
(* this request or cycle.                                                    *)
Snapshot(p, audience) ==
    LET c == proc[p].camp IN
    /\ proc[p].pc = "insert"
    /\ audience \subseteq RecipientsOf(c)
    /\ IF Snapshotted(c)
       THEN audience = {} /\ Become(p, Idle) /\ UNCHANGED rcpt
       ELSE /\ rcpt' = [r \in Recipients |-> IF r \in audience THEN "PENDING" ELSE rcpt[r]]
            /\ Goto(p, "pending")
    /\ UNCHANGED <<camp, item, sent, suppressed, deleted, requests, faults, suspect, raced>>

(* The audience definition is invalid or its size passes the cap, perhaps after  *)
(* some inserts: the worker marks the campaign FAILED and commits those too, the  *)
(* UI request rolls back and only reports the error.                          *)
LaunchFails(p, inserted) ==
    LET c == proc[p].camp IN
    /\ proc[p].pc = "insert"
    /\ inserted \subseteq RecipientsOf(c)
    /\ ~Snapshotted(c)
    /\ IF p \in Workers
       THEN /\ SetStatus(c, "QUEUED", "FAILED")
            /\ rcpt' = [r \in Recipients |-> IF r \in inserted THEN "PENDING" ELSE rcpt[r]]
       ELSE inserted = {} /\ UNCHANGED <<camp, raced, rcpt>>
    /\ Become(p, [proc[p] EXCEPT !.pc = "launch", !.camp = None])
    /\ UNCHANGED <<item, sent, suppressed, deleted, requests, faults, suspect>>

(* Mutant: a launch that finds nobody PENDING returns without starting. *)
LoadPendingOrReturn(p) ==
    LET found == {r \in RecipientsOf(proc[p].camp) : rcpt[r] = "PENDING"} IN
    /\ proc[p].pc = "pending"
    /\ Become(p, [proc[p] EXCEPT !.pc = IF found = {} THEN "launch" ELSE "mark", !.todo = found])
    /\ UNCHANGED <<camp, rcpt, item, sent, suppressed, deleted, requests, faults, suspect, raced>>

LoadPending(p) ==
    LET found == {r \in RecipientsOf(proc[p].camp) : rcpt[r] = "PENDING"} IN
    /\ proc[p].pc = "pending"
    /\ Become(p, [proc[p] EXCEPT !.pc = IF found = {} THEN "run" ELSE "mark", !.todo = found])
    /\ UNCHANGED <<camp, rcpt, item, sent, suppressed, deleted, requests, faults, suspect, raced>>

(* The eligibility of each loaded recipient (the suppression list is not asked   *)
(* here, check_recipient gets suppressed=False).                              *)
MarkEligibility(p, eligible) ==
    /\ proc[p].pc = "mark"
    /\ eligible \subseteq proc[p].todo
    /\ rcpt' = [r \in Recipients |-> CASE r \in eligible -> "ELIGIBLE"
                                       [] r \in proc[p].todo \ eligible -> "INELIGIBLE"
                                       [] OTHER -> rcpt[r]]
    /\ Become(p, [proc[p] EXCEPT !.pc = IF eligible = {} THEN "pending" ELSE "enqueue",
                                 !.todo = eligible])
    /\ suspect' = suspect \cup {r \in proc[p].todo : rcpt[r] # "PENDING"}
    /\ UNCHANGED <<camp, item, sent, suppressed, deleted, requests, faults, raced>>

(* INSERT ... ON CONFLICT DO NOTHING. *)
EnqueueItems(p) ==
    /\ proc[p].pc = "enqueue"
    /\ item' = [r \in Recipients |->
                  IF r \in proc[p].todo /\ item[r].status = "NONE"
                  THEN [NoItem EXCEPT !.status = "WAITING"] ELSE item[r]]
    /\ Become(p, [proc[p] EXCEPT !.pc = "pending", !.todo = {}])
    /\ UNCHANGED <<camp, rcpt, sent, suppressed, deleted, requests, faults, suspect, raced>>

StartRunning(p) ==
    /\ proc[p].pc = "run"
    /\ SetStatus(proc[p].camp, "QUEUED", "RUNNING")
    /\ Become(p, [proc[p] EXCEPT !.pc = "launch", !.camp = None])
    /\ UNCHANGED <<rcpt, item, sent, suppressed, deleted, requests, faults, suspect>>

LaunchesDone(p) ==
    /\ proc[p].pc = "launch"
    /\ proc[p].camps = {}
    /\ Become(p, IF p \in Workers THEN [Idle EXCEPT !.pc = "claim"] ELSE Idle)
    /\ UNCHANGED <<camp, rcpt, item, sent, suppressed, deleted, requests, faults, suspect, raced>>

----------------------------------------------------------------------------
(* process_cycle of a worker: schedules, launches, sends, completion. *)

(* process_due_schedules selects armed campaigns whose time has come ... *)
StartCycle(w, due) ==
    /\ proc[w].pc = "idle"
    /\ \A c \in due : camp[c] = "SCHEDULED"
    /\ Become(w, [Idle EXCEPT !.pc = IF due = {} THEN "pick" ELSE "promote", !.camps = due])
    /\ UNCHANGED <<camp, rcpt, item, sent, suppressed, deleted, requests, faults, suspect, raced>>

(* ... and queues them. *)
PromoteDue(w) ==
    /\ proc[w].pc = "promote"
    /\ camp' = [c \in Campaigns |-> IF c \in proc[w].camps THEN "QUEUED" ELSE camp[c]]
    /\ raced' = raced \cup {c \in proc[w].camps : camp[c] # "SCHEDULED"}
    /\ Goto(w, "pick")
    /\ UNCHANGED <<rcpt, item, sent, suppressed, deleted, requests, faults, suspect>>

PickQueued(w) ==
    /\ proc[w].pc = "pick"
    /\ Become(w, [Idle EXCEPT !.pc = "launch", !.camps = {c \in Campaigns : camp[c] = "QUEUED"}])
    /\ UNCHANGED <<camp, rcpt, item, sent, suppressed, deleted, requests, faults, suspect, raced>>

(* Mutant: items in work can be claimed again. *)
ClaimableInWork == {r \in Recipients : /\ item[r].status \in Pending
                                       /\ camp[CampaignOf[r]] = "RUNNING"}

(* WAITING or RETRY items of RUNNING campaigns; the backoff of a RETRY item     *)
(* and the batch limit leave some of them to a later cycle.                   *)
Claimable == {r \in Recipients : /\ item[r].status \in {"WAITING", "RETRY"}
                                 /\ camp[CampaignOf[r]] = "RUNNING"}

Stale == {r \in Recipients : item[r].status = "PROCESSING" /\ item[r].expired}

(* claim_batch: the guarded UPDATE, then the selection of stale leases. *)
ClaimBatch(w, batch) ==
    /\ proc[w].pc = "claim"
    /\ batch # {} /\ batch \subseteq Claimable
    /\ item' = [r \in Recipients |->
                  IF r \in batch THEN [status |-> "PROCESSING", attempts |-> item[r].attempts + 1,
                                       expired |-> FALSE]
                  ELSE item[r]]
    /\ Become(w, [Idle EXCEPT !.pc = IF Stale = {} THEN "item" ELSE "recover",
                              !.todo = batch, !.stale = Stale,
                              !.att = [r \in Recipients |->
                                         IF r \in batch THEN item[r].attempts + 1 ELSE 0]])
    /\ UNCHANGED <<camp, rcpt, sent, suppressed, deleted, requests, faults, suspect, raced>>

(* No candidates: claim_batch returns before it looks for stale leases. *)
NothingToClaim(w) ==
    /\ proc[w].pc = "claim"
    /\ \A r \in Claimable : item[r].status = "RETRY"
    /\ Become(w, [Idle EXCEPT !.pc = "finish", !.camps = {c \in Campaigns : camp[c] = "RUNNING"}])
    /\ UNCHANGED <<camp, rcpt, item, sent, suppressed, deleted, requests, faults, suspect, raced>>

(* The stale items become WAITING, by id, without another look at them. *)
RecoverStale(w) ==
    /\ proc[w].pc = "recover"
    /\ item' = [r \in Recipients |->
                  IF r \in proc[w].stale
                  THEN [item[r] EXCEPT !.status = "WAITING", !.expired = FALSE] ELSE item[r]]
    /\ suspect' = suspect \cup (proc[w].stale \ Stale)
    /\ Become(w, [proc[w] EXCEPT !.pc = "item", !.stale = {}])
    /\ UNCHANGED <<camp, rcpt, sent, suppressed, deleted, requests, faults, raced>>

(* Mutant: the item of a paused campaign is dropped like a cancelled one. *)
CheckCampaignDropPaused(w, r) ==
    /\ proc[w].pc = "item"
    /\ r \in proc[w].todo
    /\ Become(w, [proc[w] EXCEPT !.todo = @ \ {r}, !.cur = r,
                    !.pc = IF camp[CampaignOf[r]] \in {"PAUSED", "CANCELLED", "FAILED"}
                           THEN "drop" ELSE "presend"])
    /\ UNCHANGED <<camp, rcpt, item, sent, suppressed, deleted, requests, faults, suspect, raced>>

(* _send_item: the campaign is read first. *)
CheckCampaign(w, r) ==
    /\ proc[w].pc = "item"
    /\ r \in proc[w].todo
    /\ Become(w, [proc[w] EXCEPT !.todo = @ \ {r}, !.cur = r,
                    !.pc = CASE camp[CampaignOf[r]] = "PAUSED" -> "release"
                             [] camp[CampaignOf[r]] \in {"CANCELLED", "FAILED"} -> "drop"
                             [] OTHER -> "presend"])
    /\ UNCHANGED <<camp, rcpt, item, sent, suppressed, deleted, requests, faults, suspect, raced>>

(* Account health, rate gate, suppression (only while the lead exists),         *)
(* template and message preparation.                                         *)
PreSend(w, finding) ==
    LET r == proc[w].cur IN
    /\ proc[w].pc = "presend"
    /\ \/ /\ finding = "misconfigured"
          /\ Become(w, [proc[w] EXCEPT !.pc = "failing", !.op = "FINAL"])
       \/ finding = "rate" /\ Goto(w, "release")
       \/ /\ finding = "suppressed" /\ r \in suppressed /\ r \notin deleted
          /\ Goto(w, "skip")
       \/ /\ finding = "skip" /\ (r \notin suppressed \/ r \in deleted)
          /\ Goto(w, "skip")
       \/ /\ finding = "clear" /\ (r \notin suppressed \/ r \in deleted)
          /\ Goto(w, "begin")
    /\ UNCHANGED <<camp, rcpt, item, sent, suppressed, deleted, requests, faults, suspect, raced>>

(* The end of _send_item: the item gets a status, the recipient perhaps. *)
Done(w) == [proc[w] EXCEPT !.pc = "item", !.cur = None, !.op = "none"]

SetItem(r, status) == [item EXCEPT ![r].status = status, ![r].expired = FALSE]

(* Mutant: the queue row gets a recipient status. *)
ReleaseAsPending(w) ==
    /\ proc[w].pc = "release"
    /\ item' = SetItem(proc[w].cur, "PENDING")
    /\ Become(w, Done(w))
    /\ UNCHANGED <<camp, rcpt, sent, suppressed, deleted, requests, faults, suspect, raced>>

(* Paused campaign or rate limit: back to WAITING, the attempt not counted. *)
ReleaseItem(w) ==
    LET r == proc[w].cur
        a == proc[w].att[r]
    IN
    /\ proc[w].pc = "release"
    /\ item' = [item EXCEPT ![r] = [status |-> "WAITING", expired |-> FALSE,
                                    attempts |-> IF a > 0 THEN a - 1 ELSE 0]]
    /\ Become(w, Done(w))
    /\ UNCHANGED <<camp, rcpt, sent, suppressed, deleted, requests, faults, suspect, raced>>

DropItem(w) ==
    /\ proc[w].pc = "drop"
    /\ item' = SetItem(proc[w].cur, "CANCELLED")
    /\ Become(w, Done(w))
    /\ UNCHANGED <<camp, rcpt, sent, suppressed, deleted, requests, faults, suspect, raced>>

SkipRecipient(w) ==
    /\ proc[w].pc = "skip"
    /\ rcpt' = [rcpt EXCEPT ![proc[w].cur] = "SKIPPED"]
    /\ item' = SetItem(proc[w].cur, "CANCELLED")
    /\ Become(w, Done(w))
    /\ UNCHANGED <<camp, sent, suppressed, deleted, requests, faults, suspect, raced>>

BeginSending(w) ==
    /\ proc[w].pc = "begin"
    /\ rcpt' = [rcpt EXCEPT ![proc[w].cur] = "SENDING"]
    /\ Goto(w, "sending")
    /\ UNCHANGED <<camp, item, sent, suppressed, deleted, requests, faults, suspect, raced>>

(* provider.send: accepted, refused for now, refused for good, or accepted      *)
(* with the answer lost (a timeout, reported TRANSIENT).                      *)
ProviderSend(w, answer) ==
    LET r == proc[w].cur IN
    /\ proc[w].pc = "sending"
    /\ \/ /\ answer = "ok"
          /\ sent' = [sent EXCEPT ![r] = @ + 1]
          /\ Goto(w, "accepted")
          /\ UNCHANGED <<faults, suspect>>
       \/ /\ answer \in {"TRANSIENT", "FINAL"}
          /\ Become(w, [proc[w] EXCEPT !.pc = "failing", !.op = answer])
          /\ UNCHANGED <<sent, faults, suspect>>
       \/ /\ answer = "lost" /\ Fault
          /\ sent' = [sent EXCEPT ![r] = @ + 1]
          /\ suspect' = suspect \cup {r}
          /\ Become(w, [proc[w] EXCEPT !.pc = "failing", !.op = "TRANSIENT"])
    /\ UNCHANGED <<camp, rcpt, item, suppressed, deleted, requests, raced>>

(* Mutant: the lease is given up but the item not completed. *)
RecordSentReleased(w) ==
    /\ proc[w].pc = "accepted"
    /\ item' = SetItem(proc[w].cur, "WAITING")
    /\ rcpt' = [rcpt EXCEPT ![proc[w].cur] = "SENT"]
    /\ Become(w, Done(w))
    /\ UNCHANGED <<camp, sent, suppressed, deleted, requests, faults, suspect, raced>>

RecordSent(w) ==
    /\ proc[w].pc = "accepted"
    /\ item' = SetItem(proc[w].cur, "COMPLETED")
    /\ rcpt' = [rcpt EXCEPT ![proc[w].cur] = "SENT"]
    /\ Become(w, Done(w))
    /\ UNCHANGED <<camp, sent, suppressed, deleted, requests, faults, suspect, raced>>

(* QueueService.fail: a TRANSIENT error is retried until max attempts ... *)
FailItem(w) ==
    LET r == proc[w].cur
        retry == proc[w].op = "TRANSIENT" /\ proc[w].att[r] < MaxAttempts
    IN
    /\ proc[w].pc = "failing"
    /\ item' = SetItem(r, IF retry THEN "RETRY" ELSE "FAILED")
    /\ Become(w, IF retry THEN Done(w) ELSE [proc[w] EXCEPT !.pc = "verdict"])
    /\ UNCHANGED <<camp, rcpt, sent, suppressed, deleted, requests, faults, suspect, raced>>

(* ... and a failed item fails its recipient in a second commit. *)
FailRecipient(w) ==
    /\ proc[w].pc = "verdict"
    /\ rcpt' = [rcpt EXCEPT ![proc[w].cur] = "FAILED"]
    /\ Become(w, Done(w))
    /\ UNCHANGED <<camp, item, sent, suppressed, deleted, requests, faults, suspect, raced>>

(* _send_batch: an exception of _send_item fails the item, not its recipient. *)
ItemRaises(w) ==
    /\ proc[w].pc \in {"presend", "begin", "sending"}
    /\ Fault
    /\ item' = SetItem(proc[w].cur, "FAILED")
    /\ suspect' = suspect \cup {proc[w].cur}
    /\ Become(w, Done(w))
    /\ UNCHANGED <<camp, rcpt, sent, suppressed, deleted, requests, raced>>

(* The batch is through: _complete_finished loads the RUNNING campaigns ... *)
BatchDone(w) ==
    /\ proc[w].pc = "item"
    /\ proc[w].todo = {}
    /\ Become(w, [Idle EXCEPT !.pc = "finish", !.camps = {c \in Campaigns : camp[c] = "RUNNING"}])
    /\ UNCHANGED <<camp, rcpt, item, sent, suppressed, deleted, requests, faults, suspect, raced>>

(* Mutants: only WAITING items count; failed items count as pending. *)
DrainedOfWaiting(c) ==
    /\ \A r \in RecipientsOf(c) : item[r].status # "WAITING"
    /\ \E r \in RecipientsOf(c) : item[r].status # "NONE"

DrainedIfNoneFailed(c) ==
    /\ \A r \in RecipientsOf(c) : item[r].status \notin Pending \cup {"FAILED"}
    /\ \E r \in RecipientsOf(c) : item[r].status # "NONE"

(* Nothing pending, and something was queued. *)
Drained(c) ==
    /\ \A r \in RecipientsOf(c) : item[r].status \notin Pending
    /\ \E r \in RecipientsOf(c) : item[r].status # "NONE"

(* ... and completes the drained ones. *)
CompleteFinished(w, c) ==
    /\ proc[w].pc = "finish"
    /\ c \in proc[w].camps
    /\ IF Drained(c) THEN SetStatus(c, "RUNNING", "COMPLETED") ELSE UNCHANGED <<camp, raced>>
    /\ Become(w, [proc[w] EXCEPT !.camps = @ \ {c}])
    /\ UNCHANGED <<rcpt, item, sent, suppressed, deleted, requests, faults, suspect>>

CycleDone(w) ==
    /\ proc[w].pc = "finish"
    /\ proc[w].camps = {}
    /\ Become(w, Idle)
    /\ UNCHANGED <<camp, rcpt, item, sent, suppressed, deleted, requests, faults, suspect, raced>>

----------------------------------------------------------------------------
(* Time, faults and the world outside. *)

(* The process dies, or an exception ends the request or the cycle. *)
Crash(p) ==
    /\ proc[p].pc # "idle"
    /\ Fault
    /\ suspect' = suspect \cup
         CASE proc[p].pc \in {"accepted", "verdict"} -> {proc[p].cur}
           [] proc[p].pc \in {"pending", "mark", "enqueue"} -> RecipientsOf(proc[p].camp)
           [] OTHER -> {}
    /\ Become(p, Idle)
    /\ UNCHANGED <<camp, rcpt, item, sent, suppressed, deleted, requests, raced>>

(* The lease of a PROCESSING item passes its age limit; under a live worker     *)
(* that is a fault.                                                          *)
LeaseRunsOut(r) ==
    /\ item[r].status = "PROCESSING"
    /\ ~item[r].expired
    /\ item' = [item EXCEPT ![r].expired = TRUE]
    /\ IF \E w \in Workers : r \in Holding(w)
       THEN Fault /\ suspect' = suspect \cup {r}
       ELSE UNCHANGED <<faults, suspect>>
    /\ UNCHANGED <<camp, rcpt, proc, sent, suppressed, deleted, requests, raced>>

(* An unsubscribe, complaint or bounce, or an operator, suppresses an address. *)
Suppress(r) ==
    /\ "suppress" \in Changes
    /\ r \notin suppressed
    /\ suppressed' = suppressed \cup {r}
    /\ UNCHANGED <<camp, rcpt, item, proc, sent, deleted, requests, faults, suspect, raced>>

(* Hard delete of the lead: recipient.lead_id is set to NULL. *)
DeleteLead(r) ==
    /\ "delete" \in Changes
    /\ r \notin deleted
    /\ deleted' = deleted \cup {r}
    /\ UNCHANGED <<camp, rcpt, item, proc, sent, suppressed, requests, faults, suspect, raced>>

----------------------------------------------------------------------------
Init ==
    /\ camp = [c \in Campaigns |-> "DRAFT"]
    /\ rcpt = [r \in Recipients |-> "NONE"]
    /\ item = [r \in Recipients |-> NoItem]
    /\ proc = [p \in Procs |-> Idle]
    /\ sent = [r \in Recipients |-> 0]
    /\ suppressed = {}
    /\ deleted = {}
    /\ requests = 0
    /\ faults = 0
    /\ suspect = {}
    /\ raced = {}

LaunchStep(p) ==
    \/ \E c \in Campaigns : CheckSnapshot(p, c)
    \/ \E leads \in SUBSET Recipients : Snapshot(p, leads) \/ LaunchFails(p, leads)
    \/ LoadPending(p)
    \/ \E eligible \in SUBSET proc[p].todo : MarkEligibility(p, eligible)
    \/ EnqueueItems(p) \/ StartRunning(p) \/ LaunchesDone(p)

RequestStep(k) ==
    \/ RequestLaunch(k) \/ CommitRequest(k) \/ CancelPending(k) \/ CancelRecipients(k)

SendStep(w) ==
    \/ \E r \in Recipients : CheckCampaign(w, r)
    \/ \E finding \in Findings \cup {"clear", "suppressed"} : PreSend(w, finding)
    \/ ReleaseItem(w) \/ DropItem(w) \/ SkipRecipient(w) \/ BeginSending(w)
    \/ \E answer \in {"ok", "TRANSIENT", "FINAL"} : ProviderSend(w, answer)
    \/ RecordSent(w) \/ FailItem(w) \/ FailRecipient(w)

CycleStep(w) ==
    \/ \E due \in SUBSET Campaigns : StartCycle(w, due)
    \/ PromoteDue(w) \/ PickQueued(w)
    \/ \E batch \in SUBSET Recipients : ClaimBatch(w, batch)
    \/ NothingToClaim(w) \/ RecoverStale(w) \/ BatchDone(w)
    \/ \E c \in Campaigns : CompleteFinished(w, c)
    \/ CycleDone(w)

Next ==
    \/ \E k \in Clients, op \in OperatorRequests, c \in Campaigns : LoadCampaign(k, op, c)
    \/ \E k \in Clients : RequestStep(k)
    \/ \E p \in Procs : LaunchStep(p) \/ Crash(p)
    \/ \E w \in Workers : CycleStep(w) \/ SendStep(w) \/ ProviderSend(w, "lost") \/ ItemRaises(w)
    \/ \E r \in Recipients : LeaseRunsOut(r) \/ Suppress(r) \/ DeleteLead(r)

Spec == Init /\ [][Next]_vars

----------------------------------------------------------------------------
TypeOK ==
    /\ camp \in [Campaigns -> CampaignStatus]
    /\ rcpt \in [Recipients -> RecipientStatus \cup {"NONE"}]
    /\ item \in [Recipients -> Items]
    /\ proc \in [Procs -> ProcStates]
    /\ sent \in [Recipients -> Nat]
    /\ suppressed \in SUBSET Recipients
    /\ deleted \in SUBSET Recipients
    /\ requests \in 0..MaxRequests
    /\ faults \in 0..MaxFaults
    /\ suspect \in SUBSET Recipients
    /\ raced \in SUBSET Campaigns

(* CampaignQueueItem: "a worker restart or duplicate delivery can never create *)
(* a second send": the provider accepts at most one message per recipient,      *)
(* unless an answer or a lease was lost.                                      *)
AtMostOneSend == \A r \in Recipients \ suspect : sent[r] <= 1

(* Two workers never work on one queue item, under the same exceptions. *)
ItemHeldOnce ==
    \A r \in Recipients \ suspect : \A v, w \in Workers :
        r \in Holding(v) /\ r \in Holding(w) => v = w

(* doc 15: "every row has a final verdict": in a COMPLETED campaign every       *)
(* recipient has a verdict or a worker about to write it, unless an item was    *)
(* suspect or the status was written from an out-of-date row.                 *)
CompletedHasVerdicts ==
    \A r \in Recipients \ suspect :
        camp[CampaignOf[r]] = "COMPLETED" /\ CampaignOf[r] \notin raced
            => \/ rcpt[r] \in Verdicts \cup {"NONE"}
               \/ \E w \in Workers : proc[w].cur = r /\ proc[w].pc = "verdict"

(* queue.py, "paused campaigns stop releasing work": pausing, releasing and        *)
(* retrying lose nobody.  A recipient of a started campaign without a verdict      *)
(* has an item that will be claimed, a launch that still has to queue it, or a    *)
(* worker about to write the verdict, under the same exceptions.               *)
UndecidedIsQueued ==
    \A r \in Recipients \ suspect : LET c == CampaignOf[r] IN
        /\ camp[c] \in {"RUNNING", "PAUSED"} /\ c \notin raced
        /\ rcpt[r] \in {"PENDING", "ELIGIBLE", "SENDING"}
        => \/ item[r].status \in Pending
           \/ \E w \in Workers : proc[w].cur = r /\ proc[w].pc = "verdict"
           \/ \E p \in Procs : proc[p].camp = c /\ proc[p].pc \in {"pending", "mark", "enqueue"}

----------------------------------------------------------------------------
(* Liveness: requests and cycles run to their end; the backoff of a RETRY item  *)
(* passes; dead leases age.                                                  *)
Fairness ==
    /\ \A k \in Clients : WF_vars(RequestStep(k) \/ LaunchStep(k))
    /\ \A w \in Workers : /\ WF_vars(CycleStep(w) \/ LaunchStep(w) \/ SendStep(w))
                          /\ SF_vars(\E batch \in SUBSET Recipients : ClaimBatch(w, batch))
    /\ \A r \in Recipients : WF_vars(LeaseRunsOut(r))

FairSpec == Spec /\ Fairness

(* A QUEUED campaign is launched (or cancelled, or fails), unless QUEUED was     *)
(* written from an out-of-date row.                                          *)
QueuedIsLaunched ==
    \A c \in Campaigns : camp[c] = "QUEUED" ~> camp[c] # "QUEUED" \/ c \in raced

(* A RUNNING campaign with queued work ends, or is paused. *)
RunningDrains ==
    \A r \in Recipients : LET c == CampaignOf[r] IN
        camp[c] = "RUNNING" /\ item[r].status # "NONE" ~> camp[c] # "RUNNING"

=============================================================================
