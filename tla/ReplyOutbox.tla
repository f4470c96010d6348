---------------------------- MODULE ReplyOutbox ----------------------------
(***************************************************************************)
(* Replies of the unified inbox: the OUTBOUND `messages` rows, the            *)
(* `inbox_outbox` rows, the requests that queue and retry a reply             *)
(* (ReplyService), the delivery loop of the worker processes                 *)
(* (OutboxService.process_cycle) and the delivery events that move a message   *)
(* afterwards (ConversationEngine.apply_delivery_to_message).                *)
(*                                                                         *)
(* The claim of an outbox row is a SELECT followed by a plain write, so two    *)
(* workers may take the same row.  A session writes the columns it changed,    *)
(* whatever the row has become since it was loaded.                          *)
(***************************************************************************)
EXTENDS Naturals, FiniteSets

CONSTANTS
    Replies,            \* client_message_ids of replies, with message and outbox row
    OutboxWorkers,      \* worker processes running _inbox_outbox_loop
    ReplyRequests,      \* concurrent HTTP requests: replies, retries, webhooks
    EventKinds,         \* delivery events the provider reports: subset of the ladder
    MaxOutboxAttempts,  \* QBIT_INBOX_OUTBOX_MAX_ATTEMPTS
    MaxReplyRequests,   \* bound: requests to send or retry a reply
    MaxOutboxFaults,    \* bound: crashes, lost answers, outlived leases, exceptions
                        \*        and selections of a row another worker is claiming
    NoReply             \* "no reply"

ReplyProcs == OutboxWorkers \cup ReplyRequests

ASSUME ReplyOutboxAssumption ==
    /\ EventKinds \subseteq {"SENT", "DELIVERED", "READ", "FAILED"}
    /\ MaxOutboxAttempts \in Nat \ {0}
    /\ MaxReplyRequests \in Nat
    /\ MaxOutboxFaults \in Nat
    /\ OutboxWorkers \cap ReplyRequests = {}
    /\ NoReply \notin Replies

VARIABLES
    message,      \* [Replies -> [status, pid]]: the messages row
    outbox,       \* [Replies -> [status, attempts, lease]]: the inbox_outbox row
    session,      \* [ReplyProcs -> SessionStates]: what each process loaded
    accepts,      \* [Replies -> Nat]: sends the provider accepted
    reported,     \* delivery events handled: <<reply, accepted send, kind>>
    asked,        \* requests to send or retry so far
    outboxFaults, \* faults so far
    stranded,     \* history: replies whose delivery raised in the worker
    overtaken     \* history: replies of which a row was written from an
                  \* out-of-date copy, a lease outlived or an answer lost

replyVars == <<message, outbox, session, accepts, reported,
               asked, outboxFaults, stranded, overtaken>>

----------------------------------------------------------------------------
MessageStatus == {"NONE", "SENDING", "SENT", "DELIVERED", "READ", "FAILED"}

(* pid: which accepted send provider_message_id names, 0 for none. *)
MessageRows == [status : MessageStatus, pid : Nat]

OutboxStatus == {"NONE", "WAITING", "PROCESSING", "COMPLETED", "FAILED"}

(* lease: locked_at is NULL, recent, or older than the lease.  The delay of a   *)
(* retry (available_at) passes on its own and is not kept.                     *)
OutboxRows == [status : OutboxStatus, attempts : Nat, lease : {"none", "held", "expired"}]

NoRow == [status |-> "NONE", attempts |-> 0, lease |-> "none"]

ReplyPcs == {"idle", "queueing", "retrying", "event",              \* requests
             "claiming", "delivering", "sending", "accepted", "failing"} \* workers

(* cur: the reply in hand; todo: claimed items left; msg, items: the rows as     *)
(* this session loaded them; what: event kind or error class; send: the accepted *)
(* send in hand.                                                             *)
SessionStates == [pc : ReplyPcs, cur : Replies \cup {NoReply}, todo : SUBSET Replies,
                  msg : MessageRows, items : [Replies -> OutboxRows],
                  what : {"none", "SENT", "DELIVERED", "READ", "FAILED", "TRANSIENT", "FINAL"},
                  send : Nat]

Closed == [pc |-> "idle", cur |-> NoReply, todo |-> {},
           msg |-> [status |-> "NONE", pid |-> 0],
           items |-> [r \in Replies |-> NoRow], what |-> "none", send |-> 0]

Session(p, s) == session' = [session EXCEPT ![p] = s]

OutboxFault == outboxFaults < MaxOutboxFaults /\ outboxFaults' = outboxFaults + 1

(* The rows `rs` are written from copies that are out of date. *)
Overtaken(rs) == overtaken' = overtaken \cup rs

StaleItem(p, r) == IF outbox[r] # session[p].items[r] THEN {r} ELSE {}
StaleMessage(p, r) == IF message[r] # session[p].msg THEN {r} ELSE {}

----------------------------------------------------------------------------
(* Requests. *)

(* queue_reply up to its last check: no message with this client_message_id.     *)
(* Its other checks (a usable account, a contact that is not suppressed, the       *)
(* WhatsApp window or an approved template) refuse the request or let it pass.    *)
QueueReplyCheck(q, r) ==
    /\ session[q].pc = "idle"
    /\ message[r].status = "NONE"
    /\ asked < MaxReplyRequests
    /\ asked' = asked + 1
    /\ Session(q, [Closed EXCEPT !.pc = "queueing", !.cur = r])
    /\ UNCHANGED <<message, outbox, accepts, reported, outboxFaults, stranded, overtaken>>

(* Mutant: the idempotency key is not unique; the item is queued again. *)
QueueReplyCommitTwice(q) ==
    LET r == session[q].cur IN
    /\ session[q].pc = "queueing"
    /\ message' = [message EXCEPT ![r] = [status |-> "SENDING", pid |-> 0]]
    /\ outbox' = [outbox EXCEPT ![r] = [NoRow EXCEPT !.status = "WAITING"]]
    /\ Session(q, Closed)
    /\ UNCHANGED <<accepts, reported, asked, outboxFaults, stranded, overtaken>>

(* ... and its commit: message and outbox row together, or neither when the     *)
(* idempotency key is already there.                                         *)
QueueReplyCommit(q) ==
    LET r == session[q].cur IN
    /\ session[q].pc = "queueing"
    /\ IF outbox[r].status = "NONE"
         THEN /\ message' = [message EXCEPT ![r] = [status |-> "SENDING", pid |-> 0]]
              /\ outbox' = [outbox EXCEPT ![r] = [NoRow EXCEPT !.status = "WAITING"]]
         ELSE UNCHANGED <<message, outbox>>
    /\ Session(q, Closed)
    /\ UNCHANGED <<accepts, reported, asked, outboxFaults,
                   stranded, overtaken>>

(* retry_failed loads the message, checks that it FAILED and loads its item. *)
RetryFailedCheck(q, r) ==
    /\ session[q].pc = "idle"
    /\ message[r].status = "FAILED"
    /\ asked < MaxReplyRequests
    /\ asked' = asked + 1
    /\ Session(q, [Closed EXCEPT !.pc = "retrying", !.cur = r, !.msg = message[r], !.items = outbox])
    /\ UNCHANGED <<message, outbox, accepts, reported, outboxFaults,
                   stranded, overtaken>>

(* ... and queues both again; the attempts already made are kept. *)
RetryFailedCommit(q) ==
    LET r == session[q].cur IN
    /\ session[q].pc = "retrying"
    /\ message' = [message EXCEPT ![r].status = "SENDING"]
    /\ outbox' = [outbox EXCEPT ![r].status = "WAITING", ![r].lease = "none"]
    /\ Overtaken(StaleMessage(q, r) \cup StaleItem(q, r))
    /\ Session(q, Closed)
    /\ UNCHANGED <<accepts, reported, asked, outboxFaults, stranded>>

(* A delivery event of the n-th accepted send, handled once (its event row is     *)
(* unique), looks for the message by the provider's message id; an event that     *)
(* finds none is stored and never applied.                                    *)
EventLoad(q, r, n, kind) ==
    /\ session[q].pc = "idle"
    /\ n \in 1..accepts[r]
    /\ <<r, n, kind>> \notin reported
    /\ reported' = reported \cup {<<r, n, kind>>}
    /\ IF message[r].pid = n
         THEN Session(q, [Closed EXCEPT !.pc = "event", !.cur = r, !.msg = message[r], !.what = kind])
         ELSE UNCHANGED session
    /\ UNCHANGED <<message, outbox, accepts, asked, outboxFaults,
                   stranded, overtaken>>

(* _status_rank: the place on the outbound ladder, FAILED below all of it. *)
Rank(status) == CASE status = "SENDING" -> 1 [] status = "SENT" -> 2
                  [] status = "DELIVERED" -> 3 [] status = "READ" -> 4 [] OTHER -> 0

(* Mutant: the event's status is taken whatever the message has reached. *)
AfterEventUnranked(old, kind) == kind

(* The status a delivery event gives a message that has status `old`. *)
AfterEvent(old, kind) ==
    IF kind = "FAILED" \/ Rank(kind) >= Rank(old) THEN kind ELSE old

(* apply_delivery_to_message: the column is written only when it changes. *)
EventCommit(q) ==
    LET r == session[q].cur
        new == AfterEvent(session[q].msg.status, session[q].what) IN
    /\ session[q].pc = "event"
    /\ message' = IF new = session[q].msg.status THEN message
                  ELSE [message EXCEPT ![r].status = new]
    /\ Overtaken(StaleMessage(q, r))
    /\ Session(q, Closed)
    /\ UNCHANGED <<outbox, accepts, reported, asked, outboxFaults, stranded>>

----------------------------------------------------------------------------
(* The worker. *)

(* Mutants: a row in PROCESSING is taken whatever its lease, or never. *)
ClaimableAnyLease(r) == outbox[r].status \in {"WAITING", "PROCESSING"}
ClaimableWaiting(r) == outbox[r].status = "WAITING"

Claimable(r) ==
    \/ outbox[r].status = "WAITING"
    \/ outbox[r].status = "PROCESSING" /\ outbox[r].lease = "expired"

(* _claim_batch: the SELECT of one batch ... *)
ClaimSelect(w) ==
    /\ session[w].pc = "idle"
    /\ \E batch \in (SUBSET {r \in Replies : Claimable(r)}) \ {{}} :
         /\ Session(w, [Closed EXCEPT !.pc = "claiming", !.todo = batch, !.items = outbox])
         /\ IF \E v \in OutboxWorkers : session[v].pc = "claiming" /\ session[v].todo \cap batch # {}
              THEN OutboxFault
              ELSE UNCHANGED outboxFaults
    /\ UNCHANGED <<message, outbox, accepts, reported, asked, stranded, overtaken>>

(* The item as the claim writes it; the session's own copy is the second.        *)
ClaimedRow(w, r) ==
    [status |-> IF session[w].items[r].status = "WAITING" THEN "PROCESSING" ELSE outbox[r].status,
     attempts |-> session[w].items[r].attempts + 1, lease |-> "held"]
ClaimedCopy(w, r) ==
    [status |-> "PROCESSING", attempts |-> session[w].items[r].attempts + 1, lease |-> "held"]

(* ... and its commit, which does not look at the rows again. *)
ClaimCommit(w) ==
    LET batch == session[w].todo IN
    /\ session[w].pc = "claiming"
    /\ outbox' = [r \in Replies |-> IF r \in batch THEN ClaimedRow(w, r) ELSE outbox[r]]
    /\ Overtaken(UNION {StaleItem(w, r) : r \in batch})
    /\ Session(w, [session[w] EXCEPT
           !.pc = "delivering",
           !.items = [r \in Replies |-> IF r \in batch THEN ClaimedCopy(w, r) ELSE @[r]]])
    /\ UNCHANGED <<message, accepts, reported, asked, outboxFaults, stranded>>

(* The end of one item: the columns status and locked_at are written, the next    *)
(* item of the batch or the next cycle follows.                               *)
Finish(w, r, status) ==
    LET rest == session[w].todo \ {r} IN
    /\ outbox' = [outbox EXCEPT ![r].status = status, ![r].lease = "none"]
    /\ Session(w, IF rest = {} THEN Closed
                  ELSE [session[w] EXCEPT !.pc = "delivering", !.todo = rest, !.cur = NoReply])

(* _deliver: nothing is left to send for a message that is no longer SENDING. *)
DeliverSettled(w, r) ==
    /\ session[w].pc = "delivering"
    /\ r \in session[w].todo
    /\ message[r].status # "SENDING"
    /\ Finish(w, r, "COMPLETED")
    /\ Overtaken(StaleItem(w, r))
    /\ UNCHANGED <<message, accepts, reported, asked, outboxFaults, stranded>>

(* _deliver up to the provider call: a deleted account (or a template that       *)
(* cannot be rebuilt) is a configuration error.  Neither the account's status     *)
(* nor the suppression list is asked again.                                   *)
DeliverStart(w, r) ==
    /\ session[w].pc = "delivering"
    /\ r \in session[w].todo
    /\ message[r].status = "SENDING"
    /\ \/ Session(w, [session[w] EXCEPT !.pc = "sending", !.cur = r, !.msg = message[r]])
       \/ Session(w, [session[w] EXCEPT !.pc = "failing", !.cur = r, !.msg = message[r], !.what = "FINAL"])
    /\ UNCHANGED <<message, outbox, accepts, reported, asked,
                   outboxFaults, stranded, overtaken>>

(* The provider (external): accepts the message, refuses it for now or for       *)
(* good, or accepts it and the answer is lost.                                *)
ProviderAnswers(w) ==
    LET r == session[w].cur IN
    /\ session[w].pc = "sending"
    /\ \/ /\ accepts' = [accepts EXCEPT ![r] = @ + 1]
          /\ Session(w, [session[w] EXCEPT !.pc = "accepted", !.send = accepts[r] + 1])
          /\ UNCHANGED <<outboxFaults, overtaken>>
       \/ /\ \E class \in {"TRANSIENT", "FINAL"} :
               Session(w, [session[w] EXCEPT !.pc = "failing", !.what = class])
          /\ UNCHANGED <<accepts, outboxFaults, overtaken>>
       \/ /\ OutboxFault
          /\ accepts' = [accepts EXCEPT ![r] = @ + 1]
          /\ Overtaken({r})
          /\ Session(w, [session[w] EXCEPT !.pc = "failing", !.what = "TRANSIENT"])
    /\ UNCHANGED <<message, outbox, reported, asked, stranded>>

(* The commit of an accepted reply: item and message in one transaction. *)
DeliverSent(w) ==
    LET r == session[w].cur IN
    /\ session[w].pc = "accepted"
    /\ message' = [message EXCEPT ![r] = [status |-> "SENT", pid |-> session[w].send]]
    /\ Finish(w, r, "COMPLETED")
    /\ Overtaken(StaleItem(w, r) \cup StaleMessage(w, r))
    /\ UNCHANGED <<accepts, reported, asked, outboxFaults, stranded>>

(* _fail: a transient error below the limit waits for its retry, with the        *)
(* message still SENDING (and not written); anything else fails both.           *)
Fail(w) ==
    LET r == session[w].cur
        retryable == /\ session[w].what = "TRANSIENT"
                     /\ session[w].items[r].attempts < MaxOutboxAttempts IN
    /\ session[w].pc = "failing"
    /\ IF retryable
         THEN Finish(w, r, "WAITING") /\ UNCHANGED message
         ELSE /\ Finish(w, r, "FAILED")
              /\ message' = [message EXCEPT ![r].status = "FAILED"]
    /\ Overtaken(StaleItem(w, r) \cup StaleMessage(w, r))
    /\ UNCHANGED <<accepts, reported, asked, outboxFaults, stranded>>

(* process_cycle: an exception of _deliver fails the item; the message keeps     *)
(* its status.                                                               *)
DeliverRaises(w) ==
    LET r == session[w].cur IN
    /\ session[w].pc = "sending"
    /\ OutboxFault
    /\ Finish(w, r, "FAILED")
    /\ stranded' = stranded \cup {r}
    /\ Overtaken(StaleItem(w, r))
    /\ UNCHANGED <<message, accepts, reported, asked>>

(* The worker process dies and is started again. *)
OutboxCrash(w) ==
    /\ session[w].pc \notin {"idle"}
    /\ OutboxFault
    /\ Overtaken(IF session[w].pc = "accepted" THEN {session[w].cur} ELSE {})
    /\ Session(w, Closed)
    /\ UNCHANGED <<message, outbox, accepts, reported, asked, stranded>>

(* A worker has claimed the item and is not done with it. *)
Holds(w, r) == session[w].pc \notin {"idle", "claiming"} /\ r \in session[w].todo

(* Time passes: a lease nobody works under grows old; one whose holder is slow    *)
(* is a fault.                                                               *)
LeaseExpires(r) ==
    /\ outbox[r].lease = "held"
    /\ outbox' = [outbox EXCEPT ![r].lease = "expired"]
    /\ IF \E w \in OutboxWorkers : Holds(w, r)
         THEN OutboxFault /\ Overtaken({r})
         ELSE UNCHANGED <<outboxFaults, overtaken>>
    /\ UNCHANGED <<message, session, accepts, reported, asked, stranded>>

----------------------------------------------------------------------------
ReplyInit ==
    /\ message = [r \in Replies |-> [status |-> "NONE", pid |-> 0]]
    /\ outbox = [r \in Replies |-> NoRow]
    /\ session = [p \in ReplyProcs |-> Closed]
    /\ accepts = [r \in Replies |-> 0]
    /\ reported = {}
    /\ asked = 0
    /\ outboxFaults = 0
    /\ stranded = {}
    /\ overtaken = {}

OutboxStep(w) ==
    \/ ClaimSelect(w) \/ ClaimCommit(w)
    \/ \E r \in Replies : DeliverSettled(w, r) \/ DeliverStart(w, r)
    \/ ProviderAnswers(w) \/ DeliverSent(w) \/ Fail(w)

RequestStep(q) ==
    \/ \E r \in Replies : QueueReplyCheck(q, r) \/ RetryFailedCheck(q, r)
    \/ \E r \in Replies, kind \in EventKinds : \E n \in 1..accepts[r] : EventLoad(q, r, n, kind)
    \/ QueueReplyCommit(q) \/ RetryFailedCommit(q) \/ EventCommit(q)

ReplyNext ==
    \/ \E w \in OutboxWorkers : OutboxStep(w) \/ DeliverRaises(w) \/ OutboxCrash(w)
    \/ \E q \in ReplyRequests : RequestStep(q)
    \/ \E r \in Replies : LeaseExpires(r)

ReplySpec == ReplyInit /\ [][ReplyNext]_replyVars

(* The loop of a worker process goes on; commits that were begun are made; a     *)
(* lease without a holder grows old.                                          *)
ReplyFairness ==
    /\ \A w \in OutboxWorkers : WF_replyVars(OutboxStep(w))
    /\ \A q \in ReplyRequests :
         WF_replyVars(QueueReplyCommit(q) \/ RetryFailedCommit(q) \/ EventCommit(q))
    /\ \A r \in Replies :
         WF_replyVars((\A w \in OutboxWorkers : ~Holds(w, r)) /\ LeaseExpires(r))

ReplyLiveSpec == ReplySpec /\ ReplyFairness

----------------------------------------------------------------------------
(* Properties. *)

ReplyTypeOK ==
    /\ message \in [Replies -> MessageRows]
    /\ outbox \in [Replies -> OutboxRows]
    /\ session \in [ReplyProcs -> SessionStates]
    /\ accepts \in [Replies -> Nat]
    /\ reported \subseteq Replies \X Nat \X EventKinds
    /\ asked \in Nat
    /\ outboxFaults \in Nat
    /\ stranded \subseteq Replies
    /\ overtaken \subseteq Replies

(* A reply the inbox shows as FAILED, and therefore offers to retry, was not      *)
(* accepted by the provider, or the provider reported that accepted send as       *)
(* failed; only a row written from an out-of-date copy, an outlived lease or a     *)
(* lost answer can break this.                                                *)
FailedNotSent ==
    \A r \in Replies : message[r].status = "FAILED" /\ accepts[r] > 0 =>
        r \in overtaken \/ <<r, accepts[r], "FAILED">> \in reported

(* The provider is asked again only after the earlier send was reported failed:    *)
(* no double click, retry, crash or second worker sends a reply twice while every  *)
(* row is written from a current copy.                                         *)
NoDuplicateReply ==
    [][\A r \in Replies : accepts'[r] > accepts[r] /\ accepts[r] > 0 =>
         r \in overtaken \/ <<r, accepts[r], "FAILED">> \in reported]_replyVars

(* The delivery status shown moves forward: READ never becomes DELIVERED or SENT,  *)
(* DELIVERED never SENT, in whatever order the events arrive.                   *)
DeliveryMovesForward ==
    [][\A r \in Replies : Rank(message'[r].status) < Rank(message[r].status) =>
         \/ message'[r].status = "FAILED"
         \/ r \in overtaken']_replyVars

(* Every queued reply is sent or fails, unless its delivery raised in the worker:   *)
(* then its item is FAILED and the message stays SENDING.                        *)
ReplyEnds ==
    \A r \in Replies : message[r].status = "SENDING" ~>
        message[r].status # "SENDING" \/ r \in stranded

(* The rows hold what their columns can hold, and what is offered for a retry was not *)
(* sent.                                                                          *)
ReplyInv == ReplyTypeOK /\ FailedNotSent
=============================================================================
