--------------------------- MODULE RecipientEvents ---------------------------
(***************************************************************************)
(* What happens to a campaign recipient after the provider took its message:      *)
(* delivery webhooks (WhatsApp and email), replies, and the suppression list        *)
(* with its opt-outs.  Handlers run concurrently; each loads the recipient,          *)
(* decides with the state machine of state.py and commits.                        *)
(***************************************************************************)
EXTENDS Naturals, FiniteSets, Sequences

CONSTANTS
    Recipients,      \* recipients, each with an address of its own
    EventHandlers,   \* webhook, unsubscribe and admin requests in progress at once
    DeliveryKinds,   \* events the providers report
    MaxEventFaults,  \* bound: handlers that die before or between their commits
    MaxSuppressOps,  \* bound: unsubscribe clicks and admin changes
    NoRecipient

ASSUME RecipientEventsAssumption ==
    /\ DeliveryKinds \subseteq {"SENT", "DELIVERED", "READ", "FAILED", "REPLIED",
                                "HARD_BOUNCE", "COMPLAINED", "UNSUBSCRIBED"}
    /\ MaxEventFaults \in Nat /\ MaxSuppressOps \in Nat
    /\ NoRecipient \notin Recipients

VARIABLES
    recipient,   \* [Recipients -> RecipientRows]: the campaign_recipients row
    accepted,    \* recipients whose message the provider has
    events,      \* provider_events rows: <<recipient, kind>>, unique
    applied,     \* events that found their recipient and were applied
    entry,       \* [Recipients -> SuppressionReasons]: the EMAIL suppression entry
    optOut,      \* addresses with an opt-out record
    token,       \* [Recipients -> {"issued", "consumed"}]: the unsubscribe token
    handler,     \* [EventHandlers -> HandlerStates]
    eventFaults, suppressOps,
    misordered   \* history: recipients written from an out-of-date copy, or
                 \* marked REPLIED by an email whatever their status

eventVars == <<recipient, accepted, events, applied, entry, optOut, token, handler,
               eventFaults, suppressOps, misordered>>

----------------------------------------------------------------------------
RecipientOrder == <<"PENDING", "QUEUED", "SENDING", "SENT", "DELIVERED", "READ", "REPLIED">>
RecipientStatus == {RecipientOrder[i] : i \in 1..7} \cup {"FAILED"}
(* pid: provider_message_id is set; channel: of the campaign. *)
RecipientRows == [status : RecipientStatus, pid : BOOLEAN, channel : {"WHATSAPP", "EMAIL"}]
(* OPTED_OUT: the reason UNSUBSCRIBED in the row that record_opt_out inserts. *)
SuppressionReasons == {"NONE", "MANUAL", "BOUNCED", "COMPLAINT", "UNSUBSCRIBED", "OPTED_OUT"}

HandlerStates ==
    [op : {"idle", "event", "optout", "add", "remove"}, r : Recipients \cup {NoRecipient},
     kind : DeliveryKinds \cup {"none"}, row : RecipientRows, seen : SuppressionReasons]

IdleHandler == [op |-> "idle", r |-> NoRecipient, kind |-> "none",
                row |-> [status |-> "SENDING", pid |-> FALSE, channel |-> "EMAIL"], seen |-> "NONE"]
Handle(h, s) == handler' = [handler EXCEPT ![h] = s]

ByEmail(r) == recipient[r].channel = "EMAIL"

Place(status) == CHOOSE i \in 1..7 : RecipientOrder[i] = status

(* can_transition *)
CanTransition(current, target) ==
    /\ current # "FAILED"
    /\ IF target = "FAILED" THEN current \in {"PENDING", "QUEUED", "SENDING", "SENT"}
       ELSE Place(target) >= Place(current)

(* Mutant: FAILED is accepted from every status. *)
AfterDeliveryAnyFailure(status, kind) ==
    LET target == IF kind = "HARD_BOUNCE" THEN "FAILED" ELSE kind IN
    IF target \in {"COMPLAINED", "UNSUBSCRIBED"} THEN status
    ELSE IF target = "FAILED" \/ CanTransition(status, target) THEN target ELSE status

(* apply_event and EmailWebhookService._apply: complaints and unsubscribes leave    *)
(* the status alone, a hard bounce is a failure, an email reply always counts.     *)
AfterDelivery(status, kind) ==
    LET target == IF kind = "HARD_BOUNCE" THEN "FAILED" ELSE kind IN
    IF target \in {"COMPLAINED", "UNSUBSCRIBED"} THEN status
    ELSE IF CanTransition(status, target) THEN target ELSE status

(* _apply_suppression: the reason an event suppresses its address for. *)
SuppressedBy(kind) == CASE kind = "HARD_BOUNCE" -> "BOUNCED" [] kind = "COMPLAINED" -> "COMPLAINT"
                        [] kind = "UNSUBSCRIBED" -> "UNSUBSCRIBED" [] OTHER -> "NONE"

(* Events a channel reports. *)
Reports(r, kind) ==
    IF ByEmail(r) THEN kind # "READ"
    ELSE kind \notin {"HARD_BOUNCE", "COMPLAINED", "UNSUBSCRIBED"}

----------------------------------------------------------------------------
(* The provider (external) takes the message; the worker's commit of SENT and the   *)
(* provider message id follows, and events may come first.                       *)
ProviderAccepts(r) ==
    /\ r \notin accepted
    /\ accepted' = accepted \cup {r}
    /\ UNCHANGED <<recipient, events, applied, entry, optOut, token, handler,
                   eventFaults, suppressOps, misordered>>

WorkerCommitsSent(r) ==
    /\ r \in accepted
    /\ ~recipient[r].pid
    /\ recipient' = [recipient EXCEPT ![r].status = "SENT", ![r].pid = TRUE]
    /\ UNCHANGED <<accepted, events, applied, entry, optOut, token, handler,
                   eventFaults, suppressOps, misordered>>

(* _store_event and the lookup by provider message id: a known event is a duplicate,  *)
(* and one that finds no recipient is stored and never applied.  A WhatsApp reply     *)
(* is linked only to a recipient that was sent to and has not replied.               *)
WebhookLoad(h, r, kind) ==
    /\ handler[h].op = "idle"
    /\ r \in accepted /\ Reports(r, kind)
    /\ <<r, kind>> \notin events
    /\ IF /\ recipient[r].pid
          /\ kind = "REPLIED" /\ ~ByEmail(r)
               => recipient[r].status \in {"SENT", "DELIVERED", "READ"}
         THEN /\ Handle(h, [IdleHandler EXCEPT !.op = "event", !.r = r, !.kind = kind,
                                               !.row = recipient[r], !.seen = entry[r]])
              /\ UNCHANGED events
         ELSE events' = events \cup {<<r, kind>>} /\ UNCHANGED handler
    /\ UNCHANGED <<recipient, accepted, applied, entry, optOut, token,
                   eventFaults, suppressOps, misordered>>

(* Mutant: the event row is not unique, a second delivery is applied again. *)
WebhookCommitAgain(h) ==
    LET r == handler[h].r
        new == IF handler[h].kind \in RecipientStatus THEN handler[h].kind ELSE handler[h].row.status IN
    /\ handler[h].op = "event"
    /\ recipient' = [recipient EXCEPT ![r].status = new]
    /\ events' = events \cup {<<r, handler[h].kind>>}
    /\ applied' = applied \cup {<<r, handler[h].kind>>}
    /\ Handle(h, IdleHandler)
    /\ UNCHANGED <<accepted, entry, optOut, token, eventFaults, suppressOps, misordered>>

(* Event row, recipient and suppression entry are committed together; the unique       *)
(* event id (or the unique suppression key) refuses the whole commit.               *)
WebhookCommit(h) ==
    LET r == handler[h].r
        kind == handler[h].kind
        old == handler[h].row.status
        new == IF kind = "REPLIED" /\ ByEmail(r) THEN "REPLIED" ELSE AfterDelivery(old, kind)
        reason == IF handler[h].seen = "NONE" THEN SuppressedBy(kind) ELSE "NONE" IN
    /\ handler[h].op = "event"
    /\ IF <<r, kind>> \in events \/ (reason # "NONE" /\ entry[r] # "NONE")
         THEN UNCHANGED <<recipient, events, applied, entry, misordered>>
         ELSE /\ recipient' = IF new = old THEN recipient ELSE [recipient EXCEPT ![r].status = new]
              /\ events' = events \cup {<<r, kind>>}
              /\ applied' = applied \cup {<<r, kind>>}
              /\ entry' = IF reason = "NONE" THEN entry ELSE [entry EXCEPT ![r] = reason]
              /\ misordered' = IF recipient[r] # handler[h].row \/ (new = "REPLIED" /\ old = "FAILED")
                                 THEN misordered \cup {r} ELSE misordered
    /\ Handle(h, IdleHandler)
    /\ UNCHANGED <<accepted, optOut, token, eventFaults, suppressOps>>

(* The handler dies; the provider delivers the event again unless its row is there.    *)
(* A reply's message and event row are committed before the reply is linked.          *)
HandlerDies(h) ==
    /\ handler[h].op # "idle"
    /\ eventFaults < MaxEventFaults
    /\ eventFaults' = eventFaults + 1
    /\ events' = IF handler[h].kind = "REPLIED" THEN events \cup {<<handler[h].r, "REPLIED">>} ELSE events
    /\ Handle(h, IdleHandler)
    /\ UNCHANGED <<recipient, accepted, applied, entry, optOut, token, suppressOps, misordered>>

----------------------------------------------------------------------------
(* Suppression. *)

SuppressStart(h, r, op) ==
    /\ handler[h].op = "idle"
    /\ suppressOps < MaxSuppressOps
    /\ suppressOps' = suppressOps + 1
    /\ Handle(h, [IdleHandler EXCEPT !.op = op, !.r = r, !.seen = entry[r]])

(* confirm_opt_out: the token is consumed in a commit of its own ... *)
ConfirmOptOut(h, r) ==
    /\ r \in accepted /\ ByEmail(r)
    /\ SuppressStart(h, r, "optout")
    /\ token' = [token EXCEPT ![r] = "consumed"]
    /\ UNCHANGED <<recipient, accepted, events, applied, entry, optOut, eventFaults, misordered>>

(* ... then record_opt_out: nothing when a record exists, otherwise record and        *)
(* entry together.  The entry is inserted without looking for one, so an address that  *)
(* is already suppressed refuses the whole commit.                               *)
RecordOptOut(h) ==
    LET r == handler[h].r IN
    /\ handler[h].op = "optout"
    /\ IF r \notin optOut /\ entry[r] = "NONE"
         THEN /\ optOut' = optOut \cup {r}
              /\ entry' = [entry EXCEPT ![r] = "OPTED_OUT"]
         ELSE UNCHANGED <<optOut, entry>>
    /\ Handle(h, IdleHandler)
    /\ UNCHANGED <<recipient, accepted, events, applied, token, eventFaults, suppressOps, misordered>>

(* SuppressionService.add by an administrator: idempotent. *)
AddSuppressionLoad(h, r) ==
    /\ SuppressStart(h, r, "add")
    /\ UNCHANGED <<recipient, accepted, events, applied, entry, optOut, token, eventFaults, misordered>>

AddSuppression(h) ==
    LET r == handler[h].r IN
    /\ handler[h].op = "add"
    /\ entry' = IF handler[h].seen = "NONE" /\ entry[r] = "NONE"
                  THEN [entry EXCEPT ![r] = "MANUAL"] ELSE entry
    /\ Handle(h, IdleHandler)
    /\ UNCHANGED <<recipient, accepted, events, applied, optOut, token, eventFaults, suppressOps, misordered>>

(* SuppressionService.remove: refused for an UNSUBSCRIBED entry with an opt-out record. *)
RemovalLoad(h, r) ==
    /\ entry[r] # "NONE"
    /\ ~(entry[r] \in {"UNSUBSCRIBED", "OPTED_OUT"} /\ r \in optOut)
    /\ SuppressStart(h, r, "remove")
    /\ UNCHANGED <<recipient, accepted, events, applied, entry, optOut, token, eventFaults, misordered>>

(* The row loaded above is deleted, if it is still there. *)
RemoveSuppression(h) ==
    LET r == handler[h].r IN
    /\ handler[h].op = "remove"
    /\ entry' = IF entry[r] = handler[h].seen THEN [entry EXCEPT ![r] = "NONE"] ELSE entry
    /\ Handle(h, IdleHandler)
    /\ UNCHANGED <<recipient, accepted, events, applied, optOut, token, eventFaults, suppressOps, misordered>>

(* check_batch: an entry or an opt-out record keeps the address out of every launch. *)
IsSuppressed(r) == entry[r] # "NONE" \/ r \in optOut

----------------------------------------------------------------------------
EventsInit ==
    /\ recipient \in [Recipients -> {[status |-> "SENDING", pid |-> FALSE, channel |-> ch] :
                                      ch \in {"WHATSAPP", "EMAIL"}}]
    /\ accepted = {} /\ events = {} /\ applied = {}
    /\ entry = [r \in Recipients |-> "NONE"]
    /\ optOut = {}
    /\ token = [r \in Recipients |-> "issued"]
    /\ handler = [h \in EventHandlers |-> IdleHandler]
    /\ eventFaults = 0 /\ suppressOps = 0
    /\ misordered = {}

EventsNext ==
    \/ \E r \in Recipients : ProviderAccepts(r) \/ WorkerCommitsSent(r)
    \/ \E h \in EventHandlers :
         \/ \E r \in Recipients : \/ \E kind \in DeliveryKinds : WebhookLoad(h, r, kind)
                                  \/ ConfirmOptOut(h, r)
                                  \/ AddSuppressionLoad(h, r)
                                  \/ RemovalLoad(h, r)
         \/ WebhookCommit(h) \/ HandlerDies(h)
         \/ RecordOptOut(h) \/ AddSuppression(h) \/ RemoveSuppression(h)

EventsSpec == EventsInit /\ [][EventsNext]_eventVars

----------------------------------------------------------------------------
(* Properties. *)

EventsTypeOK ==
    /\ recipient \in [Recipients -> RecipientRows]
    /\ accepted \subseteq Recipients
    /\ events \subseteq Recipients \X DeliveryKinds
    /\ applied \subseteq events
    /\ entry \in [Recipients -> SuppressionReasons]
    /\ optOut \subseteq Recipients
    /\ token \in [Recipients -> {"issued", "consumed"}]
    /\ handler \in [EventHandlers -> HandlerStates]
    /\ eventFaults \in Nat /\ suppressOps \in Nat
    /\ misordered \subseteq Recipients

(* Delivery events come in any order, twice and at once; the status shown is never       *)
(* behind an event that was applied: at least as far as it, or FAILED, unless two         *)
(* handlers wrote from out-of-date copies.                                          *)
StatusReflectsEvents ==
    \A r \in Recipients \ misordered, kind \in {"SENT", "DELIVERED", "READ", "REPLIED"} :
        <<r, kind>> \in applied =>
            recipient[r].status = "FAILED" \/ Place(recipient[r].status) >= Place(kind)

(* A recipient never goes back, FAILED is final, and a message that was delivered, read    *)
(* or answered does not become FAILED (state.py), except through an out-of-date copy        *)
(* or an email reply to a failed message.                                           *)
RecipientMovesForward ==
    [][\A r \in Recipients : recipient'[r].status # recipient[r].status =>
         CanTransition(recipient[r].status, recipient'[r].status) \/ r \in misordered']_eventVars

(* Whoever has an opt-out record also has the UNSUBSCRIBED entry, whatever                *)
(* administrators remove and in whatever order the requests are served.               *)
OptOutHasEntry == \A r \in optOut : entry[r] = "OPTED_OUT"

(* The recipient row is never behind the events applied to it, and an opt-out on      *)
(* record is always enforced by a suppression entry.                              *)
EventsInv == EventsTypeOK /\ StatusReflectsEvents /\ OptOutHasEntry
=============================================================================
