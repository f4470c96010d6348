-------------------------- MODULE BackgroundProofs ---------------------------
(***************************************************************************)
(* Proofs about the work done beside the requests, for every set of rows and of *)
(* workers and every bound.                                                *)
(*                                                                         *)
(* RecipientEvents: the row of a recipient is never behind the events applied  *)
(* to it, it only moves forward, and an opt-out on record keeps its entry.     *)
(*                                                                         *)
(* ScheduledRuns: a schedule keeps to its limit and is switched off by its     *)
(* failures, and the verdict on a webhook delivery is true.                *)
(***************************************************************************)
EXTENDS RecipientEvents, ScheduledRuns, TLAPS

Ladder == {"SENT", "DELIVERED", "READ", "REPLIED"}

(* What a handler has loaded. *)
HandlerShape(s) ==
    /\ s.op # "idle" => s.r \in Recipients
    /\ s.op = "event" => s.kind \in DeliveryKinds /\ s.row.pid
    /\ s.kind # "none" => s.op = "event"
    /\ s.op = "remove" => s.seen \notin {"NONE", "OPTED_OUT"}

HandlersOK == \A h \in EventHandlers : HandlerShape(handler[h])

(* Events apply to recipients whose provider message id is stored; before that the *)
(* worker has them in hand.                                                  *)
EventsAfterSend ==
    /\ \A r \in Recipients : ~recipient[r].pid => recipient[r].status = "SENDING"
    /\ \A r \in Recipients, kind \in DeliveryKinds : <<r, kind>> \in applied => recipient[r].pid
    /\ \A h \in EventHandlers : handler[h].op = "event" => recipient[handler[h].r].pid

(* The entry of an opt-out exists exactly with its record. *)
OptOutsOK == \A r \in Recipients : entry[r] = "OPTED_OUT" <=> r \in optOut

EventsIInv == EventsTypeOK /\ HandlersOK /\ EventsAfterSend /\ StatusReflectsEvents /\ OptOutsOK

----------------------------------------------------------------------------
(* The state machine of state.py. *)

LEMMA Places ==
    /\ Place("PENDING") = 1 /\ Place("QUEUED") = 2 /\ Place("SENDING") = 3 /\ Place("SENT") = 4
    /\ Place("DELIVERED") = 5 /\ Place("READ") = 6 /\ Place("REPLIED") = 7
<1>1. /\ RecipientOrder[1] = "PENDING" /\ RecipientOrder[2] = "QUEUED" /\ RecipientOrder[3] = "SENDING"
      /\ RecipientOrder[4] = "SENT" /\ RecipientOrder[5] = "DELIVERED" /\ RecipientOrder[6] = "READ"
      /\ RecipientOrder[7] = "REPLIED"
  BY DEF RecipientOrder
<1>2. \A i \in 1..7 : i = 1 \/ i = 2 \/ i = 3 \/ i = 4 \/ i = 5 \/ i = 6 \/ i = 7
  OBVIOUS
<1>3. \A i, j \in 1..7 : RecipientOrder[i] = RecipientOrder[j] => i = j
  BY <1>1, <1>2
<1>4. ASSUME NEW j \in 1..7 PROVE Place(RecipientOrder[j]) = j
  BY <1>3 DEF Place
<1> QED BY <1>1, <1>4

LEMMA Statuses ==
    RecipientStatus = {"PENDING", "QUEUED", "SENDING", "SENT", "DELIVERED", "READ", "REPLIED", "FAILED"}
<1>1. /\ RecipientOrder[1] = "PENDING" /\ RecipientOrder[2] = "QUEUED" /\ RecipientOrder[3] = "SENDING"
      /\ RecipientOrder[4] = "SENT" /\ RecipientOrder[5] = "DELIVERED" /\ RecipientOrder[6] = "READ"
      /\ RecipientOrder[7] = "REPLIED"
  BY DEF RecipientOrder
<1>2. \A i \in 1..7 : i = 1 \/ i = 2 \/ i = 3 \/ i = 4 \/ i = 5 \/ i = 6 \/ i = 7
  OBVIOUS
<1> QED BY <1>1, <1>2 DEF RecipientStatus

(* The status after a delivery event is one of the statuses, is reached by an       *)
(* allowed transition, and is not behind the event.                           *)
LEMMA AfterDeliveryIs ==
    ASSUME NEW old \in RecipientStatus, NEW kind \in DeliveryKinds
    PROVE  /\ AfterDelivery(old, kind) \in RecipientStatus
           /\ AfterDelivery(old, kind) # old => CanTransition(old, AfterDelivery(old, kind))
           /\ kind \in Ladder => \/ AfterDelivery(old, kind) = "FAILED"
                                 \/ Place(AfterDelivery(old, kind)) >= Place(kind)
<1> DEFINE target == IF kind = "HARD_BOUNCE" THEN "FAILED" ELSE kind
<1>1. target \in {"SENT", "DELIVERED", "READ", "REPLIED", "FAILED", "COMPLAINED", "UNSUBSCRIBED"}
      /\ (kind \in Ladder => target = kind)
  BY RecipientEventsAssumption DEF Ladder
<1>2. AfterDelivery(old, kind) =
        IF target \in {"COMPLAINED", "UNSUBSCRIBED"} THEN old
        ELSE IF CanTransition(old, target) THEN target ELSE old
  BY DEF AfterDelivery
<1> HIDE DEF target
<1>3. AfterDelivery(old, kind) \in RecipientStatus
      /\ (AfterDelivery(old, kind) # old => CanTransition(old, AfterDelivery(old, kind)))
  BY <1>1, <1>2, Statuses
<1>4. kind \in Ladder /\ ~CanTransition(old, kind) => old = "FAILED" \/ Place(old) >= Place(kind)
  BY Places, Statuses DEF CanTransition, Ladder
<1>5. kind \in Ladder => AfterDelivery(old, kind) = "FAILED" \/ Place(AfterDelivery(old, kind)) >= Place(kind)
  <2>1. CASE kind \in Ladder /\ CanTransition(old, kind)
    BY <1>1, <1>2, <2>1, Places DEF Ladder
  <2>2. CASE kind \in Ladder /\ ~CanTransition(old, kind)
    BY <1>1, <1>2, <1>4, <2>2 DEF Ladder
  <2> QED BY <2>1, <2>2
<1> QED BY <1>3, <1>5

(* A transition that is allowed never falls behind what was reached. *)
LEMMA TransitionsGoForward ==
    ASSUME NEW old \in RecipientStatus, NEW new \in RecipientStatus, CanTransition(old, new),
           NEW kind \in Ladder, Place(old) >= Place(kind)
    PROVE  new = "FAILED" \/ Place(new) >= Place(kind)
BY Places, Statuses DEF CanTransition, Ladder

----------------------------------------------------------------------------
(* Types and what the handlers have loaded. *)

LEMMA IdleIs ==
    /\ IdleHandler \in HandlerStates /\ HandlerShape(IdleHandler) /\ IdleHandler.op = "idle"
    /\ IdleHandler.kind = "none"
BY Statuses DEF IdleHandler, HandlerStates, RecipientRows, SuppressionReasons, HandlerShape

LEMMA HandleIs ==
    ASSUME EventsTypeOK, HandlersOK, NEW h \in EventHandlers, NEW s \in HandlerStates, HandlerShape(s),
           Handle(h, s)
    PROVE  /\ handler' \in [EventHandlers -> HandlerStates] /\ HandlersOK'
           /\ handler'[h] = s /\ \A g \in EventHandlers \ {h} : handler'[g] = handler[g]
<1>1. /\ handler' \in [EventHandlers -> HandlerStates]
      /\ handler'[h] = s /\ \A g \in EventHandlers \ {h} : handler'[g] = handler[g]
  BY DEF Handle, EventsTypeOK
<1>2. \A g \in EventHandlers : HandlerShape(handler'[g])
  BY <1>1 DEF HandlersOK
<1> QED BY <1>1, <1>2 DEF HandlersOK, HandlerShape

LEMMA RowIs ==
    ASSUME EventsTypeOK, NEW r \in Recipients
    PROVE  /\ recipient[r] \in RecipientRows /\ recipient[r].status \in RecipientStatus
           /\ recipient[r].pid \in BOOLEAN /\ entry[r] \in SuppressionReasons
BY DEF EventsTypeOK, RecipientRows

(* Steps that start a request: the handler alone changes. *)
Starts(h) ==
    \E r \in Recipients :
        \/ \E kind \in DeliveryKinds : WebhookLoad(h, r, kind)
        \/ ConfirmOptOut(h, r) \/ AddSuppressionLoad(h, r) \/ RemovalLoad(h, r)

LEMMA StartStep ==
    ASSUME EventsIInv, NEW h \in EventHandlers, Starts(h)
    PROVE  EventsIInv'
<1>1. EventsTypeOK /\ HandlersOK /\ EventsAfterSend /\ StatusReflectsEvents /\ OptOutsOK
  BY DEF EventsIInv
<1>2. ASSUME NEW r \in Recipients, NEW kind \in DeliveryKinds, WebhookLoad(h, r, kind)
      PROVE  /\ handler' \in [EventHandlers -> HandlerStates] /\ HandlersOK'
             /\ \A g \in EventHandlers : handler'[g].op = "event" =>
                  handler'[g] = handler[g] \/ recipient[handler'[g].r].pid
             /\ events' = events \/ events' = events \cup {<<r, kind>>}
             /\ UNCHANGED <<recipient, accepted, applied, entry, optOut, token, eventFaults, suppressOps, misordered>>
    <2> DEFINE s == [IdleHandler EXCEPT !.op = "event", !.r = r, !.kind = kind,
                                        !.row = recipient[r], !.seen = entry[r]]
    <2>1. s \in HandlerStates /\ s.op = "event" /\ s.r = r /\ s.kind = kind /\ s.row = recipient[r]
      BY <1>1, IdleIs, RowIs DEF HandlerStates
    <2>2. recipient[r].pid => HandlerShape(s)
      BY <2>1 DEF HandlerShape
    <2>3. (recipient[r].pid /\ Handle(h, s) /\ events' = events)
          \/ (handler' = handler /\ events' = events \cup {<<r, kind>>})
      BY <1>2 DEF WebhookLoad
    <2>4. UNCHANGED <<recipient, accepted, applied, entry, optOut, token, eventFaults, suppressOps, misordered>>
      BY <1>2 DEF WebhookLoad
    <2> HIDE DEF s
    <2>5. CASE recipient[r].pid /\ Handle(h, s) /\ events' = events
      BY <1>1, <2>1, <2>2, <2>4, <2>5, HandleIs
    <2>6. CASE handler' = handler /\ events' = events \cup {<<r, kind>>}
      BY <1>1, <2>4, <2>6 DEF EventsTypeOK, HandlersOK, HandlerShape
    <2> QED BY <2>3, <2>5, <2>6
<1>3. ASSUME NEW r \in Recipients, NEW op \in {"optout", "add", "remove"}, SuppressStart(h, r, op),
             op = "remove" => entry[r] \notin {"NONE", "OPTED_OUT"}
      PROVE  /\ handler' \in [EventHandlers -> HandlerStates] /\ HandlersOK' /\ suppressOps' \in Nat
             /\ \A g \in EventHandlers : handler'[g].op = "event" => handler'[g] = handler[g]
    <2> DEFINE s == [IdleHandler EXCEPT !.op = op, !.r = r, !.seen = entry[r]]
    <2>1. s \in HandlerStates /\ s.op = op /\ s.r = r /\ s.kind = "none" /\ s.seen = entry[r]
      BY <1>1, IdleIs, RowIs DEF HandlerStates
    <2>2. HandlerShape(s)
      BY <1>3, <2>1 DEF HandlerShape
    <2>3. Handle(h, s) /\ suppressOps' \in Nat
      BY <1>1, <1>3 DEF SuppressStart, EventsTypeOK
    <2> HIDE DEF s
    <2> QED BY <1>1, <2>1, <2>2, <2>3, HandleIs
<1>4. ASSUME NEW r \in Recipients, ConfirmOptOut(h, r) \/ AddSuppressionLoad(h, r) \/ RemovalLoad(h, r)
      PROVE  /\ handler' \in [EventHandlers -> HandlerStates] /\ HandlersOK' /\ suppressOps' \in Nat
             /\ \A g \in EventHandlers : handler'[g].op = "event" => handler'[g] = handler[g]
             /\ UNCHANGED <<recipient, accepted, events, applied, entry, optOut, eventFaults, misordered>>
             /\ token' \in [Recipients -> {"issued", "consumed"}]
  <2>1. PICK op \in {"optout", "add", "remove"} :
          SuppressStart(h, r, op) /\ (op = "remove" => entry[r] \notin {"NONE", "OPTED_OUT"})
    BY <1>1, <1>4 DEF ConfirmOptOut, AddSuppressionLoad, RemovalLoad, OptOutsOK
  <2>2. /\ UNCHANGED <<recipient, accepted, events, applied, entry, optOut, eventFaults, misordered>>
        /\ token' \in [Recipients -> {"issued", "consumed"}]
    BY <1>1, <1>4 DEF ConfirmOptOut, AddSuppressionLoad, RemovalLoad, EventsTypeOK
  <2> QED BY <1>3, <2>1, <2>2
<1>5. /\ handler' \in [EventHandlers -> HandlerStates] /\ HandlersOK' /\ suppressOps' \in Nat
      /\ \A g \in EventHandlers : handler'[g].op = "event" =>
           handler'[g] = handler[g] \/ recipient[handler'[g].r].pid
      /\ events \subseteq events' /\ events' \subseteq Recipients \X DeliveryKinds
      /\ UNCHANGED <<recipient, accepted, applied, entry, optOut, eventFaults, misordered>>
      /\ token' \in [Recipients -> {"issued", "consumed"}]
  BY <1>1, <1>2, <1>4 DEF Starts, EventsTypeOK
<1>6. EventsTypeOK'
  BY <1>1, <1>5 DEF EventsTypeOK
<1>7. EventsAfterSend'
  BY <1>1, <1>5 DEF EventsAfterSend
<1>8. StatusReflectsEvents' /\ OptOutsOK'
  BY <1>1, <1>5 DEF StatusReflectsEvents, OptOutsOK
<1> QED BY <1>5, <1>6, <1>7, <1>8 DEF EventsIInv

(* The provider takes the message, and the worker commits SENT: no event was        *)
(* applied before the provider message id is there.                          *)
LEMMA SendStep ==
    ASSUME EventsIInv, NEW r \in Recipients, ProviderAccepts(r) \/ WorkerCommitsSent(r)
    PROVE  EventsIInv'
<1>1. EventsTypeOK /\ HandlersOK /\ EventsAfterSend /\ StatusReflectsEvents /\ OptOutsOK
  BY DEF EventsIInv
<1>2. UNCHANGED <<events, applied, entry, optOut, token, handler, eventFaults, suppressOps, misordered>>
  BY DEF ProviderAccepts, WorkerCommitsSent
<1>3. \/ recipient' = recipient
      \/ /\ ~recipient[r].pid
         /\ recipient' = [recipient EXCEPT ![r].status = "SENT", ![r].pid = TRUE]
  BY DEF ProviderAccepts, WorkerCommitsSent
<1>4. \A i \in Recipients :
        \/ recipient'[i] = recipient[i]
        \/ ~recipient[i].pid /\ recipient'[i].pid
  BY <1>1, <1>3, RowIs DEF EventsTypeOK, RecipientRows
<1>5. EventsTypeOK'
  <2>1. recipient' \in [Recipients -> RecipientRows]
    BY <1>1, <1>3, Statuses DEF EventsTypeOK, RecipientRows
  <2>2. accepted' \subseteq Recipients
    BY <1>1 DEF ProviderAccepts, WorkerCommitsSent, EventsTypeOK
  <2> QED BY <1>1, <1>2, <2>1, <2>2 DEF EventsTypeOK
<1>6. HandlersOK' /\ OptOutsOK'
  BY <1>1, <1>2 DEF HandlersOK, HandlerShape, OptOutsOK
<1>7. EventsAfterSend'
  <2>1. \A h \in EventHandlers : handler[h].op = "event" => handler[h].r \in Recipients
    BY <1>1 DEF HandlersOK, HandlerShape
  <2> QED BY <1>1, <1>2, <1>4, <2>1 DEF EventsAfterSend
<1>8. StatusReflectsEvents'
  <2> SUFFICES ASSUME NEW i \in Recipients \ misordered, NEW kind \in Ladder, <<i, kind>> \in applied
               PROVE  recipient'[i].status = "FAILED" \/ Place(recipient'[i].status) >= Place(kind)
    BY <1>2 DEF StatusReflectsEvents, Ladder
  <2>1. kind \in DeliveryKinds
    BY <1>1 DEF EventsTypeOK
  <2>2. recipient'[i] = recipient[i]
    BY <1>1, <1>4, <2>1 DEF EventsAfterSend
  <2> QED BY <1>1, <2>2 DEF StatusReflectsEvents, Ladder
<1> QED BY <1>5, <1>6, <1>7, <1>8 DEF EventsIInv

(* What the commit of an event makes of the status of its recipient. *)
StatusAfter(h) ==
    LET r == handler[h].r IN
    IF handler[h].kind = "REPLIED" /\ ByEmail(r) THEN "REPLIED"
    ELSE AfterDelivery(handler[h].row.status, handler[h].kind)

(* An event that is applied to a current row moves it forward, to a place not       *)
(* behind the event, or changes nothing.                                     *)
LEMMA StatusAfterIs ==
    ASSUME EventsIInv, NEW h \in EventHandlers, handler[h].op = "event"
    PROVE  /\ handler[h].r \in Recipients /\ handler[h].kind \in DeliveryKinds
           /\ handler[h].row \in RecipientRows /\ handler[h].row.pid /\ recipient[handler[h].r].pid
           /\ StatusAfter(h) \in RecipientStatus
           /\ handler[h].kind \in Ladder =>
                StatusAfter(h) = "FAILED" \/ Place(StatusAfter(h)) >= Place(handler[h].kind)
           /\ \/ StatusAfter(h) = handler[h].row.status
              \/ CanTransition(handler[h].row.status, StatusAfter(h))
              \/ StatusAfter(h) = "REPLIED" /\ handler[h].row.status = "FAILED"
<1>1. /\ handler[h].r \in Recipients /\ handler[h].kind \in DeliveryKinds
      /\ handler[h].row.pid /\ recipient[handler[h].r].pid
      /\ handler[h].row \in RecipientRows /\ handler[h].row.status \in RecipientStatus
  BY DEF EventsIInv, HandlersOK, HandlerShape, EventsAfterSend, EventsTypeOK, HandlerStates, RecipientRows
<1>2. CASE handler[h].kind = "REPLIED" /\ ByEmail(handler[h].r)
  <2>1. StatusAfter(h) = "REPLIED"
    BY <1>2 DEF StatusAfter
  <2>2. \/ CanTransition(handler[h].row.status, "REPLIED")
        \/ handler[h].row.status = "FAILED"
    BY <1>1, Places, Statuses DEF CanTransition
  <2> QED BY <1>1, <1>2, <2>1, <2>2, Places, Statuses
<1>3. CASE ~(handler[h].kind = "REPLIED" /\ ByEmail(handler[h].r))
  <2>1. StatusAfter(h) = AfterDelivery(handler[h].row.status, handler[h].kind)
    BY <1>3 DEF StatusAfter
  <2> QED BY <1>1, <2>1, AfterDeliveryIs
<1> QED BY <1>2, <1>3

(* The outcome of the commit of an event. *)
Refused(h) == UNCHANGED <<recipient, events, applied, entry, misordered>>

Applied(h) ==
    LET r == handler[h].r IN
    /\ recipient' \in {recipient, [recipient EXCEPT ![r].status = StatusAfter(h)]}
    /\ StatusAfter(h) # handler[h].row.status =>
           recipient' = [recipient EXCEPT ![r].status = StatusAfter(h)]
    /\ StatusAfter(h) = handler[h].row.status => recipient' = recipient
    /\ events' = events \cup {<<r, handler[h].kind>>}
    /\ applied' = applied \cup {<<r, handler[h].kind>>}
    /\ entry' = entry \/ \E reason \in {"BOUNCED", "COMPLAINT", "UNSUBSCRIBED"} :
           entry[r] = "NONE" /\ entry' = [entry EXCEPT ![r] = reason]
    /\ misordered \subseteq misordered' /\ misordered' \subseteq misordered \cup {r}
    /\ r \notin misordered' => /\ recipient[r] = handler[h].row
                               /\ ~(StatusAfter(h) = "REPLIED" /\ handler[h].row.status = "FAILED")

LEMMA WebhookOutcome ==
    ASSUME NEW h \in EventHandlers, WebhookCommit(h)
    PROVE  Refused(h) \/ Applied(h)
<1> DEFINE r == handler[h].r
           kind == handler[h].kind
           old == handler[h].row.status
           reason == IF handler[h].seen = "NONE" THEN SuppressedBy(kind) ELSE "NONE"
<1>1. \/ Refused(h)
      \/ /\ ~(<<r, kind>> \in events \/ (reason # "NONE" /\ entry[r] # "NONE"))
         /\ recipient' = IF StatusAfter(h) = old THEN recipient
                         ELSE [recipient EXCEPT ![r].status = StatusAfter(h)]
         /\ events' = events \cup {<<r, kind>>} /\ applied' = applied \cup {<<r, kind>>}
         /\ entry' = IF reason = "NONE" THEN entry ELSE [entry EXCEPT ![r] = reason]
         /\ misordered' = IF recipient[r] # handler[h].row \/ (StatusAfter(h) = "REPLIED" /\ old = "FAILED")
                            THEN misordered \cup {r} ELSE misordered
  BY DEF WebhookCommit, StatusAfter, Refused
<1>2. reason \in {"NONE", "BOUNCED", "COMPLAINT", "UNSUBSCRIBED"}
  BY DEF SuppressedBy
<1> HIDE DEF reason
<1> QED BY <1>1, <1>2 DEF Applied

LEMMA EventStepKeeps ==
    ASSUME EventsIInv, NEW h \in EventHandlers, WebhookCommit(h)
    PROVE  EventsIInv'
<1> DEFINE r == handler[h].r
<1>1. EventsTypeOK /\ HandlersOK /\ EventsAfterSend /\ StatusReflectsEvents /\ OptOutsOK
  BY DEF EventsIInv
<1>2. /\ handler[h].op = "event" /\ Handle(h, IdleHandler)
      /\ UNCHANGED <<accepted, optOut, token, eventFaults, suppressOps>>
  BY DEF WebhookCommit
<1>3. /\ handler' \in [EventHandlers -> HandlerStates] /\ HandlersOK'
      /\ \A g \in EventHandlers : handler'[g].op = "event" => handler'[g] = handler[g]
  BY <1>1, <1>2, HandleIs, IdleIs
<1>4. CASE Refused(h)
  BY <1>1, <1>2, <1>3, <1>4
     DEF Refused, EventsIInv, EventsTypeOK, EventsAfterSend, StatusReflectsEvents, OptOutsOK
<1>5. CASE Applied(h)
  <2>1. /\ r \in Recipients /\ handler[h].kind \in DeliveryKinds /\ recipient[r].pid
        /\ StatusAfter(h) \in RecipientStatus
        /\ handler[h].kind \in Ladder =>
             StatusAfter(h) = "FAILED" \/ Place(StatusAfter(h)) >= Place(handler[h].kind)
        /\ \/ StatusAfter(h) = handler[h].row.status
           \/ CanTransition(handler[h].row.status, StatusAfter(h))
           \/ StatusAfter(h) = "REPLIED" /\ handler[h].row.status = "FAILED"
    BY <1>2, StatusAfterIs
  <2>2. recipient' \in [Recipients -> RecipientRows]
    BY <1>1, <1>5, <2>1 DEF Applied, EventsTypeOK, RecipientRows
  <2>3. /\ \A i \in Recipients : recipient'[i].pid = recipient[i].pid
        /\ \A i \in Recipients \ {r} : recipient'[i] = recipient[i]
    BY <1>1, <1>5, RowIs DEF Applied, EventsTypeOK, RecipientRows
  <2>4. entry' \in [Recipients -> SuppressionReasons]
        /\ \A i \in Recipients : entry'[i] = "OPTED_OUT" <=> entry[i] = "OPTED_OUT"
    BY <1>1, <1>5, <2>1 DEF Applied, EventsTypeOK, SuppressionReasons
  <2>5. EventsTypeOK'
    BY <1>1, <1>2, <1>3, <1>5, <2>1, <2>2, <2>4 DEF Applied, EventsTypeOK
  <2>6. \A g \in EventHandlers : handler'[g].op = "event" =>
          handler'[g].r \in Recipients /\ recipient[handler'[g].r].pid
    BY <1>1, <1>3 DEF HandlersOK, HandlerShape, EventsAfterSend
  <2>7. EventsAfterSend'
    <3>1. \A i \in Recipients : ~recipient'[i].pid => recipient'[i].status = "SENDING"
      BY <1>1, <2>1, <2>3 DEF EventsAfterSend
    <3>2. \A i \in Recipients, kind \in DeliveryKinds : <<i, kind>> \in applied' => recipient'[i].pid
      BY <1>1, <1>5, <2>1, <2>3 DEF EventsAfterSend, Applied
    <3> QED BY <2>3, <2>6, <3>1, <3>2 DEF EventsAfterSend
  <2>8. OptOutsOK'
    BY <1>1, <1>2, <2>4 DEF OptOutsOK
  <2>9. StatusReflectsEvents'
    <3> SUFFICES ASSUME NEW i \in Recipients \ misordered', NEW kind \in Ladder, <<i, kind>> \in applied'
                 PROVE  recipient'[i].status = "FAILED" \/ Place(recipient'[i].status) >= Place(kind)
      BY DEF StatusReflectsEvents, Ladder
    <3>1. <<i, kind>> \in applied =>
            recipient[i].status = "FAILED" \/ Place(recipient[i].status) >= Place(kind)
      BY <1>1, <1>5 DEF StatusReflectsEvents, Ladder, Applied
    <3>2. CASE i # r
      <4>1. <<i, kind>> \in applied /\ recipient'[i] = recipient[i]
        BY <1>5, <2>3, <3>2 DEF Applied
      <4> QED BY <3>1, <4>1
    <3>3. CASE i = r
      <4>1. recipient[r] = handler[h].row /\ ~(StatusAfter(h) = "REPLIED" /\ handler[h].row.status = "FAILED")
        BY <1>5, <3>3 DEF Applied
      <4>2. recipient'[r].status = StatusAfter(h)
        BY <1>1, <1>5, <2>1, <4>1, RowIs DEF Applied, EventsTypeOK, RecipientRows
      <4>3. recipient[r].status \in RecipientStatus
        BY <1>1, <2>1, RowIs
      <4>4. StatusAfter(h) = recipient[r].status \/ CanTransition(recipient[r].status, StatusAfter(h))
        BY <2>1, <4>1
      <4>5. CASE <<i, kind>> \in applied
        <5>1. CASE StatusAfter(h) = recipient[r].status
          BY <3>1, <3>3, <4>2, <4>5, <5>1
        <5>2. CASE CanTransition(recipient[r].status, StatusAfter(h))
          <6>1. recipient[r].status # "FAILED"
            BY <5>2 DEF CanTransition
          <6>2. Place(recipient[r].status) >= Place(kind)
            BY <3>1, <3>3, <4>5, <6>1
          <6> QED BY <2>1, <3>3, <4>2, <4>3, <5>2, <6>2, TransitionsGoForward
        <5> QED BY <4>4, <5>1, <5>2
      <4>6. CASE <<i, kind>> \notin applied
        <5>1. kind = handler[h].kind
          BY <1>5, <4>6 DEF Applied
        <5> QED BY <2>1, <3>3, <4>2, <5>1
      <4> QED BY <4>5, <4>6
    <3> QED BY <3>2, <3>3
  <2> QED BY <1>3, <2>5, <2>7, <2>8, <2>9 DEF EventsIInv
<1> QED BY <1>4, <1>5, WebhookOutcome

(* A handler that dies, and the suppression list: only an opt-out inserts the entry  *)
(* of an opt-out, together with its record, and nothing that was loaded to be       *)
(* removed is such an entry.                                                 *)
LEMMA SuppressionStep ==
    ASSUME EventsIInv, NEW h \in EventHandlers,
           HandlerDies(h) \/ RecordOptOut(h) \/ AddSuppression(h) \/ RemoveSuppression(h)
    PROVE  EventsIInv'
<1> DEFINE r == handler[h].r
<1>1. EventsTypeOK /\ HandlersOK /\ EventsAfterSend /\ StatusReflectsEvents /\ OptOutsOK
  BY DEF EventsIInv
<1>2. /\ handler[h].op # "idle" /\ Handle(h, IdleHandler) /\ r \in Recipients
      /\ UNCHANGED <<recipient, accepted, applied, token, suppressOps, misordered>>
  BY <1>1 DEF HandlerDies, RecordOptOut, AddSuppression, RemoveSuppression, HandlersOK, HandlerShape
<1>3. /\ handler' \in [EventHandlers -> HandlerStates] /\ HandlersOK'
      /\ \A g \in EventHandlers : handler'[g].op = "event" => handler'[g] = handler[g]
  BY <1>1, <1>2, HandleIs, IdleIs
<1>4. eventFaults' \in Nat /\ events \subseteq events' /\ events' \subseteq Recipients \X DeliveryKinds
  <2>1. handler[h].kind = "REPLIED" => handler[h].kind \in DeliveryKinds
    BY <1>1 DEF HandlersOK, HandlerShape
  <2> QED BY <1>1, <1>2, <2>1
          DEF HandlerDies, RecordOptOut, AddSuppression, RemoveSuppression, EventsTypeOK
<1>5. /\ entry' \in [Recipients -> SuppressionReasons] /\ optOut' \subseteq Recipients
      /\ OptOutsOK'
  <2>1. CASE HandlerDies(h)
    BY <1>1, <2>1 DEF HandlerDies, EventsTypeOK, OptOutsOK
  <2>2. CASE RecordOptOut(h)
    BY <1>1, <1>2, <2>2 DEF RecordOptOut, EventsTypeOK, OptOutsOK, SuppressionReasons
  <2>3. CASE AddSuppression(h)
    BY <1>1, <1>2, <2>3 DEF AddSuppression, EventsTypeOK, OptOutsOK, SuppressionReasons
  <2>4. CASE RemoveSuppression(h)
    <3>1. handler[h].seen # "OPTED_OUT"
      BY <1>1, <2>4 DEF RemoveSuppression, HandlersOK, HandlerShape
    <3> QED BY <1>1, <1>2, <2>4, <3>1 DEF RemoveSuppression, EventsTypeOK, OptOutsOK, SuppressionReasons
  <2> QED BY <2>1, <2>2, <2>3, <2>4
<1>6. EventsTypeOK'
  BY <1>1, <1>2, <1>3, <1>4, <1>5 DEF EventsTypeOK
<1>7. EventsAfterSend'
  BY <1>1, <1>2, <1>3 DEF EventsAfterSend
<1>8. StatusReflectsEvents'
  BY <1>1, <1>2 DEF StatusReflectsEvents
<1> QED BY <1>3, <1>5, <1>6, <1>7, <1>8 DEF EventsIInv

----------------------------------------------------------------------------
(* The theorems. *)

(* The inductive invariant: typed rows, what the handlers have loaded, events that   *)
(* apply only after the send was stored, rows not behind their events, and opt-out    *)
(* entries that exist exactly with their records.                             *)
LEMMA EventsInvariant == EventsSpec => []EventsIInv
<1>1. EventsInit => EventsIInv
  <2> SUFFICES ASSUME EventsInit PROVE EventsIInv
    OBVIOUS
  <2>1. recipient \in [Recipients -> RecipientRows]
        /\ \A r \in Recipients : recipient[r].status = "SENDING"
    <3> DEFINE rows == {[status |-> "SENDING", pid |-> FALSE, channel |-> ch] : ch \in {"WHATSAPP", "EMAIL"}}
    <3>1. ASSUME NEW row \in rows PROVE row \in RecipientRows /\ row.status = "SENDING"
      <4>1. PICK ch \in {"WHATSAPP", "EMAIL"} : row = [status |-> "SENDING", pid |-> FALSE, channel |-> ch]
        OBVIOUS
      <4> QED BY <4>1, Statuses DEF RecipientRows
    <3>2. recipient \in [Recipients -> rows]
      BY DEF EventsInit
    <3> HIDE DEF rows
    <3> QED BY <3>1, <3>2
  <2>2. handler \in [EventHandlers -> HandlerStates] /\ HandlersOK
        /\ \A h \in EventHandlers : handler[h].op = "idle"
    BY IdleIs DEF EventsInit, HandlersOK
  <2>3. EventsTypeOK
    BY <2>1, <2>2 DEF EventsInit, EventsTypeOK, SuppressionReasons
  <2> QED BY <2>1, <2>2, <2>3
          DEF EventsInit, EventsIInv, EventsAfterSend, StatusReflectsEvents, OptOutsOK
<1>2. EventsIInv /\ [EventsNext]_eventVars => EventsIInv'
  <2> SUFFICES ASSUME EventsIInv, [EventsNext]_eventVars PROVE EventsIInv'
    OBVIOUS
  <2>1. CASE UNCHANGED eventVars
    BY <2>1 DEF eventVars, EventsIInv, EventsTypeOK, HandlersOK, HandlerShape, EventsAfterSend,
                StatusReflectsEvents, OptOutsOK
  <2>2. CASE EventsNext
    BY <2>2, SendStep, StartStep, EventStepKeeps, SuppressionStep DEF EventsNext, Starts
  <2> QED BY <2>1, <2>2
<1> QED BY <1>1, <1>2, PTL DEF EventsSpec

(* Whatever order the events come in, applied once each: the status shown is not      *)
(* behind any event that was applied, while rows are written from current copies;    *)
(* whoever has an opt-out record keeps the entry that enforces it (events.py,        *)
(* suppression.py).                                                         *)
THEOREM EventsInvHolds == EventsSpec => []EventsInv
<1>1. EventsIInv => EventsInv
  BY DEF EventsIInv, EventsInv, EventsTypeOK, OptOutHasEntry, OptOutsOK
<1> QED BY <1>1, EventsInvariant, PTL

(* A recipient whose row is written from current copies only takes transitions that   *)
(* state.py allows: it never goes back and FAILED is final.                     *)
THEOREM RecipientMovesForwardHolds == EventsSpec => RecipientMovesForward
<1>1. EventsIInv /\ [EventsNext]_eventVars =>
        [\A r \in Recipients : recipient'[r].status # recipient[r].status =>
           CanTransition(recipient[r].status, recipient'[r].status) \/ r \in misordered']_eventVars
  <2> SUFFICES ASSUME EventsIInv, EventsNext, NEW r \in Recipients \ misordered',
                      recipient'[r].status # recipient[r].status
               PROVE  CanTransition(recipient[r].status, recipient'[r].status)
    BY DEF eventVars
  <2>1. EventsTypeOK /\ EventsAfterSend
    BY DEF EventsIInv
  <2>2. \/ \E i \in Recipients : WorkerCommitsSent(i)
        \/ \E h \in EventHandlers : WebhookCommit(h)
    BY DEF EventsNext, ProviderAccepts, WebhookLoad, ConfirmOptOut, AddSuppressionLoad, RemovalLoad,
           HandlerDies, RecordOptOut, AddSuppression, RemoveSuppression
  <2>3. ASSUME NEW i \in Recipients, WorkerCommitsSent(i)
        PROVE  CanTransition(recipient[r].status, recipient'[r].status)
    <3>1. i = r
      BY <2>1, <2>3 DEF WorkerCommitsSent, EventsTypeOK
    <3>2. recipient[r].status = "SENDING" /\ recipient'[r].status = "SENT"
      BY <2>1, <2>3, <3>1, RowIs DEF WorkerCommitsSent, EventsTypeOK, RecipientRows, EventsAfterSend
    <3> QED BY <3>2, Places DEF CanTransition
  <2>4. ASSUME NEW h \in EventHandlers, WebhookCommit(h)
        PROVE  CanTransition(recipient[r].status, recipient'[r].status)
    <3>1. Applied(h) /\ handler[h].op = "event"
      BY <2>4, WebhookOutcome DEF Refused, WebhookCommit
    <3>2. handler[h].r = r /\ recipient'[r].status = StatusAfter(h)
      BY <2>1, <3>1, RowIs DEF Applied, EventsTypeOK, RecipientRows
    <3>3. recipient[r] = handler[h].row
          /\ ~(StatusAfter(h) = "REPLIED" /\ handler[h].row.status = "FAILED")
      BY <3>1, <3>2 DEF Applied
    <3>4. \/ StatusAfter(h) = handler[h].row.status
          \/ CanTransition(handler[h].row.status, StatusAfter(h))
          \/ StatusAfter(h) = "REPLIED" /\ handler[h].row.status = "FAILED"
      BY <3>1, StatusAfterIs
    <3> QED BY <3>2, <3>3, <3>4
  <2> QED BY <2>2, <2>3, <2>4
<1> QED BY <1>1, EventsInvariant, PTL DEF EventsSpec, RecipientMovesForward

----------------------------------------------------------------------------
(* Schedules. *)

TickerStates == [at : {"rest", "claim", "fire", "mark"}, on : Schedules \cup {"none"}, copy : ScheduleRows]

(* The count of a schedule is the number of its claims, and stays within the limit; one  *)
(* that failed too often is off unless a user switched it on again.                *)
ScheduleOK(s) ==
    /\ schedules[s].due => schedules[s].more
    /\ schedules[s].state = "absent" => claims[s] = 0 /\ schedules[s].runs = 0 /\ ~schedules[s].more
    /\ s \notin clashed => claims[s] = schedules[s].runs
    /\ schedules[s].limit # 0 => schedules[s].runs <= schedules[s].limit
    /\ schedules[s].state = "enabled" /\ schedules[s].fails >= MaxScheduleFailures => s \in reenabled

(* A tick at work has a schedule whose limit its copy knows and has not reached; one that is *)
(* on, though the tick read it as off, was switched on by a user.                          *)
TickerOK(t) ==
    /\ t.at # "rest" => t.on \in Schedules /\ schedules[t.on].state # "absent"
    /\ t.at = "claim" => /\ t.copy.limit = schedules[t.on].limit
                         /\ t.copy.limit # 0 => t.copy.runs < t.copy.limit
    /\ t.at = "mark" /\ t.copy.state # "enabled" /\ schedules[t.on].state = "enabled"
         => t.on \in reenabled

SchedulesIInv ==
    /\ schedules \in [Schedules -> ScheduleRows] /\ claims \in [Schedules -> Nat]
    /\ ticker \in [Tickers -> TickerStates]
    /\ \A s \in Schedules : ScheduleOK(s)
    /\ \A w \in Tickers : TickerOK(ticker[w])

LEMMA ScheduleFacts ==
    ASSUME SchedulesIInv
    PROVE  /\ schedules \in [Schedules -> ScheduleRows] /\ claims \in [Schedules -> Nat]
           /\ ticker \in [Tickers -> TickerStates]
           /\ \A s \in Schedules : schedules[s] \in ScheduleRows /\ claims[s] \in Nat /\ ScheduleOK(s)
           /\ \A w \in Tickers : ticker[w] \in TickerStates /\ TickerOK(ticker[w])
BY DEF SchedulesIInv

(* A step that changes one schedule and no tick. *)
LEMMA OneSchedule ==
    ASSUME SchedulesIInv, NEW s \in Schedules, NEW row \in ScheduleRows,
           schedules' = [schedules EXCEPT ![s] = row], UNCHANGED <<ticker, claims, clashed>>,
           reenabled' \in {reenabled, reenabled \cup {s}}, row.due => row.more,
           row.state # "absent", row.runs = schedules[s].runs,
           schedules[s].state # "absent" => row.limit = schedules[s].limit,
           schedules[s].state = "absent" => row.runs = 0,
           row.state = "enabled" /\ row.fails >= MaxScheduleFailures => s \in reenabled',
           row.state = "enabled" => schedules[s].state \in {"absent", "enabled"} \/ s \in reenabled'
    PROVE  SchedulesIInv'
<1>1. /\ schedules' \in [Schedules -> ScheduleRows] /\ claims' \in [Schedules -> Nat] /\ schedules'[s] = row
      /\ \A x \in Schedules \ {s} : schedules'[x] = schedules[x]
      /\ ticker' \in [Tickers -> TickerStates]
  BY ScheduleFacts
<1>2. row.limit \in Nat /\ schedules[s].runs \in Nat
  <2>1. row.limit \in RunLimits \cup {0, 1} /\ \A x \in RunLimits : x \in Nat
    BY ScheduledAssumption DEF ScheduleRows
  <2>2. schedules[s].runs \in Nat
    BY ScheduleFacts DEF ScheduleRows
  <2> QED BY <2>1, <2>2
<1>3. ASSUME NEW x \in Schedules
      PROVE  ScheduleOK(x)'
  <2>1. CASE x # s
    BY <1>1, <2>1, ScheduleFacts DEF ScheduleOK
  <2>2. CASE x = s
    BY <1>1, <1>2, <2>2, ScheduleFacts DEF ScheduleOK
  <2> QED BY <2>1, <2>2
<1>4. ASSUME NEW w \in Tickers
      PROVE  TickerOK(ticker[w])'
  <2>1. PICK t \in TickerStates : t = ticker[w] /\ t = ticker'[w] /\ TickerOK(t)
    BY ScheduleFacts
  <2>2. CASE t.on = s
    BY <1>1, <2>1, <2>2 DEF TickerOK
  <2>3. CASE t.on # s
    BY <1>1, <2>1, <2>3 DEF TickerOK
  <2> QED BY <2>1, <2>2, <2>3
<1> QED BY <1>1, <1>3, <1>4 DEF SchedulesIInv

(* A step of a tick that leaves the schedules alone. *)
LEMMA OneTicker ==
    ASSUME SchedulesIInv, NEW w \in Tickers, NEW t \in TickerStates, ticker' = [ticker EXCEPT ![w] = t],
           TickerOK(t), UNCHANGED <<schedules, claims, clashed, reenabled>>
    PROVE  SchedulesIInv'
<1>1. \A s \in Schedules : ScheduleOK(s)'
  BY ScheduleFacts DEF ScheduleOK
<1>2. ticker' \in [Tickers -> TickerStates] /\ schedules' \in [Schedules -> ScheduleRows]
      /\ claims' \in [Schedules -> Nat]
  BY ScheduleFacts
<1>3. \A x \in Tickers : TickerOK(ticker'[x])
  BY ScheduleFacts
<1>4. \A x \in Tickers : TickerOK(ticker[x])'
  BY <1>3 DEF TickerOK
<1> QED BY <1>1, <1>2, <1>4 DEF SchedulesIInv

LEMMA RestingState == Resting \in TickerStates /\ Resting.at = "rest"
<1>1. NoSchedule \in ScheduleRows
  BY DEF NoSchedule, ScheduleRows
<1> QED BY <1>1 DEF Resting, TickerStates

(* Users: a schedule is created, comes due, is switched on or off, pulled forward, deleted. *)
LEMMA UserStepKeeps ==
    ASSUME SchedulesIInv, NEW s \in Schedules,
           \/ \E type \in ScheduleTypes, limit \in RunLimits : CreateSchedule(s, type, limit)
           \/ ComesDue(s) \/ Enable(s) \/ Disable(s) \/ RunNow(s) \/ DeleteSchedule(s)
    PROVE  SchedulesIInv'
<1>1. PICK r \in ScheduleRows : r = schedules[s]
  BY ScheduleFacts
<1>2. ASSUME NEW type \in ScheduleTypes, NEW limit \in RunLimits, CreateSchedule(s, type, limit)
      PROVE  SchedulesIInv'
  <2>1. PICK l \in RunLimits \cup {0, 1} : l = IF type = "ONCE" /\ limit = 0 THEN 1 ELSE limit
    OBVIOUS
  <2>2. [NoSchedule EXCEPT !.state = "enabled", !.type = type, !.more = TRUE, !.limit = l] \in ScheduleRows
    BY DEF NoSchedule, ScheduleRows
  <2>3. PICK row \in ScheduleRows :
            row = [NoSchedule EXCEPT !.state = "enabled", !.type = type, !.more = TRUE, !.limit = l]
    BY <2>2
  <2>4. row.runs = 0 /\ ~row.due /\ row.fails = 0 /\ row.state = "enabled"
    BY <2>3 DEF NoSchedule
  <2>5. schedules' = [schedules EXCEPT ![s] = row] /\ r.state = "absent"
        /\ UNCHANGED <<ticker, claims, clashed, reenabled>>
    BY <1>1, <1>2, <2>1, <2>3 DEF CreateSchedule
  <2>6. row.runs = schedules[s].runs /\ schedules[s].state = "absent"
    BY <1>1, <2>4, <2>5, ScheduleFacts DEF ScheduleOK
  <2>7. ~(row.fails >= MaxScheduleFailures)
    BY <2>4, ScheduledAssumption
  <2> QED BY <2>4, <2>5, <2>6, <2>7, OneSchedule
<1>3. ASSUME NEW row \in ScheduleRows, schedules' = [schedules EXCEPT ![s] = row], UNCHANGED <<ticker, claims, clashed>>,
             reenabled' \in {reenabled, reenabled \cup {s}}, row.due => row.more,
             r.state # "absent", row.state # "absent", row.runs = r.runs, row.limit = r.limit, row.fails = r.fails,
             row.state = "enabled" => r.state = "enabled" \/ s \in reenabled'
      PROVE  SchedulesIInv'
  <2>1. row.state = "enabled" /\ row.fails >= MaxScheduleFailures => s \in reenabled'
    BY <1>1, <1>3, ScheduleFacts DEF ScheduleOK
  <2> QED BY <1>1, <1>3, <2>1, OneSchedule
<1>4. CASE ComesDue(s)
  <2>1. [r EXCEPT !.due = TRUE] \in ScheduleRows
    BY DEF ScheduleRows
  <2>2. PICK row \in ScheduleRows : row = [r EXCEPT !.due = TRUE]
    BY <2>1
  <2>3. /\ row.state = r.state /\ row.runs = r.runs /\ row.limit = r.limit /\ row.fails = r.fails
        /\ row.more = r.more
    BY <2>2 DEF ScheduleRows
  <2>4. /\ schedules' = [schedules EXCEPT ![s] = row] /\ r.more /\ UNCHANGED <<ticker, claims, clashed, reenabled>>
    BY <1>1, <1>4, <2>2, ScheduleFacts DEF ComesDue
  <2>5. CASE r.state = "absent"
    BY <1>1, <2>4, <2>5, ScheduleFacts DEF ScheduleOK
  <2>6. CASE r.state # "absent"
    BY <1>3, <2>3, <2>4, <2>6
  <2> QED BY <2>5, <2>6
<1>5. CASE Enable(s)
  <2>1. PICK more \in BOOLEAN : more = (r.more \/ r.type # "ONCE") /\ (r.more => more)
    BY DEF ScheduleRows
  <2>2. [r EXCEPT !.state = "enabled", !.more = more] \in ScheduleRows
    BY DEF ScheduleRows
  <2>3. PICK row \in ScheduleRows : row = [r EXCEPT !.state = "enabled", !.more = more]
    BY <2>2
  <2>4. /\ row.state = "enabled" /\ row.runs = r.runs /\ row.limit = r.limit /\ row.fails = r.fails
        /\ row.more = more /\ row.due = r.due
    BY <2>3 DEF ScheduleRows
  <2>5. /\ schedules' = [schedules EXCEPT ![s] = row] /\ r.state = "disabled"
        /\ reenabled' = reenabled \cup {s} /\ UNCHANGED <<ticker, claims, clashed>>
    BY <1>1, <1>5, <2>1, <2>3, ScheduleFacts DEF Enable
  <2>6. row.due => row.more
    BY <1>1, <2>1, <2>4, ScheduleFacts DEF ScheduleOK
  <2> QED BY <1>3, <2>4, <2>5, <2>6
<1>6. CASE Disable(s) \/ DeleteSchedule(s)
  <2>1. PICK state \in {"disabled", "deleted"} : schedules' = [schedules EXCEPT ![s].state = state]
    BY <1>6 DEF Disable, DeleteSchedule
  <2>2. [r EXCEPT !.state = state] \in ScheduleRows
    BY DEF ScheduleRows
  <2>3. PICK row \in ScheduleRows : row = [r EXCEPT !.state = state]
    BY <2>2
  <2>4. /\ row.state = state /\ row.runs = r.runs /\ row.limit = r.limit /\ row.fails = r.fails
        /\ row.more = r.more /\ row.due = r.due
    BY <2>3 DEF ScheduleRows
  <2>5. /\ schedules' = [schedules EXCEPT ![s] = row] /\ r.state # "absent"
        /\ UNCHANGED <<ticker, claims, clashed, reenabled>>
    BY <1>1, <1>6, <2>1, <2>3, ScheduleFacts DEF Disable, DeleteSchedule
  <2>6. row.due => row.more
    BY <1>1, <2>4, ScheduleFacts DEF ScheduleOK
  <2> QED BY <1>3, <2>4, <2>5, <2>6
<1>7. CASE RunNow(s)
  <2>1. [r EXCEPT !.due = TRUE, !.more = TRUE] \in ScheduleRows
    BY DEF ScheduleRows
  <2>2. PICK row \in ScheduleRows : row = [r EXCEPT !.due = TRUE, !.more = TRUE]
    BY <2>1
  <2>3. /\ row.state = r.state /\ row.runs = r.runs /\ row.limit = r.limit /\ row.fails = r.fails
        /\ row.more
    BY <2>2 DEF ScheduleRows
  <2>4. /\ schedules' = [schedules EXCEPT ![s] = row] /\ r.state = "enabled"
        /\ UNCHANGED <<ticker, claims, clashed, reenabled>>
    BY <1>1, <1>7, <2>2, ScheduleFacts DEF RunNow
  <2> QED BY <1>3, <2>3, <2>4
<1> QED BY <1>2, <1>4, <1>5, <1>6, <1>7

(* A claim: loaded, then written over whatever the row is by then. *)
LEMMA ClaimKeeps ==
    ASSUME SchedulesIInv, NEW w \in Tickers, ClaimAdvance(w)
    PROVE  SchedulesIInv'
<1>1. PICK t \in TickerStates : t = ticker[w] /\ TickerOK(t) /\ t.at = "claim"
  BY ScheduleFacts DEF ClaimAdvance
<1>2. PICK s \in Schedules, r \in ScheduleRows, copy \in ScheduleRows :
          s = t.on /\ r = schedules[s] /\ copy = t.copy /\ r.state \notin {"absent", "deleted"}
  BY <1>1, ScheduleFacts DEF TickerOK, TickerStates, ClaimAdvance
<1>3. PICK more \in BOOLEAN, state \in {"enabled", "disabled"}, n \in Nat :
          /\ more = (copy.type # "ONCE") /\ state = (IF copy.type = "ONCE" THEN "disabled" ELSE r.state)
          /\ n = copy.runs + 1
  <2>1. copy.runs + 1 \in Nat /\ (copy.type # "ONCE") \in BOOLEAN
    BY DEF ScheduleRows
  <2>2. r.state \in {"enabled", "disabled"}
    BY <1>2 DEF ScheduleRows
  <2>3. (IF copy.type = "ONCE" THEN "disabled" ELSE r.state) \in {"enabled", "disabled"}
    BY <2>2
  <2> QED BY <2>1, <2>3
<1>4. [r EXCEPT !.due = FALSE, !.more = more, !.runs = n, !.state = state] \in ScheduleRows
  BY DEF ScheduleRows
<1>5. PICK row \in ScheduleRows : row = [r EXCEPT !.due = FALSE, !.more = more, !.runs = n, !.state = state]
  BY <1>4
<1>6. /\ row.state = state /\ row.runs = n /\ row.limit = r.limit /\ row.fails = r.fails /\ ~row.due
  BY <1>5 DEF ScheduleRows
<1>7. /\ schedules' = [schedules EXCEPT ![s] = row]
      /\ claims' = [claims EXCEPT ![s] = claims[s] + 1]
      /\ clashed' = (IF r.runs = copy.runs THEN clashed ELSE clashed \cup {s})
      /\ UNCHANGED reenabled
  <2>1. schedules' = [schedules EXCEPT ![s].due = FALSE, ![s].more = more, ![s].runs = n, ![s].state = state]
    BY <1>1, <1>2, <1>3 DEF ClaimAdvance
  <2>2. schedules' = [schedules EXCEPT ![s] = row]
    BY <1>2, <1>5, <2>1, ScheduleFacts
  <2> QED BY <1>1, <1>2, <2>2 DEF ClaimAdvance
<1>8. PICK u \in TickerStates : u = [t EXCEPT !.at = "fire", !.copy = NoSchedule] /\ u.at = "fire" /\ u.on = s
  <2>1. [t EXCEPT !.at = "fire", !.copy = NoSchedule] \in TickerStates
    BY DEF TickerStates, NoSchedule, ScheduleRows
  <2> QED BY <1>2, <2>1 DEF TickerStates
<1>9. ticker' = [ticker EXCEPT ![w] = u]
  BY <1>1, <1>8, ScheduleFacts DEF ClaimAdvance
<1>10. /\ schedules' \in [Schedules -> ScheduleRows] /\ schedules'[s] = row
       /\ claims' \in [Schedules -> Nat] /\ claims'[s] = claims[s] + 1
       /\ \A x \in Schedules \ {s} : schedules'[x] = schedules[x] /\ claims'[x] = claims[x]
       /\ ticker' \in [Tickers -> TickerStates]
  BY <1>7, <1>9, ScheduleFacts
<1>11. ScheduleOK(s)'
  <2>1. s \notin clashed' => claims'[s] = row.runs
    BY <1>2, <1>3, <1>6, <1>7, <1>10, ScheduleFacts DEF ScheduleOK
  <2>2. row.limit # 0 => row.runs <= row.limit
    <3>1. copy.limit = r.limit /\ (copy.limit # 0 => copy.runs < copy.limit)
      BY <1>1, <1>2 DEF TickerOK
    <3>2. copy.runs \in Nat /\ copy.limit \in Nat
      <4>1. copy.limit \in RunLimits \cup {0, 1} /\ \A x \in RunLimits : x \in Nat
        BY ScheduledAssumption DEF ScheduleRows
      <4> QED BY <4>1 DEF ScheduleRows
    <3> QED BY <1>3, <1>6, <3>1, <3>2
  <2>3. row.state = "enabled" /\ row.fails >= MaxScheduleFailures => s \in reenabled
    BY <1>2, <1>3, <1>6, ScheduleFacts DEF ScheduleOK
  <2>4. row.state # "absent"
    BY <1>6
  <2> QED BY <1>6, <1>7, <1>10, <2>1, <2>2, <2>3, <2>4 DEF ScheduleOK
<1>12. \A x \in Schedules \ {s} : ScheduleOK(x)'
  BY <1>7, <1>10, ScheduleFacts DEF ScheduleOK
<1>13. ASSUME NEW x \in Tickers
       PROVE  TickerOK(ticker[x])'
  <2>1. CASE x = w
    BY <1>2, <1>6, <1>8, <1>9, <1>10, <2>1, ScheduleFacts DEF TickerOK
  <2>2. CASE x # w
    <3>1. PICK v \in TickerStates : v = ticker[x] /\ v = ticker'[x] /\ TickerOK(v)
      BY <1>9, <2>2, ScheduleFacts
    <3>2. CASE v.on = s
      <4>1. row.state = "enabled" => r.state = "enabled"
        BY <1>3, <1>6
      <4> QED BY <1>2, <1>6, <1>7, <1>10, <3>1, <3>2, <4>1 DEF TickerOK
    <3>3. CASE v.on # s
      BY <1>7, <1>10, <3>1, <3>3 DEF TickerOK
    <3> QED BY <3>2, <3>3
  <2> QED BY <2>1, <2>2
<1> QED BY <1>10, <1>11, <1>12, <1>13 DEF SchedulesIInv

(* The outcome: loaded, then written over whatever the row is by then. *)
LEMMA MarkKeeps ==
    ASSUME SchedulesIInv, NEW w \in Tickers, MarkOutcome(w)
    PROVE  SchedulesIInv'
<1>1. PICK t \in TickerStates : t = ticker[w] /\ TickerOK(t) /\ t.at = "mark"
  BY ScheduleFacts DEF MarkOutcome
<1>2. PICK s \in Schedules, r \in ScheduleRows, copy \in ScheduleRows :
          s = t.on /\ r = schedules[s] /\ copy = t.copy /\ r.state \notin {"absent", "deleted"}
  BY <1>1, ScheduleFacts DEF TickerOK, TickerStates, MarkOutcome
<1>3. PICK n \in Nat, off \in BOOLEAN :
          n = copy.fails + 1 /\ off = (n >= MaxScheduleFailures /\ copy.state = "enabled")
  <2>1. copy.fails + 1 \in Nat
    BY DEF ScheduleRows
  <2> QED BY <2>1
<1>4. PICK state \in {"enabled", "disabled"} : state = IF off THEN "disabled" ELSE r.state
  BY <1>2 DEF ScheduleRows
<1>5. PICK row \in ScheduleRows :
          /\ row = [r EXCEPT !.fails = n, !.state = state]
          /\ row.runs = r.runs /\ row.limit = r.limit /\ row.due = r.due /\ row.more = r.more
          /\ row.fails = n /\ row.state = state
  <2>1. [r EXCEPT !.fails = n, !.state = state] \in ScheduleRows
    BY DEF ScheduleRows
  <2>2. PICK row \in ScheduleRows : row = [r EXCEPT !.fails = n, !.state = state]
    BY <2>1
  <2>3. /\ row.runs = r.runs /\ row.limit = r.limit /\ row.due = r.due /\ row.more = r.more
        /\ row.fails = n /\ row.state = state
    BY <2>2 DEF ScheduleRows
  <2> QED BY <2>2, <2>3
<1>6. /\ schedules' = [schedules EXCEPT ![s] = row] /\ ticker' = [ticker EXCEPT ![w] = Resting]
      /\ reenabled' = (IF off THEN reenabled \ {s} ELSE reenabled)
      /\ UNCHANGED <<claims, clashed>>
  <2>1. schedules' = [schedules EXCEPT ![s].fails = n, ![s].state = state]
    BY <1>1, <1>2, <1>3, <1>4 DEF MarkOutcome
  <2>2. schedules' = [schedules EXCEPT ![s] = row]
    BY <1>2, <1>5, <2>1, ScheduleFacts
  <2> QED BY <1>1, <1>2, <1>3, <2>2 DEF MarkOutcome
<1>7. /\ schedules' \in [Schedules -> ScheduleRows] /\ schedules'[s] = row /\ UNCHANGED claims
      /\ \A x \in Schedules \ {s} : schedules'[x] = schedules[x]
      /\ ticker' \in [Tickers -> TickerStates]
  BY <1>6, ScheduleFacts, RestingState
<1>8. /\ row.limit = schedules[s].limit /\ row.state # "absent"
      /\ row.state = "enabled" => r.state = "enabled" /\ reenabled' = reenabled
  BY <1>2, <1>4, <1>5, <1>6
<1>9. ScheduleOK(s)'
  <2>1. row.state = "enabled" /\ row.fails >= MaxScheduleFailures => s \in reenabled'
    <3>1. row.state = "enabled" /\ row.fails >= MaxScheduleFailures => copy.state # "enabled"
      BY <1>3, <1>4, <1>5
    <3> QED BY <1>1, <1>2, <1>8, <3>1 DEF TickerOK
  <2> QED BY <1>2, <1>5, <1>6, <1>7, <2>1, ScheduleFacts DEF ScheduleOK
<1>10. \A x \in Schedules \ {s} : ScheduleOK(x)'
  BY <1>6, <1>7, ScheduleFacts DEF ScheduleOK
<1>11. ASSUME NEW x \in Tickers
       PROVE  TickerOK(ticker[x])'
  <2>1. CASE x = w
    BY <1>6, <2>1, ScheduleFacts, RestingState DEF TickerOK
  <2>2. CASE x # w
    <3>1. PICK v \in TickerStates : v = ticker[x] /\ v = ticker'[x] /\ TickerOK(v)
      BY <1>6, <2>2, ScheduleFacts
    <3>2. CASE v.on = s
      BY <1>2, <1>7, <1>8, <3>1, <3>2 DEF TickerOK
    <3>3. CASE v.on # s
      BY <1>6, <1>7, <3>1, <3>3 DEF TickerOK
    <3> QED BY <3>2, <3>3
  <2> QED BY <2>1, <2>2
<1> QED BY <1>7, <1>9, <1>10, <1>11 DEF SchedulesIInv

LEMMA TickKeeps ==
    ASSUME SchedulesIInv, NEW w \in Tickers, ScheduleTick(w) \/ TickerDies(w)
    PROVE  SchedulesIInv'
<1>1. ASSUME NEW s \in Schedules, ClaimLoad(w, s)
      PROVE  SchedulesIInv'
  <2>1. [at |-> "claim", on |-> s, copy |-> schedules[s]] \in TickerStates
    BY ScheduleFacts DEF TickerStates
  <2>2. PICK t \in TickerStates : t = [at |-> "claim", on |-> s, copy |-> schedules[s]]
    BY <2>1
  <2>3. TickerOK(t)
    <3>1. schedules[s].limit # 0 => schedules[s].runs < schedules[s].limit
      <4>1. schedules[s].limit \in RunLimits \cup {0, 1} /\ \A x \in RunLimits : x \in Nat
        BY ScheduledAssumption, ScheduleFacts DEF ScheduleRows
      <4>2. schedules[s].runs \in Nat
        BY ScheduleFacts DEF ScheduleRows
      <4> QED BY <1>1, <4>1, <4>2 DEF ClaimLoad, DueToClaim, Exhausted
    <3> QED BY <1>1, <2>2, <3>1 DEF TickerOK, ClaimLoad, DueToClaim
  <2>4. ticker' = [ticker EXCEPT ![w] = t] /\ UNCHANGED <<schedules, claims, clashed, reenabled>>
    BY <1>1, <2>2 DEF ClaimLoad
  <2> QED BY <2>3, <2>4, OneTicker
<1>2. CASE RowLost(w) \/ TickerDies(w) \/ (FireSchedule(w) /\ schedules[ticker[w].on].state = "deleted")
  <2>1. PICK t \in TickerStates : t = Resting /\ t.at = "rest"
    BY RestingState
  <2>2. ticker' = [ticker EXCEPT ![w] = t] /\ UNCHANGED <<schedules, claims, clashed, reenabled>>
    BY <1>2, <2>1 DEF RowLost, TickerDies, FireSchedule
  <2> QED BY <2>1, <2>2, OneTicker DEF TickerOK
<1>3. CASE FireSchedule(w) /\ schedules[ticker[w].on].state # "deleted"
  <2>1. PICK t \in TickerStates : t = ticker[w] /\ TickerOK(t) /\ t.at = "fire"
    BY <1>3, ScheduleFacts DEF FireSchedule
  <2>2. PICK row \in ScheduleRows : row = schedules[t.on] /\ row.state # "absent" /\ t.on \in Schedules
    BY <2>1, ScheduleFacts DEF TickerOK
  <2>3. PICK u \in TickerStates : u = [t EXCEPT !.at = "mark", !.copy = row] /\ u.at = "mark"
                                  /\ u.on = t.on /\ u.copy = row
    <3>1. [t EXCEPT !.at = "mark", !.copy = row] \in TickerStates
      BY DEF TickerStates
    <3> QED BY <3>1 DEF TickerStates
  <2>4. TickerOK(u)
    BY <2>2, <2>3 DEF TickerOK
  <2>5. ticker' = [ticker EXCEPT ![w] = u] /\ UNCHANGED <<schedules, claims, clashed, reenabled>>
    BY <1>3, <2>1, <2>2, <2>3, ScheduleFacts DEF FireSchedule
  <2> QED BY <2>4, <2>5, OneTicker
<1> QED BY <1>1, <1>2, <1>3, ClaimKeeps, MarkKeeps DEF ScheduleTick

LEMMA SchedulesStep == SchedulesIInv /\ [ScheduledNext]_scheduledVars => SchedulesIInv'
<1>1. ASSUME SchedulesIInv, ScheduleStep
      PROVE  SchedulesIInv'
  BY <1>1, UserStepKeeps, TickKeeps DEF ScheduleStep
<1>2. ASSUME SchedulesIInv, UNCHANGED scheduleVars
      PROVE  SchedulesIInv'
  BY <1>2 DEF SchedulesIInv, scheduleVars, ScheduleOK, TickerOK
<1>3. WebhookStep => UNCHANGED scheduleVars
  BY DEF WebhookStep, EmitRunEvent, RetryComesDue, ToggleHook, DeliverLoad, DeliverCommit, PosterDies, PostOne
<1>4. UNCHANGED scheduledVars => UNCHANGED scheduleVars
  BY DEF scheduledVars, scheduleVars
<1> QED BY <1>1, <1>2, <1>3, <1>4 DEF ScheduledNext

----------------------------------------------------------------------------
(* Run webhooks. *)

Verdicts == UNION {[due -> DeliveryRows] : due \in SUBSET Deliveries}

PosterStates == [at : {"rest", "post"}, rows : SUBSET Deliveries, hook : {"on", "off"}, verdict : Verdicts]

(* A row of delivery d, in the table or in a tick's hands, tells the truth. *)
VerdictOK(d, v) ==
    /\ v.attempts <= posts[d]
    /\ v.status \in {"none", "PENDING"} => v.attempts < MaxPosts
    /\ v.status = "DELIVERED" => d \in received
    /\ v.status = "FAILED" => posts[d] >= MaxPosts \/ hookWasOff

PosterOK(p) ==
    p.at = "post" =>
        /\ p.hook = "off" => hookWasOff
        /\ p.rows \subseteq DOMAIN p.verdict
        /\ \A d \in DOMAIN p.verdict : VerdictOK(d, p.verdict[d])
        /\ \A d \in p.rows : p.verdict[d].status = "PENDING"

HooksIInv ==
    /\ queue \in [Deliveries -> DeliveryRows] /\ posts \in [Deliveries -> Nat]
    /\ poster \in [Tickers -> PosterStates]
    /\ hook \in {"on", "off"} /\ (hook = "off" => hookWasOff)
    /\ \A d \in Deliveries : VerdictOK(d, queue[d])
    /\ \A w \in Tickers : PosterOK(poster[w])

LEMMA HookFacts ==
    ASSUME HooksIInv
    PROVE  /\ queue \in [Deliveries -> DeliveryRows] /\ posts \in [Deliveries -> Nat]
           /\ poster \in [Tickers -> PosterStates]
           /\ hook \in {"on", "off"} /\ (hook = "off" => hookWasOff)
           /\ \A d \in Deliveries : queue[d] \in DeliveryRows /\ posts[d] \in Nat /\ VerdictOK(d, queue[d])
           /\ \A w \in Tickers : poster[w] \in PosterStates /\ PosterOK(poster[w])
BY DEF HooksIInv

LEMMA VerdictRows ==
    ASSUME NEW p \in PosterStates
    PROVE  /\ DOMAIN p.verdict \subseteq Deliveries
           /\ \A d \in DOMAIN p.verdict : p.verdict[d] \in DeliveryRows
           /\ p.verdict \in [DOMAIN p.verdict -> DeliveryRows]
BY DEF PosterStates, Verdicts

(* Posts, acceptances and the switch are not taken back, so neither is what follows from them. *)
LEMMA VerdictStays ==
    ASSUME HooksIInv, NEW d \in Deliveries, NEW v \in DeliveryRows, VerdictOK(d, v),
           posts' \in [Deliveries -> Nat], posts'[d] >= posts[d], received \subseteq received',
           hookWasOff => hookWasOff'
    PROVE  VerdictOK(d, v)'
<1>1. posts[d] \in Nat /\ posts'[d] \in Nat /\ v.attempts \in Int /\ MaxPosts \in Int
  BY HookFacts, ScheduledAssumption DEF DeliveryRows
<1> QED BY <1>1 DEF VerdictOK

LEMMA PosterStays ==
    ASSUME HooksIInv, NEW p \in PosterStates, PosterOK(p),
           posts' \in [Deliveries -> Nat], \A d \in Deliveries : posts'[d] >= posts[d],
           received \subseteq received', hookWasOff => hookWasOff'
    PROVE  PosterOK(p)'
<1>1. ASSUME NEW d \in DOMAIN p.verdict, VerdictOK(d, p.verdict[d])
      PROVE  VerdictOK(d, p.verdict[d])'
  <2>1. d \in Deliveries /\ p.verdict[d] \in DeliveryRows
    BY VerdictRows
  <2> QED BY <1>1, <2>1, VerdictStays
<1> QED BY <1>1 DEF PosterOK

(* A step of a tick that does not touch the table. *)
LEMMA OnePoster ==
    ASSUME HooksIInv, NEW w \in Tickers, NEW p \in PosterStates, poster' = [poster EXCEPT ![w] = p],
           posts' \in [Deliveries -> Nat], \A d \in Deliveries : posts'[d] >= posts[d],
           received \subseteq received', UNCHANGED <<hook, hookWasOff, queue>>, PosterOK(p)'
    PROVE  HooksIInv'
<1>1. poster' \in [Tickers -> PosterStates] /\ poster'[w] = p /\ \A x \in Tickers \ {w} : poster'[x] = poster[x]
  BY HookFacts
<1>2. \A d \in Deliveries : VerdictOK(d, queue[d])'
  <2>1. ASSUME NEW d \in Deliveries
        PROVE  VerdictOK(d, queue[d])'
    <3>1. PICK v \in DeliveryRows : v = queue[d] /\ v = queue'[d] /\ VerdictOK(d, v)
      BY HookFacts
    <3>2. VerdictOK(d, v)'
      BY <3>1, VerdictStays
    <3> QED BY <3>1, <3>2
  <2> QED BY <2>1
<1>3. ASSUME NEW x \in Tickers
      PROVE  PosterOK(poster[x])'
  <2>1. CASE x = w
    BY <1>1, <2>1
  <2>2. CASE x # w
    <3>1. PICK q \in PosterStates : q = poster[x] /\ q = poster'[x] /\ PosterOK(q)
      BY <1>1, <2>2, HookFacts
    <3>2. PosterOK(q)'
      BY <3>1, PosterStays
    <3> QED BY <3>1, <3>2
  <2> QED BY <2>1, <2>2
<1> QED BY <1>1, <1>2, <1>3, HookFacts DEF HooksIInv

LEMMA NoPostsState == NoPosts \in PosterStates /\ NoPosts.at = "rest"
<1>1. << >> \in [{} -> DeliveryRows]
  OBVIOUS
<1>2. << >> \in Verdicts
  BY <1>1 DEF Verdicts
<1> QED BY <1>2 DEF NoPosts, PosterStates

(* A step that writes the table; the ticks go on, or one of them comes to rest. *)
LEMMA NewQueue ==
    ASSUME HooksIInv, queue' \in [Deliveries -> DeliveryRows], \A d \in Deliveries : VerdictOK(d, queue'[d]),
           UNCHANGED <<hook, hookWasOff, posts, received>>,
           poster' = poster \/ \E w \in Tickers : poster' = [poster EXCEPT ![w] = NoPosts]
    PROVE  HooksIInv'
<1>1. \A d \in Deliveries : VerdictOK(d, queue[d])'
  BY DEF VerdictOK
<1>2. poster' \in [Tickers -> PosterStates]
  BY HookFacts, NoPostsState
<1>3. ASSUME NEW w \in Tickers
      PROVE  PosterOK(poster[w])'
  <2>1. PICK p \in PosterStates : p = poster'[w]
    BY <1>2
  <2>2. PosterOK(p)
    <3>1. p = poster[w] \/ p = NoPosts
      BY <2>1, HookFacts
    <3> QED BY <3>1, HookFacts, NoPostsState DEF PosterOK
  <2>3. PosterOK(p)'
    BY <2>2 DEF PosterOK, VerdictOK
  <2> QED BY <2>1, <2>3
<1> QED BY <1>1, <1>2, <1>3, HookFacts DEF HooksIInv

(* An event is queued, a retry comes due, the user switches the webhook. *)
LEMMA QueueStepKeeps ==
    ASSUME HooksIInv, NEW d \in Deliveries, EmitRunEvent(d) \/ RetryComesDue(d)
    PROVE  HooksIInv'
<1>1. PICK r \in DeliveryRows : r = queue[d] /\ VerdictOK(d, r)
  BY HookFacts
<1>2. ASSUME NEW row \in DeliveryRows, queue' = [queue EXCEPT ![d] = row], row.status = "PENDING",
             r.status \in {"none", "PENDING"}, row.attempts = r.attempts,
             UNCHANGED <<hook, hookWasOff, poster, posts, received>>
      PROVE  HooksIInv'
  <2>1. queue' \in [Deliveries -> DeliveryRows] /\ queue'[d] = row /\ \A x \in Deliveries \ {d} : queue'[x] = queue[x]
    BY <1>2, HookFacts
  <2>2. VerdictOK(d, row)
    BY <1>1, <1>2 DEF VerdictOK
  <2>3. \A x \in Deliveries : VerdictOK(x, queue'[x])
    BY <2>1, <2>2, HookFacts
  <2> QED BY <1>2, <2>1, <2>3, NewQueue
<1>3. CASE EmitRunEvent(d)
  <2>1. [r EXCEPT !.status = "PENDING"] \in DeliveryRows
    BY DEF DeliveryRows
  <2>2. PICK row \in DeliveryRows : row = [r EXCEPT !.status = "PENDING"]
    BY <2>1
  <2>3. row.status = "PENDING" /\ row.attempts = r.attempts
    BY <2>2 DEF DeliveryRows
  <2>4. /\ queue' = [queue EXCEPT ![d] = row] /\ r.status = "none"
        /\ UNCHANGED <<hook, hookWasOff, poster, posts, received>>
    BY <1>1, <1>3, <2>2, HookFacts DEF EmitRunEvent
  <2> QED BY <1>2, <2>3, <2>4
<1>4. CASE RetryComesDue(d)
  <2>1. [r EXCEPT !.due = TRUE] \in DeliveryRows
    BY DEF DeliveryRows
  <2>2. PICK row \in DeliveryRows : row = [r EXCEPT !.due = TRUE]
    BY <2>1
  <2>3. row.status = r.status /\ row.attempts = r.attempts
    BY <2>2 DEF DeliveryRows
  <2>4. /\ queue' = [queue EXCEPT ![d] = row] /\ r.status = "PENDING"
        /\ UNCHANGED <<hook, hookWasOff, poster, posts, received>>
    BY <1>1, <1>4, <2>2, HookFacts DEF RetryComesDue
  <2> QED BY <1>2, <2>3, <2>4
<1> QED BY <1>3, <1>4

LEMMA ToggleKeeps ==
    ASSUME HooksIInv, ToggleHook
    PROVE  HooksIInv'
<1>1. /\ hook' \in {"on", "off"} /\ hookWasOff' = TRUE /\ UNCHANGED <<queue, poster, posts, received>>
  BY HookFacts DEF ToggleHook
<1>2. ASSUME NEW d \in Deliveries
      PROVE  VerdictOK(d, queue[d])'
  <2>1. PICK v \in DeliveryRows : v = queue[d] /\ v = queue'[d] /\ VerdictOK(d, v)
    BY <1>1, HookFacts
  <2> QED BY <1>1, <2>1 DEF VerdictOK
<1>3. ASSUME NEW w \in Tickers
      PROVE  PosterOK(poster[w])'
  <2>1. PICK p \in PosterStates : p = poster[w] /\ p = poster'[w] /\ PosterOK(p)
    BY <1>1, HookFacts
  <2>2. posts' \in [Deliveries -> Nat] /\ \A d \in Deliveries : posts'[d] >= posts[d]
    BY <1>1, HookFacts
  <2>3. PosterOK(p)'
    BY <1>1, <2>1, <2>2, PosterStays
  <2> QED BY <2>1, <2>3
<1> QED BY <1>1, <1>2, <1>3, HookFacts DEF HooksIInv

(* A tick takes the due rows as they stand. *)
LEMMA DeliverLoadKeeps ==
    ASSUME HooksIInv, NEW w \in Tickers, DeliverLoad(w)
    PROVE  HooksIInv'
<1> DEFINE due == {d \in Deliveries : queue[d].status = "PENDING" /\ queue[d].due}
           p == [at |-> "post", rows |-> due, hook |-> hook, verdict |-> [d \in due |-> queue[d]]]
<1>1. due \in SUBSET Deliveries /\ \A d \in due : queue[d].status = "PENDING"
  OBVIOUS
<1>2. [d \in due |-> queue[d]] \in [due -> DeliveryRows]
  BY <1>1, HookFacts
<1>3. [d \in due |-> queue[d]] \in Verdicts
  BY <1>1, <1>2 DEF Verdicts
<1>4. p \in PosterStates
  BY <1>1, <1>3, HookFacts DEF PosterStates
<1>5. poster' = [poster EXCEPT ![w] = p] /\ UNCHANGED <<hook, hookWasOff, queue, posts, received>>
  BY DEF DeliverLoad
<1>6. /\ p.at = "post" /\ p.rows = due /\ p.hook = hook /\ DOMAIN p.verdict = due
      /\ \A d \in due : p.verdict[d] = queue[d]
  OBVIOUS
<1>7. PICK q \in PosterStates : q = p
  BY <1>4
<1>8. /\ q.at = "post" /\ q.rows = due /\ q.hook = hook /\ DOMAIN q.verdict = due
      /\ \A d \in due : q.verdict[d] = queue[d]
  BY <1>6, <1>7
<1>9. PosterOK(q)
  <2>1. \A d \in due : VerdictOK(d, q.verdict[d])
    BY <1>1, <1>8, HookFacts
  <2> HIDE DEF due
  <2> QED BY <1>1, <1>8, <2>1, HookFacts DEF PosterOK
<1>10. PosterOK(q)'
  BY <1>5, <1>9 DEF PosterOK, VerdictOK
<1>11. poster' = [poster EXCEPT ![w] = q]
  BY <1>5, <1>7
<1>12. posts' \in [Deliveries -> Nat] /\ \A d \in Deliveries : posts'[d] >= posts[d]
  BY <1>5, HookFacts
<1> QED BY <1>5, <1>10, <1>11, <1>12, OnePoster

(* What a post does to a row. *)
LEMMA AfterPostRow ==
    ASSUME NEW v \in DeliveryRows, v.status = "PENDING", v.attempts < MaxPosts, NEW ok \in BOOLEAN
    PROVE  /\ AfterPost(v, ok) \in DeliveryRows /\ AfterPost(v, ok).attempts = v.attempts + 1
           /\ AfterPost(v, ok).status \in {"PENDING", "DELIVERED", "FAILED"}
           /\ AfterPost(v, ok).status = "DELIVERED" => ok
           /\ AfterPost(v, ok).status = "FAILED" <=> ~ok /\ v.attempts + 1 >= MaxPosts
<1>1. v.attempts \in Nat /\ MaxPosts \in Nat /\ v.attempts + 1 \in 0 .. MaxPosts
  BY ScheduledAssumption DEF DeliveryRows
<1>2. CASE ok
  <2>1. AfterPost(v, ok) = [v EXCEPT !.status = "DELIVERED", !.attempts = v.attempts + 1]
    BY <1>2 DEF AfterPost
  <2> QED BY <1>1, <1>2, <2>1 DEF DeliveryRows
<1>3. CASE ~ok /\ v.attempts + 1 >= MaxPosts
  <2>1. AfterPost(v, ok) = [v EXCEPT !.status = "FAILED", !.attempts = v.attempts + 1]
    BY <1>3 DEF AfterPost
  <2> QED BY <1>1, <1>3, <2>1 DEF DeliveryRows
<1>4. CASE ~ok /\ ~(v.attempts + 1 >= MaxPosts)
  <2>1. AfterPost(v, ok) = [v EXCEPT !.attempts = v.attempts + 1, !.due = FALSE]
    BY <1>4 DEF AfterPost
  <2> QED BY <1>1, <1>4, <2>1 DEF DeliveryRows
<1> QED BY <1>2, <1>3, <1>4

(* One row of a batch gets its verdict. *)
LEMMA OneVerdict ==
    ASSUME HooksIInv, NEW w \in Tickers, NEW p \in PosterStates, p = poster[w], p.at = "post",
           NEW d \in p.rows, NEW n \in DeliveryRows,
           poster' = [poster EXCEPT ![w] = [p EXCEPT !.rows = p.rows \ {d}, !.verdict = [p.verdict EXCEPT ![d] = n]]],
           posts' \in [Deliveries -> Nat], \A x \in Deliveries : posts'[x] >= posts[x],
           received \subseteq received', UNCHANGED <<hook, hookWasOff, queue>>, VerdictOK(d, n)'
    PROVE  HooksIInv'
<1>1. PosterOK(p) /\ p.verdict \in [DOMAIN p.verdict -> DeliveryRows] /\ DOMAIN p.verdict \subseteq Deliveries
  BY HookFacts, VerdictRows
<1>2. d \in DOMAIN p.verdict /\ (p.hook = "off" => hookWasOff) /\ p.rows \subseteq DOMAIN p.verdict
      /\ \A x \in p.rows : p.verdict[x].status = "PENDING"
  BY <1>1 DEF PosterOK
<1>3. PICK v : v = [p.verdict EXCEPT ![d] = n]
  OBVIOUS
<1>4. /\ DOMAIN v = DOMAIN p.verdict /\ v[d] = n /\ \A x \in DOMAIN p.verdict \ {d} : v[x] = p.verdict[x]
      /\ v \in [DOMAIN p.verdict -> DeliveryRows]
  BY <1>1, <1>2, <1>3
<1>5. v \in Verdicts
  BY <1>1, <1>4 DEF Verdicts
<1>6. [p EXCEPT !.rows = p.rows \ {d}, !.verdict = v] \in PosterStates
  BY <1>5 DEF PosterStates
<1>7. PICK q \in PosterStates : q = [p EXCEPT !.rows = p.rows \ {d}, !.verdict = v]
  BY <1>6
<1>8. q.rows = p.rows \ {d} /\ q.verdict = v /\ q.hook = p.hook
  BY <1>7 DEF PosterStates
<1>9. \A x \in DOMAIN q.verdict : VerdictOK(x, q.verdict[x])'
  <2>1. ASSUME NEW x \in DOMAIN v
        PROVE  VerdictOK(x, v[x])'
    <3>1. CASE x = d
      BY <1>4, <3>1
    <3>2. CASE x # d
      <4>1. v[x] = p.verdict[x] /\ x \in Deliveries
        BY <1>1, <1>4, <3>2
      <4>2. PICK r \in DeliveryRows : r = v[x] /\ VerdictOK(x, r)
        BY <1>1, <1>4, <4>1 DEF PosterOK
      <4>3. VerdictOK(x, r)'
        BY <4>1, <4>2, VerdictStays
      <4> QED BY <4>2, <4>3
    <3> QED BY <3>1, <3>2
  <2> QED BY <1>8, <2>1
<1>10. q.rows \subseteq DOMAIN q.verdict /\ \A x \in q.rows : q.verdict[x].status = "PENDING"
  BY <1>2, <1>4, <1>8
<1>11. PosterOK(q)'
  BY <1>2, <1>8, <1>9, <1>10 DEF PosterOK
<1>12. poster' = [poster EXCEPT ![w] = q]
  BY <1>3, <1>7
<1> QED BY <1>11, <1>12, OnePoster

(* One row of the batch is posted, or given up because the webhook is off. *)
LEMMA PostOneKeeps ==
    ASSUME HooksIInv, NEW w \in Tickers, NEW d \in Deliveries, PostOne(w, d)
    PROVE  HooksIInv'
<1>1. PICK p \in PosterStates : p = poster[w] /\ PosterOK(p)
  BY HookFacts
<1>2. p.at = "post" /\ d \in p.rows /\ UNCHANGED <<hook, hookWasOff, queue>>
  BY <1>1 DEF PostOne
<1>3. d \in DOMAIN p.verdict /\ p.verdict[d] \in DeliveryRows
  BY <1>1, <1>2, VerdictRows DEF PosterOK
<1>4. PICK r \in DeliveryRows : r = p.verdict[d] /\ VerdictOK(d, r) /\ r.status = "PENDING"
  BY <1>1, <1>2, <1>3 DEF PosterOK
<1>5. r.attempts < MaxPosts /\ r.attempts <= posts[d] /\ r.attempts \in Nat /\ posts[d] \in Nat /\ MaxPosts \in Nat
  BY <1>4, HookFacts, ScheduledAssumption DEF VerdictOK, DeliveryRows
<1>6. ASSUME NEW ok \in BOOLEAN, received' = IF ok THEN received \cup {d} ELSE received,
             posts' = [posts EXCEPT ![d] = @ + 1],
             poster' = [poster EXCEPT ![w].rows = @ \ {d}, ![w].verdict[d] = AfterPost(@, ok)]
      PROVE  HooksIInv'
  <2>1. PICK n \in DeliveryRows : /\ n = AfterPost(r, ok) /\ n.attempts = r.attempts + 1
                                  /\ n.status \in {"PENDING", "DELIVERED", "FAILED"}
                                  /\ n.status = "DELIVERED" => ok
                                  /\ n.status = "FAILED" <=> ~ok /\ r.attempts + 1 >= MaxPosts
    BY <1>4, <1>5, AfterPostRow
  <2>2. /\ posts' \in [Deliveries -> Nat] /\ posts'[d] = posts[d] + 1
        /\ \A x \in Deliveries : posts'[x] >= posts[x]
    BY <1>6, HookFacts
  <2>3. received \subseteq received' /\ (ok => d \in received')
    BY <1>6
  <2>4. n.status = "FAILED" => posts'[d] >= MaxPosts
    BY <1>5, <2>1, <2>2
  <2>5. n.status = "PENDING" => n.attempts < MaxPosts
    <3>1. CASE ok
      <4>1. n.status = "DELIVERED"
        BY <1>4, <2>1, <3>1 DEF AfterPost, DeliveryRows
      <4> QED BY <4>1
    <3>2. CASE ~ok
      BY <1>5, <2>1, <3>2
    <3> QED BY <3>1, <3>2
  <2>6. n.attempts <= posts'[d]
    BY <1>5, <2>1, <2>2
  <2>7. VerdictOK(d, n)'
    BY <2>1, <2>3, <2>4, <2>5, <2>6 DEF VerdictOK
  <2>8. poster' = [poster EXCEPT ![w] = [p EXCEPT !.rows = p.rows \ {d}, !.verdict = [p.verdict EXCEPT ![d] = n]]]
    BY <1>1, <1>3, <1>4, <1>6, <2>1, HookFacts
  <2> QED BY <1>1, <1>2, <2>2, <2>3, <2>7, <2>8, OneVerdict
<1>7. ASSUME p.hook = "off", UNCHANGED <<posts, received>>,
             poster' = [poster EXCEPT ![w].rows = @ \ {d}, ![w].verdict[d].status = "FAILED"]
      PROVE  HooksIInv'
  <2>1. [r EXCEPT !.status = "FAILED"] \in DeliveryRows
    BY DEF DeliveryRows
  <2>2. PICK n \in DeliveryRows : n = [r EXCEPT !.status = "FAILED"]
    BY <2>1
  <2>3. n.status = "FAILED" /\ n.attempts = r.attempts
    BY <2>2 DEF DeliveryRows
  <2>4. hookWasOff
    BY <1>1, <1>2, <1>7 DEF PosterOK
  <2>5. VerdictOK(d, n)'
    BY <1>2, <1>5, <1>7, <2>3, <2>4 DEF VerdictOK
  <2>6. posts' \in [Deliveries -> Nat] /\ \A x \in Deliveries : posts'[x] >= posts[x]
    BY <1>7, HookFacts
  <2>7. poster' = [poster EXCEPT ![w] = [p EXCEPT !.rows = p.rows \ {d}, !.verdict = [p.verdict EXCEPT ![d] = n]]]
    BY <1>1, <1>3, <1>4, <1>7, <2>2, HookFacts
  <2> QED BY <1>1, <1>2, <1>7, <2>5, <2>6, <2>7, OneVerdict
<1>8. \/ /\ p.hook = "off" /\ UNCHANGED <<posts, received>>
         /\ poster' = [poster EXCEPT ![w].rows = @ \ {d}, ![w].verdict[d].status = "FAILED"]
      \/ /\ posts' = [posts EXCEPT ![d] = @ + 1]
         /\ \E ok \in BOOLEAN :
               /\ poster' = [poster EXCEPT ![w].rows = @ \ {d}, ![w].verdict[d] = AfterPost(@, ok)]
               /\ received' = IF ok THEN received \cup {d} ELSE received
  BY <1>1 DEF PostOne
<1> QED BY <1>6, <1>7, <1>8

(* The batch is committed: a verdict is written, a status that did not change is left as it is. *)
LEMMA DeliverCommitKeeps ==
    ASSUME HooksIInv, NEW w \in Tickers, DeliverCommit(w)
    PROVE  HooksIInv'
<1>1. PICK p \in PosterStates : p = poster[w] /\ PosterOK(p)
  BY HookFacts
<1>2. p.at = "post" /\ UNCHANGED <<hook, hookWasOff, posts, received>>
      /\ poster' = [poster EXCEPT ![w] = NoPosts]
  BY <1>1 DEF DeliverCommit
<1> DEFINE row(d) == IF d \notin DOMAIN p.verdict THEN queue[d]
                     ELSE IF p.verdict[d].status = "PENDING" THEN [p.verdict[d] EXCEPT !.status = queue[d].status]
                     ELSE p.verdict[d]
<1>3. queue' = [d \in Deliveries |-> row(d)]
  BY <1>1 DEF DeliverCommit
<1>4. ASSUME NEW d \in Deliveries
      PROVE  row(d) \in DeliveryRows /\ VerdictOK(d, row(d))
  <2>1. CASE d \notin DOMAIN p.verdict
    BY <2>1, HookFacts
  <2>2. CASE d \in DOMAIN p.verdict
    <3>1. PICK r \in DeliveryRows : r = queue[d] /\ VerdictOK(d, r)
      BY HookFacts
    <3>2. p.verdict[d] \in DeliveryRows
      BY <2>2, VerdictRows
    <3>3. PICK v \in DeliveryRows : v = p.verdict[d] /\ VerdictOK(d, v)
      BY <1>1, <1>2, <2>2, <3>2 DEF PosterOK
    <3>4. CASE v.status = "PENDING"
      <4>1. [v EXCEPT !.status = r.status] \in DeliveryRows
        BY DEF DeliveryRows
      <4>2. PICK n \in DeliveryRows : n = [v EXCEPT !.status = r.status]
        BY <4>1
      <4>3. n.status = r.status /\ n.attempts = v.attempts
        BY <4>2 DEF DeliveryRows
      <4>4. VerdictOK(d, n)
        BY <3>1, <3>3, <3>4, <4>3 DEF VerdictOK
      <4>5. row(d) = n
        BY <2>2, <3>1, <3>3, <3>4, <4>2
      <4> QED BY <4>4, <4>5
    <3>5. CASE v.status # "PENDING"
      <4>1. row(d) = v
        BY <2>2, <3>3, <3>5
      <4> QED BY <3>3, <4>1
    <3> QED BY <3>4, <3>5
  <2> QED BY <2>1, <2>2
<1>5. queue' \in [Deliveries -> DeliveryRows] /\ \A d \in Deliveries : VerdictOK(d, queue'[d])
  <2> HIDE DEF row
  <2> QED BY <1>3, <1>4
<1> QED BY <1>2, <1>5, NewQueue

LEMMA PosterDiesKeeps ==
    ASSUME HooksIInv, NEW w \in Tickers, PosterDies(w)
    PROVE  HooksIInv'
<1>1. /\ poster' = [poster EXCEPT ![w] = NoPosts]
      /\ UNCHANGED <<hook, hookWasOff, queue, posts, received>>
  BY DEF PosterDies
<1>2. queue' \in [Deliveries -> DeliveryRows] /\ \A d \in Deliveries : VerdictOK(d, queue'[d])
  BY <1>1, HookFacts
<1> QED BY <1>1, <1>2, NewQueue

LEMMA HooksStep == HooksIInv /\ [ScheduledNext]_scheduledVars => HooksIInv'
<1>1. ASSUME HooksIInv, WebhookStep
      PROVE  HooksIInv'
  BY <1>1, QueueStepKeeps, ToggleKeeps, DeliverLoadKeeps, DeliverCommitKeeps, PosterDiesKeeps, PostOneKeeps
  DEF WebhookStep
<1>2. ASSUME HooksIInv, UNCHANGED hookVars
      PROVE  HooksIInv'
  BY <1>2 DEF HooksIInv, hookVars, VerdictOK, PosterOK
<1>3. ScheduleStep => UNCHANGED hookVars
  BY DEF ScheduleStep, CreateSchedule, ComesDue, Enable, Disable, DeleteSchedule, RunNow, ScheduleTick, TickerDies,
         ClaimLoad, ClaimAdvance, FireSchedule, MarkOutcome, RowLost
<1>4. UNCHANGED scheduledVars => UNCHANGED hookVars
  BY DEF scheduledVars, hookVars
<1> QED BY <1>1, <1>2, <1>3, <1>4 DEF ScheduledNext

(* Both parts hold at the start, and together they say more than ScheduledInv. *)
LEMMA ScheduledStart == ScheduledInit => SchedulesIInv /\ HooksIInv
<1> SUFFICES ASSUME ScheduledInit
             PROVE  SchedulesIInv /\ HooksIInv
  OBVIOUS
<1>1. SchedulesIInv
  <2>1. NoSchedule \in ScheduleRows /\ ~NoSchedule.due /\ NoSchedule.state = "absent" /\ NoSchedule.runs = 0
        /\ ~NoSchedule.more /\ NoSchedule.limit = 0
    BY DEF NoSchedule, ScheduleRows
  <2>2. schedules \in [Schedules -> ScheduleRows] /\ claims \in [Schedules -> Nat]
        /\ ticker \in [Tickers -> TickerStates]
    BY <2>1, RestingState DEF ScheduledInit
  <2>3. ASSUME NEW s \in Schedules
        PROVE  ScheduleOK(s)
    <3>1. schedules[s] = NoSchedule /\ claims[s] = 0
      BY DEF ScheduledInit
    <3> QED BY <2>1, <3>1 DEF ScheduleOK
  <2>4. ASSUME NEW w \in Tickers
        PROVE  TickerOK(ticker[w])
    <3>1. ticker[w] = Resting
      BY DEF ScheduledInit
    <3> QED BY <3>1, RestingState DEF TickerOK
  <2> QED BY <2>2, <2>3, <2>4 DEF SchedulesIInv
<1>2. HooksIInv
  <2>1. MaxPosts \in Nat /\ 0 < MaxPosts
    BY ScheduledAssumption
  <2>2. [status |-> "none", attempts |-> 0, due |-> TRUE] \in DeliveryRows
    BY <2>1 DEF DeliveryRows
  <2>3. PICK v \in DeliveryRows : v = [status |-> "none", attempts |-> 0, due |-> TRUE]
    BY <2>2
  <2>4. v.status = "none" /\ v.attempts = 0
    BY <2>3
  <2>5. queue = [d \in Deliveries |-> v] /\ posts = [d \in Deliveries |-> 0]
        /\ poster = [w \in Tickers |-> NoPosts] /\ hook = "on"
    BY <2>3 DEF ScheduledInit
  <2>6. queue \in [Deliveries -> DeliveryRows] /\ posts \in [Deliveries -> Nat]
        /\ poster \in [Tickers -> PosterStates]
    BY <2>5, NoPostsState
  <2>7. \A d \in Deliveries : VerdictOK(d, queue[d])
    BY <2>1, <2>4, <2>5 DEF VerdictOK
  <2>8. \A w \in Tickers : PosterOK(poster[w])
    BY <2>5, NoPostsState DEF PosterOK
  <2> QED BY <2>5, <2>6, <2>7, <2>8 DEF HooksIInv
<1> QED BY <1>1, <1>2

(* A schedule is claimed no more often than its limit allows unless two workers claimed it *)
(* from one copy, one that failed too often is off unless a user switched it on again, and *)
(* a delivery is DELIVERED only if it was accepted and FAILED only after all its posts or  *)
(* with the webhook off.                                                       *)
THEOREM ScheduledInvHolds == ScheduledSpec => []ScheduledInv
<1>1. SchedulesIInv /\ HooksIInv => ScheduledInv
  <2> SUFFICES ASSUME SchedulesIInv, HooksIInv
               PROVE  ScheduledInv
    OBVIOUS
  <2>1. ScheduledTypeOK
    BY ScheduleFacts, HookFacts DEF ScheduledTypeOK, ScheduleOK, TickerStates, PosterStates
  <2>2. ASSUME NEW s \in Schedules, s \notin clashed, schedules[s].limit # 0
        PROVE  claims[s] <= schedules[s].limit
    BY <2>2, ScheduleFacts DEF ScheduleOK
  <2>3. FailingIsDisabled
    BY ScheduleFacts DEF FailingIsDisabled, ScheduleOK
  <2>4. WebhookVerdictTrue
    BY HookFacts DEF WebhookVerdictTrue, VerdictOK
  <2> QED BY <2>1, <2>2, <2>3, <2>4 DEF ScheduledInv, ClaimsWithinLimit
<1> QED BY <1>1, ScheduledStart, SchedulesStep, HooksStep, PTL DEF ScheduledSpec
==============================================================================
