------------------------- MODULE ReplyOutboxProofs -------------------------
(***************************************************************************)
(* Proofs about ReplyOutbox for every set of replies, workers and requests    *)
(* and every bound: type correctness, no second send of a reply while its      *)
(* rows are written from current copies, and a delivery status that only       *)
(* moves forward.                                                            *)
(***************************************************************************)
EXTENDS ReplyOutbox, TLAPS

(* A reply the provider accepted and reported failed. *)
ReportedFailed(r, n) == <<r, n, "FAILED">> \in reported

OnLadder == {"SENT", "DELIVERED", "READ"}

(* What each session holds at each point of its program. *)
SessionShape(p, s) ==
    /\ s.pc \in {"queueing", "retrying", "event"} => p \in ReplyRequests /\ s.cur \in Replies
    /\ s.pc \in {"claiming", "delivering", "sending", "accepted", "failing"} => p \in OutboxWorkers
    /\ s.pc \in {"sending", "accepted", "failing"} => s.cur \in s.todo /\ s.msg.status = "SENDING"
    /\ s.pc = "retrying" => s.msg.status = "FAILED"
    /\ s.pc = "event" => s.msg.pid > 0 /\ s.what \in EventKinds
    /\ s.pc = "claiming" => \A r \in s.todo :
           \/ s.items[r].status = "WAITING"
           \/ s.items[r].status = "PROCESSING" /\ s.items[r].lease = "expired"

SessionsOK == \A p \in ReplyProcs : SessionShape(p, session[p])

(* One worker holds a claimed item, and its copy of the row is current. *)
Held(r) ==
    /\ \A w \in OutboxWorkers : Holds(w, r) =>
         outbox[r] = session[w].items[r] /\ outbox[r].status = "PROCESSING" /\ outbox[r].lease = "held"
    /\ \A v, w \in OutboxWorkers : Holds(v, r) /\ Holds(w, r) => v = w

(* The message names an accepted send that was reported failed, or the last one,  *)
(* and then nothing is left to send.                                         *)
MessageOK(r) ==
    /\ message[r].status = "NONE" => message[r].pid = 0 /\ accepts[r] = 0
    /\ outbox[r].status = "NONE" <=> message[r].status = "NONE"
    /\ message[r].pid > 0 =>
         \/ ReportedFailed(r, message[r].pid)
         \/ message[r].status \in OnLadder /\ message[r].pid = accepts[r] /\ outbox[r].status = "COMPLETED"
    /\ message[r].status \in OnLadder => message[r].pid > 0
    /\ message[r].status = "FAILED" => outbox[r].status \in {"COMPLETED", "FAILED"}

(* A worker has the provider's answer and has not written it. *)
Answered(w, r) == session[w].pc = "accepted" /\ session[w].cur = r

(* The last accepted send was reported failed, is named by the message, or is in  *)
(* the hands of the worker that got the answer.                               *)
AcceptOK(r) ==
    /\ accepts[r] > 0 =>
         \/ ReportedFailed(r, accepts[r])
         \/ message[r].pid = accepts[r]
         \/ \E w \in OutboxWorkers : Answered(w, r)
    /\ \A w \in OutboxWorkers : Answered(w, r) => session[w].send = accepts[r] /\ accepts[r] > 0

(* A request that is failing a message finds it sent, and is the only one. *)
Failing(q, r) == session[q].pc = "event" /\ session[q].cur = r /\ session[q].what = "FAILED"

FailingOK(r) ==
    /\ \A q \in ReplyRequests : Failing(q, r) =>
         /\ message[r].status \in OnLadder /\ message[r].pid = accepts[r]
         /\ outbox[r].status = "COMPLETED" /\ ReportedFailed(r, accepts[r])
    /\ \A p, q \in ReplyRequests : Failing(p, r) /\ Failing(q, r) => p = q

Current(r) == Held(r) /\ MessageOK(r) /\ AcceptOK(r) /\ FailingOK(r)

CurrentOK == \A r \in Replies \ overtaken : Current(r)

----------------------------------------------------------------------------
(* Types. *)

LEMMA ClosedType == Closed \in SessionStates /\ Closed.pc = "idle"
BY DEF Closed, SessionStates, ReplyPcs, MessageRows, MessageStatus, OutboxRows, OutboxStatus, NoRow

LEMMA SessionIs ==
    ASSUME ReplyTypeOK, NEW p \in ReplyProcs, NEW s, Session(p, s)
    PROVE  session'[p] = s /\ \A q \in ReplyProcs \ {p} : session'[q] = session[q]
BY DEF Session, ReplyTypeOK

(* A process that takes a well-formed state keeps the sessions well formed. *)
LEMMA SessionType ==
    ASSUME ReplyTypeOK, NEW p \in ReplyProcs, NEW s \in SessionStates, Session(p, s)
    PROVE  session' \in [ReplyProcs -> SessionStates]
BY DEF Session, ReplyTypeOK

LEMMA RowType ==
    ASSUME ReplyTypeOK, NEW r \in Replies
    PROVE  /\ message[r] \in MessageRows /\ outbox[r] \in OutboxRows /\ accepts[r] \in Nat
           /\ \A p \in ReplyProcs : session[p] \in SessionStates /\ session[p].items[r] \in OutboxRows
BY DEF ReplyTypeOK, SessionStates

(* Finishing an item writes a typed row and leaves the worker typed. *)
LEMMA FinishType ==
    ASSUME ReplyTypeOK, NEW w \in OutboxWorkers, NEW r \in Replies,
           NEW status \in {"COMPLETED", "WAITING", "FAILED"}, Finish(w, r, status)
    PROVE  outbox' \in [Replies -> OutboxRows] /\ session' \in [ReplyProcs -> SessionStates]
<1>1. outbox' \in [Replies -> OutboxRows]
  BY DEF Finish, ReplyTypeOK, OutboxRows, OutboxStatus
<1>2. session[w] \in SessionStates /\ w \in ReplyProcs
  BY DEF ReplyTypeOK, ReplyProcs
<1> DEFINE s == [session[w] EXCEPT !.pc = "delivering", !.todo = session[w].todo \ {r}, !.cur = NoReply]
<1>3. s \in SessionStates
  BY <1>2 DEF SessionStates, ReplyPcs
<1>4. Session(w, Closed) \/ Session(w, s)
  BY DEF Finish
<1> QED BY <1>1, <1>2, <1>3, <1>4, ClosedType, SessionType

(* Every step keeps the types. *)
LEMMA ReplyTypeStep ==
    ASSUME ReplyTypeOK, SessionsOK, [ReplyNext]_replyVars
    PROVE  ReplyTypeOK'
<1> USE DEF ReplyProcs
<1>1. ASSUME NEW w \in OutboxWorkers, ClaimSelect(w) PROVE ReplyTypeOK'
  <2>1. PICK batch \in SUBSET Replies :
          Session(w, [Closed EXCEPT !.pc = "claiming", !.todo = batch, !.items = outbox])
    BY <1>1 DEF ClaimSelect
  <2>2. [Closed EXCEPT !.pc = "claiming", !.todo = batch, !.items = outbox] \in SessionStates
    BY ClosedType DEF ReplyTypeOK, SessionStates, ReplyPcs
  <2>3. session' \in [ReplyProcs -> SessionStates]
    BY <2>1, <2>2, SessionType
  <2> QED BY <1>1, <2>3 DEF ClaimSelect, ReplyTypeOK, OutboxFault
<1>2. ASSUME NEW w \in OutboxWorkers, ClaimCommit(w) PROVE ReplyTypeOK'
  <2>1. session[w] \in SessionStates /\ session[w].items \in [Replies -> OutboxRows]
        /\ session[w].todo \subseteq Replies
    BY DEF ReplyTypeOK, SessionStates
  <2>2. \A r \in Replies : ClaimedRow(w, r) \in OutboxRows /\ ClaimedCopy(w, r) \in OutboxRows
    BY <2>1, RowType DEF ClaimedRow, ClaimedCopy, OutboxRows, OutboxStatus
  <2>3. outbox' \in [Replies -> OutboxRows]
    BY <1>2, <2>2, RowType DEF ClaimCommit
  <2>4. PICK items \in [Replies -> OutboxRows] :
          items = [r \in Replies |-> IF r \in session[w].todo THEN ClaimedCopy(w, r) ELSE session[w].items[r]]
    <3>1. [r \in Replies |-> IF r \in session[w].todo THEN ClaimedCopy(w, r) ELSE session[w].items[r]]
            \in [Replies -> OutboxRows]
      BY <2>1, <2>2
    <3> QED BY <3>1
  <2>5. Session(w, [session[w] EXCEPT !.pc = "delivering", !.items = items])
    BY <1>2, <2>4 DEF ClaimCommit
  <2>6. [session[w] EXCEPT !.pc = "delivering", !.items = items] \in SessionStates
    BY <2>1 DEF SessionStates, ReplyPcs
  <2>7. session' \in [ReplyProcs -> SessionStates]
    BY <2>5, <2>6, SessionType
  <2>8. overtaken' \subseteq Replies
    BY <1>2, <2>1 DEF ClaimCommit, Overtaken, StaleItem, ReplyTypeOK
  <2> QED BY <1>2, <2>3, <2>7, <2>8 DEF ClaimCommit, ReplyTypeOK
<1>3. ASSUME NEW w \in OutboxWorkers, NEW r \in Replies, DeliverSettled(w, r) PROVE ReplyTypeOK'
  BY <1>3, FinishType DEF DeliverSettled, Overtaken, StaleItem, ReplyTypeOK
<1>4. ASSUME NEW w \in OutboxWorkers, NEW r \in Replies, DeliverStart(w, r) PROVE ReplyTypeOK'
  <2>1. session[w] \in SessionStates /\ message[r] \in MessageRows
    BY RowType
  <2>2. [session[w] EXCEPT !.pc = "sending", !.cur = r, !.msg = message[r]] \in SessionStates
    BY <2>1 DEF SessionStates, ReplyPcs
  <2>3. [session[w] EXCEPT !.pc = "failing", !.cur = r, !.msg = message[r], !.what = "FINAL"] \in SessionStates
    BY <2>1 DEF SessionStates, ReplyPcs
  <2>4. session' \in [ReplyProcs -> SessionStates]
    BY <1>4, <2>2, <2>3, SessionType DEF DeliverStart
  <2> QED BY <1>4, <2>4 DEF DeliverStart, ReplyTypeOK
<1>5. ASSUME NEW w \in OutboxWorkers, ProviderAnswers(w) PROVE ReplyTypeOK'
  <2>1. session[w] \in SessionStates /\ session[w].cur \in Replies
    BY <1>5 DEF ProviderAnswers, SessionsOK, SessionShape, ReplyTypeOK, SessionStates
  <2>2. accepts[session[w].cur] + 1 \in Nat
    BY <2>1, RowType
  <2>3. [session[w] EXCEPT !.pc = "accepted", !.send = accepts[session[w].cur] + 1] \in SessionStates
    BY <2>1, <2>2 DEF SessionStates, ReplyPcs
  <2>4. \A class \in {"TRANSIENT", "FINAL"} :
          [session[w] EXCEPT !.pc = "failing", !.what = class] \in SessionStates
    BY <2>1 DEF SessionStates, ReplyPcs
  <2>5. session' \in [ReplyProcs -> SessionStates]
    BY <1>5, <2>3, <2>4, SessionType DEF ProviderAnswers
  <2>6. accepts' \in [Replies -> Nat]
    BY <1>5, <2>1, <2>2 DEF ProviderAnswers, ReplyTypeOK
  <2>7. overtaken' \subseteq Replies /\ outboxFaults' \in Nat
    BY <1>5, <2>1 DEF ProviderAnswers, Overtaken, OutboxFault, ReplyTypeOK
  <2> QED BY <1>5, <2>5, <2>6, <2>7 DEF ProviderAnswers, ReplyTypeOK
<1>6. ASSUME NEW w \in OutboxWorkers, DeliverSent(w) \/ Fail(w) PROVE ReplyTypeOK'
  <2>1. session[w] \in SessionStates /\ session[w].cur \in Replies /\ session[w].send \in Nat
    BY <1>6 DEF DeliverSent, Fail, SessionsOK, SessionShape, ReplyTypeOK, SessionStates
  <2>2. PICK status \in {"COMPLETED", "WAITING", "FAILED"} : Finish(w, session[w].cur, status)
    BY <1>6 DEF DeliverSent, Fail
  <2>3. outbox' \in [Replies -> OutboxRows] /\ session' \in [ReplyProcs -> SessionStates]
    BY <2>1, <2>2, FinishType
  <2>4. message' \in [Replies -> MessageRows]
    BY <1>6, <2>1 DEF DeliverSent, Fail, ReplyTypeOK, MessageRows, MessageStatus
  <2>5. overtaken' \subseteq Replies
    BY <1>6, <2>1 DEF DeliverSent, Fail, Overtaken, StaleItem, StaleMessage, ReplyTypeOK
  <2> QED BY <1>6, <2>3, <2>4, <2>5 DEF DeliverSent, Fail, ReplyTypeOK
<1>7. ASSUME NEW w \in OutboxWorkers, DeliverRaises(w) PROVE ReplyTypeOK'
  <2>1. session[w] \in SessionStates /\ session[w].cur \in Replies
    BY <1>7 DEF DeliverRaises, SessionsOK, SessionShape, ReplyTypeOK, SessionStates
  <2>2. outbox' \in [Replies -> OutboxRows] /\ session' \in [ReplyProcs -> SessionStates]
    BY <1>7, <2>1, FinishType DEF DeliverRaises
  <2> QED BY <1>7, <2>1, <2>2 DEF DeliverRaises, Overtaken, OutboxFault, StaleItem, ReplyTypeOK
<1>8. ASSUME NEW w \in OutboxWorkers, OutboxCrash(w) PROVE ReplyTypeOK'
  <2>1. session' \in [ReplyProcs -> SessionStates]
    BY <1>8, ClosedType, SessionType DEF OutboxCrash
  <2>2. overtaken' \subseteq Replies
    BY <1>8 DEF OutboxCrash, Overtaken, SessionsOK, SessionShape, ReplyTypeOK, SessionStates
  <2> QED BY <1>8, <2>1, <2>2 DEF OutboxCrash, OutboxFault, ReplyTypeOK
<1>9. ASSUME NEW q \in ReplyRequests, NEW r \in Replies, QueueReplyCheck(q, r) PROVE ReplyTypeOK'
  <2>1. [Closed EXCEPT !.pc = "queueing", !.cur = r] \in SessionStates
    BY ClosedType DEF SessionStates, ReplyPcs
  <2>2. session' \in [ReplyProcs -> SessionStates]
    BY <1>9, <2>1, SessionType DEF QueueReplyCheck
  <2> QED BY <1>9, <2>2 DEF QueueReplyCheck, ReplyTypeOK
<1>10. ASSUME NEW q \in ReplyRequests, NEW r \in Replies, RetryFailedCheck(q, r) PROVE ReplyTypeOK'
  <2>1. [Closed EXCEPT !.pc = "retrying", !.cur = r, !.msg = message[r], !.items = outbox] \in SessionStates
    BY ClosedType, RowType DEF SessionStates, ReplyPcs, ReplyTypeOK
  <2>2. session' \in [ReplyProcs -> SessionStates]
    BY <1>10, <2>1, SessionType DEF RetryFailedCheck
  <2> QED BY <1>10, <2>2 DEF RetryFailedCheck, ReplyTypeOK
<1>11. ASSUME NEW q \in ReplyRequests, NEW r \in Replies, NEW kind \in EventKinds,
              NEW n \in 1..accepts[r], EventLoad(q, r, n, kind) PROVE ReplyTypeOK'
  <2>1. n \in Nat
    BY RowType
  <2>2. [Closed EXCEPT !.pc = "event", !.cur = r, !.msg = message[r], !.what = kind] \in SessionStates
    BY ClosedType, RowType, ReplyOutboxAssumption DEF SessionStates, ReplyPcs
  <2>3. session' \in [ReplyProcs -> SessionStates]
    BY <1>11, <2>2, SessionType DEF EventLoad, ReplyTypeOK
  <2> QED BY <1>11, <2>1, <2>3 DEF EventLoad, ReplyTypeOK
<1>12. ASSUME NEW q \in ReplyRequests, QueueReplyCommit(q) \/ RetryFailedCommit(q) \/ EventCommit(q)
       PROVE ReplyTypeOK'
  <2>1. session[q] \in SessionStates /\ session[q].cur \in Replies
    BY <1>12 DEF QueueReplyCommit, RetryFailedCommit, EventCommit, SessionsOK, SessionShape, ReplyTypeOK
  <2>2. session' \in [ReplyProcs -> SessionStates]
    BY <1>12, ClosedType, SessionType DEF QueueReplyCommit, RetryFailedCommit, EventCommit
  <2>3. outbox' \in [Replies -> OutboxRows]
    BY <1>12, <2>1
       DEF QueueReplyCommit, RetryFailedCommit, EventCommit, ReplyTypeOK, OutboxRows, OutboxStatus, NoRow
  <2>4. message' \in [Replies -> MessageRows]
    <3>1. CASE QueueReplyCommit(q) \/ RetryFailedCommit(q)
      <4>1. message \in [Replies -> MessageRows]
        BY DEF ReplyTypeOK
      <4>2. PICK row \in MessageRows : message' \in {message, [message EXCEPT ![session[q].cur] = row]}
        <5>1. CASE QueueReplyCommit(q)
          <6>1. [status |-> "SENDING", pid |-> 0] \in MessageRows
            BY DEF MessageRows, MessageStatus
          <6> QED BY <5>1, <6>1 DEF QueueReplyCommit
        <5>2. CASE RetryFailedCommit(q)
          <6>1. [message[session[q].cur] EXCEPT !.status = "SENDING"] \in MessageRows
            BY <2>1, <4>1 DEF MessageRows, MessageStatus
          <6> QED BY <5>2, <6>1 DEF RetryFailedCommit
        <5> QED BY <3>1, <5>1, <5>2
      <4> QED BY <2>1, <4>1, <4>2
    <3>2. CASE EventCommit(q)
      <4>1. session[q].pc = "event" /\ session[q].msg.status \in MessageStatus /\ session[q].what \in EventKinds
        BY <2>1, <3>2, <1>12 DEF EventCommit, SessionStates, MessageRows, SessionsOK, SessionShape
      <4>2. AfterEvent(session[q].msg.status, session[q].what) \in MessageStatus
        BY <4>1, ReplyOutboxAssumption DEF AfterEvent, MessageStatus
      <4> QED BY <2>1, <3>2, <4>2 DEF EventCommit, ReplyTypeOK, MessageRows
    <3> QED BY <1>12, <3>1, <3>2
  <2>5. overtaken' \subseteq Replies
    BY <1>12, <2>1
       DEF QueueReplyCommit, RetryFailedCommit, EventCommit, Overtaken, StaleItem, StaleMessage, ReplyTypeOK
  <2> QED BY <1>12, <2>2, <2>3, <2>4, <2>5 DEF QueueReplyCommit, RetryFailedCommit, EventCommit, ReplyTypeOK
<1>13. ASSUME NEW r \in Replies, LeaseExpires(r) PROVE ReplyTypeOK'
  <2>1. outbox' \in [Replies -> OutboxRows]
    BY <1>13 DEF LeaseExpires, ReplyTypeOK, OutboxRows
  <2> QED BY <1>13, <2>1 DEF LeaseExpires, Overtaken, OutboxFault, ReplyTypeOK
<1>14. CASE UNCHANGED replyVars
  BY <1>14 DEF replyVars, ReplyTypeOK
<1> QED
  BY <1>1, <1>2, <1>3, <1>4, <1>5, <1>6, <1>7, <1>8, <1>9, <1>10, <1>11, <1>12, <1>13, <1>14
     DEF ReplyNext, OutboxStep, RequestStep

LEMMA SessionMove ==
    ASSUME ReplyTypeOK, SessionsOK, NEW p \in ReplyProcs, NEW s, SessionShape(p, s), Session(p, s)
    PROVE  SessionsOK'
<1>1. \A q \in ReplyProcs : SessionShape(q, session'[q])
  BY SessionIs DEF SessionsOK
<1> QED BY <1>1 DEF SessionsOK, SessionShape

LEMMA ClosedShape == \A p : SessionShape(p, Closed)
BY DEF SessionShape, Closed

(* A worker that goes on to the next item of its batch, or is done with it. *)
LEMMA FinishShape ==
    ASSUME ReplyTypeOK, SessionsOK, NEW w \in OutboxWorkers, NEW r, NEW status, Finish(w, r, status)
    PROVE  SessionsOK'
<1> DEFINE s == [session[w] EXCEPT !.pc = "delivering", !.todo = session[w].todo \ {r}, !.cur = NoReply]
<1>1. w \in ReplyProcs /\ session[w] \in SessionStates
  BY DEF ReplyTypeOK, ReplyProcs
<1>2. SessionShape(w, s)
  BY <1>1 DEF SessionShape, SessionStates
<1>3. Session(w, Closed) \/ Session(w, s)
  BY DEF Finish
<1> QED BY <1>1, <1>2, <1>3, ClosedShape, SessionMove

(* Every step keeps what the sessions hold. *)
LEMMA SessionsStep ==
    ASSUME ReplyTypeOK, SessionsOK, [ReplyNext]_replyVars
    PROVE  SessionsOK'
<1> USE DEF ReplyProcs
<1>1. ASSUME NEW w \in OutboxWorkers, ClaimSelect(w) PROVE SessionsOK'
  <2>1. PICK batch \in SUBSET {r \in Replies : Claimable(r)} :
          Session(w, [Closed EXCEPT !.pc = "claiming", !.todo = batch, !.items = outbox])
    BY <1>1 DEF ClaimSelect
  <2>2. SessionShape(w, [Closed EXCEPT !.pc = "claiming", !.todo = batch, !.items = outbox])
    BY DEF SessionShape, Closed, Claimable
  <2> QED BY <2>1, <2>2, SessionMove
<1>2. ASSUME NEW w \in OutboxWorkers, ClaimCommit(w) PROVE SessionsOK'
  <2>1. PICK items :
          Session(w, [session[w] EXCEPT !.pc = "delivering", !.items = items])
    BY <1>2 DEF ClaimCommit
  <2>2. session[w] \in SessionStates
    BY DEF ReplyTypeOK
  <2>3. SessionShape(w, [session[w] EXCEPT !.pc = "delivering", !.items = items])
    BY <2>2 DEF SessionShape, SessionStates
  <2> QED BY <2>1, <2>3, SessionMove
<1>3. ASSUME NEW w \in OutboxWorkers, NEW r \in Replies, DeliverSettled(w, r) PROVE SessionsOK'
  BY <1>3, FinishShape DEF DeliverSettled
<1>4. ASSUME NEW w \in OutboxWorkers, NEW r \in Replies, DeliverStart(w, r) PROVE SessionsOK'
  <2>1. session[w] \in SessionStates /\ message[r].status = "SENDING" /\ r \in session[w].todo
    BY <1>4 DEF ReplyTypeOK, DeliverStart
  <2>2. SessionShape(w, [session[w] EXCEPT !.pc = "sending", !.cur = r, !.msg = message[r]])
    BY <2>1 DEF SessionShape, SessionStates
  <2>3. SessionShape(w, [session[w] EXCEPT !.pc = "failing", !.cur = r, !.msg = message[r], !.what = "FINAL"])
    BY <2>1 DEF SessionShape, SessionStates
  <2> QED BY <1>4, <2>2, <2>3, SessionMove DEF DeliverStart
<1>5. ASSUME NEW w \in OutboxWorkers, ProviderAnswers(w) PROVE SessionsOK'
  <2>1. session[w] \in SessionStates /\ session[w].pc = "sending" /\ SessionShape(w, session[w])
    BY <1>5 DEF ReplyTypeOK, ProviderAnswers, SessionsOK
  <2>2. ASSUME NEW send PROVE SessionShape(w, [session[w] EXCEPT !.pc = "accepted", !.send = send])
    BY <2>1 DEF SessionShape, SessionStates
  <2>3. ASSUME NEW class PROVE SessionShape(w, [session[w] EXCEPT !.pc = "failing", !.what = class])
    BY <2>1 DEF SessionShape, SessionStates
  <2> QED BY <1>5, <2>2, <2>3, SessionMove DEF ProviderAnswers
<1>6. ASSUME NEW w \in OutboxWorkers, DeliverSent(w) \/ Fail(w) \/ DeliverRaises(w) PROVE SessionsOK'
  BY <1>6, FinishShape DEF DeliverSent, Fail, DeliverRaises
<1>7. ASSUME NEW w \in OutboxWorkers, OutboxCrash(w) PROVE SessionsOK'
  BY <1>7, ClosedShape, SessionMove DEF OutboxCrash
<1>8. ASSUME NEW q \in ReplyRequests, NEW r \in Replies, QueueReplyCheck(q, r) \/ RetryFailedCheck(q, r)
      PROVE  SessionsOK'
  <2>1. SessionShape(q, [Closed EXCEPT !.pc = "queueing", !.cur = r])
    BY DEF SessionShape, Closed
  <2>2. message[r].status = "FAILED" =>
          SessionShape(q, [Closed EXCEPT !.pc = "retrying", !.cur = r, !.msg = message[r], !.items = outbox])
    BY DEF SessionShape, Closed
  <2> QED BY <1>8, <2>1, <2>2, SessionMove DEF QueueReplyCheck, RetryFailedCheck
<1>9. ASSUME NEW q \in ReplyRequests, NEW r \in Replies, NEW kind \in EventKinds,
             NEW n \in 1..accepts[r], EventLoad(q, r, n, kind) PROVE SessionsOK'
  <2>1. message[r].pid = n =>
          SessionShape(q, [Closed EXCEPT !.pc = "event", !.cur = r, !.msg = message[r], !.what = kind])
    BY RowType DEF SessionShape, Closed
  <2>2. CASE UNCHANGED session
    BY <2>2 DEF SessionsOK, SessionShape
  <2> QED BY <1>9, <2>1, <2>2, SessionMove DEF EventLoad
<1>10. ASSUME NEW q \in ReplyRequests, QueueReplyCommit(q) \/ RetryFailedCommit(q) \/ EventCommit(q)
       PROVE  SessionsOK'
  BY <1>10, ClosedShape, SessionMove DEF QueueReplyCommit, RetryFailedCommit, EventCommit
<1>11. CASE UNCHANGED session
  BY <1>11 DEF SessionsOK, SessionShape
<1> QED
  BY <1>1, <1>2, <1>3, <1>4, <1>5, <1>6, <1>7, <1>8, <1>9, <1>10, <1>11
     DEF ReplyNext, OutboxStep, RequestStep, LeaseExpires, replyVars

----------------------------------------------------------------------------
(* Replies whose rows are written from current copies. *)

(* What a step that does not concern a reply leaves as it was. *)
Untouched(r) ==
    /\ message'[r] = message[r] /\ outbox'[r] = outbox[r] /\ accepts'[r] = accepts[r]
    /\ reported \subseteq reported'
    /\ \A w \in OutboxWorkers :
         /\ Holds(w, r)' => Holds(w, r) /\ session'[w].items[r] = session[w].items[r]
         /\ Answered(w, r)' <=> Answered(w, r)
         /\ Answered(w, r) => session'[w].send = session[w].send
    /\ \A q \in ReplyRequests : Failing(q, r)' => Failing(q, r)

LEMMA Frame ==
    ASSUME NEW r \in Replies, Current(r), Untouched(r)
    PROVE  Current(r)'
<1>1. Held(r)'
  BY DEF Current, Held, Untouched
<1>2. \A n : ReportedFailed(r, n) => ReportedFailed(r, n)'
  BY DEF ReportedFailed, Untouched
<1>3. MessageOK(r)'
  BY <1>2 DEF Current, MessageOK, Untouched
<1>4. AcceptOK(r)'
  BY <1>2 DEF Current, AcceptOK, Untouched
<1>5. FailingOK(r)'
  BY <1>2 DEF Current, FailingOK, Untouched
<1> QED BY <1>1, <1>3, <1>4, <1>5 DEF Current

(* Only the process that takes the step changes what is held, answered or failing. *)
LEMMA OthersSame ==
    ASSUME ReplyTypeOK, NEW p \in ReplyProcs, NEW s, Session(p, s), NEW r \in Replies
    PROVE  /\ \A w \in ReplyProcs \ {p} :
                /\ Holds(w, r)' <=> Holds(w, r)
                /\ Answered(w, r)' <=> Answered(w, r)
                /\ Failing(w, r)' <=> Failing(w, r)
                /\ session'[w] = session[w]
           /\ session'[p] = s
<1>1. session'[p] = s /\ \A q \in ReplyProcs \ {p} : session'[q] = session[q]
  BY SessionIs
<1> QED BY <1>1 DEF Holds, Answered, Failing

(* A worker with an answer in hand holds its item. *)
LEMMA AnsweredHolds ==
    ASSUME SessionsOK, NEW w \in OutboxWorkers, NEW r \in Replies, Answered(w, r)
    PROVE  Holds(w, r)
BY DEF SessionsOK, SessionShape, Answered, Holds, ReplyProcs

(* While a worker holds a current item, no other worker has it, no answer but its *)
(* own is in hand, and no request is failing the message.                      *)
LEMMA SoleHolder ==
    ASSUME SessionsOK, NEW w \in OutboxWorkers, NEW r \in Replies, Current(r), Holds(w, r)
    PROVE  /\ outbox[r] = session[w].items[r] /\ outbox[r].status = "PROCESSING" /\ outbox[r].lease = "held"
           /\ \A v \in OutboxWorkers \ {w} : ~Holds(v, r) /\ ~Answered(v, r)
           /\ \A q \in ReplyRequests : ~Failing(q, r)
           /\ message[r].status # "NONE" /\ message[r].status # "FAILED"
           /\ message[r].pid > 0 => ReportedFailed(r, message[r].pid)
<1>1. outbox[r] = session[w].items[r] /\ outbox[r].status = "PROCESSING" /\ outbox[r].lease = "held"
  BY DEF Current, Held
<1>2. \A v \in OutboxWorkers \ {w} : ~Holds(v, r) /\ ~Answered(v, r)
  BY AnsweredHolds DEF Current, Held
<1>3. \A q \in ReplyRequests : ~Failing(q, r)
  BY <1>1 DEF Current, FailingOK
<1>4. /\ message[r].status # "NONE" /\ message[r].status # "FAILED"
      /\ message[r].pid > 0 => ReportedFailed(r, message[r].pid)
  BY <1>1 DEF Current, MessageOK
<1> QED BY <1>1, <1>2, <1>3, <1>4

(* An item that nobody is at work on: it waits, is finished or was never queued. *)
LEMMA NoHolder ==
    ASSUME SessionsOK, NEW r \in Replies, Current(r),
           outbox[r].status # "PROCESSING" \/ outbox[r].lease # "held"
    PROVE  \A w \in OutboxWorkers : ~Holds(w, r) /\ ~Answered(w, r)
<1>1. \A w \in OutboxWorkers : ~Holds(w, r)
  BY DEF Current, Held
<1> QED BY <1>1, AnsweredHolds

(* A worker that finishes an item has it no more; what it holds of the rest of    *)
(* its batch stays as it was.                                                *)
LEMMA FinishLeaves ==
    ASSUME ReplyTypeOK, NEW w \in OutboxWorkers, NEW i \in Replies, NEW status, Finish(w, i, status),
           NEW r \in Replies
    PROVE  /\ ~Answered(w, r)' /\ (Holds(w, i)' => FALSE)
           /\ \A v \in ReplyProcs \ {w} :
                /\ Holds(v, r)' <=> Holds(v, r)
                /\ Answered(v, r)' <=> Answered(v, r)
                /\ Failing(v, r)' <=> Failing(v, r)
                /\ session'[v] = session[v]
           /\ ~Failing(w, r)'
           /\ session[w].pc \notin {"idle", "claiming"} =>
                (Holds(w, r)' => Holds(w, r) /\ session'[w].items[r] = session[w].items[r])
           /\ r # i => outbox'[r] = outbox[r]
           /\ outbox'[i] = [outbox[i] EXCEPT !.status = status, !.lease = "none"]
<1> DEFINE s == [session[w] EXCEPT !.pc = "delivering", !.todo = session[w].todo \ {i}, !.cur = NoReply]
<1>1. w \in ReplyProcs /\ session[w] \in SessionStates
  BY DEF ReplyTypeOK, ReplyProcs
<1>2. Session(w, Closed) \/ Session(w, s)
  BY DEF Finish
<1>3. session'[w] = Closed \/ session'[w] = s
  BY <1>1, <1>2, SessionIs
<1>4. /\ session'[w].pc \in {"idle", "delivering"}
      /\ session'[w].pc = "delivering" => session'[w].todo = session[w].todo \ {i}
                                          /\ session'[w].items = session[w].items
  BY <1>1, <1>3, ClosedType DEF SessionStates
<1>5. ~Answered(w, r)' /\ ~Failing(w, r)' /\ ~Holds(w, i)'
  BY <1>4 DEF Answered, Failing, Holds
<1>6. \A v \in ReplyProcs \ {w} :
        /\ Holds(v, r)' <=> Holds(v, r)
        /\ Answered(v, r)' <=> Answered(v, r)
        /\ Failing(v, r)' <=> Failing(v, r)
        /\ session'[v] = session[v]
  BY <1>1, <1>2, OthersSame
<1>7. session[w].pc \notin {"idle", "claiming"} =>
        (Holds(w, r)' => Holds(w, r) /\ session'[w].items[r] = session[w].items[r])
  BY <1>4 DEF Holds
<1>8. outbox' = [outbox EXCEPT ![i].status = status, ![i].lease = "none"]
  BY DEF Finish
<1>9. outbox[i] \in OutboxRows
  BY RowType
<1>10. (r # i => outbox'[r] = outbox[r]) /\ outbox'[i] = [outbox[i] EXCEPT !.status = status, !.lease = "none"]
  BY <1>8 DEF ReplyTypeOK
<1> QED BY <1>5, <1>6, <1>7, <1>10

(* Workers and requests are different processes. *)
LEMMA Kinds == OutboxWorkers \cap ReplyRequests = {} /\ OutboxWorkers \subseteq ReplyProcs
               /\ ReplyRequests \subseteq ReplyProcs
BY ReplyOutboxAssumption DEF ReplyProcs

(* The end of an item leaves the other replies alone. *)
LEMMA FinishOther ==
    ASSUME ReplyTypeOK, NEW w \in OutboxWorkers, NEW i \in Replies, NEW status, Finish(w, i, status),
           session[w].pc \in {"delivering", "sending", "accepted", "failing"},
           session[w].pc = "delivering" \/ session[w].cur = i,
           NEW r \in Replies \ {i}, message'[r] = message[r], UNCHANGED <<accepts, reported>>, Current(r)
    PROVE  Current(r)'
<1>1. ~Answered(w, r)
  BY DEF Answered
<1>2. outbox'[r] = outbox[r]
  BY FinishLeaves
<1>3. \A v \in OutboxWorkers :
         /\ Holds(v, r)' => Holds(v, r) /\ session'[v].items[r] = session[v].items[r]
         /\ Answered(v, r)' <=> Answered(v, r)
         /\ Answered(v, r) => session'[v].send = session[v].send
  <2> TAKE v \in OutboxWorkers
  <2>1. CASE v = w
    BY <1>1, <2>1, FinishLeaves
  <2>2. CASE v # w
    BY <2>2, FinishLeaves, Kinds
  <2> QED BY <2>1, <2>2
<1>4. \A q \in ReplyRequests : Failing(q, r)' => Failing(q, r)
  BY FinishLeaves, Kinds
<1>5. Untouched(r)
  BY <1>2, <1>3, <1>4 DEF Untouched
<1> QED BY <1>5, Frame

(* After the holder of a current item finished it, nobody has it, no answer is in  *)
(* hand and no request is failing the message.                               *)
LEMMA FinishOwn ==
    ASSUME ReplyTypeOK, SessionsOK, NEW w \in OutboxWorkers, NEW r \in Replies, NEW status,
           Finish(w, r, status), Holds(w, r), Current(r)
    PROVE  /\ \A v \in OutboxWorkers : ~Holds(v, r)' /\ ~Answered(v, r)'
           /\ \A q \in ReplyRequests : ~Failing(q, r)'
           /\ outbox'[r].status = status
<1>1. \A v \in OutboxWorkers \ {w} : ~Holds(v, r) /\ ~Answered(v, r)
  BY SoleHolder
<1>2. \A v \in OutboxWorkers : ~Holds(v, r)' /\ ~Answered(v, r)'
  <2> TAKE v \in OutboxWorkers
  <2>1. CASE v = w
    BY <2>1, FinishLeaves
  <2>2. CASE v # w
    BY <1>1, <2>2, FinishLeaves, Kinds
  <2> QED BY <2>1, <2>2
<1>3. \A q \in ReplyRequests : ~Failing(q, r)'
  BY SoleHolder, FinishLeaves, Kinds
<1>4. outbox'[r].status = status
  <2>1. outbox' = [outbox EXCEPT ![r].status = status, ![r].lease = "none"]
    BY DEF Finish
  <2>2. outbox[r] \in OutboxRows
    BY RowType
  <2> QED BY <2>1, <2>2 DEF ReplyTypeOK, OutboxRows
<1> QED BY <1>2, <1>3, <1>4

(* The end of an item in which the message is not written. *)
LEMMA SettledStep ==
    ASSUME ReplyTypeOK, SessionsOK, NEW w \in OutboxWorkers, NEW i \in Replies,
           DeliverSettled(w, i) \/ (DeliverRaises(w) /\ i = session[w].cur),
           NEW r \in Replies, Current(r)
    PROVE  Current(r)'
<1>1. PICK status \in {"COMPLETED", "FAILED"} : Finish(w, i, status)
  BY DEF DeliverSettled, DeliverRaises
<1>2. UNCHANGED <<message, accepts, reported>>
  BY DEF DeliverSettled, DeliverRaises
<1>3. /\ session[w].pc \in {"delivering", "sending"} /\ (session[w].pc = "delivering" \/ session[w].cur = i)
      /\ i \in session[w].todo
  BY Kinds DEF DeliverSettled, DeliverRaises, SessionsOK, SessionShape
<1>4. CASE r # i
  BY <1>1, <1>2, <1>3, <1>4, FinishOther
<1>5. CASE r = i
  <2>1. Holds(w, r) /\ ~Answered(w, r)
    BY <1>3, <1>5 DEF Holds, Answered
  <2>2. /\ outbox[r].status = "PROCESSING"
        /\ \A v \in OutboxWorkers \ {w} : ~Answered(v, r)
        /\ message[r].status # "NONE"
        /\ message[r].pid > 0 => ReportedFailed(r, message[r].pid)
    BY <2>1, SoleHolder
  <2>3. /\ \A v \in OutboxWorkers : ~Holds(v, r)' /\ ~Answered(v, r)'
        /\ \A q \in ReplyRequests : ~Failing(q, r)'
        /\ outbox'[r].status = status
    BY <1>1, <1>5, <2>1, FinishOwn
  <2>4. \A n : ReportedFailed(r, n)' <=> ReportedFailed(r, n)
    BY <1>2 DEF ReportedFailed
  <2>5. Held(r)'
    BY <2>3 DEF Held
  <2>6. MessageOK(r)'
    BY <1>2, <2>2, <2>3, <2>4 DEF MessageOK, Current
  <2>7. AcceptOK(r)'
    BY <1>2, <2>1, <2>2, <2>3, <2>4 DEF AcceptOK, Current
  <2>8. FailingOK(r)'
    BY <2>3 DEF FailingOK
  <2> QED BY <2>5, <2>6, <2>7, <2>8 DEF Current
<1> QED BY <1>4, <1>5

(* The commit of an accepted reply. *)
LEMMA SentStep ==
    ASSUME ReplyTypeOK, SessionsOK, NEW w \in OutboxWorkers, DeliverSent(w),
           NEW r \in Replies \ overtaken', Current(r)
    PROVE  Current(r)'
<1> DEFINE i == session[w].cur
<1>1. session[w].pc = "accepted" /\ i \in session[w].todo /\ i \in Replies
  BY Kinds DEF DeliverSent, SessionsOK, SessionShape, ReplyTypeOK, SessionStates
<1>2. Finish(w, i, "COMPLETED") /\ UNCHANGED <<accepts, reported>>
      /\ message' = [message EXCEPT ![i] = [status |-> "SENT", pid |-> session[w].send]]
  BY DEF DeliverSent
<1>3. CASE r # i
  <2>1. message'[r] = message[r]
    BY <1>2, <1>3 DEF ReplyTypeOK
  <2> QED BY <1>1, <1>2, <1>3, <2>1, FinishOther
<1>4. CASE r = i
  <2>1. Holds(w, r) /\ Answered(w, r)
    BY <1>1, <1>4 DEF Holds, Answered
  <2>2. session[w].send = accepts[r] /\ accepts[r] > 0
    BY <2>1 DEF Current, AcceptOK
  <2>3. /\ \A v \in OutboxWorkers : ~Holds(v, r)' /\ ~Answered(v, r)'
        /\ \A q \in ReplyRequests : ~Failing(q, r)'
        /\ outbox'[r].status = "COMPLETED"
    BY <1>2, <1>4, <2>1, FinishOwn
  <2>4. message'[r] = [status |-> "SENT", pid |-> accepts[r]] /\ accepts'[r] = accepts[r]
    BY <1>2, <1>4, <2>2 DEF ReplyTypeOK
  <2>5. Held(r)'
    BY <2>3 DEF Held
  <2>6. MessageOK(r)'
    BY <2>2, <2>3, <2>4 DEF MessageOK, OnLadder
  <2>7. AcceptOK(r)'
    BY <2>3, <2>4 DEF AcceptOK
  <2>8. FailingOK(r)'
    BY <2>3 DEF FailingOK
  <2> QED BY <2>5, <2>6, <2>7, <2>8 DEF Current
<1> QED BY <1>3, <1>4

(* A failed send: back to the queue, or the item and its message fail. *)
LEMMA FailStep ==
    ASSUME ReplyTypeOK, SessionsOK, NEW w \in OutboxWorkers, Fail(w),
           NEW r \in Replies \ overtaken', Current(r)
    PROVE  Current(r)'
<1> DEFINE i == session[w].cur
<1>1. /\ session[w].pc = "failing" /\ i \in session[w].todo /\ i \in Replies
      /\ session[w].msg.status = "SENDING"
  BY Kinds DEF Fail, SessionsOK, SessionShape, ReplyTypeOK, SessionStates
<1>2. UNCHANGED <<accepts, reported>>
  BY DEF Fail
<1>3. \/ Finish(w, i, "WAITING") /\ message' = message
      \/ Finish(w, i, "FAILED") /\ message' = [message EXCEPT ![i].status = "FAILED"]
  BY DEF Fail
<1>4. PICK status \in {"WAITING", "FAILED"} :
        /\ Finish(w, i, status)
        /\ status = "WAITING" => message' = message
        /\ status = "FAILED" => message' = [message EXCEPT ![i].status = "FAILED"]
  BY <1>3
<1>5. CASE r # i
  <2>1. message'[r] = message[r]
    BY <1>4, <1>5 DEF ReplyTypeOK
  <2> QED BY <1>1, <1>2, <1>4, <1>5, <2>1, FinishOther
<1>6. CASE r = i
  <2>1. Holds(w, r) /\ ~Answered(w, r)
    BY <1>1, <1>6 DEF Holds, Answered
  <2>2. /\ outbox[r].status = "PROCESSING"
        /\ \A v \in OutboxWorkers \ {w} : ~Answered(v, r)
        /\ message[r].status # "NONE"
        /\ message[r].pid > 0 => ReportedFailed(r, message[r].pid)
    BY <2>1, SoleHolder
  <2>3. message[r] = session[w].msg
    BY <1>6 DEF Fail, Overtaken, StaleMessage
  <2>4. /\ \A v \in OutboxWorkers : ~Holds(v, r)' /\ ~Answered(v, r)'
        /\ \A q \in ReplyRequests : ~Failing(q, r)'
        /\ outbox'[r].status = status
    BY <1>4, <1>6, <2>1, FinishOwn
  <2>5. \A n : ReportedFailed(r, n)' <=> ReportedFailed(r, n)
    BY <1>2 DEF ReportedFailed
  <2>6. /\ message'[r].pid = message[r].pid
        /\ status = "WAITING" => message'[r].status = "SENDING"
        /\ status = "FAILED" => message'[r].status = "FAILED"
    BY <1>1, <1>4, <1>6, <2>3, RowType DEF ReplyTypeOK, MessageRows
  <2>7. Held(r)'
    BY <2>4 DEF Held
  <2>8. MessageOK(r)'
    BY <1>2, <2>2, <2>4, <2>5, <2>6 DEF MessageOK, Current, OnLadder
  <2>9. AcceptOK(r)'
    BY <1>2, <2>1, <2>2, <2>4, <2>5, <2>6 DEF AcceptOK, Current
  <2>10. FailingOK(r)'
    BY <2>4 DEF FailingOK
  <2> QED BY <2>7, <2>8, <2>9, <2>10 DEF Current
<1> QED BY <1>5, <1>6

(* A process that starts or stops without an answer in hand, or goes on with the  *)
(* items it has, concerns no other part of a reply.                          *)
LEMMA Aside ==
    ASSUME ReplyTypeOK, NEW p \in ReplyProcs, NEW s, Session(p, s), NEW r \in Replies, Current(r),
           message'[r] = message[r], outbox'[r] = outbox[r], accepts'[r] = accepts[r],
           reported \subseteq reported',
           s.pc \notin {"idle", "claiming"} /\ r \in s.todo => Holds(p, r) /\ s.items[r] = session[p].items[r],
           ~Answered(p, r), s.pc # "accepted" \/ s.cur # r,
           ~(s.pc = "event" /\ s.cur = r /\ s.what = "FAILED")
    PROVE  Current(r)'
<1>1. /\ session'[p] = s
      /\ \A w \in ReplyProcs \ {p} :
           /\ Holds(w, r)' <=> Holds(w, r)
           /\ Answered(w, r)' <=> Answered(w, r)
           /\ Failing(w, r)' <=> Failing(w, r)
           /\ session'[w] = session[w]
  BY OthersSame
<1>2. /\ Holds(p, r)' => Holds(p, r) /\ session'[p].items[r] = session[p].items[r]
      /\ ~Answered(p, r)' /\ ~Failing(p, r)'
  BY <1>1 DEF Holds, Answered, Failing
<1>3. Untouched(r)
  BY <1>1, <1>2, Kinds DEF Untouched
<1> QED BY <1>3, Frame

(* A claim of a current row takes one that nobody is at work on.                *)
LEMMA ClaimStep ==
    ASSUME ReplyTypeOK, SessionsOK, NEW w \in OutboxWorkers, ClaimCommit(w),
           NEW r \in Replies \ overtaken', Current(r)
    PROVE  Current(r)'
<1>1. /\ session[w].pc = "claiming" /\ session[w].todo \subseteq Replies /\ session[w] \in SessionStates
      /\ w \in ReplyProcs
  BY DEF ClaimCommit, ReplyTypeOK, SessionStates, ReplyProcs
<1>2. PICK items \in [Replies -> OutboxRows] :
        items = [i \in Replies |-> IF i \in session[w].todo THEN ClaimedCopy(w, i) ELSE session[w].items[i]]
  <2>1. \A i \in Replies : session[w].items[i] \in OutboxRows /\ ClaimedCopy(w, i) \in OutboxRows
    BY <1>1, RowType DEF ClaimedCopy, OutboxRows, OutboxStatus
  <2>2. [i \in Replies |-> IF i \in session[w].todo THEN ClaimedCopy(w, i) ELSE session[w].items[i]]
          \in [Replies -> OutboxRows]
    BY <2>1
  <2> QED BY <2>2
<1> DEFINE s == [session[w] EXCEPT !.pc = "delivering", !.items = items]
<1>3. Session(w, s)
  BY <1>2 DEF ClaimCommit
<1>4. /\ s.pc = "delivering" /\ s.todo = session[w].todo /\ s.items = items
  BY <1>1 DEF SessionStates
<1>5. UNCHANGED <<message, accepts, reported>>
      /\ outbox' = [i \in Replies |-> IF i \in session[w].todo THEN ClaimedRow(w, i) ELSE outbox[i]]
  BY DEF ClaimCommit
<1>6. ~Answered(w, r)
  BY <1>1 DEF Answered
<1>7. CASE r \notin session[w].todo
  BY <1>1, <1>3, <1>4, <1>5, <1>6, <1>7, Aside
<1>8. CASE r \in session[w].todo
  <2>1. outbox[r] = session[w].items[r]
    BY <1>8 DEF ClaimCommit, Overtaken, StaleItem
  <2>2. outbox[r].status = "WAITING" \/ (outbox[r].status = "PROCESSING" /\ outbox[r].lease = "expired")
    BY <1>1, <1>8, <2>1 DEF SessionsOK, SessionShape
  <2>3. \A v \in OutboxWorkers : ~Holds(v, r) /\ ~Answered(v, r)
    BY <2>2, NoHolder
  <2>4. outbox'[r] = ClaimedCopy(w, r)
    BY <1>5, <1>8, <2>1, <2>2 DEF ClaimedRow, ClaimedCopy
  <2>5. outbox'[r].status = "PROCESSING" /\ outbox'[r].lease = "held"
    BY <2>4 DEF ClaimedCopy
  <2>6. session'[w].items[r] = outbox'[r] /\ ~Answered(w, r)' /\ ~Failing(w, r)'
    <3>1. session'[w] = s
      BY <1>1, <1>3, SessionIs
    <3>2. items[r] = ClaimedCopy(w, r)
      BY <1>2, <1>8
    <3> QED BY <1>4, <2>4, <3>1, <3>2 DEF Answered, Failing
  <2>7. /\ \A v \in OutboxWorkers \ {w} : ~Holds(v, r)' /\ ~Answered(v, r)'
        /\ \A q \in ReplyRequests : Failing(q, r)' => Failing(q, r)
    BY <1>1, <1>3, <2>3, <2>6, OthersSame, Kinds
  <2>8. \A q \in ReplyRequests : ~Failing(q, r)'
    BY <2>2, <2>7 DEF Current, FailingOK
  <2>9. \A n : ReportedFailed(r, n)' <=> ReportedFailed(r, n)
    BY <1>5 DEF ReportedFailed
  <2>10. Held(r)'
    BY <2>5, <2>6, <2>7 DEF Held
  <2>11. MessageOK(r)'
    BY <1>5, <2>2, <2>5, <2>9 DEF MessageOK, Current
  <2>12. AcceptOK(r)'
    BY <1>5, <2>3, <2>6, <2>7, <2>9 DEF AcceptOK, Current
  <2>13. FailingOK(r)'
    BY <2>8 DEF FailingOK
  <2> QED BY <2>10, <2>11, <2>12, <2>13 DEF Current
<1> QED BY <1>7, <1>8

(* The provider's answer, when it reaches the worker that asked.               *)
LEMMA AnswerStep ==
    ASSUME ReplyTypeOK, SessionsOK, NEW w \in OutboxWorkers, ProviderAnswers(w),
           NEW r \in Replies \ overtaken', Current(r)
    PROVE  Current(r)'
<1> DEFINE i == session[w].cur
<1>1. /\ session[w].pc = "sending" /\ i \in session[w].todo /\ i \in Replies
      /\ session[w] \in SessionStates /\ w \in ReplyProcs
  BY Kinds DEF ProviderAnswers, SessionsOK, SessionShape, ReplyTypeOK, SessionStates
<1>2. UNCHANGED <<message, outbox, reported>>
  BY DEF ProviderAnswers
<1>3. ~Answered(w, r)
  BY <1>1 DEF Answered
<1>4. ASSUME NEW class, Session(w, [session[w] EXCEPT !.pc = "failing", !.what = class]),
             accepts'[r] = accepts[r]
      PROVE  Current(r)'
  <2> DEFINE s == [session[w] EXCEPT !.pc = "failing", !.what = class]
  <2>1. s.pc = "failing" /\ s.todo = session[w].todo /\ s.items = session[w].items
    BY <1>1 DEF SessionStates
  <2>2. s.pc \notin {"idle", "claiming"} /\ r \in s.todo => Holds(w, r) /\ s.items[r] = session[w].items[r]
    BY <1>1, <2>1 DEF Holds
  <2> HIDE DEF s
  <2>3. Session(w, s)
    BY <1>4 DEF s
  <2> QED BY <1>1, <1>2, <1>3, <1>4, <2>1, <2>2, <2>3, Aside
<1>5. ASSUME accepts' = [accepts EXCEPT ![i] = @ + 1],
             Session(w, [session[w] EXCEPT !.pc = "accepted", !.send = accepts[i] + 1])
      PROVE  Current(r)'
  <2> DEFINE s == [session[w] EXCEPT !.pc = "accepted", !.send = accepts[i] + 1]
  <2>1. /\ s.pc = "accepted" /\ s.cur = i /\ s.todo = session[w].todo
        /\ s.items = session[w].items /\ s.send = accepts[i] + 1
    BY <1>1 DEF SessionStates
  <2>2. s.pc \notin {"idle", "claiming"} /\ r \in s.todo => Holds(w, r) /\ s.items[r] = session[w].items[r]
    BY <1>1, <2>1 DEF Holds
  <2> HIDE DEF s
  <2>3. Session(w, s) /\ session'[w] = s
    BY <1>1, <1>5, SessionIs DEF s
  <2>4. CASE r # i
    <3>1. accepts'[r] = accepts[r]
      BY <1>5, <2>4 DEF ReplyTypeOK
    <3> QED BY <1>1, <1>2, <1>3, <2>1, <2>2, <2>3, <2>4, <3>1, Aside
  <2>5. CASE r = i
    <3>1. Holds(w, r)
      BY <1>1, <2>5 DEF Holds
    <3>2. /\ outbox[r] = session[w].items[r] /\ outbox[r].status = "PROCESSING" /\ outbox[r].lease = "held"
          /\ \A v \in OutboxWorkers \ {w} : ~Holds(v, r) /\ ~Answered(v, r)
          /\ \A q \in ReplyRequests : ~Failing(q, r)
          /\ message[r].status # "NONE" /\ message[r].status # "FAILED"
          /\ message[r].pid > 0 => ReportedFailed(r, message[r].pid)
      BY <3>1, SoleHolder
    <3>3. accepts'[r] = accepts[r] + 1 /\ accepts[r] \in Nat
      BY <1>5, <2>5, RowType DEF ReplyTypeOK
    <3>4. /\ \A v \in OutboxWorkers \ {w} : ~Holds(v, r)' /\ ~Answered(v, r)'
          /\ \A q \in ReplyRequests : ~Failing(q, r)'
      BY <1>1, <2>3, <3>2, OthersSame, Kinds
    <3>5. Answered(w, r)' /\ session'[w].send = accepts'[r] /\ session'[w].items[r] = session[w].items[r]
      BY <2>1, <2>3, <2>5, <3>3 DEF Answered
    <3>6. \A n : ReportedFailed(r, n)' <=> ReportedFailed(r, n)
      BY <1>2 DEF ReportedFailed
    <3>7. Held(r)'
      BY <1>2, <3>2, <3>4, <3>5 DEF Held
    <3>8. MessageOK(r)'
      BY <1>2, <3>2, <3>6 DEF MessageOK, Current
    <3>9. AcceptOK(r)'
      BY <3>3, <3>4, <3>5 DEF AcceptOK
    <3>10. FailingOK(r)'
      BY <3>4 DEF FailingOK
    <3> QED BY <3>7, <3>8, <3>9, <3>10 DEF Current
  <2> QED BY <2>4, <2>5
<1>6. ASSUME accepts' = [accepts EXCEPT ![i] = @ + 1], Overtaken({i}),
             Session(w, [session[w] EXCEPT !.pc = "failing", !.what = "TRANSIENT"])
      PROVE  Current(r)'
  <2>1. accepts'[r] = accepts[r]
    BY <1>6 DEF Overtaken, ReplyTypeOK
  <2> QED BY <1>4, <1>6, <2>1
<1> QED BY <1>4, <1>5, <1>6 DEF ProviderAnswers

(* A worker that selects a batch, looks at an item or dies.                      *)
LEMMA AsideStep ==
    ASSUME ReplyTypeOK, SessionsOK, NEW w \in OutboxWorkers,
           \/ ClaimSelect(w)
           \/ OutboxCrash(w)
           \/ \E i \in Replies : DeliverStart(w, i),
           NEW r \in Replies \ overtaken', Current(r)
    PROVE  Current(r)'
<1>1. w \in ReplyProcs /\ session[w] \in SessionStates /\ UNCHANGED <<message, outbox, accepts, reported>>
  BY Kinds DEF ReplyTypeOK, ClaimSelect, OutboxCrash, DeliverStart
<1>2. CASE ClaimSelect(w)
  <2>1. PICK batch : Session(w, [Closed EXCEPT !.pc = "claiming", !.todo = batch, !.items = outbox])
    BY <1>2 DEF ClaimSelect
  <2> DEFINE s == [Closed EXCEPT !.pc = "claiming", !.todo = batch, !.items = outbox]
  <2>2. s.pc = "claiming" /\ ~Answered(w, r)
    BY <1>2 DEF Closed, ClaimSelect, Answered
  <2> HIDE DEF s
  <2>3. Session(w, s)
    BY <2>1 DEF s
  <2> QED BY <1>1, <2>2, <2>3, Aside
<1>3. CASE OutboxCrash(w)
  <2>1. Session(w, Closed) /\ ~Answered(w, r)
    BY <1>3 DEF OutboxCrash, Overtaken, Answered
  <2> QED BY <1>1, <2>1, ClosedType, Aside
<1>4. ASSUME NEW i \in Replies, DeliverStart(w, i) PROVE Current(r)'
  <2>1. PICK s \in { [session[w] EXCEPT !.pc = "sending", !.cur = i, !.msg = message[i]],
                     [session[w] EXCEPT !.pc = "failing", !.cur = i, !.msg = message[i], !.what = "FINAL"] } :
          Session(w, s)
    BY <1>4 DEF DeliverStart
  <2>2. s.pc \in {"sending", "failing"} /\ s.todo = session[w].todo /\ s.items = session[w].items
    BY <1>1, <2>1 DEF SessionStates
  <2>3. session[w].pc = "delivering"
    BY <1>4 DEF DeliverStart
  <2>4. r \in s.todo => Holds(w, r) /\ s.items[r] = session[w].items[r]
    BY <2>2, <2>3 DEF Holds
  <2>5. ~Answered(w, r)
    BY <2>3 DEF Answered
  <2> QED BY <1>1, <2>1, <2>2, <2>4, <2>5, Aside
<1> QED BY <1>2, <1>3, <1>4

(* A request that starts, but for the report of a failed send.                  *)
LEMMA RequestStartStep ==
    ASSUME ReplyTypeOK, SessionsOK, NEW q \in ReplyRequests, NEW i \in Replies,
           QueueReplyCheck(q, i) \/ RetryFailedCheck(q, i),
           NEW r \in Replies, Current(r)
    PROVE  Current(r)'
<1>1. q \in ReplyProcs /\ UNCHANGED <<message, outbox, accepts, reported>> /\ session[q].pc = "idle"
  BY Kinds DEF QueueReplyCheck, RetryFailedCheck
<1>2. PICK s \in { [Closed EXCEPT !.pc = "queueing", !.cur = i],
                   [Closed EXCEPT !.pc = "retrying", !.cur = i, !.msg = message[i], !.items = outbox] } :
        Session(q, s)
  BY DEF QueueReplyCheck, RetryFailedCheck
<1>3. s.pc \in {"queueing", "retrying"} /\ s.todo = {}
  BY <1>2 DEF Closed
<1>4. ~Answered(q, r)
  BY <1>1 DEF Answered
<1> QED BY <1>1, <1>2, <1>3, <1>4, Aside

(* A delivery event: one that reports a failure finds the message sent, as each    *)
(* is handled once.                                                           *)
LEMMA EventLoadStep ==
    ASSUME ReplyTypeOK, SessionsOK, NEW q \in ReplyRequests, NEW i \in Replies,
           NEW kind \in EventKinds, NEW n \in 1..accepts[i], EventLoad(q, i, n, kind),
           NEW r \in Replies, Current(r)
    PROVE  Current(r)'
<1>1. /\ q \in ReplyProcs /\ UNCHANGED <<message, outbox, accepts>> /\ session[q].pc = "idle"
      /\ reported' = reported \cup {<<i, n, kind>>} /\ <<i, n, kind>> \notin reported
  BY Kinds DEF EventLoad
<1>2. ~Answered(q, r) /\ ~Failing(q, r)
  BY <1>1 DEF Answered, Failing
<1>3. CASE UNCHANGED session
  <2>1. Untouched(r)
    BY <1>1, <1>3 DEF Untouched, Holds, Answered, Failing
  <2> QED BY <2>1, Frame
<1> DEFINE s == [Closed EXCEPT !.pc = "event", !.cur = i, !.msg = message[i], !.what = kind]
<1>4. s.pc = "event" /\ s.todo = {} /\ s.cur = i /\ s.what = kind
  BY DEF Closed
<1>5. (message[i].pid = n /\ Session(q, s)) \/ UNCHANGED session
  BY DEF EventLoad
<1> HIDE DEF s
<1>6. CASE message[i].pid = n /\ Session(q, s) /\ (r # i \/ kind # "FAILED")
  BY <1>1, <1>2, <1>4, <1>6, Aside
<1>7. CASE message[i].pid = n /\ Session(q, s) /\ r = i /\ kind = "FAILED"
  <2>1. n > 0 /\ ~ReportedFailed(r, n)
    BY <1>1, <1>7, RowType DEF ReportedFailed
  <2>2. message[r].status \in OnLadder /\ n = accepts[r] /\ outbox[r].status = "COMPLETED"
    BY <1>7, <2>1 DEF Current, MessageOK
  <2>3. \A p \in ReplyRequests : ~Failing(p, r)
    BY <2>1, <2>2 DEF Current, FailingOK
  <2>4. /\ session'[q] = s
        /\ \A v \in ReplyProcs \ {q} :
             /\ Holds(v, r)' <=> Holds(v, r)
             /\ Answered(v, r)' <=> Answered(v, r)
             /\ Failing(v, r)' <=> Failing(v, r)
             /\ session'[v] = session[v]
    BY <1>1, <1>7, OthersSame
  <2>5. ReportedFailed(r, n)' /\ \A m : ReportedFailed(r, m) => ReportedFailed(r, m)'
    BY <1>1, <1>7 DEF ReportedFailed
  <2>6. Held(r)'
    BY <1>1, <2>4, Kinds DEF Current, Held
  <2>7. MessageOK(r)'
    BY <1>1, <2>5 DEF Current, MessageOK
  <2>8. AcceptOK(r)'
    BY <1>1, <2>2, <2>4, <2>5, Kinds DEF Current, AcceptOK
  <2>9. FailingOK(r)'
    BY <1>1, <1>7, <2>2, <2>3, <2>4, <2>5, Kinds DEF FailingOK
  <2> QED BY <2>6, <2>7, <2>8, <2>9 DEF Current
<1> QED BY <1>3, <1>5, <1>6, <1>7

(* The commits of the requests. *)
LEMMA QueueStep ==
    ASSUME ReplyTypeOK, SessionsOK, NEW q \in ReplyRequests, QueueReplyCommit(q),
           NEW r \in Replies, Current(r)
    PROVE  Current(r)'
<1> DEFINE i == session[q].cur
<1>1. /\ session[q].pc = "queueing" /\ q \in ReplyProcs /\ Session(q, Closed)
      /\ UNCHANGED <<accepts, reported>> /\ i \in Replies
  BY Kinds DEF QueueReplyCommit, SessionsOK, SessionShape
<1>2. ~Answered(q, r)
  BY <1>1 DEF Answered
<1>3. CASE UNCHANGED <<message, outbox>>
  BY <1>1, <1>2, <1>3, ClosedType, Aside
<1>4. CASE /\ outbox[i].status = "NONE"
           /\ message' = [message EXCEPT ![i] = [status |-> "SENDING", pid |-> 0]]
           /\ outbox' = [outbox EXCEPT ![i] = [NoRow EXCEPT !.status = "WAITING"]]
  <2>1. CASE r # i
    <3>1. message'[r] = message[r] /\ outbox'[r] = outbox[r]
      BY <1>4, <2>1 DEF ReplyTypeOK
    <3> QED BY <1>1, <1>2, <3>1, ClosedType, Aside
  <2>2. CASE r = i
    <3>1. message[r].status = "NONE" /\ message[r].pid = 0 /\ accepts[r] = 0
      BY <1>4, <2>2 DEF Current, MessageOK
    <3>2. \A w \in OutboxWorkers : ~Holds(w, r) /\ ~Answered(w, r)
      BY <1>4, <2>2, NoHolder
    <3>3. \A p \in ReplyRequests : ~Failing(p, r)
      BY <1>4, <2>2 DEF Current, FailingOK
    <3>4. message'[r] = [status |-> "SENDING", pid |-> 0] /\ outbox'[r].status = "WAITING"
      BY <1>4, <2>2 DEF ReplyTypeOK, NoRow
    <3>5. ~Holds(q, r)' /\ ~Answered(q, r)' /\ ~Failing(q, r)'
      BY <1>1, SessionIs, ClosedType DEF Holds, Answered, Failing
    <3>6. /\ \A w \in OutboxWorkers : ~Holds(w, r)' /\ ~Answered(w, r)'
          /\ \A p \in ReplyRequests : ~Failing(p, r)'
      BY <1>1, <3>2, <3>3, <3>5, OthersSame, Kinds
    <3>7. Held(r)' /\ FailingOK(r)'
      BY <3>6 DEF Held, FailingOK
    <3>8. MessageOK(r)'
      BY <1>1, <3>4 DEF MessageOK, OnLadder
    <3>9. AcceptOK(r)'
      BY <1>1, <3>1, <3>6 DEF AcceptOK
    <3> QED BY <3>7, <3>8, <3>9 DEF Current
  <2> QED BY <2>1, <2>2
<1> QED BY <1>3, <1>4 DEF QueueReplyCommit

LEMMA RetryStep ==
    ASSUME ReplyTypeOK, SessionsOK, NEW q \in ReplyRequests, RetryFailedCommit(q),
           NEW r \in Replies \ overtaken', Current(r)
    PROVE  Current(r)'
<1> DEFINE i == session[q].cur
<1>1. /\ session[q].pc = "retrying" /\ q \in ReplyProcs /\ Session(q, Closed)
      /\ UNCHANGED <<accepts, reported>> /\ i \in Replies /\ session[q].msg.status = "FAILED"
  BY Kinds DEF RetryFailedCommit, SessionsOK, SessionShape
<1>2. ~Answered(q, r)
  BY <1>1 DEF Answered
<1>3. /\ message' = [message EXCEPT ![i].status = "SENDING"]
      /\ outbox' = [outbox EXCEPT ![i].status = "WAITING", ![i].lease = "none"]
  BY DEF RetryFailedCommit
<1>4. CASE r # i
  <2>1. message'[r] = message[r] /\ outbox'[r] = outbox[r]
    BY <1>3, <1>4 DEF ReplyTypeOK
  <2> QED BY <1>1, <1>2, <2>1, ClosedType, Aside
<1>5. CASE r = i
  <2>1. message[r].status = "FAILED"
    BY <1>1, <1>5 DEF RetryFailedCommit, Overtaken, StaleMessage
  <2>2. outbox[r].status \in {"COMPLETED", "FAILED"} /\ (message[r].pid > 0 => ReportedFailed(r, message[r].pid))
    BY <2>1 DEF Current, MessageOK, OnLadder
  <2>3. \A w \in OutboxWorkers : ~Holds(w, r) /\ ~Answered(w, r)
    BY <2>2, NoHolder
  <2>4. \A p \in ReplyRequests : ~Failing(p, r)
    BY <2>1 DEF Current, FailingOK, OnLadder
  <2>5. message'[r].status = "SENDING" /\ message'[r].pid = message[r].pid
    BY <1>3, <1>5, RowType DEF ReplyTypeOK, MessageRows
  <2>6. outbox'[r].status = "WAITING"
    BY <1>3, <1>5, RowType DEF ReplyTypeOK, OutboxRows
  <2>7. ~Holds(q, r)' /\ ~Answered(q, r)' /\ ~Failing(q, r)'
    BY <1>1, SessionIs, ClosedType DEF Holds, Answered, Failing
  <2>8. /\ \A w \in OutboxWorkers : ~Holds(w, r)' /\ ~Answered(w, r)'
        /\ \A p \in ReplyRequests : ~Failing(p, r)'
    BY <1>1, <2>3, <2>4, <2>7, OthersSame, Kinds
  <2>9. \A n : ReportedFailed(r, n)' <=> ReportedFailed(r, n)
    BY <1>1 DEF ReportedFailed
  <2>10. Held(r)' /\ FailingOK(r)'
    BY <2>8 DEF Held, FailingOK
  <2>11. MessageOK(r)'
    BY <1>1, <2>2, <2>5, <2>6, <2>9 DEF MessageOK, OnLadder
  <2>12. AcceptOK(r)'
    BY <1>1, <2>3, <2>5, <2>8, <2>9 DEF Current, AcceptOK
  <2> QED BY <2>10, <2>11, <2>12 DEF Current
<1> QED BY <1>4, <1>5

(* The status an event leaves: FAILED by a report of a failure and by nothing else. *)
LEMMA AfterEventIs ==
    ASSUME NEW old \in MessageStatus \ {"NONE"}, NEW kind \in OnLadder \cup {"FAILED"}
    PROVE  /\ kind = "FAILED" => AfterEvent(old, kind) = "FAILED"
           /\ kind # "FAILED" => AfterEvent(old, kind) \in OnLadder
                                 /\ Rank(AfterEvent(old, kind)) >= Rank(old)
<1>1. CASE kind = "FAILED"
  BY <1>1 DEF AfterEvent
<1>2. CASE kind # "FAILED"
  <2>1. Rank(kind) \in 2..4 /\ Rank(old) \in 0..4 /\ (old \notin OnLadder => Rank(old) <= 1)
    BY <1>2 DEF Rank, OnLadder, MessageStatus
  <2>2. CASE Rank(kind) >= Rank(old)
    BY <1>2, <2>1, <2>2 DEF AfterEvent, OnLadder
  <2>3. CASE ~(Rank(kind) >= Rank(old))
    <3>1. AfterEvent(old, kind) = old /\ old \in OnLadder
      BY <1>2, <2>1, <2>3 DEF AfterEvent
    <3> QED BY <1>2, <2>1, <3>1
  <2> QED BY <2>2, <2>3
<1> QED BY <1>1, <1>2

LEMMA EventStep ==
    ASSUME ReplyTypeOK, SessionsOK, NEW q \in ReplyRequests, EventCommit(q),
           NEW r \in Replies \ overtaken', Current(r)
    PROVE  Current(r)'
<1> DEFINE i == session[q].cur
           new == AfterEvent(session[q].msg.status, session[q].what)
<1>1. /\ session[q].pc = "event" /\ q \in ReplyProcs /\ Session(q, Closed)
      /\ UNCHANGED <<outbox, accepts, reported>> /\ i \in Replies
      /\ session[q].msg.pid > 0 /\ session[q].what \in OnLadder \cup {"FAILED"}
  BY Kinds, ReplyOutboxAssumption DEF EventCommit, SessionsOK, SessionShape, OnLadder
<1>2. ~Answered(q, r)
  BY <1>1 DEF Answered
<1>3. message' = message \/ message' = [message EXCEPT ![i].status = new]
  BY DEF EventCommit
<1>4. CASE r # i
  <2>1. message'[r] = message[r]
    BY <1>3, <1>4 DEF ReplyTypeOK
  <2> QED BY <1>1, <1>2, <2>1, ClosedType, Aside
<1>5. CASE r = i
  <2>1. message[r] = session[q].msg
    BY <1>5 DEF EventCommit, Overtaken, StaleMessage
  <2>2. message[r].pid > 0 /\ message[r].status \in MessageStatus \ {"NONE"}
    <3>1. message[r].pid > 0 /\ message[r].status \in MessageStatus
      BY <1>1, <2>1, RowType DEF MessageRows
    <3> QED BY <3>1 DEF Current, MessageOK
  <2>3. message'[r].status = new /\ message'[r].pid = message[r].pid
    BY <1>1, <1>5, <2>1, RowType DEF ReplyTypeOK, MessageRows, EventCommit
  <2>4. (session[q].what = "FAILED" => new = "FAILED") /\ (session[q].what # "FAILED" => new \in OnLadder)
    BY <1>1, <2>1, <2>2, AfterEventIs
  <2> HIDE DEF new
  <2>5. session'[q] = Closed
    BY <1>1, SessionIs
  <2>6. ~Holds(q, r)' /\ ~Answered(q, r)' /\ ~Failing(q, r)'
    BY <2>5, ClosedType DEF Holds, Answered, Failing
  <2>7. \A v \in ReplyProcs \ {q} :
           /\ Holds(v, r)' <=> Holds(v, r)
           /\ Answered(v, r)' <=> Answered(v, r)
           /\ Failing(v, r)' <=> Failing(v, r)
           /\ session'[v] = session[v]
    BY <1>1, OthersSame
  <2>8. \A n : ReportedFailed(r, n)' <=> ReportedFailed(r, n)
    BY <1>1 DEF ReportedFailed
  <2>9. session[q].what = "FAILED" => Failing(q, r)
    BY <1>1, <1>5 DEF Failing
  <2>10. Held(r)'
    BY <1>1, <2>7, Kinds DEF Current, Held
  <2>11. AcceptOK(r)'
    BY <1>1, <2>3, <2>7, <2>8, Kinds DEF Current, AcceptOK
  <2>12. CASE session[q].what = "FAILED"
    <3>1. outbox[r].status = "COMPLETED" /\ ReportedFailed(r, message[r].pid)
      BY <2>9, <2>12 DEF Current, FailingOK
    <3>2. MessageOK(r)'
      BY <1>1, <2>3, <2>4, <2>8, <2>12, <3>1 DEF MessageOK, OnLadder
    <3>3. \A p \in ReplyRequests : ~Failing(p, r)'
      BY <1>1, <2>6, <2>7, <2>9, <2>12, Kinds DEF Current, FailingOK
    <3>4. FailingOK(r)'
      BY <3>3 DEF FailingOK
    <3> QED BY <2>10, <2>11, <3>2, <3>4 DEF Current
  <2>13. CASE session[q].what # "FAILED"
    <3>1. new \in OnLadder
      BY <2>4, <2>13
    <3>2. outbox[r].status # "NONE"
      BY <2>2 DEF Current, MessageOK
    <3>3. MessageOK(r)'
      BY <1>1, <2>2, <2>3, <2>8, <3>1, <3>2 DEF Current, MessageOK, OnLadder
    <3>4. FailingOK(r)'
      BY <1>1, <2>3, <2>6, <2>7, <2>8, <3>1, Kinds DEF Current, FailingOK
    <3> QED BY <2>10, <2>11, <3>3, <3>4 DEF Current
  <2> QED BY <2>12, <2>13
<1> QED BY <1>4, <1>5

(* A lease that grows old under its holder counts as overtaken.                 *)
LEMMA LeaseStep ==
    ASSUME ReplyTypeOK, SessionsOK, NEW i \in Replies, LeaseExpires(i),
           NEW r \in Replies \ overtaken', Current(r)
    PROVE  Current(r)'
<1>1. UNCHANGED <<message, session, accepts, reported>> /\ outbox' = [outbox EXCEPT ![i].lease = "expired"]
  BY DEF LeaseExpires
<1>2. CASE r # i
  <2>1. outbox'[r] = outbox[r]
    BY <1>1, <1>2 DEF ReplyTypeOK
  <2>2. Untouched(r)
    BY <1>1, <2>1 DEF Untouched, Holds, Answered, Failing
  <2> QED BY <2>2, Frame
<1>3. CASE r = i
  <2>1. \A w \in OutboxWorkers : ~Holds(w, r)
    BY <1>3 DEF LeaseExpires, Overtaken
  <2>2. outbox'[r].status = outbox[r].status
    BY <1>1, <1>3, RowType DEF ReplyTypeOK, OutboxRows
  <2>3. /\ \A w \in OutboxWorkers : (Holds(w, r)' <=> Holds(w, r)) /\ (Answered(w, r)' <=> Answered(w, r))
        /\ \A q \in ReplyRequests : Failing(q, r)' <=> Failing(q, r)
        /\ \A n : ReportedFailed(r, n)' <=> ReportedFailed(r, n)
    BY <1>1 DEF Holds, Answered, Failing, ReportedFailed
  <2>4. Held(r)'
    BY <2>1, <2>3 DEF Held
  <2>5. MessageOK(r)'
    BY <1>1, <2>2, <2>3 DEF Current, MessageOK
  <2>6. AcceptOK(r)'
    BY <1>1, <2>3 DEF Current, AcceptOK
  <2>7. FailingOK(r)'
    BY <1>1, <2>2, <2>3 DEF Current, FailingOK
  <2> QED BY <2>4, <2>5, <2>6, <2>7 DEF Current
<1> QED BY <1>2, <1>3

(* Every step keeps what is known of a reply whose rows are written from current   *)
(* copies.                                                                   *)
LEMMA CurrentStep ==
    ASSUME ReplyTypeOK, SessionsOK, CurrentOK, [ReplyNext]_replyVars
    PROVE  CurrentOK'
<1>1. overtaken \subseteq overtaken'
  <2>1. ASSUME NEW w \in OutboxWorkers, OutboxStep(w) \/ DeliverRaises(w) \/ OutboxCrash(w)
        PROVE  overtaken \subseteq overtaken'
    BY <2>1 DEF OutboxStep, DeliverRaises, OutboxCrash, ClaimSelect, ClaimCommit, DeliverSettled,
                DeliverStart, ProviderAnswers, DeliverSent, Fail, Overtaken
  <2>2. ASSUME NEW q \in ReplyRequests, RequestStep(q) PROVE overtaken \subseteq overtaken'
    BY <2>2 DEF RequestStep, QueueReplyCheck, RetryFailedCheck, EventLoad, QueueReplyCommit,
                RetryFailedCommit, EventCommit, Overtaken
  <2>3. ASSUME NEW r \in Replies, LeaseExpires(r) PROVE overtaken \subseteq overtaken'
    BY <2>3 DEF LeaseExpires, Overtaken
  <2> QED BY <2>1, <2>2, <2>3 DEF ReplyNext, replyVars
<1> SUFFICES ASSUME NEW r \in Replies \ overtaken' PROVE Current(r)'
  BY DEF CurrentOK
<1>2. Current(r)
  BY <1>1 DEF CurrentOK
<1>3. ASSUME NEW w \in OutboxWorkers, OutboxStep(w) \/ DeliverRaises(w) \/ OutboxCrash(w) PROVE Current(r)'
  <2>1. CASE ClaimSelect(w) \/ OutboxCrash(w) \/ \E i \in Replies : DeliverStart(w, i)
    BY <1>2, <2>1, AsideStep
  <2>2. ASSUME NEW i \in Replies, DeliverSettled(w, i) PROVE Current(r)'
    BY <1>2, <2>2, SettledStep
  <2>3. CASE DeliverRaises(w)
    <3>1. session[w].cur \in Replies
      BY <2>3, Kinds DEF DeliverRaises, SessionsOK, SessionShape, ReplyTypeOK, SessionStates
    <3> QED BY <1>2, <2>3, <3>1, SettledStep
  <2>4. CASE ClaimCommit(w)
    BY <1>2, <2>4, ClaimStep
  <2>5. CASE ProviderAnswers(w)
    BY <1>2, <2>5, AnswerStep
  <2>6. CASE DeliverSent(w)
    BY <1>2, <2>6, SentStep
  <2>7. CASE Fail(w)
    BY <1>2, <2>7, FailStep
  <2> QED BY <1>3, <2>1, <2>2, <2>3, <2>4, <2>5, <2>6, <2>7 DEF OutboxStep
<1>4. ASSUME NEW q \in ReplyRequests, RequestStep(q) PROVE Current(r)'
  BY <1>2, <1>4, RequestStartStep, EventLoadStep, QueueStep, RetryStep, EventStep DEF RequestStep
<1>5. ASSUME NEW i \in Replies, LeaseExpires(i) PROVE Current(r)'
  BY <1>2, <1>5, LeaseStep
<1>6. CASE UNCHANGED replyVars
  <2>1. Untouched(r)
    BY <1>6 DEF replyVars, Untouched, Holds, Answered, Failing
  <2> QED BY <1>2, <2>1, Frame
<1> QED BY <1>3, <1>4, <1>5, <1>6 DEF ReplyNext

----------------------------------------------------------------------------
(* The theorems. *)

ReplyIInv == ReplyTypeOK /\ SessionsOK /\ CurrentOK

(* The inductive invariant: typed rows, sessions that hold what their program has  *)
(* loaded, and what is known of a reply whose rows are written from current copies. *)
LEMMA ReplyInvariant == ReplySpec => []ReplyIInv
<1>1. ReplyInit => ReplyIInv
  <2> SUFFICES ASSUME ReplyInit PROVE ReplyIInv
    OBVIOUS
  <2>1. ReplyTypeOK
    BY ClosedType DEF ReplyInit, ReplyTypeOK, MessageRows, MessageStatus, OutboxRows, OutboxStatus, NoRow
  <2>2. SessionsOK
    BY ClosedShape DEF ReplyInit, SessionsOK
  <2>3. ASSUME NEW r \in Replies PROVE Current(r)
    <3>1. /\ \A w \in OutboxWorkers : ~Holds(w, r) /\ ~Answered(w, r)
          /\ \A q \in ReplyRequests : ~Failing(q, r)
      BY Kinds, ClosedType DEF ReplyInit, Holds, Answered, Failing
    <3>2. message[r] = [status |-> "NONE", pid |-> 0] /\ outbox[r] = NoRow /\ accepts[r] = 0
      BY DEF ReplyInit
    <3>3. MessageOK(r)
      BY <3>2 DEF MessageOK, NoRow, OnLadder
    <3>4. Held(r) /\ AcceptOK(r) /\ FailingOK(r)
      BY <3>1, <3>2 DEF Held, AcceptOK, FailingOK
    <3> QED BY <3>3, <3>4 DEF Current
  <2> QED BY <2>1, <2>2, <2>3 DEF ReplyIInv, CurrentOK
<1>2. ReplyIInv /\ [ReplyNext]_replyVars => ReplyIInv'
  BY ReplyTypeStep, SessionsStep, CurrentStep DEF ReplyIInv
<1> QED BY <1>1, <1>2, PTL DEF ReplySpec

(* The types hold, and a reply that is offered for a retry was not sent, or its     *)
(* last accepted send was reported failed, while its rows are written from current *)
(* copies (outbox.py _fail, replies.py retry_failed, engine.py                 *)
(* apply_delivery_to_message).                                               *)
THEOREM ReplyInvHolds == ReplySpec => []ReplyInv
<1>1. ReplyIInv => ReplyInv
  <2> SUFFICES ASSUME ReplyIInv, NEW r \in Replies, message[r].status = "FAILED", accepts[r] > 0,
                      r \notin overtaken
               PROVE  <<r, accepts[r], "FAILED">> \in reported
    BY DEF ReplyIInv, ReplyInv, FailedNotSent
  <2>1. Current(r)
    BY DEF ReplyIInv, CurrentOK
  <2>2. outbox[r].status \in {"COMPLETED", "FAILED"}
    BY <2>1 DEF Current, MessageOK
  <2>3. \A w \in OutboxWorkers : ~Answered(w, r)
    BY <2>1, <2>2, NoHolder DEF ReplyIInv
  <2>4. ReportedFailed(r, accepts[r]) \/ message[r].pid = accepts[r]
    BY <2>1, <2>3 DEF Current, AcceptOK
  <2> QED BY <2>1, <2>4 DEF Current, MessageOK, ReportedFailed, OnLadder
<1> QED BY <1>1, ReplyInvariant, PTL

(* No reply is sent a second time unless the first send was reported failed:       *)
(* whoever asks the provider holds the item, and the last accepted send would be in *)
(* the hands of that same worker, or be named by the message and close the item.   *)
THEOREM NoDuplicateReplyHolds == ReplySpec => NoDuplicateReply
<1>1. ReplyIInv /\ [ReplyNext]_replyVars =>
        [\A r \in Replies : accepts'[r] > accepts[r] /\ accepts[r] > 0 =>
           r \in overtaken \/ <<r, accepts[r], "FAILED">> \in reported]_replyVars
  <2> SUFFICES ASSUME ReplyIInv, ReplyNext, NEW r \in Replies \ overtaken,
                      accepts'[r] > accepts[r], accepts[r] > 0
               PROVE  <<r, accepts[r], "FAILED">> \in reported
    BY DEF replyVars
  <2>1. ReplyTypeOK /\ SessionsOK /\ Current(r)
    BY DEF ReplyIInv, CurrentOK
  <2>2. PICK w \in OutboxWorkers : ProviderAnswers(w)
    <3>1. accepts' # accepts
      BY <2>1 DEF ReplyTypeOK
    <3> QED
      BY <3>1 DEF ReplyNext, OutboxStep, RequestStep, ClaimSelect, ClaimCommit, DeliverSettled, DeliverStart,
                  DeliverSent, Fail, DeliverRaises, OutboxCrash, LeaseExpires, QueueReplyCheck,
                  RetryFailedCheck, EventLoad, QueueReplyCommit, RetryFailedCommit, EventCommit
  <2>3. session[w].pc = "sending" /\ session[w].cur = r
    BY <2>1, <2>2 DEF ProviderAnswers, ReplyTypeOK
  <2>4. Holds(w, r) /\ ~Answered(w, r)
    BY <2>1, <2>3, Kinds DEF SessionsOK, SessionShape, Holds, Answered
  <2>5. \A v \in OutboxWorkers : ~Answered(v, r)
    BY <2>1, <2>4, SoleHolder
  <2>6. ReportedFailed(r, accepts[r]) \/ message[r].pid = accepts[r]
    BY <2>1, <2>5 DEF Current, AcceptOK
  <2>7. message[r].pid > 0 => ReportedFailed(r, message[r].pid)
    BY <2>1, <2>4, SoleHolder
  <2> QED BY <2>6, <2>7 DEF ReportedFailed
<1> QED BY <1>1, ReplyInvariant, PTL DEF ReplySpec, NoDuplicateReply

(* The delivery status moves up the ladder or to FAILED, in whatever order the      *)
(* events, the worker's commit and the retries come, while the rows are written    *)
(* from current copies.                                                      *)
THEOREM DeliveryMovesForwardHolds == ReplySpec => DeliveryMovesForward
<1>1. ReplyIInv /\ [ReplyNext]_replyVars =>
        [\A r \in Replies : Rank(message'[r].status) < Rank(message[r].status) =>
           \/ message'[r].status = "FAILED"
           \/ r \in overtaken']_replyVars
  <2> SUFFICES ASSUME ReplyIInv, [ReplyNext]_replyVars, NEW r \in Replies \ overtaken',
                      message'[r].status # "FAILED", message'[r] # message[r]
               PROVE  ~(Rank(message'[r].status) < Rank(message[r].status))
    <3>1. \A x : Rank(x) \in Nat
      BY DEF Rank
    <3> QED BY <3>1
  <2>1. ReplyTypeOK /\ SessionsOK /\ (r \notin overtaken => Current(r))
    BY DEF ReplyIInv, CurrentOK
  <2>2. \A x : Rank(x) \in 0..4
    BY DEF Rank
  <2>3. message' # message
    OBVIOUS
  <2>4. \/ \E w \in OutboxWorkers : DeliverSent(w) \/ Fail(w)
        \/ \E q \in ReplyRequests : QueueReplyCommit(q) \/ RetryFailedCommit(q) \/ EventCommit(q)
    BY <2>3 DEF ReplyNext, replyVars, OutboxStep, RequestStep, ClaimSelect, ClaimCommit, DeliverSettled,
                DeliverStart, ProviderAnswers, DeliverRaises, OutboxCrash, LeaseExpires, QueueReplyCheck,
                RetryFailedCheck, EventLoad
  <2>5. ASSUME NEW w \in OutboxWorkers, DeliverSent(w)
        PROVE  ~(Rank(message'[r].status) < Rank(message[r].status))
    <3>1. session[w].cur = r
      BY <2>1, <2>5 DEF DeliverSent, ReplyTypeOK
    <3>2. message[r] = session[w].msg /\ session[w].msg.status = "SENDING"
      BY <2>1, <2>5, <3>1, Kinds DEF DeliverSent, Overtaken, StaleMessage, SessionsOK, SessionShape
    <3>3. message'[r].status = "SENT"
      BY <2>1, <2>5, <3>1 DEF DeliverSent, ReplyTypeOK
    <3> QED BY <3>2, <3>3 DEF Rank
  <2>6. ASSUME NEW w \in OutboxWorkers, Fail(w) PROVE FALSE
    <3>1. message' = [message EXCEPT ![session[w].cur].status = "FAILED"]
      BY <2>3, <2>6 DEF Fail
    <3> QED BY <2>1, <3>1, RowType DEF ReplyTypeOK, MessageRows
  <2>7. ASSUME NEW q \in ReplyRequests, QueueReplyCommit(q)
        PROVE  ~(Rank(message'[r].status) < Rank(message[r].status))
    <3>1. /\ outbox[session[q].cur].status = "NONE"
          /\ message' = [message EXCEPT ![session[q].cur] = [status |-> "SENDING", pid |-> 0]]
          /\ overtaken' = overtaken
      BY <2>3, <2>7 DEF QueueReplyCommit
    <3>2. session[q].cur = r
      BY <2>1, <3>1 DEF ReplyTypeOK
    <3>3. message[r].status = "NONE"
      BY <2>1, <3>1, <3>2 DEF Current, MessageOK
    <3> QED BY <2>2, <3>3 DEF Rank
  <2>8. ASSUME NEW q \in ReplyRequests, RetryFailedCommit(q)
        PROVE  ~(Rank(message'[r].status) < Rank(message[r].status))
    <3>1. session[q].cur = r
      BY <2>1, <2>8 DEF RetryFailedCommit, ReplyTypeOK
    <3>2. message[r] = session[q].msg /\ session[q].msg.status = "FAILED"
      BY <2>1, <2>8, <3>1, Kinds DEF RetryFailedCommit, Overtaken, StaleMessage, SessionsOK, SessionShape
    <3> QED BY <2>2, <3>2 DEF Rank
  <2>9. ASSUME NEW q \in ReplyRequests, EventCommit(q)
        PROVE  ~(Rank(message'[r].status) < Rank(message[r].status))
    <3> DEFINE new == AfterEvent(session[q].msg.status, session[q].what)
    <3>1. message' = [message EXCEPT ![session[q].cur].status = new]
      BY <2>3, <2>9 DEF EventCommit
    <3>2. session[q].cur = r
      BY <2>1, <3>1 DEF ReplyTypeOK
    <3>3. /\ message[r] = session[q].msg /\ session[q].msg.pid > 0
          /\ session[q].what \in OnLadder \cup {"FAILED"} /\ overtaken' = overtaken
      BY <2>1, <2>9, <3>2, Kinds, ReplyOutboxAssumption
         DEF EventCommit, Overtaken, StaleMessage, SessionsOK, SessionShape, OnLadder
    <3>4. message[r].status \in MessageStatus \ {"NONE"}
      <4>1. message[r].status \in MessageStatus
        BY <2>1, RowType DEF MessageRows
      <4> QED BY <2>1, <3>3, <4>1 DEF Current, MessageOK
    <3>5. message'[r].status = new
      BY <2>1, <3>1, <3>2, RowType DEF ReplyTypeOK, MessageRows
    <3>6. session[q].what # "FAILED"
      BY <3>3, <3>4, <3>5, AfterEventIs
    <3>7. Rank(new) >= Rank(message[r].status)
      BY <3>3, <3>4, <3>6, AfterEventIs
    <3> HIDE DEF new
    <3> QED BY <2>2, <3>5, <3>7
  <2> QED BY <2>4, <2>5, <2>6, <2>7, <2>8, <2>9
<1> QED BY <1>1, ReplyInvariant, PTL DEF ReplySpec, DeliveryMovesForward
=============================================================================
