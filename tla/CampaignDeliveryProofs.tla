----------------------- MODULE CampaignDeliveryProofs -----------------------
(***************************************************************************)
(* Proofs about CampaignDelivery for every set of campaigns, recipients,      *)
(* workers and clients and every bound: type correctness, one worker at a     *)
(* time per queue item, at most one send per recipient, nobody lost by a      *)
(* pause or a retry, a verdict for everybody in a completed campaign, and     *)
(* the refinement of RecipientFate.                                           *)
(***************************************************************************)
EXTENDS CampaignDeliveryFate, TLAPS

(* The worker has taken an item out of its batch and is sending it. *)
SendPcs == {"presend", "release", "drop", "skip", "begin", "sending", "accepted", "failing", "verdict"}

(* What each process holds at each point of its program. *)
Shape(s) ==
    /\ s.pc = "loaded" => s.op \in OperatorRequests /\ s.seen \in CampaignStatus
                          /\ Permits(s.op, s.seen)
    /\ s.pc \in {"loaded", "cancel_items", "cancel_recipients", "insert", "pending", "mark",
                 "enqueue", "run"} => s.camp \in Campaigns
    /\ s.pc \in SendPcs <=> s.cur # None
    /\ s.cur \notin s.todo
    /\ s.todo # {} => s.pc \in {"mark", "enqueue", "recover", "item"} \cup SendPcs
    /\ s.stale # {} => s.pc = "recover"
    /\ s.pc \in {"mark", "enqueue"} => s.todo # {} /\ s.todo \subseteq RecipientsOf(s.camp)

ShapeOK == \A p \in Procs : Shape(proc[p])

(* The item under a live lease is PROCESSING, unless it was cancelled under its  *)
(* holder or has just failed.                                                *)
HeldItem(w, r) ==
    /\ ~item[r].expired
    /\ \/ item[r].status \in {"PROCESSING", "CANCELLED"}
       \/ item[r].status = "FAILED" /\ proc[w].pc = "verdict" /\ proc[w].cur = r

HeldItems == \A r \in Recipients \ suspect : \A w \in Workers : r \in Holding(w) => HeldItem(w, r)

(* The one accepted message of a recipient is in its worker's hands or          *)
(* recorded.                                                                 *)
SentRecorded ==
    \A r \in Recipients \ suspect : sent[r] > 0 =>
        \/ item[r].status = "COMPLETED"
        \/ \E w \in Workers : proc[w].cur = r /\ proc[w].pc = "accepted"

----------------------------------------------------------------------------
(* The launch: which recipients and items exist while a process queues them. *)

Loading(p, r) ==
    /\ proc[p].camp = CampaignOf[r]
    /\ \/ proc[p].pc = "pending"
       \/ proc[p].pc = "mark" /\ r \in proc[p].todo

Enqueueing(p, r) ==
    proc[p].camp = CampaignOf[r] /\ proc[p].pc = "enqueue" /\ r \in proc[p].todo

(* Queue items only for snapshotted recipients, and none in a campaign that      *)
(* still has a PENDING one; the snapshot is marked as a whole.                  *)
LaunchOK ==
    /\ \A r \in Recipients : item[r].status # "NONE" => rcpt[r] # "NONE"
    /\ \A r, s \in Recipients : rcpt[r] = "PENDING" /\ CampaignOf[s] = CampaignOf[r] =>
           item[s].status = "NONE" /\ rcpt[s] \in {"PENDING", "NONE"}
    /\ \A p \in Procs : proc[p].pc = "mark" =>
           proc[p].todo = {r \in RecipientsOf(proc[p].camp) : rcpt[r] # "NONE"}
    /\ \A p \in Procs : proc[p].pc = "enqueue" =>
           \A r \in RecipientsOf(proc[p].camp) : rcpt[r] # "PENDING"
    /\ \A p \in Procs : proc[p].pc = "enqueue" => \A r \in proc[p].todo : rcpt[r] # "NONE"
    /\ \A p \in Procs : proc[p].pc = "enqueue" =>
           \/ proc[p].todo \subseteq suspect
           \/ \A s \in RecipientsOf(proc[p].camp) : item[s].status = "NONE"
    /\ \A p, q \in Procs : /\ p # q /\ proc[p].pc = "enqueue" /\ proc[q].pc = "enqueue"
                           /\ proc[p].camp = proc[q].camp
                           => proc[p].todo \subseteq suspect

(* The campaign has ended without completing, or its status is not to be         *)
(* trusted.                                                                  *)
Over(c) == c \in raced \/ camp[c] \in {"CANCELLED", "FAILED", "ARCHIVED"}

OverOK ==
    /\ \A p \in Procs : proc[p].pc \in {"cancel_items", "cancel_recipients"} => Over(proc[p].camp)
    /\ \A w \in Workers : proc[w].pc = "drop" => Over(CampaignOf[proc[w].cur])

(* Where a recipient without a verdict is on its way through the launch and       *)
(* the queue.                                                                *)
OnItsWay(r) ==
    /\ rcpt[r] = "PENDING" => \E p \in Procs : Loading(p, r)
    /\ rcpt[r] = "ELIGIBLE" /\ item[r].status = "NONE" => \E p \in Procs : Enqueueing(p, r)
    /\ rcpt[r] = "SENDING" => item[r].status # "NONE"
    /\ rcpt[r] \in {"PENDING", "ELIGIBLE", "SENDING"} /\ item[r].status # "NONE" =>
         item[r].status \in Pending \/ \E w \in Workers : proc[w].cur = r /\ proc[w].pc = "verdict"
    /\ \A w \in Workers : r \in Holding(w) =>
         item[r].status = "PROCESSING" \/ (proc[w].cur = r /\ proc[w].pc = "verdict")

OnItsWayOK == \A r \in Recipients \ suspect : Over(CampaignOf[r]) \/ OnItsWay(r)

(* A campaign that completed had items, and none of them is pending. *)
CompletedOK ==
    \A r \in Recipients \ suspect : LET c == CampaignOf[r] IN
        camp[c] = "COMPLETED" /\ c \notin raced =>
           /\ \E s \in RecipientsOf(c) : item[s].status # "NONE"
           /\ item[r].status \notin Pending

----------------------------------------------------------------------------
(* Types. *)

(* A status commit is typed and touches one campaign. *)
LEMMA SetStatusType ==
    ASSUME TypeOK, NEW c \in Campaigns, NEW seen, NEW status \in CampaignStatus,
           SetStatus(c, seen, status)
    PROVE  camp' \in [Campaigns -> CampaignStatus] /\ raced' \in SUBSET Campaigns
BY DEF SetStatus, TypeOK

LEMMA BecomeIs ==
    ASSUME TypeOK, NEW p \in Procs, NEW s, Become(p, s)
    PROVE  proc'[p] = s /\ \A q \in Procs \ {p} : proc'[q] = proc[q]
BY DEF Become, TypeOK

(* A process that takes a well-shaped state keeps the process table well shaped. *)
LEMMA BecomeType ==
    ASSUME TypeOK, ShapeOK, NEW p \in Procs, NEW s \in ProcStates, Shape(s), Become(p, s)
    PROVE  /\ proc' \in [Procs -> ProcStates]
           /\ ShapeOK'
           /\ proc'[p] = s
           /\ \A q \in Procs \ {p} : proc'[q] = proc[q]
<1>1. proc' \in [Procs -> ProcStates] /\ proc'[p] = s /\ \A q \in Procs \ {p} : proc'[q] = proc[q]
  BY DEF Become, TypeOK
<1>2. \A q \in Procs : Shape(proc'[q])
  BY <1>1 DEF ShapeOK
<1> QED BY <1>1, <1>2 DEF ShapeOK, Shape

LEMMA InHand ==
    ASSUME TypeOK, ShapeOK, NEW p \in Procs
    PROVE  proc[p] \in ProcStates /\ Shape(proc[p])
BY DEF TypeOK, ShapeOK

(* A process that moves on with other recipients to do. *)
LEMMA MoveType ==
    ASSUME NEW s, s \in ProcStates, NEW pc \in ProcPcs, NEW T, T \subseteq Recipients
    PROVE  [s EXCEPT !.pc = pc, !.todo = T] \in ProcStates
BY DEF ProcStates

(* An idle process has nothing in hand. *)
LEMMA IdleType == Idle \in ProcStates /\ Shape(Idle)
BY ConstantsAssumption DEF Idle, ProcStates, ProcPcs, NoAttempts, Shape, SendPcs

(* A process at the start of a request, a launch or a cycle holds campaigns and   *)
(* nothing else.                                                             *)
LEMMA FreshType ==
    ASSUME NEW pc \in {"launch", "pick", "promote", "claim", "finish"}, NEW C \in SUBSET Campaigns
    PROVE  /\ [Idle EXCEPT !.pc = pc, !.camps = C] \in ProcStates
           /\ Shape([Idle EXCEPT !.pc = pc, !.camps = C])
BY ConstantsAssumption DEF Idle, ProcStates, ProcPcs, NoAttempts, Shape, SendPcs

(* Within the send of one item only the step and the error class change ...      *)
LEMMA SendingType ==
    ASSUME TypeOK, ShapeOK, NEW w \in Workers, proc[w].pc \in SendPcs, NEW pc \in SendPcs,
           NEW op \in OperatorRequests \cup {"none", "TRANSIENT", "FINAL"}
    PROVE  /\ proc[w].cur \in Recipients
           /\ [proc[w] EXCEPT !.pc = pc] \in ProcStates /\ Shape([proc[w] EXCEPT !.pc = pc])
           /\ [proc[w] EXCEPT !.pc = pc, !.op = op] \in ProcStates
           /\ Shape([proc[w] EXCEPT !.pc = pc, !.op = op])
<1>1. proc[w] \in ProcStates /\ Shape(proc[w])
  BY InHand DEF Procs
<1>2. SendPcs \subseteq ProcPcs
  BY DEF SendPcs, ProcPcs
<1>3. proc[w].cur \in Recipients
  BY <1>1 DEF Shape, ProcStates
<1>4. [proc[w] EXCEPT !.pc = pc] \in ProcStates
  BY <1>1, <1>2 DEF ProcStates
<1>5. [proc[w] EXCEPT !.pc = pc, !.op = op] \in ProcStates
  BY <1>1, <1>2 DEF ProcStates
<1>6. Shape([proc[w] EXCEPT !.pc = pc])
  BY <1>1 DEF ProcStates, Shape, SendPcs
<1>7. Shape([proc[w] EXCEPT !.pc = pc, !.op = op])
  BY <1>1 DEF ProcStates, Shape, SendPcs
<1> QED BY <1>3, <1>4, <1>5, <1>6, <1>7

(* ... and at its end the worker turns to the rest of its batch. *)
LEMMA DoneType ==
    ASSUME TypeOK, ShapeOK, NEW w \in Workers, proc[w].pc \in SendPcs
    PROVE  Done(w) \in ProcStates /\ Shape(Done(w))
<1>1. proc[w] \in ProcStates /\ Shape(proc[w])
  BY InHand DEF Procs
<1>2. Done(w) \in ProcStates
  BY <1>1 DEF Done, ProcStates, ProcPcs
<1>3. Shape(Done(w))
  BY <1>1, ConstantsAssumption DEF Done, ProcStates, Shape, SendPcs
<1> QED BY <1>2, <1>3

LEMMA SetItemType ==
    ASSUME TypeOK, NEW r \in Recipients, NEW status \in QueueStatus
    PROVE  SetItem(r, status) \in [Recipients -> Items]
BY DEF SetItem, TypeOK, Items

(* Every step keeps the types and what processes hold. *)
LEMMA TypeStep ==
    ASSUME TypeOK, ShapeOK, [Next]_vars
    PROVE  TypeOK' /\ ShapeOK'
<1> DEFINE Goal == TypeOK' /\ ShapeOK'
<1>0. CASE UNCHANGED vars
  BY <1>0 DEF vars, TypeOK, ShapeOK, Shape
<1> USE DEF Procs
<1>1. ASSUME NEW k \in Clients, NEW op \in OperatorRequests, NEW c \in Campaigns,
             LoadCampaign(k, op, c) PROVE Goal
  <2> DEFINE s == [Idle EXCEPT !.pc = "loaded", !.op = op, !.camp = c, !.seen = camp[c]]
  <2>0. camp[c] \in CampaignStatus /\ Permits(op, camp[c])
    BY <1>1 DEF LoadCampaign, TypeOK
  <2>a. s \in ProcStates
    BY <2>0, IdleType DEF ProcStates, ProcPcs
  <2>b. Shape(s)
    BY <2>0, ConstantsAssumption DEF Idle, Shape, SendPcs
  <2>1. s \in ProcStates /\ Shape(s)
    BY <2>a, <2>b
  <2> QED BY <1>1, <2>1, BecomeType, ConstantsAssumption DEF LoadCampaign, TypeOK
<1>2. ASSUME NEW k \in Clients, RequestLaunch(k) PROVE Goal
  <2>1. proc[k].camp \in Campaigns
    BY <1>2 DEF RequestLaunch, ShapeOK, Shape
  <2>2. camp' \in [Campaigns -> CampaignStatus] /\ raced' \in SUBSET Campaigns
    BY <1>2, <2>1, SetStatusType DEF RequestLaunch, CampaignStatus
  <2>3. \/ Become(k, Idle)
        \/ Become(k, [Idle EXCEPT !.pc = "launch", !.camps = {proc[k].camp}])
    BY <1>2 DEF RequestLaunch
  <2>4. proc' \in [Procs -> ProcStates] /\ ShapeOK'
    BY <2>1, <2>3, BecomeType, IdleType, FreshType
  <2> QED BY <1>2, <2>2, <2>4 DEF RequestLaunch, TypeOK
<1>3. ASSUME NEW k \in Clients, CommitRequest(k) PROVE Goal
  <2>1. proc[k].camp \in Campaigns /\ proc[k].op \in OperatorRequests \ {"launch"}
    BY <1>3 DEF CommitRequest, ShapeOK, Shape
  <2>2. camp' \in [Campaigns -> CampaignStatus] /\ raced' \in SUBSET Campaigns
    <3>1. Requested(proc[k].op) \in CampaignStatus
      BY <2>1 DEF Requested, CampaignStatus, OperatorRequests
    <3> QED BY <1>3, <2>1, <3>1, SetStatusType DEF CommitRequest
  <2> DEFINE s == [Idle EXCEPT !.pc = "cancel_items", !.camp = proc[k].camp]
  <2>3. s \in ProcStates /\ Shape(s)
    BY <2>1, ConstantsAssumption DEF Idle, ProcStates, ProcPcs, NoAttempts, Shape, SendPcs
  <2>4. Become(k, Idle) \/ Become(k, s)
    BY <1>3 DEF CommitRequest
  <2>5. proc' \in [Procs -> ProcStates] /\ ShapeOK'
    BY <2>3, <2>4, BecomeType, IdleType
  <2> QED BY <1>3, <2>2, <2>5 DEF CommitRequest, TypeOK
<1>4. ASSUME NEW k \in Clients, CancelPending(k) PROVE Goal
  <2> DEFINE s == [proc[k] EXCEPT !.pc = "cancel_recipients"]
  <2>0. proc[k].pc = "cancel_items"
    BY <1>4 DEF CancelPending
  <2>1. s \in ProcStates /\ Shape(s)
    BY <2>0, InHand DEF ProcStates, ProcPcs, Shape, SendPcs
  <2>2. item' \in [Recipients -> Items]
    BY <1>4 DEF CancelPending, TypeOK, Items, QueueStatus
  <2> QED BY <1>4, <2>1, <2>2, BecomeType DEF CancelPending, Goto, TypeOK
<1>5. ASSUME NEW k \in Clients, CancelRecipients(k) PROVE Goal
  BY <1>5, BecomeType, IdleType DEF CancelRecipients, TypeOK, RecipientStatus
<1>6. ASSUME NEW p \in Procs, NEW c \in Campaigns, CheckSnapshot(p, c) PROVE Goal
  <2> DEFINE s == [proc[p] EXCEPT !.camps = @ \ {c}]
             t == [proc[p] EXCEPT !.pc = "insert", !.camps = @ \ {c}, !.camp = c]
  <2>0. proc[p].pc = "launch" /\ c \in proc[p].camps /\ proc[p] \in ProcStates /\ Shape(proc[p])
    BY <1>6, InHand DEF CheckSnapshot
  <2>a. s \in ProcStates /\ t \in ProcStates
    BY <2>0 DEF ProcStates, ProcPcs
  <2>b. Shape(s) /\ Shape(t)
    BY <2>0 DEF ProcStates, Shape, SendPcs
  <2>1. s \in ProcStates /\ Shape(s) /\ t \in ProcStates /\ Shape(t)
    BY <2>a, <2>b
  <2>2. Become(p, s) \/ Become(p, t)
    BY <1>6 DEF CheckSnapshot
  <2>3. proc' \in [Procs -> ProcStates] /\ ShapeOK'
    BY <2>1, <2>2, BecomeType
  <2> QED BY <1>6, <2>3 DEF CheckSnapshot, TypeOK
<1>7. ASSUME NEW p \in Procs, NEW leads \in SUBSET Recipients, Snapshot(p, leads) PROVE Goal
  <2> DEFINE s == [proc[p] EXCEPT !.pc = "pending"]
  <2>0. proc[p].pc = "insert"
    BY <1>7 DEF Snapshot
  <2>1. s \in ProcStates /\ Shape(s)
    BY <2>0, InHand DEF ProcStates, ProcPcs, Shape, SendPcs
  <2>2. Become(p, Idle) \/ Become(p, s)
    BY <1>7 DEF Snapshot, Goto
  <2>3. rcpt' \in [Recipients -> RecipientStatus \cup {"NONE"}]
    BY <1>7 DEF Snapshot, TypeOK, RecipientStatus
  <2>4. proc' \in [Procs -> ProcStates] /\ ShapeOK'
    BY <2>1, <2>2, BecomeType, IdleType
  <2> QED BY <1>7, <2>3, <2>4 DEF Snapshot, TypeOK
<1>8. ASSUME NEW p \in Procs, NEW leads \in SUBSET Recipients, LaunchFails(p, leads) PROVE Goal
  <2> DEFINE s == [proc[p] EXCEPT !.pc = "launch", !.camp = None]
  <2>0. proc[p].pc = "insert" /\ proc[p] \in ProcStates /\ Shape(proc[p])
    BY <1>8, InHand DEF LaunchFails
  <2>a. s \in ProcStates
    BY <2>0 DEF ProcStates, ProcPcs
  <2>b. Shape(s)
    BY <2>0 DEF ProcStates, Shape, SendPcs
  <2>1. s \in ProcStates /\ Shape(s) /\ proc[p].camp \in Campaigns
    BY <2>0, <2>a, <2>b DEF Shape
  <2>2. camp' \in [Campaigns -> CampaignStatus] /\ raced' \in SUBSET Campaigns
    <3>1. CASE UNCHANGED <<camp, raced>>
      BY <3>1 DEF TypeOK
    <3>2. CASE SetStatus(proc[p].camp, "QUEUED", "FAILED")
      BY <2>1, <3>2, SetStatusType DEF CampaignStatus
    <3> QED BY <1>8, <3>1, <3>2 DEF LaunchFails
  <2>3. rcpt' \in [Recipients -> RecipientStatus \cup {"NONE"}]
    BY <1>8 DEF LaunchFails, TypeOK, RecipientStatus
  <2>4. Become(p, s)
    BY <1>8 DEF LaunchFails
  <2> QED BY <1>8, <2>1, <2>2, <2>3, <2>4, BecomeType DEF LaunchFails, TypeOK
<1>9. ASSUME NEW p \in Procs, LoadPending(p) PROVE Goal
  <2>1. PICK found \in SUBSET Recipients : found = {r \in RecipientsOf(proc[p].camp) : rcpt[r] = "PENDING"}
    BY DEF RecipientsOf
  <2>2. proc[p] \in ProcStates /\ Shape(proc[p]) /\ proc[p].pc = "pending"
    BY <1>9, InHand DEF LoadPending
  <2>3. CASE found = {}
    <3> DEFINE s == [proc[p] EXCEPT !.pc = "run", !.todo = found]
    <3>1. s \in ProcStates
      BY <2>2, MoveType DEF ProcPcs
    <3>2. Shape(s)
      BY <2>2, <2>3 DEF ProcStates, Shape, SendPcs
    <3>3. Become(p, s)
      BY <1>9, <2>1, <2>3 DEF LoadPending
    <3> QED BY <1>9, <3>1, <3>2, <3>3, BecomeType DEF LoadPending, TypeOK
  <2>4. CASE found # {}
    <3> DEFINE s == [proc[p] EXCEPT !.pc = "mark", !.todo = found]
    <3>1. s \in ProcStates
      BY <2>2, MoveType DEF ProcPcs
    <3>2. found \subseteq RecipientsOf(proc[p].camp) /\ None \notin found
      BY <2>1, ConstantsAssumption
    <3>3. Shape(s)
      BY <2>2, <2>4, <3>2 DEF ProcStates, Shape, SendPcs
    <3>4. Become(p, s)
      BY <1>9, <2>1, <2>4 DEF LoadPending
    <3> QED BY <1>9, <3>1, <3>3, <3>4, BecomeType DEF LoadPending, TypeOK
  <2> QED BY <2>3, <2>4
<1>10. ASSUME NEW p \in Procs, NEW eligible \in SUBSET proc[p].todo, MarkEligibility(p, eligible)
       PROVE  Goal
  <2>1. proc[p] \in ProcStates /\ Shape(proc[p]) /\ proc[p].pc = "mark"
    BY <1>10, InHand DEF MarkEligibility
  <2>2. proc[p].todo \subseteq Recipients
    BY <2>1 DEF ProcStates
  <2>3. rcpt' \in [Recipients -> RecipientStatus \cup {"NONE"}]
    BY <1>10, <2>2 DEF MarkEligibility, TypeOK, RecipientStatus
  <2>4. proc' \in [Procs -> ProcStates] /\ ShapeOK'
    <3>1. CASE eligible = {}
      <4> DEFINE s == [proc[p] EXCEPT !.pc = "pending", !.todo = eligible]
      <4>1. s \in ProcStates
        BY <2>1, <2>2, MoveType DEF ProcPcs
      <4>2. Shape(s)
        BY <2>1, <3>1 DEF ProcStates, Shape, SendPcs
      <4>3. Become(p, s)
        BY <1>10, <3>1 DEF MarkEligibility
      <4> QED BY <4>1, <4>2, <4>3, BecomeType
    <3>2. CASE eligible # {}
      <4> DEFINE s == [proc[p] EXCEPT !.pc = "enqueue", !.todo = eligible]
      <4>1. s \in ProcStates
        BY <2>1, <2>2, MoveType DEF ProcPcs
      <4>2. Shape(s)
        BY <2>1, <3>2 DEF ProcStates, Shape, SendPcs
      <4>3. Become(p, s)
        BY <1>10, <3>2 DEF MarkEligibility
      <4> QED BY <4>1, <4>2, <4>3, BecomeType
    <3> QED BY <3>1, <3>2
  <2> QED BY <1>10, <2>2, <2>3, <2>4 DEF MarkEligibility, TypeOK
<1>11. ASSUME NEW p \in Procs, EnqueueItems(p) PROVE Goal
  <2>1. proc[p] \in ProcStates /\ Shape(proc[p]) /\ proc[p].pc = "enqueue"
    BY <1>11, InHand DEF EnqueueItems
  <2> DEFINE s == [proc[p] EXCEPT !.pc = "pending", !.todo = {}]
  <2>2. s \in ProcStates
    BY <2>1, MoveType DEF ProcPcs
  <2>3. Shape(s)
    BY <2>1 DEF ProcStates, Shape, SendPcs
  <2>4. item' \in [Recipients -> Items]
    BY <1>11 DEF EnqueueItems, TypeOK, NoItem, Items, QueueStatus
  <2> QED BY <1>11, <2>2, <2>3, <2>4, BecomeType DEF EnqueueItems, TypeOK
<1>12. ASSUME NEW p \in Procs, StartRunning(p) PROVE Goal
  <2> DEFINE s == [proc[p] EXCEPT !.pc = "launch", !.camp = None]
  <2>0. proc[p].pc = "run" /\ proc[p] \in ProcStates /\ Shape(proc[p])
    BY <1>12, InHand DEF StartRunning
  <2>a. s \in ProcStates
    BY <2>0 DEF ProcStates, ProcPcs
  <2>b. Shape(s)
    BY <2>0 DEF ProcStates, Shape, SendPcs
  <2>1. s \in ProcStates /\ Shape(s) /\ proc[p].camp \in Campaigns
    BY <2>0, <2>a, <2>b DEF Shape
  <2>2. camp' \in [Campaigns -> CampaignStatus] /\ raced' \in SUBSET Campaigns
    BY <1>12, <2>1, SetStatusType DEF StartRunning, CampaignStatus
  <2> QED BY <1>12, <2>1, <2>2, BecomeType DEF StartRunning, TypeOK
<1>13. ASSUME NEW p \in Procs, LaunchesDone(p) PROVE Goal
  <2>1. [Idle EXCEPT !.pc = "claim"] \in ProcStates /\ Shape([Idle EXCEPT !.pc = "claim"])
    BY IdleType DEF Idle, ProcStates, ProcPcs, Shape, SendPcs
  <2>2. Become(p, Idle) \/ Become(p, [Idle EXCEPT !.pc = "claim"])
    BY <1>13 DEF LaunchesDone
  <2>3. proc' \in [Procs -> ProcStates] /\ ShapeOK'
    BY <2>1, <2>2, BecomeType, IdleType
  <2> QED BY <1>13, <2>3 DEF LaunchesDone, TypeOK
<1>14. ASSUME NEW w \in Workers, NEW due \in SUBSET Campaigns, StartCycle(w, due) PROVE Goal
  <2>1. \/ Become(w, [Idle EXCEPT !.pc = "pick", !.camps = due])
        \/ Become(w, [Idle EXCEPT !.pc = "promote", !.camps = due])
    BY <1>14 DEF StartCycle
  <2>2. proc' \in [Procs -> ProcStates] /\ ShapeOK'
    BY <2>1, BecomeType, FreshType
  <2> QED BY <1>14, <2>2 DEF StartCycle, TypeOK
<1>15. ASSUME NEW w \in Workers, PromoteDue(w) PROVE Goal
  <2>1. proc[w] \in ProcStates /\ Shape(proc[w]) /\ proc[w].pc = "promote"
    BY <1>15, InHand DEF PromoteDue
  <2> DEFINE s == [proc[w] EXCEPT !.pc = "pick"]
  <2>2. s \in ProcStates /\ Shape(s)
    BY <2>1 DEF ProcStates, ProcPcs, Shape, SendPcs
  <2>3. camp' \in [Campaigns -> CampaignStatus] /\ raced' \in SUBSET Campaigns
    BY <1>15, <2>1 DEF PromoteDue, TypeOK, CampaignStatus, ProcStates
  <2> QED BY <1>15, <2>2, <2>3, BecomeType DEF PromoteDue, Goto, TypeOK
<1>16. ASSUME NEW w \in Workers, PickQueued(w) \/ NothingToClaim(w) \/ BatchDone(w) \/ CycleDone(w)
       PROVE  Goal
  <2>1. \E C \in SUBSET Campaigns :
          \/ Become(w, [Idle EXCEPT !.pc = "launch", !.camps = C])
          \/ Become(w, [Idle EXCEPT !.pc = "finish", !.camps = C])
          \/ Become(w, Idle)
    BY <1>16 DEF PickQueued, NothingToClaim, BatchDone, CycleDone
  <2>2. proc' \in [Procs -> ProcStates] /\ ShapeOK'
    BY <2>1, BecomeType, FreshType, IdleType
  <2> QED BY <1>16, <2>2 DEF PickQueued, NothingToClaim, BatchDone, CycleDone, TypeOK
<1>17. ASSUME NEW w \in Workers, NEW batch \in SUBSET Recipients, ClaimBatch(w, batch) PROVE Goal
  <2>1. PICK att \in [Recipients -> Nat] :
          att = [r \in Recipients |-> IF r \in batch THEN item[r].attempts + 1 ELSE 0]
    <3>1. \A r \in Recipients : item[r].attempts \in Nat
      BY DEF TypeOK, Items
    <3>2. [r \in Recipients |-> IF r \in batch THEN item[r].attempts + 1 ELSE 0] \in [Recipients -> Nat]
      BY <3>1
    <3> QED BY <3>2
  <2>2. PICK stale \in SUBSET Recipients : stale = Stale
    BY DEF Stale
  <2>3. ASSUME NEW pc \in {"item", "recover"}, pc = "recover" \/ stale = {},
               Become(w, [Idle EXCEPT !.pc = pc, !.todo = batch, !.stale = stale, !.att = att])
        PROVE  proc' \in [Procs -> ProcStates] /\ ShapeOK'
    <3> DEFINE s == [Idle EXCEPT !.pc = pc, !.todo = batch, !.stale = stale, !.att = att]
    <3>1. s \in ProcStates
      BY ConstantsAssumption DEF Idle, ProcStates, ProcPcs
    <3>2. Shape(s)
      BY <2>3, ConstantsAssumption DEF Idle, Shape, SendPcs
    <3> QED BY <2>3, <3>1, <3>2, BecomeType
  <2>4. \/ /\ stale = {}
           /\ Become(w, [Idle EXCEPT !.pc = "item", !.todo = batch, !.stale = stale, !.att = att])
        \/ Become(w, [Idle EXCEPT !.pc = "recover", !.todo = batch, !.stale = stale, !.att = att])
    BY <1>17, <2>1, <2>2 DEF ClaimBatch
  <2>5. item' \in [Recipients -> Items]
    BY <1>17 DEF ClaimBatch, TypeOK, Items, QueueStatus
  <2> QED BY <1>17, <2>3, <2>4, <2>5 DEF ClaimBatch, TypeOK
<1>18. ASSUME NEW w \in Workers, RecoverStale(w) PROVE Goal
  <2>1. proc[w] \in ProcStates /\ Shape(proc[w]) /\ proc[w].pc = "recover"
    BY <1>18, InHand DEF RecoverStale
  <2>2. {} \in SUBSET Recipients
    OBVIOUS
  <2> DEFINE s == [proc[w] EXCEPT !.pc = "item", !.stale = {}]
  <2>3. s \in ProcStates
    BY <2>1, <2>2 DEF ProcStates, ProcPcs
  <2>4. Shape(s)
    BY <2>1 DEF ProcStates, Shape, SendPcs
  <2>5. item' \in [Recipients -> Items]
    BY <1>18 DEF RecoverStale, TypeOK, Items, QueueStatus
  <2>6. suspect' \in SUBSET Recipients
    BY <1>18, <2>1 DEF RecoverStale, TypeOK, ProcStates
  <2> QED BY <1>18, <2>3, <2>4, <2>5, <2>6, BecomeType DEF RecoverStale, TypeOK
<1>19. ASSUME NEW w \in Workers, NEW r \in Recipients, CheckCampaign(w, r) PROVE Goal
  <2>1. proc[w] \in ProcStates /\ Shape(proc[w]) /\ proc[w].pc = "item" /\ r \in proc[w].todo
    BY <1>19, InHand DEF CheckCampaign
  <2>2. ASSUME NEW pc \in {"release", "drop", "presend"},
               Become(w, [proc[w] EXCEPT !.todo = @ \ {r}, !.cur = r, !.pc = pc])
        PROVE  proc' \in [Procs -> ProcStates] /\ ShapeOK'
    <3> DEFINE s == [proc[w] EXCEPT !.todo = @ \ {r}, !.cur = r, !.pc = pc]
    <3>1. s \in ProcStates
      BY <2>1 DEF ProcStates, ProcPcs
    <3>2. Shape(s)
      BY <2>1, ConstantsAssumption DEF ProcStates, Shape, SendPcs
    <3> QED BY <2>2, <3>1, <3>2, BecomeType
  <2>3. \/ Become(w, [proc[w] EXCEPT !.todo = @ \ {r}, !.cur = r, !.pc = "release"])
        \/ Become(w, [proc[w] EXCEPT !.todo = @ \ {r}, !.cur = r, !.pc = "drop"])
        \/ Become(w, [proc[w] EXCEPT !.todo = @ \ {r}, !.cur = r, !.pc = "presend"])
    BY <1>19 DEF CheckCampaign
  <2> QED BY <1>19, <2>2, <2>3 DEF CheckCampaign, TypeOK
<1>20. ASSUME NEW w \in Workers, NEW finding \in Findings \cup {"clear", "suppressed"},
              PreSend(w, finding) PROVE Goal
  <2>1. proc[w].pc \in SendPcs
    BY <1>20 DEF PreSend, SendPcs
  <2>2. \/ Become(w, [proc[w] EXCEPT !.pc = "failing", !.op = "FINAL"])
        \/ Become(w, [proc[w] EXCEPT !.pc = "release"])
        \/ Become(w, [proc[w] EXCEPT !.pc = "skip"])
        \/ Become(w, [proc[w] EXCEPT !.pc = "begin"])
    BY <1>20 DEF PreSend, Goto
  <2>3. proc' \in [Procs -> ProcStates] /\ ShapeOK'
    BY <2>1, <2>2, SendingType, BecomeType DEF SendPcs
  <2> QED BY <1>20, <2>3 DEF PreSend, TypeOK
<1>21. ASSUME NEW w \in Workers, ReleaseItem(w) \/ DropItem(w) \/ SkipRecipient(w) \/ RecordSent(w)
                                 \/ FailRecipient(w) \/ ItemRaises(w) PROVE Goal
  <2>1. proc[w].pc \in SendPcs
    BY <1>21 DEF ReleaseItem, DropItem, SkipRecipient, RecordSent, FailRecipient, ItemRaises, SendPcs
  <2>2. proc[w].cur \in Recipients /\ proc[w] \in ProcStates
    BY <2>1, SendingType, InHand DEF SendPcs
  <2>3. Become(w, Done(w))
    BY <1>21 DEF ReleaseItem, DropItem, SkipRecipient, RecordSent, FailRecipient, ItemRaises
  <2>4. proc' \in [Procs -> ProcStates] /\ ShapeOK'
    BY <2>1, <2>3, DoneType, BecomeType
  <2>5. item' \in [Recipients -> Items]
    <3>1. CASE ReleaseItem(w)
      <4>1. PICK a \in Nat : a = proc[w].att[proc[w].cur]
        BY <2>2 DEF ProcStates
      <4>2. (IF a > 0 THEN a - 1 ELSE 0) \in Nat
        BY <4>1
      <4> QED BY <2>2, <3>1, <4>1, <4>2 DEF ReleaseItem, TypeOK, Items, QueueStatus
    <3>2. CASE ~ReleaseItem(w)
      BY <1>21, <2>2, <3>2, SetItemType
         DEF DropItem, SkipRecipient, RecordSent, FailRecipient, ItemRaises, QueueStatus, TypeOK
    <3> QED BY <3>1, <3>2
  <2>6. rcpt' \in [Recipients -> RecipientStatus \cup {"NONE"}]
    BY <1>21, <2>2
       DEF ReleaseItem, DropItem, SkipRecipient, RecordSent, FailRecipient, ItemRaises, TypeOK,
           RecipientStatus
  <2>7. suspect' \in SUBSET Recipients /\ faults' \in 0..MaxFaults
    BY <1>21, <2>2, ConstantsAssumption
       DEF ReleaseItem, DropItem, SkipRecipient, RecordSent, FailRecipient, ItemRaises, TypeOK, Fault
  <2> QED BY <1>21, <2>4, <2>5, <2>6, <2>7
          DEF ReleaseItem, DropItem, SkipRecipient, RecordSent, FailRecipient, ItemRaises, TypeOK
<1>22. ASSUME NEW w \in Workers, BeginSending(w) PROVE Goal
  <2>1. proc[w].pc \in SendPcs
    BY <1>22 DEF BeginSending, SendPcs
  <2>2. Become(w, [proc[w] EXCEPT !.pc = "sending"])
    BY <1>22 DEF BeginSending, Goto
  <2>3. proc' \in [Procs -> ProcStates] /\ ShapeOK' /\ proc[w].cur \in Recipients
    BY <2>1, <2>2, SendingType, BecomeType DEF SendPcs
  <2> QED BY <1>22, <2>3 DEF BeginSending, TypeOK, RecipientStatus
<1>23. ASSUME NEW w \in Workers, NEW answer \in {"ok", "TRANSIENT", "FINAL", "lost"},
              ProviderSend(w, answer) PROVE Goal
  <2>1. proc[w].pc \in SendPcs
    BY <1>23 DEF ProviderSend, SendPcs
  <2>2. \/ Become(w, [proc[w] EXCEPT !.pc = "accepted"])
        \/ Become(w, [proc[w] EXCEPT !.pc = "failing", !.op = "TRANSIENT"])
        \/ Become(w, [proc[w] EXCEPT !.pc = "failing", !.op = "FINAL"])
    BY <1>23 DEF ProviderSend, Goto
  <2>3. proc' \in [Procs -> ProcStates] /\ ShapeOK' /\ proc[w].cur \in Recipients
    BY <2>1, <2>2, SendingType, BecomeType DEF SendPcs
  <2>4. sent' \in [Recipients -> Nat] /\ suspect' \in SUBSET Recipients /\ faults' \in 0..MaxFaults
    BY <1>23, <2>3, ConstantsAssumption DEF ProviderSend, Fault, TypeOK
  <2> QED BY <1>23, <2>3, <2>4 DEF ProviderSend, TypeOK
<1>24. ASSUME NEW w \in Workers, FailItem(w) PROVE Goal
  <2>1. proc[w].pc \in SendPcs
    BY <1>24 DEF FailItem, SendPcs
  <2>2. Become(w, Done(w)) \/ Become(w, [proc[w] EXCEPT !.pc = "verdict"])
    BY <1>24 DEF FailItem
  <2>3. proc' \in [Procs -> ProcStates] /\ ShapeOK' /\ proc[w].cur \in Recipients
    BY <2>1, <2>2, SendingType, DoneType, BecomeType DEF SendPcs
  <2>4. item' = SetItem(proc[w].cur, "RETRY") \/ item' = SetItem(proc[w].cur, "FAILED")
    BY <1>24 DEF FailItem
  <2>5. item' \in [Recipients -> Items]
    BY <2>3, <2>4, SetItemType DEF QueueStatus
  <2> QED BY <1>24, <2>3, <2>5 DEF FailItem, TypeOK
<1>25. ASSUME NEW w \in Workers, NEW c \in Campaigns, CompleteFinished(w, c) PROVE Goal
  <2>1. proc[w] \in ProcStates /\ Shape(proc[w]) /\ proc[w].pc = "finish"
    BY <1>25, InHand DEF CompleteFinished
  <2> DEFINE s == [proc[w] EXCEPT !.camps = @ \ {c}]
  <2>2. s \in ProcStates /\ Shape(s)
    BY <2>1 DEF ProcStates, ProcPcs, Shape, SendPcs
  <2>3. camp' \in [Campaigns -> CampaignStatus] /\ raced' \in SUBSET Campaigns
    BY <1>25, SetStatusType DEF CompleteFinished, CampaignStatus, TypeOK
  <2> QED BY <1>25, <2>2, <2>3, BecomeType DEF CompleteFinished, TypeOK
<1>26. ASSUME NEW p \in Procs, Crash(p) PROVE Goal
  <2>1. proc' \in [Procs -> ProcStates] /\ ShapeOK'
    BY <1>26, IdleType, BecomeType DEF Crash
  <2>2. proc[p] \in ProcStates /\ Shape(proc[p])
    BY InHand
  <2>3. suspect' \in SUBSET Recipients
    BY <1>26, <2>2 DEF Crash, TypeOK, RecipientsOf, ProcStates, Shape, SendPcs
  <2> QED BY <1>26, <2>1, <2>3, ConstantsAssumption DEF Crash, TypeOK, Fault
<1>27. ASSUME NEW r \in Recipients, LeaseRunsOut(r) \/ Suppress(r) \/ DeleteLead(r) PROVE Goal
  <2>1. item' \in [Recipients -> Items]
    <3>1. CASE LeaseRunsOut(r)
      BY <3>1 DEF LeaseRunsOut, TypeOK, Items
    <3>2. CASE UNCHANGED item
      BY <3>2 DEF TypeOK
    <3> QED BY <1>27, <3>1, <3>2 DEF Suppress, DeleteLead
  <2>2. UNCHANGED proc /\ ShapeOK'
    BY <1>27 DEF LeaseRunsOut, Suppress, DeleteLead, ShapeOK, Shape
  <2> QED BY <1>27, <2>1, <2>2, ConstantsAssumption
          DEF LeaseRunsOut, Suppress, DeleteLead, TypeOK, Fault
<1> QED
  BY <1>0, <1>1, <1>2, <1>3, <1>4, <1>5, <1>6, <1>7, <1>8, <1>9, <1>10, <1>11, <1>12, <1>13, <1>14,
     <1>15, <1>16, <1>17, <1>18, <1>19, <1>20, <1>21, <1>22, <1>23, <1>24, <1>25, <1>26, <1>27
     DEF Next, RequestStep, LaunchStep, CycleStep, SendStep

(* The types hold in every reachable state. *)
THEOREM TypeInvariant == Spec => []TypeOK
<1>1. Init => TypeOK /\ ShapeOK
  BY IdleType, ConstantsAssumption
     DEF Init, TypeOK, ShapeOK, CampaignStatus, NoItem, Items, QueueStatus
<1>2. TypeOK /\ ShapeOK /\ [Next]_vars => TypeOK' /\ ShapeOK'
  BY TypeStep
<1> QED BY <1>1, <1>2, PTL DEF Spec

----------------------------------------------------------------------------
(* One worker per item, one send per recipient. *)

(* A worker that holds a recipient has its row to write. *)
LEMMA HoldingShape ==
    ASSUME TypeOK, ShapeOK, NEW w \in Workers
    PROVE  /\ Holding(w) \subseteq Recipients
           /\ proc[w].pc \in SendPcs => proc[w].cur \in Holding(w)
           /\ proc[w].pc \in SendPcs \cup {"item", "recover"} => proc[w].todo \subseteq Holding(w)
           /\ Holding(w) # {} => proc[w].pc \in SendPcs \cup {"item", "recover"}
<1>1. proc[w] \in ProcStates /\ Shape(proc[w])
  BY InHand DEF Procs
<1> QED BY <1>1 DEF Holding, Shape, ProcStates, SendPcs

(* A worker that is not in the sending part of its cycle holds nothing. *)
LEMMA HoldsNothing ==
    ASSUME NEW p \in Procs, ShapeOK', proc'[p].pc \notin SendPcs \cup {"item", "recover"}
    PROVE  Holding(p)' = {}
BY DEF Holding, ShapeOK, Shape

(* Each step of a request, a launch, a cycle or a send moves one process. *)
LEMMA OneMoves ==
    ASSUME TypeOK, NEW p \in Procs,
           \/ \E op \in OperatorRequests, c \in Campaigns : LoadCampaign(p, op, c)
           \/ RequestStep(p) \/ LaunchStep(p) \/ CycleStep(p) \/ SendStep(p)
           \/ ProviderSend(p, "lost") \/ ItemRaises(p) \/ Crash(p)
    PROVE  \A q \in Procs \ {p} : proc'[q] = proc[q]
<1>1. ASSUME \/ \E op \in OperatorRequests, c \in Campaigns : LoadCampaign(p, op, c)
             \/ RequestStep(p) \/ Crash(p)
      PROVE  \E s : Become(p, s)
  BY <1>1 DEF LoadCampaign, RequestStep, RequestLaunch, CommitRequest, CancelPending,
              CancelRecipients, Crash, Goto
<1>2. ASSUME LaunchStep(p) PROVE \E s : Become(p, s)
  BY <1>2 DEF LaunchStep, CheckSnapshot, Snapshot, LaunchFails, LoadPending, MarkEligibility,
              EnqueueItems, StartRunning, LaunchesDone, Goto
<1>3. ASSUME CycleStep(p) PROVE \E s : Become(p, s)
  BY <1>3 DEF CycleStep, StartCycle, PromoteDue, PickQueued, ClaimBatch, NothingToClaim,
              RecoverStale, BatchDone, CompleteFinished, CycleDone, Goto
<1>4. ASSUME SendStep(p) \/ ProviderSend(p, "lost") \/ ItemRaises(p) PROVE \E s : Become(p, s)
  BY <1>4 DEF SendStep, CheckCampaign, PreSend, ReleaseItem, DropItem, SkipRecipient, BeginSending,
              ProviderSend, RecordSent, FailItem, FailRecipient, ItemRaises, Goto
<1> QED BY <1>1, <1>2, <1>3, <1>4, BecomeIs

(* A process in a launch, and one that ends its work, sends nothing. *)
LEMMA LaunchMoves ==
    ASSUME TypeOK, ShapeOK, NEW p \in Procs, LaunchStep(p) \/ Crash(p)
    PROVE  proc'[p].pc \in {"idle", "launch", "insert", "pending", "mark", "enqueue", "run", "claim"}
<1>0. proc[p] \in ProcStates /\ proc \in [Procs -> ProcStates]
  BY InHand DEF TypeOK
<1>1. ASSUME NEW c \in Campaigns, CheckSnapshot(p, c)
      PROVE  proc'[p].pc \in {"launch", "insert"}
  BY <1>0, <1>1 DEF Become, CheckSnapshot, ProcStates
<1>2. ASSUME NEW leads \in SUBSET Recipients, Snapshot(p, leads)
      PROVE  proc'[p].pc \in {"idle", "pending"}
  BY <1>0, <1>2 DEF Become, Snapshot, Goto, Idle, ProcStates
<1>3. ASSUME NEW leads \in SUBSET Recipients, LaunchFails(p, leads) PROVE proc'[p].pc = "launch"
  BY <1>0, <1>3 DEF Become, LaunchFails, ProcStates
<1>4. ASSUME LoadPending(p) PROVE proc'[p].pc \in {"run", "mark"}
  BY <1>0, <1>4 DEF Become, LoadPending, ProcStates
<1>5. ASSUME NEW eligible \in SUBSET proc[p].todo, MarkEligibility(p, eligible)
      PROVE  proc'[p].pc \in {"pending", "enqueue"}
  BY <1>0, <1>5 DEF Become, MarkEligibility, ProcStates
<1>6. ASSUME EnqueueItems(p) \/ StartRunning(p) PROVE proc'[p].pc \in {"pending", "launch"}
  <2>1. ASSUME EnqueueItems(p) PROVE proc'[p].pc = "pending"
    BY <1>0, <2>1 DEF Become, EnqueueItems, ProcStates
  <2>2. ASSUME StartRunning(p) PROVE proc'[p].pc = "launch"
    BY <1>0, <2>2 DEF Become, StartRunning, ProcStates
  <2> QED BY <1>6, <2>1, <2>2
<1>7. ASSUME LaunchesDone(p) \/ Crash(p) PROVE proc'[p].pc \in {"claim", "idle"}
  BY <1>0, <1>7 DEF Become, LaunchesDone, Crash, Idle
<1> QED BY <1>1, <1>2, <1>3, <1>4, <1>5, <1>6, <1>7 DEF LaunchStep

(* Where a request and the parts of a cycle that send nothing go. *)
LEMMA RequestMoves ==
    ASSUME TypeOK, NEW k \in Clients,
           (\E op \in OperatorRequests, c \in Campaigns : LoadCampaign(k, op, c)) \/ RequestStep(k)
    PROVE  proc'[k].pc \in {"idle", "loaded", "launch", "cancel_items", "cancel_recipients"}
<1>0. k \in Procs /\ proc[k] \in ProcStates /\ proc \in [Procs -> ProcStates]
  BY DEF Procs, TypeOK
<1>1. ASSUME NEW op \in OperatorRequests, NEW c \in Campaigns, LoadCampaign(k, op, c)
      PROVE  proc'[k].pc = "loaded"
  BY <1>0, <1>1 DEF LoadCampaign, Become, Idle
<1>2. ASSUME RequestLaunch(k) PROVE proc'[k].pc \in {"idle", "launch"}
  <2>1. proc'[k] = Idle \/ proc'[k] = [Idle EXCEPT !.pc = "launch", !.camps = {proc[k].camp}]
    BY <1>0, <1>2 DEF RequestLaunch, Become
  <2>2. Idle.pc = "idle" /\ Idle \in ProcStates
    BY IdleType DEF Idle
  <2> QED BY <2>1, <2>2 DEF ProcStates
<1>3. ASSUME CommitRequest(k) PROVE proc'[k].pc \in {"idle", "cancel_items"}
  BY <1>0, <1>3 DEF CommitRequest, Become, Idle
<1>4. ASSUME CancelPending(k) PROVE proc'[k].pc = "cancel_recipients"
  BY <1>0, <1>4 DEF CancelPending, Become, Goto, ProcStates
<1>5. ASSUME CancelRecipients(k) PROVE proc'[k].pc = "idle"
  BY <1>0, <1>5 DEF CancelRecipients, Become, Idle
<1> QED BY <1>1, <1>2, <1>3, <1>4, <1>5 DEF RequestStep

LEMMA CycleMoves ==
    ASSUME TypeOK, NEW v \in Workers, CycleStep(v), ~RecoverStale(v),
           ~ \E batch \in SUBSET Recipients : ClaimBatch(v, batch)
    PROVE  proc'[v].pc \in {"idle", "pick", "promote", "launch", "finish"}
<1>0. v \in Procs /\ proc[v] \in ProcStates /\ proc \in [Procs -> ProcStates]
  BY DEF Procs, TypeOK
<1>1. ASSUME NEW c \in Campaigns, CompleteFinished(v, c) PROVE proc'[v].pc = "finish"
  BY <1>0, <1>1 DEF Become, CompleteFinished, ProcStates
<1>2. ASSUME NEW due \in SUBSET Campaigns, StartCycle(v, due) PROVE proc'[v].pc \in {"pick", "promote"}
  BY <1>0, <1>2 DEF Become, StartCycle, Idle
<1>3. ASSUME PromoteDue(v) PROVE proc'[v].pc = "pick"
  BY <1>0, <1>3 DEF Become, PromoteDue, Goto, ProcStates
<1>4. ASSUME PickQueued(v) PROVE proc'[v].pc = "launch"
  BY <1>0, <1>4 DEF Become, PickQueued, Idle
<1>5. ASSUME NothingToClaim(v) \/ BatchDone(v) PROVE proc'[v].pc = "finish"
  BY <1>0, <1>5 DEF Become, NothingToClaim, BatchDone, Idle
<1>6. ASSUME CycleDone(v) PROVE proc'[v].pc = "idle"
  BY <1>0, <1>6 DEF Become, CycleDone, Idle
<1> QED BY <1>1, <1>2, <1>3, <1>4, <1>5, <1>6 DEF CycleStep

LEMMA SendMoves ==
    ASSUME TypeOK, NEW v \in Workers, SendStep(v) \/ ProviderSend(v, "lost") \/ ItemRaises(v)
    PROVE  proc'[v].pc \in SendPcs \cup {"item"}
<1>0. v \in Procs /\ proc[v] \in ProcStates /\ proc \in [Procs -> ProcStates]
  BY DEF Procs, TypeOK
<1>1. ASSUME NEW r \in Recipients, CheckCampaign(v, r) PROVE proc'[v].pc \in {"release", "drop", "presend"}
  BY <1>0, <1>1 DEF Become, CheckCampaign, ProcStates
<1>2. ASSUME NEW finding, PreSend(v, finding) PROVE proc'[v].pc \in {"failing", "release", "skip", "begin"}
  <2>1. \/ proc'[v] = [proc[v] EXCEPT !.pc = "failing", !.op = "FINAL"]
        \/ proc'[v] = [proc[v] EXCEPT !.pc = "release"]
        \/ proc'[v] = [proc[v] EXCEPT !.pc = "skip"]
        \/ proc'[v] = [proc[v] EXCEPT !.pc = "begin"]
    BY <1>0, <1>2 DEF Become, PreSend, Goto
  <2> QED BY <1>0, <2>1 DEF ProcStates
<1>3. ASSUME NEW answer, ProviderSend(v, answer) PROVE proc'[v].pc \in {"accepted", "failing"}
  <2>1. \/ proc'[v] = [proc[v] EXCEPT !.pc = "accepted"]
        \/ proc'[v] = [proc[v] EXCEPT !.pc = "failing", !.op = "TRANSIENT"]
        \/ proc'[v] = [proc[v] EXCEPT !.pc = "failing", !.op = "FINAL"]
    BY <1>0, <1>3 DEF Become, ProviderSend, Goto
  <2> QED BY <1>0, <2>1 DEF ProcStates
<1>4. ASSUME ReleaseItem(v) \/ DropItem(v) \/ SkipRecipient(v) \/ RecordSent(v)
             \/ FailRecipient(v) \/ ItemRaises(v)
      PROVE  proc'[v].pc = "item"
  <2>1. Become(v, Done(v))
    BY <1>4 DEF ReleaseItem, DropItem, SkipRecipient, RecordSent, FailRecipient, ItemRaises
  <2> QED BY <1>0, <2>1 DEF Become, Done, ProcStates
<1>5. ASSUME BeginSending(v) PROVE proc'[v].pc = "sending"
  BY <1>0, <1>5 DEF Become, BeginSending, Goto, ProcStates
<1>6. ASSUME FailItem(v) PROVE proc'[v].pc \in {"item", "verdict"}
  <2>1. proc'[v] = Done(v) \/ proc'[v] = [proc[v] EXCEPT !.pc = "verdict"]
    BY <1>0, <1>6 DEF Become, FailItem
  <2> QED BY <1>0, <2>1 DEF Done, ProcStates
<1> QED BY <1>1, <1>2, <1>3, <1>4, <1>5, <1>6 DEF SendStep, SendPcs

(* Only the claim gives a worker items. *)
LEMMA HoldingStep ==
    ASSUME TypeOK, ShapeOK, [Next]_vars, NEW v \in Workers
    PROVE  \/ Holding(v)' \subseteq Holding(v)
           \/ \E batch \in SUBSET Recipients : ClaimBatch(v, batch)
<1> DEFINE Goal == Holding(v)' \subseteq Holding(v)
<1> USE DEF Procs
<1>a. ShapeOK' /\ TypeOK'
  BY TypeStep
<1>b. v \in Procs /\ proc[v] \in ProcStates /\ Shape(proc[v]) /\ proc \in [Procs -> ProcStates]
  BY InHand DEF TypeOK
<1>c. ASSUME proc'[v].pc \notin SendPcs \cup {"item", "recover"} PROVE Goal
  BY <1>a, <1>c, HoldsNothing
<1>d. ASSUME proc'[v] = proc[v] PROVE Goal
  BY <1>d DEF Holding
<1>0. CASE UNCHANGED vars
  BY <1>0, <1>d DEF vars
<1>1. ASSUME NEW k \in Clients,
             (\E op \in OperatorRequests, c \in Campaigns : LoadCampaign(k, op, c)) \/ RequestStep(k)
      PROVE Goal
  <2>1. k # v
    BY ConstantsAssumption
  <2> QED BY <1>1, <1>d, <2>1, OneMoves
<1>2. ASSUME NEW p \in Procs, LaunchStep(p) \/ Crash(p) PROVE Goal
  <2>1. CASE p # v
    BY <1>2, <1>d, <2>1, OneMoves
  <2>2. CASE p = v
    BY <1>2, <1>c, <2>2, LaunchMoves DEF SendPcs
  <2> QED BY <2>1, <2>2
<1>3. ASSUME NEW w \in Workers, CycleStep(w),
             ~ \E batch \in SUBSET Recipients : ClaimBatch(w, batch)
      PROVE  Goal
  <2>1. CASE w # v
    BY <1>3, <1>d, <2>1, OneMoves
  <2>2. CASE w = v /\ RecoverStale(w)
    <3>1. proc'[v] = [proc[v] EXCEPT !.pc = "item", !.stale = {}] /\ proc[v].pc = "recover"
      BY <1>b, <2>2 DEF Become, RecoverStale
    <3>2. proc'[v].todo = proc[v].todo /\ proc'[v].cur = proc[v].cur
      BY <1>b, <3>1 DEF ProcStates
    <3> QED BY <3>1, <3>2 DEF Holding
  <2>3. CASE w = v /\ ~RecoverStale(w)
    BY <1>3, <1>c, <2>3, CycleMoves DEF SendPcs
  <2> QED BY <2>1, <2>2, <2>3
<1>4. ASSUME NEW w \in Workers, NEW batch \in SUBSET Recipients, ClaimBatch(w, batch), w # v PROVE Goal
  BY <1>4, <1>b, <1>d DEF Become, ClaimBatch
<1>5. ASSUME NEW w \in Workers, SendStep(w) \/ ProviderSend(w, "lost") \/ ItemRaises(w) PROVE Goal
  <2>1. CASE w # v
    BY <1>5, <1>d, <2>1, OneMoves
  <2>2. CASE w = v
    <3> DEFINE Smaller == /\ proc'[v].todo \subseteq proc[v].todo
                          /\ proc'[v].cur \in proc[v].todo \cup {proc[v].cur, None}
                          /\ proc[v].pc \notin {"mark", "enqueue"}
    <3>1. ASSUME NEW r \in Recipients, CheckCampaign(v, r) PROVE Smaller
      BY <1>b, <3>1 DEF Become, CheckCampaign, ProcStates
    <3>a. ASSUME NEW pc, proc'[v] = [proc[v] EXCEPT !.pc = pc] PROVE proc'[v].todo = proc[v].todo /\ proc'[v].cur = proc[v].cur
      BY <1>b, <3>a DEF ProcStates
    <3>b. ASSUME NEW pc, NEW op, proc'[v] = [proc[v] EXCEPT !.pc = pc, !.op = op]
          PROVE  proc'[v].todo = proc[v].todo /\ proc'[v].cur = proc[v].cur
      BY <1>b, <3>b DEF ProcStates
    <3>2. ASSUME NEW finding, PreSend(v, finding) PROVE Smaller
      <4>1. \/ proc'[v] = [proc[v] EXCEPT !.pc = "failing", !.op = "FINAL"]
            \/ proc'[v] = [proc[v] EXCEPT !.pc = "release"]
            \/ proc'[v] = [proc[v] EXCEPT !.pc = "skip"]
            \/ proc'[v] = [proc[v] EXCEPT !.pc = "begin"]
        BY <1>b, <3>2 DEF Become, PreSend, Goto
      <4> QED BY <3>2, <3>a, <3>b, <4>1 DEF PreSend
    <3>3. ASSUME NEW answer, ProviderSend(v, answer) PROVE Smaller
      <4>1. \/ proc'[v] = [proc[v] EXCEPT !.pc = "accepted"]
            \/ proc'[v] = [proc[v] EXCEPT !.pc = "failing", !.op = "TRANSIENT"]
            \/ proc'[v] = [proc[v] EXCEPT !.pc = "failing", !.op = "FINAL"]
        BY <1>b, <3>3 DEF Become, ProviderSend, Goto
      <4> QED BY <3>3, <3>a, <3>b, <4>1 DEF ProviderSend
    <3>4. ASSUME ReleaseItem(v) \/ DropItem(v) \/ SkipRecipient(v) \/ RecordSent(v)
                 \/ FailRecipient(v) \/ ItemRaises(v)
          PROVE  Smaller
      <4>1. Become(v, Done(v)) /\ proc[v].pc \in SendPcs
        BY <3>4 DEF ReleaseItem, DropItem, SkipRecipient, RecordSent, FailRecipient, ItemRaises, SendPcs
      <4>2. proc'[v].todo = proc[v].todo /\ proc'[v].cur = None
        BY <1>b, <4>1 DEF Become, Done, ProcStates
      <4> QED BY <4>1, <4>2 DEF SendPcs
    <3>5. ASSUME BeginSending(v) PROVE Smaller
      BY <1>b, <3>5, <3>a DEF Become, BeginSending, Goto
    <3>c. ASSUME proc'[v] = Done(v) PROVE proc'[v].todo = proc[v].todo /\ proc'[v].cur = None
      BY <1>b, <3>c DEF ProcStates, Done
    <3>d. ASSUME FailItem(v) PROVE Smaller
      <4>1. proc'[v] = Done(v) \/ proc'[v] = [proc[v] EXCEPT !.pc = "verdict"]
        BY <1>b, <3>d DEF Become, FailItem
      <4> QED BY <3>d, <3>a, <3>c, <4>1 DEF FailItem
    <3>6. Smaller
      BY <1>5, <2>2, <3>1, <3>2, <3>3, <3>4, <3>5, <3>d DEF SendStep
    <3> QED BY <3>6 DEF Holding
  <2> QED BY <2>1, <2>2
<1>6. ASSUME NEW r \in Recipients, LeaseRunsOut(r) \/ Suppress(r) \/ DeleteLead(r) PROVE Goal
  BY <1>6, <1>d DEF LeaseRunsOut, Suppress, DeleteLead
<1>7. ASSUME NEW w \in Workers, NEW batch \in SUBSET Recipients, ClaimBatch(w, batch)
      PROVE  Goal \/ ClaimBatch(v, batch)
  BY <1>7, <1>4
<1>8. ASSUME NEW w \in Workers, CycleStep(w) PROVE Goal \/ \E batch \in SUBSET Recipients : ClaimBatch(v, batch)
  BY <1>8, <1>3, <1>7
<1>9. ASSUME Next PROVE Goal \/ \E batch \in SUBSET Recipients : ClaimBatch(v, batch)
  <2> HIDE DEF Goal
  <2>1. ASSUME NEW k \in Clients, NEW op \in OperatorRequests, NEW c \in Campaigns, LoadCampaign(k, op, c)
        PROVE  Goal
    BY <1>1, <2>1
  <2> QED BY <1>1, <1>2, <1>5, <1>6, <1>8, <1>9, <2>1 DEF Next
<1> QED BY <1>0, <1>9

(* A worker moves by one of its own steps only. *)
LEMMA WorkerMoves ==
    ASSUME TypeOK, [Next]_vars, NEW v \in Workers
    PROVE  \/ proc'[v] = proc[v]
           \/ LaunchStep(v) \/ Crash(v) \/ CycleStep(v)
           \/ SendStep(v) \/ ProviderSend(v, "lost") \/ ItemRaises(v)
<1> USE DEF Procs
<1>0. CASE UNCHANGED vars
  BY <1>0 DEF vars
<1>1. ASSUME NEW k \in Clients,
             (\E op \in OperatorRequests, c \in Campaigns : LoadCampaign(k, op, c)) \/ RequestStep(k)
      PROVE  proc'[v] = proc[v]
  BY <1>1, OneMoves, ConstantsAssumption
<1>2. ASSUME NEW p \in Procs, p # v, LaunchStep(p) \/ Crash(p) PROVE proc'[v] = proc[v]
  BY <1>2, OneMoves
<1>3. ASSUME NEW w \in Workers, w # v,
             CycleStep(w) \/ SendStep(w) \/ ProviderSend(w, "lost") \/ ItemRaises(w)
      PROVE  proc'[v] = proc[v]
  BY <1>3, OneMoves
<1>4. ASSUME NEW r \in Recipients, LeaseRunsOut(r) \/ Suppress(r) \/ DeleteLead(r)
      PROVE  proc'[v] = proc[v]
  BY <1>4 DEF LeaseRunsOut, Suppress, DeleteLead
<1>5. CASE Next
  <2>1. ASSUME NEW k \in Clients, NEW op \in OperatorRequests, NEW c \in Campaigns, LoadCampaign(k, op, c)
        PROVE  proc'[v] = proc[v]
    BY <1>1, <2>1
  <2> QED BY <1>1, <1>2, <1>3, <1>4, <1>5, <2>1 DEF Next
<1> QED BY <1>0, <1>5

(* The end of a send drops its item, and only that. *)
LEMMA DoneDrops ==
    ASSUME TypeOK, ShapeOK, NEW w \in Workers, proc[w].pc \in SendPcs, Become(w, Done(w))
    PROVE  proc[w].cur \notin Holding(w)'
<1>1. proc[w] \in ProcStates /\ Shape(proc[w]) /\ proc \in [Procs -> ProcStates] /\ w \in Procs
  BY InHand DEF TypeOK, Procs
<1>2. proc'[w] = Done(w)
  BY <1>1 DEF Become
<1>3. proc'[w].todo = proc[w].todo /\ proc'[w].cur = None /\ proc[w].cur # None
  BY <1>1, <1>2 DEF Done, ProcStates, Shape
<1> QED BY <1>1, <1>3 DEF Holding, Shape

(* A worker about to write a verdict, or holding an accepted send, goes on to do   *)
(* so or dies.                                                               *)
LEMMA LastStep ==
    ASSUME TypeOK, ShapeOK, [Next]_vars, NEW v \in Workers, proc[v].pc \in {"verdict", "accepted"}
    PROVE  \/ proc'[v] = proc[v]
           \/ Crash(v)
           \/ proc[v].pc = "verdict" /\ FailRecipient(v)
           \/ proc[v].pc = "accepted" /\ RecordSent(v)
<1>1. ~LaunchStep(v)
  BY DEF LaunchStep, CheckSnapshot, Snapshot, LaunchFails, LoadPending, MarkEligibility,
         EnqueueItems, StartRunning, LaunchesDone
<1>2. ~CycleStep(v)
  BY DEF CycleStep, StartCycle, PromoteDue, PickQueued, ClaimBatch, NothingToClaim, RecoverStale,
         BatchDone, CompleteFinished, CycleDone
<1>3. ASSUME SendStep(v) \/ ProviderSend(v, "lost") \/ ItemRaises(v)
      PROVE  \/ proc[v].pc = "verdict" /\ FailRecipient(v)
             \/ proc[v].pc = "accepted" /\ RecordSent(v)
  BY <1>3 DEF SendStep, CheckCampaign, PreSend, ReleaseItem, DropItem, SkipRecipient, BeginSending,
              ProviderSend, RecordSent, FailItem, FailRecipient, ItemRaises
<1> QED BY <1>1, <1>2, <1>3, WorkerMoves

LEMMA VerdictHeld ==
    ASSUME TypeOK, ShapeOK, [Next]_vars, NEW v \in Workers, proc[v].pc = "verdict"
    PROVE  proc'[v] = proc[v] \/ proc[v].cur \notin Holding(v)'
<1>1. ASSUME FailRecipient(v) PROVE proc[v].cur \notin Holding(v)'
  BY <1>1, DoneDrops DEF FailRecipient, SendPcs
<1>2. ASSUME Crash(v) PROVE proc[v].cur \notin Holding(v)'
  <2>1. proc'[v] = Idle
    BY <1>2 DEF Crash, Become, TypeOK, Procs
  <2> QED BY <2>1 DEF Holding, Idle
<1> QED BY <1>1, <1>2, LastStep

(* Suspicion stays. *)
LEMMA SuspectGrows ==
    ASSUME [Next]_vars
    PROVE  suspect \subseteq suspect'
<1>1. ASSUME NEW p \in Procs, LaunchStep(p) \/ Crash(p) PROVE suspect \subseteq suspect'
  BY <1>1 DEF LaunchStep, CheckSnapshot, Snapshot, LaunchFails, LoadPending, MarkEligibility,
              EnqueueItems, StartRunning, LaunchesDone, Crash
<1>2. ASSUME NEW k \in Clients, RequestStep(k) PROVE suspect \subseteq suspect'
  BY <1>2 DEF RequestStep, RequestLaunch, CommitRequest, CancelPending, CancelRecipients
<1>3. ASSUME NEW w \in Workers, CycleStep(w) PROVE suspect \subseteq suspect'
  BY <1>3 DEF CycleStep, StartCycle, PromoteDue, PickQueued, ClaimBatch, NothingToClaim,
              RecoverStale, BatchDone, CompleteFinished, CycleDone
<1>4. ASSUME NEW w \in Workers, SendStep(w) \/ ProviderSend(w, "lost") \/ ItemRaises(w)
      PROVE  suspect \subseteq suspect'
  BY <1>4 DEF SendStep, CheckCampaign, PreSend, ReleaseItem, DropItem, SkipRecipient, BeginSending,
              ProviderSend, RecordSent, FailItem, FailRecipient, ItemRaises
<1> QED BY <1>1, <1>2, <1>3, <1>4 DEF Next, vars, LoadCampaign, LeaseRunsOut, Suppress, DeleteLead

(* The steps that write queue items. *)
LEMMA ItemChanges ==
    ASSUME [Next]_vars, item' # item
    PROVE  \/ \E k \in Clients : CancelPending(k)
           \/ \E p \in Procs : EnqueueItems(p)
           \/ \E w \in Workers : \E batch \in SUBSET Recipients : ClaimBatch(w, batch)
           \/ \E w \in Workers : \/ RecoverStale(w) \/ ReleaseItem(w) \/ DropItem(w) \/ SkipRecipient(w)
                                  \/ RecordSent(w) \/ ItemRaises(w) \/ FailItem(w)
           \/ \E s \in Recipients : LeaseRunsOut(s)
<1>1. ASSUME NEW p \in Procs, LaunchStep(p) \/ Crash(p) PROVE EnqueueItems(p)
  BY <1>1 DEF LaunchStep, CheckSnapshot, Snapshot, LaunchFails, LoadPending, MarkEligibility,
              StartRunning, LaunchesDone, Crash
<1>2. ASSUME NEW k \in Clients, RequestStep(k) PROVE CancelPending(k)
  BY <1>2 DEF RequestStep, RequestLaunch, CommitRequest, CancelRecipients
<1>3. ASSUME NEW w \in Workers, CycleStep(w)
      PROVE  RecoverStale(w) \/ \E batch \in SUBSET Recipients : ClaimBatch(w, batch)
  BY <1>3 DEF CycleStep, StartCycle, PromoteDue, PickQueued, NothingToClaim, BatchDone,
              CompleteFinished, CycleDone
<1>4. ASSUME NEW w \in Workers, SendStep(w) \/ ProviderSend(w, "lost")
      PROVE  ReleaseItem(w) \/ DropItem(w) \/ SkipRecipient(w) \/ RecordSent(w) \/ FailItem(w)
  BY <1>4 DEF SendStep, CheckCampaign, PreSend, BeginSending, ProviderSend, FailRecipient
<1> QED BY <1>1, <1>2, <1>3, <1>4 DEF Next, vars, LoadCampaign, Suppress, DeleteLead

(* What a step does to the item of a recipient held before and after it, unless    *)
(* the step makes it suspect: nothing, a cancellation, or the final failure that    *)
(* its holder records.                                                        *)
LEMMA HeldItemStep ==
    ASSUME TypeOK, ShapeOK, HeldItems, ItemHeldOnce, [Next]_vars,
           NEW v \in Workers, NEW r \in Recipients \ suspect',
           r \in Holding(v), r \in Holding(v)'
    PROVE  \/ item'[r] = item[r]
           \/ item'[r].status = "CANCELLED" /\ ~item'[r].expired
           \/ item'[r].status = "FAILED" /\ ~item'[r].expired /\ proc'[v].pc = "verdict" /\ proc'[v].cur = r
<1> DEFINE Goal == \/ item'[r] = item[r]
                   \/ item'[r].status = "CANCELLED" /\ ~item'[r].expired
                   \/ item'[r].status = "FAILED" /\ ~item'[r].expired
                      /\ proc'[v].pc = "verdict" /\ proc'[v].cur = r
<1> USE DEF Procs
<1>a. r \notin suspect /\ HeldItem(v, r) /\ item \in [Recipients -> Items]
      /\ item[r].status \in {"PROCESSING", "CANCELLED", "FAILED"} /\ ~item[r].expired
  BY SuspectGrows DEF HeldItems, HeldItem, TypeOK
<1>b. ASSUME NEW w \in Workers, proc[w].pc \in SendPcs, proc[w].cur = r PROVE w = v
  BY <1>a, <1>b, HoldingShape DEF ItemHeldOnce
<1>c. ASSUME NEW w \in Workers, proc[w].pc \in SendPcs, Become(w, Done(w)) PROVE proc[w].cur # r
  BY <1>b, <1>c, DoneDrops
<1>0. CASE UNCHANGED item
  BY <1>0
<1>1. ASSUME NEW k \in Clients, CancelPending(k) PROVE Goal
  BY <1>1, <1>a DEF CancelPending, Items
<1>2. ASSUME NEW p \in Procs, EnqueueItems(p) PROVE Goal
  BY <1>2, <1>a DEF EnqueueItems
<1>3. ASSUME NEW w \in Workers, NEW batch \in SUBSET Recipients, ClaimBatch(w, batch) PROVE Goal
  BY <1>3, <1>a DEF ClaimBatch, Claimable
<1>4. ASSUME NEW w \in Workers, RecoverStale(w) PROVE Goal
  BY <1>4, <1>a DEF RecoverStale, Stale
<1>5. ASSUME NEW w \in Workers, ReleaseItem(w) \/ DropItem(w) \/ SkipRecipient(w) \/ RecordSent(w)
                                \/ ItemRaises(w) PROVE Goal
  <2>1. proc[w].cur # r
    BY <1>5, <1>c DEF ReleaseItem, DropItem, SkipRecipient, RecordSent, ItemRaises, SendPcs
  <2> QED BY <1>5, <1>a, <2>1
          DEF ReleaseItem, DropItem, SkipRecipient, RecordSent, ItemRaises, SetItem
<1>6. ASSUME NEW w \in Workers, FailItem(w) PROVE Goal
  <2>1. CASE proc[w].cur # r
    BY <1>6, <1>a, <2>1 DEF FailItem, SetItem
  <2>2. CASE proc[w].cur = r
    <3>1. w = v /\ ~Become(w, Done(w))
      BY <1>6, <1>b, <1>c, <2>2 DEF FailItem, SendPcs
    <3>2. item' = SetItem(r, "FAILED") /\ Become(w, [proc[w] EXCEPT !.pc = "verdict"])
      BY <1>6, <2>2, <3>1 DEF FailItem
    <3>3. proc[v] \in ProcStates
      BY DEF TypeOK
    <3>4. proc'[v].pc = "verdict" /\ proc'[v].cur = r
      BY <2>2, <3>1, <3>2, <3>3 DEF Become, TypeOK, ProcStates
    <3> QED BY <1>a, <3>2, <3>4 DEF SetItem, Items
  <2> QED BY <2>1, <2>2
<1>7. ASSUME NEW s \in Recipients, LeaseRunsOut(s) PROVE Goal
  <2>1. s # r
    BY <1>7 DEF LeaseRunsOut
  <2> QED BY <1>7, <1>a, <2>1 DEF LeaseRunsOut
<1> QED
  BY <1>0, <1>1, <1>2, <1>3, <1>4, <1>5, <1>6, <1>7, ItemChanges

(* Every step keeps the leases: an item held is under a live lease, by one worker. *)
LEMMA HeldStep ==
    ASSUME TypeOK, ShapeOK, HeldItems, ItemHeldOnce, [Next]_vars
    PROVE  HeldItems' /\ ItemHeldOnce'
<1>a. suspect \subseteq suspect'
  BY SuspectGrows
<1>1. ASSUME NEW w \in Workers, NEW batch \in SUBSET Recipients, ClaimBatch(w, batch)
      PROVE  HeldItems' /\ ItemHeldOnce'
  <2>1. \A v \in Workers \ {w} : proc'[v] = proc[v] /\ Holding(v)' = Holding(v)
    BY <1>1 DEF ClaimBatch, Become, TypeOK, Procs, Holding
  <2>2. Holding(w)' \subseteq batch
    <3>1. proc'[w] = [Idle EXCEPT !.pc = IF Stale = {} THEN "item" ELSE "recover",
                              !.todo = batch, !.stale = Stale,
                              !.att = [r \in Recipients |->
                                         IF r \in batch THEN item[r].attempts + 1 ELSE 0]]
      BY <1>1 DEF ClaimBatch, Become, TypeOK, Procs
    <3>2. proc'[w].todo = batch /\ proc'[w].cur = None
      BY <3>1 DEF Idle
    <3> QED BY <3>2 DEF Holding
  <2>3. \A r \in batch \ suspect : \A v \in Workers : r \notin Holding(v)
    BY <1>1 DEF ClaimBatch, Claimable, HeldItems, HeldItem
  <2>4. \A r \in batch : item'[r].status = "PROCESSING" /\ ~item'[r].expired
    BY <1>1 DEF ClaimBatch
  <2>5. \A r \in Recipients \ batch : item'[r] = item[r]
    BY <1>1 DEF ClaimBatch
  <2>6. ItemHeldOnce'
    BY <1>a, <2>1, <2>2, <2>3 DEF ItemHeldOnce
  <2>7. HeldItems'
    BY <1>a, <2>1, <2>2, <2>3, <2>4, <2>5 DEF HeldItems, HeldItem
  <2> QED BY <2>6, <2>7
<1>2. ASSUME \A v \in Workers : Holding(v)' \subseteq Holding(v) PROVE HeldItems' /\ ItemHeldOnce'
  <2>1. ItemHeldOnce'
    BY <1>a, <1>2 DEF ItemHeldOnce
  <2>2. ASSUME NEW r \in Recipients \ suspect', NEW v \in Workers, r \in Holding(v)'
        PROVE  HeldItem(v, r)'
    <3>1. r \in Holding(v) /\ HeldItem(v, r)
      BY <1>a, <1>2, <2>2 DEF HeldItems
    <3>2. CASE item'[r] = item[r]
      BY <2>2, <3>1, <3>2, VerdictHeld DEF HeldItem
    <3> QED BY <2>2, <3>1, <3>2, HeldItemStep DEF HeldItem
  <2>3. HeldItems'
    BY <2>2 DEF HeldItems
  <2> QED BY <2>1, <2>3
<1> QED BY <1>1, <1>2, HoldingStep

(* Only the provider counts messages. *)
LEMMA SentChanges ==
    ASSUME [Next]_vars, sent' # sent
    PROVE  \E w \in Workers : \E answer : ProviderSend(w, answer)
<1>1. ASSUME NEW p \in Procs, LaunchStep(p) \/ Crash(p) PROVE FALSE
  BY <1>1 DEF LaunchStep, CheckSnapshot, Snapshot, LaunchFails, LoadPending, MarkEligibility,
              EnqueueItems, StartRunning, LaunchesDone, Crash
<1>2. ASSUME NEW k \in Clients, RequestStep(k) PROVE FALSE
  BY <1>2 DEF RequestStep, RequestLaunch, CommitRequest, CancelPending, CancelRecipients
<1>3. ASSUME NEW w \in Workers, CycleStep(w) PROVE FALSE
  BY <1>3 DEF CycleStep, StartCycle, PromoteDue, PickQueued, ClaimBatch, NothingToClaim,
              RecoverStale, BatchDone, CompleteFinished, CycleDone
<1>4. ASSUME NEW w \in Workers, SendStep(w) \/ ItemRaises(w)
      PROVE  \E answer : ProviderSend(w, answer)
  BY <1>4 DEF SendStep, CheckCampaign, PreSend, ReleaseItem, DropItem, SkipRecipient,
              BeginSending, RecordSent, FailItem, FailRecipient, ItemRaises
<1> QED BY <1>1, <1>2, <1>3, <1>4 DEF Next, vars, LoadCampaign, LeaseRunsOut, Suppress, DeleteLead

(* Every step keeps the account of accepted messages. *)
LEMMA SentStep ==
    ASSUME TypeOK, ShapeOK, HeldItems, ItemHeldOnce, SentRecorded, AtMostOneSend, [Next]_vars
    PROVE  SentRecorded' /\ AtMostOneSend'
<1> USE DEF Procs
<1>a. suspect \subseteq suspect'
  BY SuspectGrows
<1>b. ASSUME NEW r \in Recipients \ suspect', item[r].status = "COMPLETED" PROVE item'[r] = item[r]
  <2>1. \A v \in Workers : r \notin Holding(v)
    BY <1>a, <1>b DEF HeldItems, HeldItem
  <2>2. ASSUME NEW k \in Clients, CancelPending(k) PROVE item'[r] = item[r]
    BY <1>b, <2>2 DEF CancelPending, Pending
  <2>3. ASSUME NEW p \in Procs, EnqueueItems(p) PROVE item'[r] = item[r]
    BY <1>b, <2>3 DEF EnqueueItems
  <2>4. ASSUME NEW w \in Workers, NEW batch \in SUBSET Recipients, ClaimBatch(w, batch)
        PROVE  item'[r] = item[r]
    BY <1>b, <2>4 DEF ClaimBatch, Claimable
  <2>5. ASSUME NEW w \in Workers, RecoverStale(w) PROVE item'[r] = item[r]
    BY <1>b, <2>5 DEF RecoverStale, Stale
  <2>6. ASSUME NEW w \in Workers, ReleaseItem(w) \/ DropItem(w) \/ SkipRecipient(w)
                                  \/ RecordSent(w) \/ ItemRaises(w) \/ FailItem(w)
        PROVE  item'[r] = item[r]
    <3>1. proc[w].pc \in SendPcs
      BY <2>6 DEF ReleaseItem, DropItem, SkipRecipient, RecordSent, ItemRaises, FailItem, SendPcs
    <3>2. proc[w].cur # r
      BY <2>1, <3>1, HoldingShape
    <3>3. item \in [Recipients -> Items]
      BY DEF TypeOK
    <3> QED BY <2>6, <3>2, <3>3
            DEF ReleaseItem, DropItem, SkipRecipient, RecordSent, ItemRaises, FailItem, SetItem
  <2>7. ASSUME NEW s \in Recipients, LeaseRunsOut(s) PROVE item'[r] = item[r]
    BY <1>b, <2>7 DEF LeaseRunsOut, TypeOK
  <2> QED BY <2>2, <2>3, <2>4, <2>5, <2>6, <2>7, ItemChanges
<1>c. ASSUME NEW r \in Recipients \ suspect', NEW w \in Workers,
             proc[w].cur = r, proc[w].pc = "accepted"
      PROVE  proc'[w] = proc[w] \/ item'[r].status = "COMPLETED"
  <2>1. ASSUME RecordSent(w) PROVE item'[r].status = "COMPLETED"
    BY <1>c, <2>1 DEF RecordSent, SetItem, TypeOK, Items
  <2>2. ~Crash(w)
    BY <1>c DEF Crash
  <2> QED BY <1>c, <2>1, <2>2, LastStep
<1>d. ASSUME NEW r \in Recipients \ suspect', sent[r] > 0
      PROVE  \/ item'[r].status = "COMPLETED"
             \/ \E w \in Workers : proc'[w].cur = r /\ proc'[w].pc = "accepted"
  BY <1>a, <1>b, <1>c, <1>d DEF SentRecorded
<1>1. CASE UNCHANGED sent
  BY <1>1, <1>a, <1>d DEF SentRecorded, AtMostOneSend
<1>2. ASSUME NEW w \in Workers, NEW answer, ProviderSend(w, answer), ~UNCHANGED sent
      PROVE  SentRecorded' /\ AtMostOneSend'
  <2>1. PICK r \in Recipients : r = proc[w].cur
    BY <1>2, SendingType DEF ProviderSend, SendPcs
  <2>2. sent' = [sent EXCEPT ![r] = sent[r] + 1]
    BY <1>2, <2>1 DEF ProviderSend, TypeOK
  <2>3. \A s \in Recipients \ {r} : sent'[s] = sent[s]
    BY <2>2 DEF TypeOK
  <2>4. CASE r \in suspect'
    BY <1>a, <1>d, <2>3, <2>4 DEF SentRecorded, AtMostOneSend
  <2>5. CASE r \notin suspect'
    <3>1. sent[r] = 0
      <4>1. HeldItem(w, r) /\ r \in Holding(w)
        BY <1>2, <1>a, <2>1, <2>5, HoldingShape DEF ProviderSend, SendPcs, HeldItems
      <4>2. ASSUME NEW v \in Workers, proc[v].cur = r, proc[v].pc = "accepted" PROVE FALSE
        BY <1>2, <1>a, <2>1, <2>5, <4>1, <4>2, HoldingShape DEF ProviderSend, SendPcs, ItemHeldOnce
      <4> QED BY <1>a, <2>5, <4>1, <4>2 DEF SentRecorded, HeldItem, TypeOK
    <3>2. proc'[w] = [proc[w] EXCEPT !.pc = "accepted"] /\ proc[w] \in ProcStates
      BY <1>2, <2>1, <2>5 DEF ProviderSend, Goto, Become, TypeOK
    <3>3. proc'[w].cur = r /\ proc'[w].pc = "accepted"
      BY <2>1, <3>2 DEF ProcStates
    <3>4. sent'[r] = 1
      BY <2>2, <3>1 DEF TypeOK
    <3> QED BY <1>a, <1>d, <2>3, <3>3, <3>4 DEF SentRecorded, AtMostOneSend
  <2> QED BY <2>4, <2>5
<1> QED BY <1>1, <1>2, SentChanges

(* What holds in every state about sending: types, leases, accepted messages. *)
SendInv ==
    /\ TypeOK /\ ShapeOK
    /\ HeldItems /\ ItemHeldOnce
    /\ SentRecorded /\ AtMostOneSend

LEMMA SendInit ==
    ASSUME Init
    PROVE  SendInv
<1>1. TypeOK /\ ShapeOK
  BY IdleType, ConstantsAssumption
     DEF Init, TypeOK, ShapeOK, CampaignStatus, NoItem, Items, QueueStatus
<1>2. \A w \in Workers : Holding(w) = {}
  BY DEF Init, Procs, Idle, Holding
<1>3. \A r \in Recipients : sent[r] = 0
  BY DEF Init
<1> QED BY <1>1, <1>2, <1>3 DEF SendInv, HeldItems, ItemHeldOnce, SentRecorded, AtMostOneSend

LEMMA SendInvariant == Spec => []SendInv
<1>1. SendInv /\ [Next]_vars => SendInv'
  BY TypeStep, HeldStep, SentStep DEF SendInv
<1> QED BY <1>1, SendInit, PTL DEF Spec

(* Two workers never work on one queue item that is not suspect. *)
THEOREM ItemHeldOnceHolds == Spec => []ItemHeldOnce
BY SendInvariant, PTL DEF SendInv

(* The provider accepts at most one message per recipient that is not suspect. *)
THEOREM AtMostOneSendHolds == Spec => []AtMostOneSend
BY SendInvariant, PTL DEF SendInv

----------------------------------------------------------------------------
(* The launch. *)

(* Only loading PENDING recipients leads to marking them, and marking to         *)
(* enqueueing.                                                               *)
LEMMA EntersLaunch ==
    ASSUME TypeOK, ShapeOK, [Next]_vars, NEW p \in Procs, proc'[p].pc \in {"mark", "enqueue"}
    PROVE  \/ proc'[p] = proc[p]
           \/ proc'[p].pc = "mark" /\ LoadPending(p)
           \/ proc'[p].pc = "enqueue" /\ \E eligible \in SUBSET proc[p].todo : MarkEligibility(p, eligible)
<1> DEFINE Goal == \/ proc'[p] = proc[p]
                   \/ proc'[p].pc = "mark" /\ LoadPending(p)
                   \/ proc'[p].pc = "enqueue"
                      /\ \E eligible \in SUBSET proc[p].todo : MarkEligibility(p, eligible)
<1>0. proc[p] \in ProcStates /\ proc \in [Procs -> ProcStates] /\ Workers \subseteq Procs /\ Clients \subseteq Procs
  BY DEF TypeOK, Procs
<1>1. ASSUME LaunchStep(p) PROVE Goal
  <2>1. ASSUME NEW c \in Campaigns, CheckSnapshot(p, c) PROVE FALSE
    <3>1. proc'[p].pc \in {"launch", "insert"}
      BY <1>0, <2>1 DEF Become, CheckSnapshot, ProcStates
    <3> QED BY <3>1
  <2>2. ASSUME NEW leads \in SUBSET Recipients, Snapshot(p, leads) PROVE FALSE
    <3>1. proc'[p].pc \in {"idle", "pending"}
      BY <1>0, <2>2 DEF Become, Snapshot, Goto, Idle, ProcStates
    <3> QED BY <3>1
  <2>3. ASSUME NEW leads \in SUBSET Recipients, LaunchFails(p, leads) PROVE FALSE
    <3>1. proc'[p].pc = "launch"
      BY <1>0, <2>3 DEF Become, LaunchFails, ProcStates
    <3> QED BY <3>1
  <2>4. ASSUME LoadPending(p) PROVE proc'[p].pc = "mark"
    <3>1. proc'[p].pc \in {"run", "mark"}
      BY <1>0, <2>4 DEF Become, LoadPending, ProcStates
    <3> QED BY <3>1
  <2>5. ASSUME NEW eligible \in SUBSET proc[p].todo, MarkEligibility(p, eligible)
        PROVE  proc'[p].pc = "enqueue"
    <3>1. proc'[p].pc \in {"pending", "enqueue"}
      BY <1>0, <2>5 DEF Become, MarkEligibility, ProcStates
    <3> QED BY <3>1
  <2>6. ASSUME EnqueueItems(p) \/ StartRunning(p) \/ LaunchesDone(p) PROVE FALSE
    <3>1. ASSUME EnqueueItems(p) \/ StartRunning(p) PROVE proc'[p].pc \in {"pending", "launch"}
      <4>1. ASSUME EnqueueItems(p) PROVE proc'[p].pc = "pending"
        BY <1>0, <4>1 DEF Become, EnqueueItems, ProcStates
      <4>2. ASSUME StartRunning(p) PROVE proc'[p].pc = "launch"
        BY <1>0, <4>2 DEF Become, StartRunning, ProcStates
      <4> QED BY <3>1, <4>1, <4>2
    <3>2. ASSUME LaunchesDone(p) PROVE proc'[p].pc \in {"claim", "idle"}
      BY <1>0, <3>2 DEF Become, LaunchesDone, Idle
    <3> QED BY <2>6, <3>1, <3>2
  <2> QED BY <1>1, <2>1, <2>2, <2>3, <2>4, <2>5, <2>6 DEF LaunchStep
<1>2. ASSUME Crash(p) PROVE FALSE
  BY <1>0, <1>2 DEF Crash, Become, Idle
<1>3. ASSUME NEW k \in Clients,
             (\E op \in OperatorRequests, c \in Campaigns : LoadCampaign(k, op, c)) \/ RequestStep(k)
      PROVE  Goal
  BY <1>0, <1>3, OneMoves, RequestMoves
<1>4. ASSUME NEW w \in Workers, CycleStep(w), ~RecoverStale(w),
             ~ \E batch \in SUBSET Recipients : ClaimBatch(w, batch)
      PROVE  Goal
  BY <1>0, <1>4, OneMoves, CycleMoves
<1>5. ASSUME NEW w \in Workers, SendStep(w) \/ ProviderSend(w, "lost") \/ ItemRaises(w) PROVE Goal
  BY <1>0, <1>5, OneMoves, SendMoves DEF SendPcs
<1>6. ASSUME NEW w \in Workers, CycleStep(w), RecoverStale(w) PROVE Goal
  <2>1. CASE w # p
    BY <1>0, <1>6, <2>1, OneMoves
  <2>2. CASE w = p
    BY <1>0, <1>6, <2>2 DEF RecoverStale, Become, ProcStates
  <2> QED BY <2>1, <2>2
<1>7. ASSUME NEW w \in Workers, CycleStep(w), NEW batch \in SUBSET Recipients, ClaimBatch(w, batch)
      PROVE Goal
  <2>1. CASE w # p
    BY <1>0, <1>7, <2>1, OneMoves
  <2>2. CASE w = p
    <3>1. proc'[p].pc \in {"item", "recover"}
      BY <1>0, <1>7, <2>2 DEF ClaimBatch, Become, Idle
    <3> QED BY <3>1
  <2> QED BY <2>1, <2>2
<1>8. ASSUME NEW q \in Procs, q # p, LaunchStep(q) \/ Crash(q) PROVE Goal
  BY <1>8, OneMoves
<1>9. ASSUME NEW r \in Recipients, LeaseRunsOut(r) \/ Suppress(r) \/ DeleteLead(r) PROVE Goal
  BY <1>9 DEF LeaseRunsOut, Suppress, DeleteLead
<1>10. ASSUME Next PROVE Goal
  <2> HIDE DEF Goal
  <2>1. ASSUME NEW k \in Clients, NEW op \in OperatorRequests, NEW c \in Campaigns, LoadCampaign(k, op, c)
        PROVE  Goal
    BY <1>3, <2>1
  <2>2. ASSUME NEW w \in Workers, CycleStep(w) PROVE Goal
    BY <1>4, <1>6, <1>7, <2>2
  <2> QED BY <1>1, <1>2, <1>3, <1>5, <1>8, <1>9, <1>10, <2>1, <2>2 DEF Next
<1>11. CASE UNCHANGED vars
  BY <1>11 DEF vars
<1> QED BY <1>10, <1>11

(* What a worker has in hand, and what it found stale, was queued. *)
QueuedOK ==
    \A w \in Workers : \A r \in Holding(w) \cup proc[w].stale : item[r].status # "NONE"

(* Queue items appear by the INSERT of a launch and never disappear. *)
LEMMA ItemExists ==
    ASSUME TypeOK, ShapeOK, QueuedOK, [Next]_vars, NEW r \in Recipients
    PROVE  \/ item'[r].status = "NONE" <=> item[r].status = "NONE"
           \/ \E p \in Procs : EnqueueItems(p) /\ r \in proc[p].todo /\ item'[r].status = "WAITING"
<1>0. item \in [Recipients -> Items] /\ Workers \subseteq Procs
  BY DEF TypeOK, Procs
<1>1. ASSUME NEW k \in Clients, CancelPending(k) PROVE item'[r].status = "NONE" <=> item[r].status = "NONE"
  BY <1>0, <1>1 DEF CancelPending, Pending, Items
<1>2. ASSUME NEW p \in Procs, EnqueueItems(p)
      PROVE  \/ item'[r] = item[r]
             \/ r \in proc[p].todo /\ item'[r].status = "WAITING" /\ item[r].status = "NONE"
  BY <1>0, <1>2 DEF EnqueueItems, NoItem
<1>3. ASSUME NEW w \in Workers, NEW batch \in SUBSET Recipients, ClaimBatch(w, batch)
      PROVE  item'[r].status = "NONE" <=> item[r].status = "NONE"
  BY <1>0, <1>3 DEF ClaimBatch, Claimable
<1>4. ASSUME NEW w \in Workers, RecoverStale(w)
      PROVE  item'[r].status = "NONE" <=> item[r].status = "NONE"
  BY <1>0, <1>4 DEF RecoverStale, QueuedOK, Items
<1>5. ASSUME NEW w \in Workers, ReleaseItem(w) \/ DropItem(w) \/ SkipRecipient(w)
                                \/ RecordSent(w) \/ ItemRaises(w) \/ FailItem(w)
      PROVE  item'[r].status = "NONE" <=> item[r].status = "NONE"
  <2>1. proc[w].pc \in SendPcs
    BY <1>5 DEF ReleaseItem, DropItem, SkipRecipient, RecordSent, ItemRaises, FailItem, SendPcs
  <2>2. proc[w].cur \in Recipients /\ item[proc[w].cur].status # "NONE"
    BY <2>1, HoldingShape DEF QueuedOK
  <2>3. \/ item' = SetItem(proc[w].cur, "CANCELLED") \/ item' = SetItem(proc[w].cur, "COMPLETED")
        \/ item' = SetItem(proc[w].cur, "FAILED") \/ item' = SetItem(proc[w].cur, "RETRY")
        \/ \E a : item' = [item EXCEPT ![proc[w].cur] =
                              [status |-> "WAITING", expired |-> FALSE, attempts |-> a]]
    BY <1>5 DEF ReleaseItem, DropItem, SkipRecipient, RecordSent, ItemRaises, FailItem
  <2>4. ASSUME NEW status \in QueueStatus, item' = SetItem(proc[w].cur, status)
        PROVE  item'[r].status = "NONE" <=> item[r].status = "NONE"
    BY <1>0, <2>2, <2>4 DEF SetItem, Items, QueueStatus
  <2>5. ASSUME NEW a, item' = [item EXCEPT ![proc[w].cur] =
                                  [status |-> "WAITING", expired |-> FALSE, attempts |-> a]]
        PROVE  item'[r].status = "NONE" <=> item[r].status = "NONE"
    BY <1>0, <2>2, <2>5
  <2> QED BY <2>3, <2>4, <2>5 DEF QueueStatus
<1>6. ASSUME NEW s \in Recipients, LeaseRunsOut(s)
      PROVE  item'[r].status = "NONE" <=> item[r].status = "NONE"
  BY <1>0, <1>6 DEF LeaseRunsOut, Items
<1> QED BY <1>1, <1>2, <1>3, <1>4, <1>5, <1>6, ItemChanges

(* Every step keeps that. *)
LEMMA QueuedStep ==
    ASSUME TypeOK, ShapeOK, QueuedOK, [Next]_vars
    PROVE  QueuedOK'
<1>1. \A r \in Recipients : item[r].status # "NONE" => item'[r].status # "NONE"
  BY ItemExists
<1>2. ASSUME NEW w \in Workers, NEW batch \in SUBSET Recipients, ClaimBatch(w, batch)
      PROVE  Holding(w)' \cup proc'[w].stale \subseteq Claimable \cup Stale
  <2>1. proc'[w] = [Idle EXCEPT !.pc = IF Stale = {} THEN "item" ELSE "recover",
                            !.todo = batch, !.stale = Stale,
                            !.att = [r \in Recipients |->
                                       IF r \in batch THEN item[r].attempts + 1 ELSE 0]]
    BY <1>2 DEF ClaimBatch, Become, TypeOK, Procs
  <2>2. proc'[w].todo = batch /\ proc'[w].cur = None /\ proc'[w].stale = Stale
    BY <2>1 DEF Idle
  <2> QED BY <1>2, <2>2 DEF Holding, ClaimBatch
<1>3. ASSUME NEW w \in Workers, ~ \E batch \in SUBSET Recipients : ClaimBatch(w, batch)
      PROVE  proc'[w].stale \subseteq proc[w].stale
  <2>1. proc[w] \in ProcStates /\ proc \in [Procs -> ProcStates] /\ w \in Procs
    BY DEF TypeOK, Procs
  <2>2. ASSUME proc'[w].pc # "recover" PROVE proc'[w].stale = {}
    BY <2>1, <2>2, TypeStep DEF ShapeOK, Shape
  <2>3. ASSUME RecoverStale(w) PROVE proc'[w].pc # "recover"
    BY <2>1, <2>3 DEF RecoverStale, Become, ProcStates
  <2> QED BY <1>3, <2>1, <2>2, <2>3, WorkerMoves, LaunchMoves, CycleMoves, SendMoves DEF SendPcs
<1>4. ASSUME NEW w \in Workers, NEW r \in Holding(w)' \cup proc'[w].stale
      PROVE  r \in Recipients /\ item'[r].status # "NONE"
  <2>1. r \in Holding(w) \cup proc[w].stale \cup Claimable \cup Stale
    BY <1>2, <1>3, <1>4, HoldingStep
  <2>2. r \in Recipients
    BY <2>1, HoldingShape DEF Claimable, Stale, TypeOK, ProcStates, Procs
  <2>3. item[r].status # "NONE"
    BY <2>1 DEF QueuedOK, Claimable, Stale
  <2> QED BY <1>1, <2>2, <2>3
<1> QED BY <1>4 DEF QueuedOK

(* The steps that write recipients. *)
LEMMA RcptChanges ==
    ASSUME [Next]_vars, rcpt' # rcpt
    PROVE  \/ \E k \in Clients : CancelRecipients(k)
           \/ \E p \in Procs : \E leads \in SUBSET Recipients : Snapshot(p, leads) \/ LaunchFails(p, leads)
           \/ \E p \in Procs : \E eligible \in SUBSET proc[p].todo : MarkEligibility(p, eligible)
           \/ \E w \in Workers : SkipRecipient(w) \/ BeginSending(w) \/ RecordSent(w) \/ FailRecipient(w)
<1>1. ASSUME NEW p \in Procs, LaunchStep(p) \/ Crash(p)
      PROVE  \/ \E leads \in SUBSET Recipients : Snapshot(p, leads) \/ LaunchFails(p, leads)
             \/ \E eligible \in SUBSET proc[p].todo : MarkEligibility(p, eligible)
  BY <1>1 DEF LaunchStep, CheckSnapshot, LoadPending, EnqueueItems, StartRunning, LaunchesDone, Crash
<1>2. ASSUME NEW k \in Clients, RequestStep(k) PROVE CancelRecipients(k)
  BY <1>2 DEF RequestStep, RequestLaunch, CommitRequest, CancelPending
<1>3. ASSUME NEW w \in Workers, CycleStep(w) PROVE FALSE
  BY <1>3 DEF CycleStep, StartCycle, PromoteDue, PickQueued, ClaimBatch, NothingToClaim,
              RecoverStale, BatchDone, CompleteFinished, CycleDone
<1>4. ASSUME NEW w \in Workers, SendStep(w) \/ ProviderSend(w, "lost") \/ ItemRaises(w)
      PROVE  SkipRecipient(w) \/ BeginSending(w) \/ RecordSent(w) \/ FailRecipient(w)
  BY <1>4 DEF SendStep, CheckCampaign, PreSend, ReleaseItem, DropItem, ProviderSend, FailItem, ItemRaises
<1> QED BY <1>1, <1>2, <1>3, <1>4 DEF Next, vars, LoadCampaign, LeaseRunsOut, Suppress, DeleteLead

(* LaunchOK concerns which rows exist and who is PENDING: a step that creates no  *)
(* row, takes PENDING from a whole campaign or from nobody, and moves no process  *)
(* into the marking of a snapshot, keeps it.                                  *)
LEMMA LaunchFrame ==
    ASSUME TypeOK, LaunchOK, suspect \subseteq suspect',
           \A r \in Recipients : item'[r].status = "NONE" <=> item[r].status = "NONE",
           \A r \in Recipients : rcpt'[r] = "NONE" <=> rcpt[r] = "NONE",
           \A r, s \in Recipients : rcpt'[r] = "PENDING" /\ CampaignOf[s] = CampaignOf[r] =>
               rcpt[r] = "PENDING" /\ (rcpt[s] = "PENDING" => rcpt'[s] = "PENDING"),
           \A p \in Procs : proc'[p].pc \in {"mark", "enqueue"} => proc'[p] = proc[p]
    PROVE  LaunchOK'
<1>1. \A r \in Recipients : item'[r].status # "NONE" => rcpt'[r] # "NONE"
  BY DEF LaunchOK
<1>2. \A r, s \in Recipients : rcpt'[r] = "PENDING" /\ CampaignOf[s] = CampaignOf[r] =>
           item'[s].status = "NONE" /\ rcpt'[s] \in {"PENDING", "NONE"}
  BY DEF LaunchOK
<1>3. \A p \in Procs : proc'[p].pc = "mark" =>
           proc'[p].todo = {r \in RecipientsOf(proc'[p].camp) : rcpt'[r] # "NONE"}
  <2> SUFFICES ASSUME NEW p \in Procs, proc'[p].pc = "mark"
               PROVE  proc'[p].todo = {r \in RecipientsOf(proc'[p].camp) : rcpt'[r] # "NONE"}
    OBVIOUS
  <2>1. proc'[p] = proc[p]
    OBVIOUS
  <2>2. proc[p].todo = {r \in RecipientsOf(proc[p].camp) : rcpt[r] # "NONE"}
    BY <2>1 DEF LaunchOK
  <2> QED BY <2>1, <2>2 DEF RecipientsOf
<1>4. \A p \in Procs : proc'[p].pc = "enqueue" =>
           /\ \A r \in RecipientsOf(proc'[p].camp) : rcpt'[r] # "PENDING"
           /\ \A r \in proc'[p].todo : rcpt'[r] # "NONE"
           /\ \/ proc'[p].todo \subseteq suspect'
              \/ \A s \in RecipientsOf(proc'[p].camp) : item'[s].status = "NONE"
  <2> SUFFICES ASSUME NEW p \in Procs, proc'[p].pc = "enqueue"
               PROVE  /\ \A r \in RecipientsOf(proc'[p].camp) : rcpt'[r] # "PENDING"
                      /\ \A r \in proc'[p].todo : rcpt'[r] # "NONE"
                      /\ \/ proc'[p].todo \subseteq suspect'
                         \/ \A s \in RecipientsOf(proc'[p].camp) : item'[s].status = "NONE"
    OBVIOUS
  <2>1. proc'[p] = proc[p] /\ proc[p].pc = "enqueue"
    OBVIOUS
  <2>2. proc[p].todo \subseteq Recipients
    BY DEF TypeOK, ProcStates
  <2> QED BY <2>1, <2>2 DEF LaunchOK, RecipientsOf
<1>5. \A p, q \in Procs : /\ p # q /\ proc'[p].pc = "enqueue" /\ proc'[q].pc = "enqueue"
                          /\ proc'[p].camp = proc'[q].camp
                          => proc'[p].todo \subseteq suspect'
  <2> SUFFICES ASSUME NEW p \in Procs, NEW q \in Procs, p # q,
                      proc'[p].pc = "enqueue", proc'[q].pc = "enqueue", proc'[p].camp = proc'[q].camp
               PROVE  proc'[p].todo \subseteq suspect'
    OBVIOUS
  <2>1. proc'[p] = proc[p] /\ proc'[q] = proc[q]
    OBVIOUS
  <2> QED BY <2>1 DEF LaunchOK
<1> QED BY <1>1, <1>2, <1>3, <1>4, <1>5 DEF LaunchOK, RecipientsOf

(* A snapshot is taken of a campaign that has no rows and no items.            *)
LEMMA SnapshotKeeps ==
    ASSUME TypeOK, ShapeOK, LaunchOK, NEW p \in Procs, NEW c \in Campaigns, ~Snapshotted(c),
           NEW leads \in SUBSET RecipientsOf(c),
           rcpt' = [r \in Recipients |-> IF r \in leads THEN "PENDING" ELSE rcpt[r]],
           UNCHANGED <<item, suspect>>,
           \A q \in Procs : proc'[q].pc \in {"mark", "enqueue"} => proc'[q] = proc[q]
    PROVE  LaunchOK'
<1>1. \A r \in RecipientsOf(c) : rcpt[r] = "NONE" /\ item[r].status = "NONE"
  BY DEF Snapshotted, LaunchOK, RecipientsOf
<1>2. \A r \in Recipients : CampaignOf[r] # c => rcpt'[r] = rcpt[r]
  BY DEF RecipientsOf
<1>3. \A r \in Recipients : CampaignOf[r] = c => rcpt'[r] \in {"PENDING", "NONE"}
  BY <1>1 DEF RecipientsOf
<1>4. \A r \in Recipients : item'[r].status # "NONE" => rcpt'[r] # "NONE"
  BY <1>1, <1>2 DEF LaunchOK, RecipientsOf
<1>5. \A r, s \in Recipients : rcpt'[r] = "PENDING" /\ CampaignOf[s] = CampaignOf[r] =>
           item'[s].status = "NONE" /\ rcpt'[s] \in {"PENDING", "NONE"}
  BY <1>1, <1>2, <1>3 DEF LaunchOK, RecipientsOf
<1>6. ASSUME NEW q \in Procs, proc'[q].pc \in {"mark", "enqueue"}
      PROVE  /\ proc'[q] = proc[q] /\ proc[q].camp \in Campaigns \ {c}
             /\ proc[q].todo \subseteq RecipientsOf(proc[q].camp)
             /\ \A r \in RecipientsOf(proc[q].camp) : rcpt'[r] = rcpt[r]
  <2>1. proc'[q] = proc[q] /\ proc[q].pc \in {"mark", "enqueue"}
    BY <1>6
  <2>2. proc[q].camp \in Campaigns /\ proc[q].todo # {} /\ proc[q].todo \subseteq RecipientsOf(proc[q].camp)
    BY <2>1, InHand DEF Shape
  <2>3. \A r \in proc[q].todo : rcpt[r] # "NONE"
    BY <2>1 DEF LaunchOK
  <2>4. proc[q].camp # c
    BY <1>1, <2>2, <2>3
  <2> QED BY <1>2, <2>1, <2>2, <2>4 DEF RecipientsOf
<1>7. ASSUME NEW q \in Procs, proc'[q].pc = "mark"
      PROVE  proc'[q].todo = {r \in RecipientsOf(proc'[q].camp) : rcpt'[r] # "NONE"}
  <2>1. proc[q].todo = {r \in RecipientsOf(proc[q].camp) : rcpt[r] # "NONE"}
    BY <1>6, <1>7 DEF LaunchOK
  <2> QED BY <1>6, <1>7, <2>1
<1>8. ASSUME NEW q \in Procs, proc'[q].pc = "enqueue"
      PROVE  /\ \A r \in RecipientsOf(proc'[q].camp) : rcpt'[r] # "PENDING"
             /\ \A r \in proc'[q].todo : rcpt'[r] # "NONE"
             /\ \/ proc'[q].todo \subseteq suspect'
                \/ \A s \in RecipientsOf(proc'[q].camp) : item'[s].status = "NONE"
  <2>1. proc'[q] = proc[q] /\ proc[q].pc = "enqueue"
    BY <1>6, <1>8
  <2> QED BY <1>6, <1>8, <2>1 DEF LaunchOK
<1>9. ASSUME NEW q \in Procs, NEW s \in Procs, q # s,
             proc'[q].pc = "enqueue", proc'[s].pc = "enqueue", proc'[q].camp = proc'[s].camp
      PROVE  proc'[q].todo \subseteq suspect'
  <2>1. proc'[q] = proc[q] /\ proc'[s] = proc[s]
    BY <1>6, <1>9
  <2> QED BY <1>9, <2>1 DEF LaunchOK
<1> QED BY <1>4, <1>5, <1>7, <1>8, <1>9 DEF LaunchOK, RecipientsOf

(* The PENDING recipients loaded are the whole snapshot. *)
LEMMA LoadKeeps ==
    ASSUME TypeOK, ShapeOK, LaunchOK, NEW p \in Procs, LoadPending(p)
    PROVE  LaunchOK'
<1> DEFINE c == proc[p].camp
<1> DEFINE found == {r \in RecipientsOf(c) : rcpt[r] = "PENDING"}
<1>1. c \in Campaigns /\ proc[p] \in ProcStates /\ proc \in [Procs -> ProcStates]
  BY InHand DEF LoadPending, Shape, TypeOK
<1>2. /\ \A q \in Procs \ {p} : proc'[q] = proc[q]
      /\ UNCHANGED <<item, rcpt, suspect>>
  BY <1>1 DEF LoadPending, Become
<1>3. /\ proc'[p].pc = (IF found = {} THEN "run" ELSE "mark")
      /\ proc'[p].camp = c
      /\ proc'[p].todo = found
  <2>1. proc'[p] = [proc[p] EXCEPT !.pc = IF found = {} THEN "run" ELSE "mark", !.todo = found]
    BY <1>1 DEF LoadPending, Become
  <2> QED BY <1>1, <2>1 DEF ProcStates
<1>4. ASSUME NEW q \in Procs, proc'[q].pc = "mark"
      PROVE  proc'[q].todo = {r \in RecipientsOf(proc'[q].camp) : rcpt'[r] # "NONE"}
  <2>1. CASE q # p
    BY <1>2, <1>4, <2>1 DEF LaunchOK
  <2>2. CASE q = p
    <3>1. found # {}
      BY <1>3, <1>4, <2>2
    <3>2. \A s \in RecipientsOf(c) : rcpt[s] \in {"PENDING", "NONE"}
      BY <3>1 DEF LaunchOK, RecipientsOf
    <3>3. found = {r \in RecipientsOf(c) : rcpt[r] # "NONE"}
      BY <3>2
    <3> HIDE DEF found, c
    <3> QED BY <1>2, <1>3, <2>2, <3>3
  <2> QED BY <2>1, <2>2
<1>5. ASSUME NEW q \in Procs, proc'[q].pc = "enqueue" PROVE proc'[q] = proc[q]
  BY <1>2, <1>3, <1>5
<1> HIDE DEF c, found
<1> QED BY <1>2, <1>4, <1>5 DEF LaunchOK

(* The snapshot is marked as a whole; a second launch that marked it meanwhile   *)
(* makes everybody in it suspect.                                            *)
LEMMA MarkKeeps ==
    ASSUME TypeOK, ShapeOK, LaunchOK, NEW p \in Procs, NEW eligible \in SUBSET proc[p].todo,
           MarkEligibility(p, eligible)
    PROVE  LaunchOK'
<1> DEFINE c == proc[p].camp
<1> DEFINE marked == proc[p].todo
<1>1. /\ proc[p].pc = "mark" /\ c \in Campaigns /\ marked \subseteq RecipientsOf(c)
      /\ proc[p] \in ProcStates /\ proc \in [Procs -> ProcStates]
  BY InHand DEF MarkEligibility, Shape, TypeOK
<1>2. /\ \A q \in Procs \ {p} : proc'[q] = proc[q]
      /\ UNCHANGED item
      /\ suspect' = suspect \cup {r \in marked : rcpt[r] # "PENDING"}
  BY <1>1 DEF MarkEligibility, Become
<1>3. /\ proc'[p].pc = (IF eligible = {} THEN "pending" ELSE "enqueue")
      /\ proc'[p].camp = c
      /\ proc'[p].todo = eligible
  <2>1. proc'[p] = [proc[p] EXCEPT !.pc = IF eligible = {} THEN "pending" ELSE "enqueue",
                                 !.todo = eligible]
    BY <1>1 DEF MarkEligibility, Become
  <2> QED BY <1>1, <2>1 DEF ProcStates
<1>4. marked = {r \in RecipientsOf(c) : rcpt[r] # "NONE"}
  BY <1>1 DEF LaunchOK
<1>5. \A r \in Recipients : rcpt'[r] = CASE r \in eligible -> "ELIGIBLE"
                                        [] r \in marked \ eligible -> "INELIGIBLE"
                                        [] OTHER -> rcpt[r]
  BY DEF MarkEligibility
<1> HIDE DEF c, marked
<1>6. /\ \A r \in marked : rcpt'[r] \in {"ELIGIBLE", "INELIGIBLE"}
      /\ \A r \in Recipients \ marked : rcpt'[r] = rcpt[r]
      /\ \A r \in Recipients : rcpt'[r] = "NONE" <=> rcpt[r] = "NONE"
      /\ \A r \in Recipients : CampaignOf[r] # c => rcpt'[r] = rcpt[r]
      /\ \A r \in RecipientsOf(c) : rcpt'[r] # "PENDING"
  <2>1. \A r \in marked : rcpt'[r] \in {"ELIGIBLE", "INELIGIBLE"}
    BY <1>1, <1>5 DEF RecipientsOf
  <2>2. \A r \in Recipients \ marked : rcpt'[r] = rcpt[r]
    BY <1>5 DEF marked
  <2> QED BY <1>1, <1>4, <2>1, <2>2 DEF RecipientsOf
<1>7. \A r, s \in Recipients : rcpt'[r] = "PENDING" /\ CampaignOf[s] = CampaignOf[r] =>
           item'[s].status = "NONE" /\ rcpt'[s] \in {"PENDING", "NONE"}
  BY <1>2, <1>6 DEF LaunchOK, RecipientsOf
<1>8. ASSUME NEW q \in Procs, proc'[q].pc = "mark"
      PROVE  proc'[q].todo = {r \in RecipientsOf(proc'[q].camp) : rcpt'[r] # "NONE"}
  <2>1. proc'[q] = proc[q] /\ proc[q].pc = "mark"
    BY <1>2, <1>3, <1>8
  <2>2. proc[q].todo = {r \in RecipientsOf(proc[q].camp) : rcpt[r] # "NONE"}
    BY <2>1 DEF LaunchOK
  <2> QED BY <1>6, <2>1, <2>2 DEF RecipientsOf
<1>9. ASSUME NEW q \in Procs, proc'[q].pc = "enqueue"
      PROVE  /\ \A r \in RecipientsOf(proc'[q].camp) : rcpt'[r] # "PENDING"
             /\ \A r \in proc'[q].todo : rcpt'[r] # "NONE"
             /\ \/ proc'[q].todo \subseteq suspect'
                \/ \A s \in RecipientsOf(proc'[q].camp) : item'[s].status = "NONE"
  <2>1. CASE q = p
    <3>1. proc'[q].camp = c /\ proc'[q].todo = eligible /\ eligible \subseteq marked
      BY <1>3, <2>1 DEF marked
    <3>2. ASSUME NEW s \in RecipientsOf(c), item[s].status # "NONE" PROVE marked \subseteq suspect'
      <4>1. \A r \in marked : rcpt[r] # "PENDING"
        BY <1>1, <3>2 DEF LaunchOK, RecipientsOf
      <4> QED BY <1>2, <4>1
    <3>3. \A r \in eligible : rcpt'[r] # "NONE"
      BY <1>6, <3>1
    <3> QED BY <1>2, <1>6, <3>1, <3>2, <3>3
  <2>2. CASE q # p
    <3>1. proc'[q] = proc[q] /\ proc[q].pc = "enqueue"
      BY <1>2, <1>9, <2>2
    <3>2. proc[q].todo \subseteq Recipients
      BY DEF TypeOK, ProcStates
    <3>3. \A r \in RecipientsOf(proc[q].camp) : rcpt[r] # "PENDING"
      BY <3>1 DEF LaunchOK
    <3>4. \A r \in RecipientsOf(proc[q].camp) : rcpt'[r] # "PENDING"
      BY <1>6, <3>3 DEF RecipientsOf
    <3>5. \A r \in proc[q].todo : rcpt[r] # "NONE"
      BY <3>1 DEF LaunchOK
    <3>6. \/ proc[q].todo \subseteq suspect
          \/ \A s \in RecipientsOf(proc[q].camp) : item[s].status = "NONE"
      BY <3>1 DEF LaunchOK
    <3> QED BY <1>2, <1>6, <3>1, <3>2, <3>4, <3>5, <3>6
  <2> QED BY <2>1, <2>2
<1>10. ASSUME NEW q \in Procs \ {p}, proc[q].pc = "enqueue", proc[q].camp = c
       PROVE  marked \subseteq suspect' /\ proc[q].todo \subseteq marked
  <2>1. \A r \in marked : rcpt[r] # "PENDING"
    BY <1>1, <1>10 DEF LaunchOK
  <2>2. proc[q].todo \subseteq RecipientsOf(c) /\ \A r \in proc[q].todo : rcpt[r] # "NONE"
    BY <1>10, InHand DEF LaunchOK, Shape
  <2> QED BY <1>2, <1>4, <2>1, <2>2
<1>11. ASSUME NEW q \in Procs, NEW s \in Procs, q # s,
              proc'[q].pc = "enqueue", proc'[s].pc = "enqueue", proc'[q].camp = proc'[s].camp
       PROVE  proc'[q].todo \subseteq suspect'
  <2>1. CASE q = p
    <3>1. proc[s].pc = "enqueue" /\ proc[s].camp = c
      BY <1>2, <1>3, <1>11, <2>1
    <3> QED BY <1>3, <1>10, <1>11, <2>1, <3>1 DEF marked
  <2>2. CASE s = p
    <3>1. proc[q].pc = "enqueue" /\ proc[q].camp = c /\ proc'[q] = proc[q]
      BY <1>2, <1>3, <1>11, <2>2
    <3> QED BY <1>10, <1>11, <2>2, <3>1
  <2>3. CASE q # p /\ s # p
    <3>1. proc'[q] = proc[q] /\ proc'[s] = proc[s]
      BY <1>2, <2>3
    <3> QED BY <1>2, <1>11, <3>1 DEF LaunchOK
  <2> QED BY <2>1, <2>2, <2>3
<1>12. \A r \in Recipients : item'[r].status # "NONE" => rcpt'[r] # "NONE"
  BY <1>2, <1>6 DEF LaunchOK
<1> QED BY <1>7, <1>8, <1>9, <1>11, <1>12 DEF LaunchOK, RecipientsOf

(* The items of a snapshot are inserted when nobody in it is PENDING. *)
LEMMA EnqueueKeeps ==
    ASSUME TypeOK, ShapeOK, LaunchOK, NEW p \in Procs, EnqueueItems(p)
    PROVE  LaunchOK'
<1> DEFINE c == proc[p].camp
<1>1. /\ proc[p].pc = "enqueue" /\ c \in Campaigns /\ proc[p].todo \subseteq RecipientsOf(c)
      /\ proc[p] \in ProcStates /\ proc \in [Procs -> ProcStates]
  BY InHand DEF EnqueueItems, Shape, TypeOK
<1>2. /\ \A q \in Procs \ {p} : proc'[q] = proc[q]
      /\ proc'[p].pc = "pending"
      /\ UNCHANGED <<rcpt, suspect>>
  BY <1>1 DEF EnqueueItems, Become, ProcStates
<1>3. /\ \A r \in Recipients \ proc[p].todo : item'[r] = item[r]
      /\ \A r \in Recipients : CampaignOf[r] # c => item'[r] = item[r]
  BY <1>1 DEF EnqueueItems, RecipientsOf
<1>4. /\ \A r \in RecipientsOf(c) : rcpt[r] # "PENDING"
      /\ \A r \in proc[p].todo : rcpt[r] # "NONE"
  BY <1>1 DEF LaunchOK
<1> HIDE DEF c
<1>5. \A r \in Recipients : item'[r].status # "NONE" => rcpt'[r] # "NONE"
  BY <1>2, <1>3, <1>4 DEF LaunchOK
<1>6. \A r, s \in Recipients : rcpt'[r] = "PENDING" /\ CampaignOf[s] = CampaignOf[r] =>
           item'[s].status = "NONE" /\ rcpt'[s] \in {"PENDING", "NONE"}
  BY <1>2, <1>3, <1>4 DEF LaunchOK, RecipientsOf
<1>7. ASSUME NEW q \in Procs, proc'[q].pc \in {"mark", "enqueue"}
      PROVE  q # p /\ proc'[q] = proc[q] /\ proc[q].todo \subseteq Recipients
  BY <1>2, <1>7 DEF TypeOK, ProcStates
<1>8. ASSUME NEW q \in Procs, proc'[q].pc = "mark"
      PROVE  proc'[q].todo = {r \in RecipientsOf(proc'[q].camp) : rcpt'[r] # "NONE"}
  <2>1. proc'[q] = proc[q]
    BY <1>7, <1>8
  <2>2. proc[q].todo = {r \in RecipientsOf(proc[q].camp) : rcpt[r] # "NONE"}
    BY <1>8, <2>1 DEF LaunchOK
  <2> QED BY <1>2, <2>1, <2>2
<1>9. ASSUME NEW q \in Procs, proc'[q].pc = "enqueue"
      PROVE  /\ \A r \in RecipientsOf(proc'[q].camp) : rcpt'[r] # "PENDING"
             /\ \A r \in proc'[q].todo : rcpt'[r] # "NONE"
             /\ \/ proc'[q].todo \subseteq suspect'
                \/ \A s \in RecipientsOf(proc'[q].camp) : item'[s].status = "NONE"
  <2>1. q # p /\ proc'[q] = proc[q] /\ proc[q].pc = "enqueue"
    BY <1>7, <1>9
  <2>2. CASE proc[q].camp = c
    <3>1. proc[q].todo \subseteq suspect
      BY <1>1, <2>1, <2>2 DEF LaunchOK, c
    <3> QED BY <1>2, <2>1, <3>1 DEF LaunchOK
  <2>3. CASE proc[q].camp # c
    <3>1. \A s \in RecipientsOf(proc[q].camp) : item'[s] = item[s]
      BY <1>3, <2>3 DEF RecipientsOf
    <3> QED BY <1>2, <2>1, <3>1 DEF LaunchOK
  <2> QED BY <2>2, <2>3
<1>10. ASSUME NEW q \in Procs, NEW s \in Procs, q # s,
              proc'[q].pc = "enqueue", proc'[s].pc = "enqueue", proc'[q].camp = proc'[s].camp
       PROVE  proc'[q].todo \subseteq suspect'
  <2>1. proc'[q] = proc[q] /\ proc'[s] = proc[s]
    BY <1>7, <1>10
  <2> QED BY <1>2, <1>10, <2>1 DEF LaunchOK
<1> QED BY <1>5, <1>6, <1>8, <1>9, <1>10 DEF LaunchOK, RecipientsOf

(* Every step keeps the order of the launch. *)
LEMMA LaunchKeeps ==
    ASSUME TypeOK, ShapeOK, QueuedOK, LaunchOK, [Next]_vars
    PROVE  LaunchOK'
<1> DEFINE Marking == \E p \in Procs : \E eligible \in SUBSET proc[p].todo : MarkEligibility(p, eligible)
<1>0. proc \in [Procs -> ProcStates] /\ Workers \subseteq Procs
  BY DEF TypeOK, Procs
<1>1. ASSUME NEW p \in Procs, NEW leads \in SUBSET Recipients, Snapshot(p, leads) \/ LaunchFails(p, leads)
      PROVE  LaunchOK'
  <2>1. proc[p].camp \in Campaigns /\ proc[p] \in ProcStates
    BY <1>1, InHand DEF Snapshot, LaunchFails, Shape
  <2>2. LaunchStep(p)
    BY <1>1 DEF LaunchStep
  <2>3. proc'[p].pc \in {"idle", "pending", "launch"}
    <3>1. ASSUME Snapshot(p, leads) PROVE proc'[p].pc \in {"idle", "pending"}
      BY <1>0, <2>1, <3>1 DEF Become, Snapshot, Goto, Idle, ProcStates
    <3>2. ASSUME LaunchFails(p, leads) PROVE proc'[p].pc = "launch"
      BY <1>0, <2>1, <3>2 DEF Become, LaunchFails, ProcStates
    <3> QED BY <1>1, <3>1, <3>2
  <2>4. \A q \in Procs : proc'[q].pc \in {"mark", "enqueue"} => proc'[q] = proc[q]
    BY <2>2, <2>3, OneMoves
  <2>5. UNCHANGED <<item, suspect>>
    BY <1>1 DEF Snapshot, LaunchFails
  <2>6. CASE UNCHANGED rcpt
    BY <2>4, <2>5, <2>6, LaunchFrame
  <2>7. CASE ~UNCHANGED rcpt
    <3>1. /\ ~Snapshotted(proc[p].camp) /\ leads \subseteq RecipientsOf(proc[p].camp)
          /\ rcpt' = [r \in Recipients |-> IF r \in leads THEN "PENDING" ELSE rcpt[r]]
      BY <1>1, <2>7 DEF Snapshot, LaunchFails
    <3> QED BY <2>1, <2>4, <2>5, <3>1, SnapshotKeeps
  <2> QED BY <2>6, <2>7
<1>2. CASE \E p \in Procs : LoadPending(p)
  BY <1>2, LoadKeeps
<1>3. CASE Marking
  BY <1>3, MarkKeeps
<1>4. CASE \E p \in Procs : EnqueueItems(p)
  BY <1>4, EnqueueKeeps
<1>5. CASE /\ ~Marking
           /\ \A p \in Procs : ~LoadPending(p) /\ ~EnqueueItems(p)
           /\ \A p \in Procs : \A leads \in SUBSET Recipients :
                  ~Snapshot(p, leads) /\ ~LaunchFails(p, leads)
  <2>1. \A p \in Procs : proc'[p].pc \in {"mark", "enqueue"} => proc'[p] = proc[p]
    BY <1>5, EntersLaunch
  <2>2. \A r \in Recipients : item'[r].status = "NONE" <=> item[r].status = "NONE"
    BY <1>5, ItemExists
  <2>3. suspect \subseteq suspect'
    BY SuspectGrows
  <2>4. CASE UNCHANGED rcpt
    BY <2>1, <2>2, <2>3, <2>4, LaunchFrame
  <2>5. ASSUME NEW k \in Clients, CancelRecipients(k) PROVE LaunchOK'
    <3>1. /\ \A r \in Recipients : rcpt'[r] = "NONE" <=> rcpt[r] = "NONE"
          /\ \A r, s \in Recipients : rcpt'[r] = "PENDING" /\ CampaignOf[s] = CampaignOf[r] =>
                rcpt[r] = "PENDING" /\ (rcpt[s] = "PENDING" => rcpt'[s] = "PENDING")
      BY <2>5 DEF CancelRecipients
    <3> QED BY <2>1, <2>2, <2>3, <3>1, LaunchFrame
  <2>6. ASSUME NEW w \in Workers,
               SkipRecipient(w) \/ BeginSending(w) \/ RecordSent(w) \/ FailRecipient(w)
        PROVE  LaunchOK'
    <3>1. proc[w].pc \in SendPcs
      BY <2>6 DEF SkipRecipient, BeginSending, RecordSent, FailRecipient, SendPcs
    <3>2. proc[w].cur \in Recipients /\ item[proc[w].cur].status # "NONE"
      BY <3>1, HoldingShape DEF QueuedOK
    <3>3. /\ \A r \in Recipients \ {proc[w].cur} : rcpt'[r] = rcpt[r]
          /\ rcpt'[proc[w].cur] \notin {"NONE", "PENDING"}
      BY <2>6, <3>2 DEF SkipRecipient, BeginSending, RecordSent, FailRecipient, TypeOK
    <3>4. /\ rcpt[proc[w].cur] # "NONE"
          /\ \A r \in Recipients : CampaignOf[r] = CampaignOf[proc[w].cur] => rcpt[r] # "PENDING"
      BY <3>2 DEF LaunchOK
    <3>5. /\ \A r \in Recipients : rcpt'[r] = "NONE" <=> rcpt[r] = "NONE"
          /\ \A r, s \in Recipients : rcpt'[r] = "PENDING" /\ CampaignOf[s] = CampaignOf[r] =>
                rcpt[r] = "PENDING" /\ (rcpt[s] = "PENDING" => rcpt'[s] = "PENDING")
      BY <3>3, <3>4
    <3> QED BY <2>1, <2>2, <2>3, <3>5, LaunchFrame
  <2> QED BY <1>5, <2>4, <2>5, <2>6, RcptChanges
<1> QED BY <1>1, <1>2, <1>3, <1>4, <1>5

----------------------------------------------------------------------------
(* Campaigns that are over. *)

(* The steps that write campaign statuses. *)
LEMMA StatusChanges ==
    ASSUME [Next]_vars, ~UNCHANGED <<camp, raced>>
    PROVE  \/ \E k \in Clients : RequestLaunch(k) \/ CommitRequest(k)
           \/ \E p \in Procs : StartRunning(p) \/ \E leads \in SUBSET Recipients : LaunchFails(p, leads)
           \/ \E w \in Workers : PromoteDue(w) \/ \E c \in Campaigns : CompleteFinished(w, c)
<1>1. ASSUME NEW p \in Procs, LaunchStep(p) \/ Crash(p)
      PROVE  StartRunning(p) \/ \E leads \in SUBSET Recipients : LaunchFails(p, leads)
  BY <1>1 DEF LaunchStep, CheckSnapshot, Snapshot, LoadPending, MarkEligibility, EnqueueItems,
              LaunchesDone, Crash
<1>2. ASSUME NEW k \in Clients, RequestStep(k) PROVE RequestLaunch(k) \/ CommitRequest(k)
  BY <1>2 DEF RequestStep, CancelPending, CancelRecipients
<1>3. ASSUME NEW w \in Workers, CycleStep(w)
      PROVE  PromoteDue(w) \/ \E c \in Campaigns : CompleteFinished(w, c)
  BY <1>3 DEF CycleStep, StartCycle, PickQueued, ClaimBatch, NothingToClaim, RecoverStale, BatchDone,
              CycleDone
<1>4. ASSUME NEW w \in Workers, SendStep(w) \/ ProviderSend(w, "lost") \/ ItemRaises(w) PROVE FALSE
  BY <1>4 DEF SendStep, CheckCampaign, PreSend, ReleaseItem, DropItem, SkipRecipient, BeginSending,
              ProviderSend, RecordSent, FailItem, FailRecipient, ItemRaises
<1> QED BY <1>1, <1>2, <1>3, <1>4 DEF Next, vars, LoadCampaign, LeaseRunsOut, Suppress, DeleteLead

(* A commit revives no campaign unless its row was out of date: it was loaded      *)
(* before the end, or ends the campaign again.                                *)
LEMMA CommitKeepsOver ==
    ASSUME TypeOK, NEW c \in Campaigns, NEW d \in Campaigns, NEW seen, NEW status, SetStatus(d, seen, status),
           seen \notin {"CANCELLED", "FAILED", "ARCHIVED"} \/ status \in {"CANCELLED", "FAILED", "ARCHIVED"},
           Over(c)
    PROVE  Over(c)'
BY DEF SetStatus, Over, TypeOK

LEMMA OverStable ==
    ASSUME TypeOK, ShapeOK, [Next]_vars, NEW c \in Campaigns, Over(c)
    PROVE  Over(c)'
<1>1. ASSUME NEW k \in Clients, RequestLaunch(k) \/ CommitRequest(k) PROVE Over(c)'
  <2>1. /\ proc[k].pc = "loaded"
        /\ proc[k].camp \in Campaigns /\ Permits(proc[k].op, proc[k].seen)
        /\ proc[k].op \in OperatorRequests
    BY <1>1, InHand DEF RequestLaunch, CommitRequest, Shape, Procs
  <2>2. CASE RequestLaunch(k)
    <3>1. proc[k].seen \in {"DRAFT", "SCHEDULED"}
      BY <2>1, <2>2 DEF RequestLaunch, Permits
    <3> QED BY <2>1, <2>2, <3>1, CommitKeepsOver DEF RequestLaunch
  <2>3. CASE CommitRequest(k)
    <3>1. \/ proc[k].op \in {"pause", "resume"} /\ proc[k].seen \in {"RUNNING", "PAUSED"}
          \/ proc[k].op \in {"cancel", "archive"}
      BY <2>1, <2>3 DEF CommitRequest, Permits, OperatorRequests
    <3>2. proc[k].op \in {"cancel", "archive"} =>
             Requested(proc[k].op) \in {"CANCELLED", "FAILED", "ARCHIVED"}
      BY DEF Requested
    <3> QED BY <2>1, <2>3, <3>1, <3>2, CommitKeepsOver DEF CommitRequest
  <2> QED BY <1>1, <2>2, <2>3
<1>2. ASSUME NEW p \in Procs, StartRunning(p) PROVE Over(c)'
  <2>1. proc[p].camp \in Campaigns
    BY <1>2, InHand DEF StartRunning, Shape
  <2> QED BY <1>2, <2>1, CommitKeepsOver DEF StartRunning
<1>3. ASSUME NEW p \in Procs, NEW leads \in SUBSET Recipients, LaunchFails(p, leads) PROVE Over(c)'
  <2>1. proc[p].camp \in Campaigns
    BY <1>3, InHand DEF LaunchFails, Shape
  <2>2. CASE UNCHANGED <<camp, raced>>
    BY <2>2 DEF Over
  <2> QED BY <1>3, <2>1, <2>2, CommitKeepsOver DEF LaunchFails
<1>4. ASSUME NEW w \in Workers, PromoteDue(w) PROVE Over(c)'
  BY <1>4 DEF PromoteDue, Over
<1>5. ASSUME NEW w \in Workers, NEW d \in Campaigns, CompleteFinished(w, d) PROVE Over(c)'
  <2>1. CASE UNCHANGED <<camp, raced>>
    BY <2>1 DEF Over
  <2> QED BY <1>5, <2>1, CommitKeepsOver DEF CompleteFinished
<1>6. CASE UNCHANGED <<camp, raced>>
  BY <1>6 DEF Over
<1> QED BY <1>1, <1>2, <1>3, <1>4, <1>5, <1>6, StatusChanges

(* A client moves by one of its own steps only. *)
LEMMA ClientMoves ==
    ASSUME TypeOK, [Next]_vars, NEW k \in Clients
    PROVE  \/ proc'[k] = proc[k]
           \/ \E op \in OperatorRequests, c \in Campaigns : LoadCampaign(k, op, c)
           \/ RequestStep(k) \/ LaunchStep(k) \/ Crash(k)
<1> USE DEF Procs
<1>0. CASE UNCHANGED vars
  BY <1>0 DEF vars
<1>1. ASSUME NEW l \in Clients, l # k,
             (\E op \in OperatorRequests, c \in Campaigns : LoadCampaign(l, op, c)) \/ RequestStep(l)
      PROVE  proc'[k] = proc[k]
  BY <1>1, OneMoves
<1>2. ASSUME NEW p \in Procs, p # k, LaunchStep(p) \/ Crash(p) PROVE proc'[k] = proc[k]
  BY <1>2, OneMoves
<1>3. ASSUME NEW w \in Workers,
             CycleStep(w) \/ SendStep(w) \/ ProviderSend(w, "lost") \/ ItemRaises(w)
      PROVE  proc'[k] = proc[k]
  BY <1>3, OneMoves, ConstantsAssumption
<1>4. ASSUME NEW r \in Recipients, LeaseRunsOut(r) \/ Suppress(r) \/ DeleteLead(r)
      PROVE  proc'[k] = proc[k]
  BY <1>4 DEF LeaseRunsOut, Suppress, DeleteLead
<1>5. CASE Next
  <2>1. ASSUME NEW l \in Clients, NEW op \in OperatorRequests, NEW c \in Campaigns, LoadCampaign(l, op, c)
        PROVE  proc'[k] = proc[k] \/ (l = k /\ LoadCampaign(k, op, c))
    BY <1>1, <2>1
  <2> QED BY <1>1, <1>2, <1>3, <1>4, <1>5, <2>1 DEF Next
<1> QED BY <1>0, <1>5

(* The claim and its recovery of stale leases go on to the items. *)
LEMMA ClaimMoves ==
    ASSUME TypeOK, NEW w \in Workers,
           RecoverStale(w) \/ \E batch \in SUBSET Recipients : ClaimBatch(w, batch)
    PROVE  proc'[w].pc \in {"item", "recover"}
<1>0. w \in Procs /\ proc[w] \in ProcStates /\ proc \in [Procs -> ProcStates]
  BY DEF Procs, TypeOK
<1>1. ASSUME RecoverStale(w) PROVE proc'[w].pc = "item"
  BY <1>0, <1>1 DEF RecoverStale, Become, ProcStates
<1>2. ASSUME NEW batch \in SUBSET Recipients, ClaimBatch(w, batch) PROVE proc'[w].pc \in {"item", "recover"}
  BY <1>0, <1>2 DEF ClaimBatch, Become, Idle
<1> QED BY <1>1, <1>2

(* What is cancelled or dropped belongs to a campaign that is over. *)
LEMMA OverStep ==
    ASSUME TypeOK, ShapeOK, OverOK, [Next]_vars
    PROVE  OverOK'
<1>0. TypeOK' /\ ShapeOK' /\ proc \in [Procs -> ProcStates] /\ Workers \subseteq Procs
  BY TypeStep DEF TypeOK, Procs
<1>1. ASSUME NEW p \in Procs, proc'[p].pc \in {"cancel_items", "cancel_recipients"}
      PROVE  Over(proc[p].camp)'
  <2>0. proc[p] \in ProcStates
    BY <1>0
  <2>1. CASE proc'[p] = proc[p]
    <3>1. PICK c \in Campaigns : c = proc[p].camp /\ Over(c)
      BY <1>1, <2>1, InHand DEF OverOK, Shape
    <3>2. Over(c)'
      BY <3>1, OverStable
    <3> QED BY <2>1, <3>1, <3>2 DEF Over
  <2>2. CASE p \in Workers /\ proc'[p] # proc[p]
    <3>1. ~(LaunchStep(p) \/ Crash(p))
      BY <1>1, LaunchMoves
    <3>2. ~(SendStep(p) \/ ProviderSend(p, "lost") \/ ItemRaises(p))
      BY <1>1, <2>2, SendMoves DEF SendPcs
    <3>3. CycleStep(p)
      BY <2>2, <3>1, <3>2, WorkerMoves
    <3>4. RecoverStale(p) \/ \E batch \in SUBSET Recipients : ClaimBatch(p, batch)
      BY <1>1, <2>2, <3>3, CycleMoves
    <3>5. proc'[p].pc \in {"item", "recover"}
      BY <2>2, <3>4, ClaimMoves
    <3> QED BY <1>1, <3>5
  <2>3. CASE p \in Clients /\ proc'[p] # proc[p]
    <3>1. ~(LaunchStep(p) \/ Crash(p))
      BY <1>1, LaunchMoves
    <3>2. ASSUME NEW op \in OperatorRequests, NEW c \in Campaigns, LoadCampaign(p, op, c) PROVE FALSE
      <4>1. proc'[p].pc = "loaded"
        BY <1>0, <3>2 DEF LoadCampaign, Become, Idle
      <4> QED BY <1>1, <4>1
    <3>3. RequestStep(p)
      BY <2>3, <3>1, <3>2, ClientMoves
    <3>4. ASSUME RequestLaunch(p) PROVE FALSE
      <4>1. proc'[p] = Idle \/ proc'[p] = [Idle EXCEPT !.pc = "launch", !.camps = {proc[p].camp}]
        BY <1>0, <3>4 DEF RequestLaunch, Become
      <4>2. Idle.pc = "idle" /\ Idle \in ProcStates
        BY IdleType DEF Idle
      <4>3. proc'[p].pc \in {"idle", "launch"}
        BY <4>1, <4>2 DEF ProcStates
      <4> QED BY <1>1, <4>3
    <3>5. ASSUME CancelRecipients(p) PROVE FALSE
      <4>1. proc'[p].pc = "idle"
        BY <1>0, <3>5 DEF CancelRecipients, Become, Idle
      <4> QED BY <1>1, <4>1
    <3>6. CASE CommitRequest(p)
      <4>0. PICK c \in Campaigns : c = proc[p].camp
        BY <3>6, InHand DEF CommitRequest, Shape
      <4>1. proc[p].op = "cancel" /\ SetStatus(c, proc[p].seen, "CANCELLED")
        <5>1. proc[p].op # "cancel" => proc'[p].pc = "idle"
          BY <1>0, <3>6 DEF CommitRequest, Become, Idle
        <5> QED BY <1>1, <3>6, <4>0, <5>1 DEF CommitRequest, Requested
      <4>2. proc'[p] = [Idle EXCEPT !.pc = "cancel_items", !.camp = c]
        BY <1>0, <3>6, <4>0, <4>1 DEF CommitRequest, Become
      <4>3. proc'[p].camp = c
        BY <4>2, IdleType DEF ProcStates
      <4>4. camp'[c] = "CANCELLED"
        BY <4>1 DEF SetStatus, TypeOK
      <4> QED BY <4>3, <4>4 DEF Over
    <3>7. CASE CancelPending(p)
      <4>1. PICK c \in Campaigns : c = proc[p].camp /\ Over(c)
        BY <3>7, InHand DEF CancelPending, OverOK, Shape
      <4>2. proc'[p].camp = c
        BY <1>0, <2>0, <3>7, <4>1 DEF CancelPending, Goto, Become, ProcStates
      <4>3. Over(c)'
        BY <4>1, OverStable
      <4> QED BY <4>2, <4>3 DEF Over
    <3> QED BY <3>3, <3>4, <3>5, <3>6, <3>7 DEF RequestStep
  <2> QED BY <2>1, <2>2, <2>3 DEF Procs
<1>2. ASSUME NEW w \in Workers, proc'[w].pc = "drop"
      PROVE  Over(CampaignOf[proc[w].cur])'
  <2>0. proc[w] \in ProcStates /\ w \in Procs
    BY <1>0
  <2>1. CASE proc'[w] = proc[w]
    <3>1. PICK r \in Recipients : r = proc[w].cur /\ Over(CampaignOf[r])
      BY <1>2, <2>0, <2>1, InHand DEF OverOK, Shape, SendPcs, ProcStates
    <3>2. Over(CampaignOf[r])'
      BY <3>1, OverStable, ConstantsAssumption
    <3> QED BY <2>1, <3>1, <3>2 DEF Over
  <2>2. CASE proc'[w] # proc[w]
    <3>1. ~(LaunchStep(w) \/ Crash(w))
      BY <1>2, <2>0, LaunchMoves
    <3>2. ~CycleStep(w)
      BY <1>2, CycleMoves, ClaimMoves
    <3>3. SendStep(w) \/ ProviderSend(w, "lost") \/ ItemRaises(w)
      BY <2>2, <3>1, <3>2, WorkerMoves
    <3>4. ASSUME NEW r \in Recipients, CheckCampaign(w, r) PROVE Over(CampaignOf[proc[w].cur])'
      <4>1. proc'[w] = [proc[w] EXCEPT !.todo = @ \ {r}, !.cur = r,
                    !.pc = CASE camp[CampaignOf[r]] = "PAUSED" -> "release"
                             [] camp[CampaignOf[r]] \in {"CANCELLED", "FAILED"} -> "drop"
                             [] OTHER -> "presend"]
        BY <1>0, <2>0, <3>4 DEF CheckCampaign, Become
      <4>2. proc'[w].cur = r
        BY <2>0, <4>1 DEF ProcStates
      <4>3. camp[CampaignOf[r]] \in {"CANCELLED", "FAILED"}
        BY <1>2, <2>0, <4>1 DEF ProcStates
      <4>4. Over(CampaignOf[r])'
        BY <4>3, OverStable, ConstantsAssumption DEF Over
      <4> QED BY <4>2, <4>4 DEF Over
    <3>5. ASSUME NEW finding, PreSend(w, finding) PROVE FALSE
      <4>1. \/ proc'[w] = [proc[w] EXCEPT !.pc = "failing", !.op = "FINAL"]
            \/ proc'[w] = [proc[w] EXCEPT !.pc = "release"]
            \/ proc'[w] = [proc[w] EXCEPT !.pc = "skip"]
            \/ proc'[w] = [proc[w] EXCEPT !.pc = "begin"]
        BY <1>0, <2>0, <3>5 DEF Become, PreSend, Goto
      <4> QED BY <1>2, <2>0, <4>1 DEF ProcStates
    <3>6. ASSUME NEW answer, ProviderSend(w, answer) PROVE FALSE
      <4>1. \/ proc'[w] = [proc[w] EXCEPT !.pc = "accepted"]
            \/ proc'[w] = [proc[w] EXCEPT !.pc = "failing", !.op = "TRANSIENT"]
            \/ proc'[w] = [proc[w] EXCEPT !.pc = "failing", !.op = "FINAL"]
        BY <1>0, <2>0, <3>6 DEF Become, ProviderSend, Goto
      <4> QED BY <1>2, <2>0, <4>1 DEF ProcStates
    <3>7. ASSUME ReleaseItem(w) \/ DropItem(w) \/ SkipRecipient(w) \/ RecordSent(w)
                 \/ FailRecipient(w) \/ ItemRaises(w)
          PROVE  FALSE
      <4>1. proc'[w] = Done(w)
        BY <1>0, <2>0, <3>7 DEF Become, ReleaseItem, DropItem, SkipRecipient, RecordSent, FailRecipient, ItemRaises
      <4> QED BY <1>2, <2>0, <4>1 DEF Done, ProcStates
    <3>8. ASSUME BeginSending(w) \/ FailItem(w) PROVE FALSE
      <4>1. \/ proc'[w] = [proc[w] EXCEPT !.pc = "sending"]
            \/ proc'[w] = Done(w)
            \/ proc'[w] = [proc[w] EXCEPT !.pc = "verdict"]
        BY <1>0, <2>0, <3>8 DEF Become, BeginSending, Goto, FailItem
      <4> QED BY <1>2, <2>0, <4>1 DEF Done, ProcStates
    <3> QED BY <3>3, <3>4, <3>5, <3>6, <3>7, <3>8 DEF SendStep
  <2> QED BY <2>1, <2>2
<1> QED BY <1>1, <1>2 DEF OverOK, Over

----------------------------------------------------------------------------
(* Nobody is lost. *)

(* A launch that will queue a PENDING recipient stays, or marks it. *)
LEMMA LoadingStays ==
    ASSUME TypeOK, ShapeOK, [Next]_vars, NEW r \in Recipients \ suspect', NEW p \in Procs,
           Loading(p, r), rcpt[r] = "PENDING"
    PROVE  Loading(p, r)' \/ rcpt'[r] # "PENDING"
<1>1. proc[p] \in ProcStates /\ proc \in [Procs -> ProcStates] /\ proc[p].pc \in {"pending", "mark"}
      /\ proc[p].camp = CampaignOf[r] /\ r \in RecipientsOf(proc[p].camp)
  BY InHand DEF TypeOK, Loading, RecipientsOf
<1>2. CASE proc'[p] = proc[p]
  BY <1>2 DEF Loading
<1>3. CASE Crash(p)
  BY <1>1, <1>3 DEF Crash
<1>4. ASSUME LoadPending(p) PROVE Loading(p, r)'
  <2> DEFINE found == {s \in RecipientsOf(proc[p].camp) : rcpt[s] = "PENDING"}
  <2>1. r \in found
    BY <1>1
  <2>2. proc'[p] = [proc[p] EXCEPT !.pc = "mark", !.todo = found]
    BY <1>1, <1>4, <2>1 DEF LoadPending, Become
  <2>3. proc'[p].pc = "mark" /\ proc'[p].camp = CampaignOf[r] /\ proc'[p].todo = found
    BY <1>1, <2>2 DEF ProcStates
  <2> QED BY <2>1, <2>3 DEF Loading
<1>5. ASSUME NEW eligible \in SUBSET proc[p].todo, MarkEligibility(p, eligible) PROVE rcpt'[r] # "PENDING"
  <2>1. r \in proc[p].todo
    BY <1>5 DEF MarkEligibility, Loading
  <2> QED BY <1>5, <2>1 DEF MarkEligibility
<1>6. ASSUME LaunchStep(p)
      PROVE  LoadPending(p) \/ \E eligible \in SUBSET proc[p].todo : MarkEligibility(p, eligible)
  BY <1>1, <1>6 DEF LaunchStep, CheckSnapshot, Snapshot, LaunchFails, EnqueueItems, StartRunning,
                    LaunchesDone
<1>7. ~CycleStep(p) /\ ~(SendStep(p) \/ ProviderSend(p, "lost") \/ ItemRaises(p)) /\ ~RequestStep(p)
  BY <1>1 DEF CycleStep, StartCycle, PromoteDue, PickQueued, ClaimBatch, NothingToClaim, RecoverStale,
         BatchDone, CompleteFinished, CycleDone, SendStep, CheckCampaign, PreSend, ReleaseItem, DropItem,
         SkipRecipient, BeginSending, ProviderSend, RecordSent, FailItem, FailRecipient, ItemRaises,
         RequestStep, RequestLaunch, CommitRequest, CancelPending, CancelRecipients
<1>8. \A op \in OperatorRequests, c \in Campaigns : ~LoadCampaign(p, op, c)
  BY <1>1 DEF LoadCampaign
<1> QED BY <1>2, <1>3, <1>4, <1>5, <1>6, <1>7, <1>8, WorkerMoves, ClientMoves DEF Procs

(* A launch that will queue an ELIGIBLE recipient stays, or queues it. *)
LEMMA EnqueueingStays ==
    ASSUME TypeOK, ShapeOK, [Next]_vars, NEW r \in Recipients \ suspect', NEW p \in Procs,
           Enqueueing(p, r)
    PROVE  Enqueueing(p, r)' \/ item'[r].status # "NONE"
<1>1. proc[p] \in ProcStates /\ proc \in [Procs -> ProcStates] /\ proc[p].pc = "enqueue"
      /\ proc[p].camp = CampaignOf[r] /\ r \in RecipientsOf(proc[p].camp) /\ r \in proc[p].todo
  BY InHand DEF TypeOK, Enqueueing, RecipientsOf
<1>2. CASE proc'[p] = proc[p]
  BY <1>2 DEF Enqueueing
<1>3. CASE Crash(p)
  BY <1>1, <1>3 DEF Crash
<1>4. ASSUME EnqueueItems(p) PROVE item'[r].status # "NONE"
  BY <1>1, <1>4 DEF EnqueueItems, NoItem
<1>5. ASSUME LaunchStep(p) PROVE EnqueueItems(p)
  BY <1>1, <1>5 DEF LaunchStep, CheckSnapshot, Snapshot, LaunchFails, LoadPending, MarkEligibility,
                    StartRunning, LaunchesDone
<1>6. ~CycleStep(p) /\ ~(SendStep(p) \/ ProviderSend(p, "lost") \/ ItemRaises(p)) /\ ~RequestStep(p)
  BY <1>1 DEF CycleStep, StartCycle, PromoteDue, PickQueued, ClaimBatch, NothingToClaim, RecoverStale,
         BatchDone, CompleteFinished, CycleDone, SendStep, CheckCampaign, PreSend, ReleaseItem, DropItem,
         SkipRecipient, BeginSending, ProviderSend, RecordSent, FailItem, FailRecipient, ItemRaises,
         RequestStep, RequestLaunch, CommitRequest, CancelPending, CancelRecipients
<1>7. \A op \in OperatorRequests, c \in Campaigns : ~LoadCampaign(p, op, c)
  BY <1>1 DEF LoadCampaign
<1> QED BY <1>2, <1>3, <1>4, <1>5, <1>6, <1>7, WorkerMoves, ClientMoves DEF Procs

(* A worker about to fail a recipient stays, or does. *)
LEMMA VerdictStays ==
    ASSUME TypeOK, ShapeOK, [Next]_vars, NEW r \in Recipients \ suspect', NEW w \in Workers,
           proc[w].cur = r, proc[w].pc = "verdict"
    PROVE  (proc'[w].cur = r /\ proc'[w].pc = "verdict") \/ rcpt'[r] = "FAILED"
<1>1. ASSUME Crash(w) PROVE FALSE
  BY <1>1 DEF Crash
<1>2. ASSUME FailRecipient(w) PROVE rcpt'[r] = "FAILED"
  BY <1>2 DEF FailRecipient, TypeOK
<1> QED BY <1>1, <1>2, LastStep

(* A worker at a step of the send holds the item alone. *)
LEMMA InHandAlone ==
    ASSUME SendInv, NEW r \in Recipients \ suspect, NEW w \in Workers,
           proc[w].pc \in SendPcs, proc[w].cur = r
    PROVE  /\ r \in Holding(w)
           /\ \A v \in Workers : r \in Holding(v) => v = w
BY HoldingShape DEF SendInv, ItemHeldOnce

(* What a step may do to the rows of a recipient that is neither suspect nor in a  *)
(* campaign that is over: the recipient ...                                   *)
RcptWritten(r) ==
    \/ rcpt'[r] = rcpt[r]
    \/ \E p \in Procs, leads \in SUBSET Recipients :
          /\ Snapshot(p, leads)
          /\ rcpt[r] = "NONE" /\ rcpt'[r] = "PENDING" /\ proc[p].camp = CampaignOf[r]
    \/ \E p \in Procs : \E eligible \in SUBSET proc[p].todo :
          /\ MarkEligibility(p, eligible)
          /\ rcpt[r] = "PENDING"
          /\ \/ r \in eligible /\ rcpt'[r] = "ELIGIBLE"
             \/ rcpt'[r] = "INELIGIBLE"
    \/ \E w \in Workers : proc[w].cur = r /\ BeginSending(w) /\ rcpt'[r] = "SENDING"
    \/ rcpt'[r] \in Verdicts

(* ... and its item. *)
ItemWritten(r) ==
    \/ item'[r].status = item[r].status
    \/ item[r].status = "NONE" /\ item'[r].status = "WAITING"
    \/ \E w \in Workers, batch \in SUBSET Recipients :
          ClaimBatch(w, batch) /\ r \in batch /\ item'[r].status = "PROCESSING"
    \/ /\ \A w \in Workers : r \notin Holding(w)
       /\ item[r].status = "PROCESSING" /\ item'[r].status = "WAITING"
    \/ \E w \in Workers : /\ proc[w].pc \in SendPcs /\ proc[w].cur = r
                          /\ r \notin Holding(w)'
                          /\ proc[w].pc # "verdict"
                          /\ item'[r].status \in {"WAITING", "RETRY"} \/ rcpt'[r] \in Verdicts
    \/ \E w \in Workers : /\ proc[w].pc = "failing" /\ proc[w].cur = r
                          /\ proc'[w].pc = "verdict" /\ proc'[w].cur = r

LEMMA WhoWrites ==
    ASSUME SendInv, QueuedOK, LaunchOK, OverOK, [Next]_vars,
           NEW r \in Recipients \ suspect', ~Over(CampaignOf[r])'
    PROVE  RcptWritten(r) /\ ItemWritten(r)
<1>0. /\ TypeOK /\ ShapeOK /\ r \notin suspect /\ CampaignOf[r] \in Campaigns /\ ~Over(CampaignOf[r])
      /\ proc \in [Procs -> ProcStates] /\ Workers \subseteq Procs /\ Clients \subseteq Procs
  BY SuspectGrows, OverStable, ConstantsAssumption DEF SendInv, TypeOK, Procs
<1>1. RcptWritten(r)
  <2>1. ASSUME NEW k \in Clients, CancelRecipients(k) PROVE rcpt'[r] = rcpt[r]
    <3>1. proc[k].camp # CampaignOf[r]
      BY <1>0, <2>1 DEF CancelRecipients, OverOK
    <3> QED BY <2>1, <3>1 DEF CancelRecipients
  <2>2. ASSUME NEW p \in Procs, NEW leads \in SUBSET Recipients, Snapshot(p, leads), rcpt'[r] # rcpt[r]
        PROVE  rcpt[r] = "NONE" /\ rcpt'[r] = "PENDING" /\ proc[p].camp = CampaignOf[r]
    <3>1. /\ ~Snapshotted(proc[p].camp) /\ r \in leads /\ leads \subseteq RecipientsOf(proc[p].camp)
          /\ rcpt'[r] = "PENDING"
      BY <2>2 DEF Snapshot
    <3> QED BY <3>1 DEF Snapshotted, RecipientsOf
  <2>3. ASSUME NEW p \in Procs, NEW leads \in SUBSET Recipients, LaunchFails(p, leads) PROVE rcpt'[r] = rcpt[r]
    <3>1. CASE p \in Workers
      <4>1. PICK c \in Campaigns : c = proc[p].camp /\ camp' = [camp EXCEPT ![c] = "FAILED"]
        BY <1>0, <2>3, <3>1, InHand DEF LaunchFails, Shape, SetStatus
      <4>2. c # CampaignOf[r]
        BY <1>0, <4>1 DEF Over, TypeOK
      <4> QED BY <2>3, <3>1, <4>1, <4>2 DEF LaunchFails, RecipientsOf
    <3>2. CASE p \notin Workers
      BY <2>3, <3>2 DEF LaunchFails
    <3> QED BY <3>1, <3>2
  <2>4. ASSUME NEW p \in Procs, NEW eligible \in SUBSET proc[p].todo, MarkEligibility(p, eligible),
               rcpt'[r] # rcpt[r]
        PROVE  rcpt[r] = "PENDING" /\ ((r \in eligible /\ rcpt'[r] = "ELIGIBLE") \/ rcpt'[r] = "INELIGIBLE")
    <3>1. r \in proc[p].todo
      BY <2>4 DEF MarkEligibility
    <3>2. rcpt[r] = "PENDING"
      BY <2>4, <3>1 DEF MarkEligibility
    <3>3. CASE r \in eligible
      BY <2>4, <3>2, <3>3 DEF MarkEligibility
    <3>4. CASE r \notin eligible
      BY <2>4, <3>1, <3>2, <3>4 DEF MarkEligibility
    <3> QED BY <3>3, <3>4
  <2>5. ASSUME NEW w \in Workers, BeginSending(w), rcpt'[r] # rcpt[r]
        PROVE  proc[w].cur = r /\ rcpt'[r] = "SENDING"
    BY <1>0, <2>5 DEF BeginSending, TypeOK
  <2>6. ASSUME NEW w \in Workers, SkipRecipient(w) \/ RecordSent(w) \/ FailRecipient(w), rcpt'[r] # rcpt[r]
        PROVE  rcpt'[r] \in Verdicts
    BY <1>0, <2>6 DEF SkipRecipient, RecordSent, FailRecipient, TypeOK, Verdicts
  <2>7. CASE rcpt' = rcpt
    BY <2>7 DEF RcptWritten
  <2>8. ASSUME NEW p \in Procs, NEW leads \in SUBSET Recipients, Snapshot(p, leads) PROVE RcptWritten(r)
    BY <2>2, <2>8 DEF RcptWritten
  <2>9. ASSUME NEW p \in Procs, NEW eligible \in SUBSET proc[p].todo, MarkEligibility(p, eligible)
        PROVE RcptWritten(r)
    BY <2>4, <2>9 DEF RcptWritten
  <2>10. ASSUME NEW w \in Workers, BeginSending(w) PROVE RcptWritten(r)
    BY <2>5, <2>10 DEF RcptWritten
  <2>11. ASSUME NEW w \in Workers, SkipRecipient(w) \/ RecordSent(w) \/ FailRecipient(w) PROVE RcptWritten(r)
    BY <2>6, <2>11 DEF RcptWritten
  <2>12. rcpt'[r] = rcpt[r] => RcptWritten(r)
    BY DEF RcptWritten
  <2> QED BY <2>1, <2>3, <2>7, <2>8, <2>9, <2>10, <2>11, <2>12, RcptChanges
<1>2. ItemWritten(r)
  <2>1. ASSUME NEW k \in Clients, CancelPending(k) PROVE item'[r].status = item[r].status
    <3>1. proc[k].camp # CampaignOf[r]
      BY <1>0, <2>1 DEF CancelPending, OverOK
    <3> QED BY <2>1, <3>1 DEF CancelPending
  <2>2. ASSUME NEW p \in Procs, EnqueueItems(p)
        PROVE  item'[r].status = item[r].status \/ (item[r].status = "NONE" /\ item'[r].status = "WAITING")
    BY <2>2 DEF EnqueueItems, NoItem
  <2>3. ASSUME NEW w \in Workers, NEW batch \in SUBSET Recipients, ClaimBatch(w, batch), r \in batch
        PROVE  item'[r].status = "PROCESSING"
    BY <2>3 DEF ClaimBatch
  <2>4. ASSUME NEW w \in Workers, NEW batch \in SUBSET Recipients, ClaimBatch(w, batch), r \notin batch
        PROVE  item'[r].status = item[r].status
    BY <2>4 DEF ClaimBatch
  <2>5. ASSUME NEW w \in Workers, RecoverStale(w), item'[r].status # item[r].status
        PROVE  /\ \A v \in Workers : r \notin Holding(v)
               /\ item[r].status = "PROCESSING" /\ item'[r].status = "WAITING"
    <3>1. r \in proc[w].stale /\ r \in Stale
      BY <2>5 DEF RecoverStale
    <3>2. item'[r].status = "WAITING"
      BY <1>0, <2>5, <3>1 DEF RecoverStale, TypeOK, Items
    <3> QED BY <1>0, <3>1, <3>2 DEF Stale, SendInv, HeldItems, HeldItem
  <2>6. ASSUME NEW w \in Workers, ReleaseItem(w) \/ DropItem(w) \/ SkipRecipient(w) \/ RecordSent(w)
                                  \/ ItemRaises(w) \/ FailItem(w)
        PROVE  proc[w].pc \in SendPcs /\ proc[w].pc # "verdict" /\ proc[w].cur \in Recipients
    <3>1. proc[w].pc \in SendPcs /\ proc[w].pc # "verdict"
      BY <2>6 DEF ReleaseItem, DropItem, SkipRecipient, RecordSent, ItemRaises, FailItem, SendPcs
    <3> QED BY <1>0, <3>1, HoldingShape
  <2>7. ASSUME NEW w \in Workers, ReleaseItem(w) \/ DropItem(w) \/ SkipRecipient(w) \/ RecordSent(w)
                                  \/ ItemRaises(w) \/ FailItem(w), proc[w].cur # r
        PROVE  item'[r].status = item[r].status
    BY <1>0, <2>6, <2>7 DEF ReleaseItem, DropItem, SkipRecipient, RecordSent, ItemRaises, FailItem, SetItem, TypeOK
  <2>8. ASSUME NEW w \in Workers, proc[w].pc \in SendPcs, Become(w, Done(w)), proc[w].cur = r
        PROVE  r \notin Holding(w)'
    BY <1>0, <2>8, DoneDrops
  <2>9. ASSUME NEW w \in Workers, ReleaseItem(w), proc[w].cur = r
        PROVE  item'[r].status = "WAITING" /\ r \notin Holding(w)'
    BY <1>0, <2>6, <2>8, <2>9 DEF ReleaseItem, TypeOK
  <2>10. ASSUME NEW w \in Workers, SkipRecipient(w) \/ RecordSent(w), proc[w].cur = r
         PROVE  rcpt'[r] \in Verdicts /\ r \notin Holding(w)'
    BY <1>0, <2>6, <2>8, <2>10 DEF SkipRecipient, RecordSent, TypeOK, Verdicts
  <2>11. ASSUME NEW w \in Workers, DropItem(w) PROVE proc[w].cur # r
    BY <1>0, <2>11 DEF DropItem, OverOK
  <2>12. ASSUME NEW w \in Workers, ItemRaises(w) PROVE proc[w].cur # r
    BY <2>12 DEF ItemRaises
  <2>13. ASSUME NEW w \in Workers, FailItem(w), proc[w].cur = r
         PROVE  \/ item'[r].status = "RETRY" /\ r \notin Holding(w)'
                \/ proc[w].pc = "failing" /\ proc'[w].pc = "verdict" /\ proc'[w].cur = r
    <3>1. CASE item' = SetItem(r, "RETRY") /\ Become(w, Done(w))
      <4>1. item'[r].status = "RETRY"
        BY <1>0, <3>1 DEF SetItem, TypeOK, Items
      <4> QED BY <2>6, <2>8, <2>13, <3>1, <4>1
    <3>2. CASE Become(w, [proc[w] EXCEPT !.pc = "verdict"])
      <4>1. proc'[w] = [proc[w] EXCEPT !.pc = "verdict"] /\ proc[w] \in ProcStates
        BY <1>0, <3>2 DEF Become
      <4> QED BY <2>13, <4>1 DEF FailItem, ProcStates
    <3> QED BY <2>13, <3>1, <3>2 DEF FailItem
  <2>14. ASSUME NEW s \in Recipients, LeaseRunsOut(s) PROVE item'[r].status = item[r].status
    BY <1>0, <2>14 DEF LeaseRunsOut, TypeOK, Items
  <2>15. CASE item' = item
    BY <2>15 DEF ItemWritten
  <2>16. ASSUME NEW w \in Workers, NEW batch \in SUBSET Recipients, ClaimBatch(w, batch) PROVE ItemWritten(r)
    BY <2>3, <2>4, <2>16 DEF ItemWritten
  <2>17. ASSUME NEW w \in Workers, RecoverStale(w) PROVE ItemWritten(r)
    BY <2>5, <2>17 DEF ItemWritten
  <2>18. ASSUME NEW w \in Workers, ReleaseItem(w) \/ DropItem(w) \/ SkipRecipient(w) \/ RecordSent(w)
                                   \/ ItemRaises(w) \/ FailItem(w) PROVE ItemWritten(r)
    BY <2>6, <2>7, <2>9, <2>10, <2>11, <2>12, <2>13, <2>18 DEF ItemWritten
  <2>19. ASSUME NEW p \in Procs, EnqueueItems(p) PROVE ItemWritten(r)
    BY <2>2, <2>19 DEF ItemWritten
  <2>20. item'[r].status = item[r].status => ItemWritten(r)
    BY DEF ItemWritten
  <2> QED BY <2>1, <2>14, <2>15, <2>16, <2>17, <2>18, <2>19, <2>20, ItemChanges
<1> QED BY <1>1, <1>2

(* Every step keeps each recipient on its way, until its campaign is over. *)
LEMMA OnItsWayStep ==
    ASSUME SendInv, QueuedOK, LaunchOK, OverOK, OnItsWayOK, [Next]_vars
    PROVE  OnItsWayOK'
<1> SUFFICES ASSUME NEW r \in Recipients \ suspect', ~Over(CampaignOf[r])'
             PROVE  OnItsWay(r)'
  BY ConstantsAssumption DEF OnItsWayOK, Over
<1>0. /\ TypeOK /\ ShapeOK /\ r \notin suspect /\ CampaignOf[r] \in Campaigns
      /\ proc \in [Procs -> ProcStates] /\ Workers \subseteq Procs
      /\ TypeOK' /\ ShapeOK'
  BY SuspectGrows, TypeStep, ConstantsAssumption DEF SendInv, TypeOK, Procs
<1>1. OnItsWay(r)
  BY <1>0, OverStable DEF OnItsWayOK
<1>2. RcptWritten(r) /\ ItemWritten(r)
  BY WhoWrites
<1>3. ASSUME NEW w \in Workers, r \in Holding(w), proc[w].pc # "verdict" PROVE item[r].status = "PROCESSING"
  BY <1>1, <1>3 DEF OnItsWay
<1>4. ASSUME rcpt'[r] = "PENDING" PROVE \E p \in Procs : Loading(p, r)'
  <2>1. CASE rcpt[r] = "PENDING"
    <3>1. PICK p \in Procs : Loading(p, r)
      BY <1>1, <2>1 DEF OnItsWay
    <3> QED BY <1>0, <1>4, <2>1, <3>1, LoadingStays
  <2>2. CASE rcpt[r] # "PENDING"
    <3>1. PICK p \in Procs, leads \in SUBSET Recipients :
             Snapshot(p, leads) /\ ~UNCHANGED rcpt /\ proc[p].camp = CampaignOf[r]
      BY <1>2, <1>4, <2>2 DEF RcptWritten, Verdicts
    <3>2. proc'[p] = [proc[p] EXCEPT !.pc = "pending"] /\ proc[p] \in ProcStates
      BY <1>0, <3>1 DEF Snapshot, Goto, Become
    <3>3. proc'[p].pc = "pending" /\ proc'[p].camp = CampaignOf[r]
      BY <3>1, <3>2 DEF ProcStates
    <3> QED BY <3>3 DEF Loading
  <2> QED BY <2>1, <2>2
<1>5. ASSUME rcpt'[r] = "ELIGIBLE", item'[r].status = "NONE" PROVE \E p \in Procs : Enqueueing(p, r)'
  <2>1. CASE rcpt[r] = "ELIGIBLE"
    <3>1. item[r].status = "NONE"
      BY <1>0, <1>5, ItemExists DEF SendInv
    <3>2. PICK p \in Procs : Enqueueing(p, r)
      BY <1>1, <2>1, <3>1 DEF OnItsWay
    <3> QED BY <1>0, <1>5, <3>2, EnqueueingStays
  <2>2. CASE rcpt[r] # "ELIGIBLE"
    <3>1. PICK p \in Procs : \E eligible \in SUBSET proc[p].todo : MarkEligibility(p, eligible) /\ r \in eligible
      BY <1>2, <1>5, <2>2 DEF RcptWritten, Verdicts
    <3>2. PICK eligible \in SUBSET Recipients :
            MarkEligibility(p, eligible) /\ eligible \subseteq proc[p].todo /\ r \in eligible
      BY <1>0, <3>1 DEF ProcStates
    <3>3. proc[p].pc = "mark" /\ proc[p] \in ProcStates /\ proc[p].camp = CampaignOf[r]
      BY <1>0, <3>2, InHand DEF MarkEligibility, Shape, RecipientsOf
    <3>4. proc'[p] = [proc[p] EXCEPT !.pc = "enqueue", !.todo = eligible]
      BY <1>0, <3>2 DEF MarkEligibility, Become
    <3>5. proc'[p].pc = "enqueue" /\ proc'[p].camp = CampaignOf[r] /\ proc'[p].todo = eligible
      BY <3>3, <3>4 DEF ProcStates
    <3> QED BY <3>2, <3>5 DEF Enqueueing
  <2> QED BY <2>1, <2>2
<1>6. ASSUME rcpt'[r] = "SENDING" PROVE item'[r].status # "NONE"
  <2>1. item[r].status # "NONE"
    <3>1. CASE rcpt[r] = "SENDING"
      BY <1>1, <3>1 DEF OnItsWay
    <3>2. CASE rcpt[r] # "SENDING"
      <4>1. PICK w \in Workers : proc[w].cur = r /\ BeginSending(w)
        BY <1>2, <1>6, <3>2 DEF RcptWritten, Verdicts
      <4>2. r \in Holding(w)
        BY <1>0, <4>1, HoldingShape DEF BeginSending, SendPcs
      <4> QED BY <4>2 DEF QueuedOK
    <3> QED BY <3>1, <3>2
  <2> QED BY <1>0, <2>1, ItemExists DEF SendInv
<1>7. ASSUME rcpt'[r] \in {"PENDING", "ELIGIBLE", "SENDING"}, item'[r].status # "NONE"
      PROVE  item'[r].status \in Pending \/ \E w \in Workers : proc'[w].cur = r /\ proc'[w].pc = "verdict"
  <2>0. rcpt'[r] \notin Verdicts
    BY <1>7 DEF Verdicts
  <2>1. CASE item[r].status = "NONE"
    <3>1. item'[r].status = "WAITING"
      BY <1>0, <1>7, <2>1, ItemExists DEF SendInv
    <3> QED BY <3>1 DEF Pending
  <2>2. CASE item[r].status # "NONE"
    <3>1. item[r].status \in Pending \/ \E w \in Workers : proc[w].cur = r /\ proc[w].pc = "verdict"
      <4>1. CASE rcpt[r] \in {"PENDING", "ELIGIBLE", "SENDING"}
        BY <1>1, <2>2, <4>1 DEF OnItsWay
      <4>2. CASE rcpt[r] = "NONE"
        BY <2>2, <4>2 DEF LaunchOK
      <4>3. CASE rcpt[r] \notin {"PENDING", "ELIGIBLE", "SENDING", "NONE"}
        <5>1. PICK w \in Workers : proc[w].cur = r /\ BeginSending(w)
          BY <1>2, <1>7, <2>0, <4>3 DEF RcptWritten
        <5>2. r \in Holding(w) /\ proc[w].pc # "verdict"
          BY <1>0, <5>1, HoldingShape DEF BeginSending, SendPcs
        <5> QED BY <1>3, <5>2 DEF Pending
      <4> QED BY <4>1, <4>2, <4>3
    <3>2. ASSUME NEW w \in Workers, proc[w].cur = r, proc[w].pc = "verdict"
          PROVE  proc'[w].cur = r /\ proc'[w].pc = "verdict"
      BY <1>0, <1>7, <3>2, VerdictStays
    <3>3. CASE item[r].status \in Pending
      BY <1>2, <2>0, <2>2, <3>3 DEF ItemWritten, Pending
    <3> QED BY <3>1, <3>2, <3>3
  <2> QED BY <2>1, <2>2
<1>8. ASSUME NEW w \in Workers, r \in Holding(w)'
      PROVE  item'[r].status = "PROCESSING" \/ (proc'[w].cur = r /\ proc'[w].pc = "verdict")
  <2>1. ASSUME NEW batch \in SUBSET Recipients, ClaimBatch(w, batch) PROVE item'[r].status = "PROCESSING"
    <3>1. proc'[w] = [Idle EXCEPT !.pc = IF Stale = {} THEN "item" ELSE "recover",
                            !.todo = batch, !.stale = Stale,
                            !.att = [s \in Recipients |->
                                       IF s \in batch THEN item[s].attempts + 1 ELSE 0]]
      BY <1>0, <2>1 DEF ClaimBatch, Become
    <3>2. proc'[w].todo = batch /\ proc'[w].cur = None
      BY <3>1 DEF Idle
    <3>3. r \in batch
      BY <1>8, <3>2 DEF Holding
    <3> QED BY <2>1, <3>3 DEF ClaimBatch
  <2>2. CASE r \in Holding(w)
    <3>1. CASE proc[w].cur = r /\ proc[w].pc = "verdict"
      BY <1>0, <1>8, <3>1, VerdictHeld
    <3>2. CASE ~(proc[w].cur = r /\ proc[w].pc = "verdict")
      <4>1. item[r].status = "PROCESSING"
        BY <1>1, <2>2, <3>2 DEF OnItsWay
      <4>2. ASSUME NEW v \in Workers, proc[v].pc \in SendPcs, proc[v].cur = r PROVE v = w
        BY <1>0, <2>2, <4>2, InHandAlone
      <4>3. ASSUME NEW v \in Workers, proc[v].pc = "failing", proc[v].cur = r,
                   proc'[v].pc = "verdict", proc'[v].cur = r
            PROVE  proc'[w].cur = r /\ proc'[w].pc = "verdict"
        BY <4>2, <4>3 DEF SendPcs
      <4> QED BY <1>2, <1>8, <2>2, <4>1, <4>2, <4>3 DEF ItemWritten
    <3> QED BY <3>1, <3>2
  <2> QED BY <1>0, <1>8, <2>1, <2>2, HoldingStep
<1> QED BY <1>4, <1>5, <1>6, <1>7, <1>8 DEF OnItsWay, Loading, Enqueueing, Holding

(* Every step keeps a completed campaign drained. *)
LEMMA CompletedStep ==
    ASSUME SendInv, QueuedOK, LaunchOK, OverOK, OnItsWayOK, CompletedOK, [Next]_vars
    PROVE  CompletedOK'
<1> SUFFICES ASSUME NEW r \in Recipients \ suspect',
                    camp'[CampaignOf[r]] = "COMPLETED", CampaignOf[r] \notin raced'
             PROVE  /\ \E s \in RecipientsOf(CampaignOf[r]) : item'[s].status # "NONE"
                    /\ item'[r].status \notin Pending
  BY DEF CompletedOK, RecipientsOf, Pending
<1> DEFINE c == CampaignOf[r]
<1>0. /\ TypeOK /\ ShapeOK /\ r \notin suspect /\ c \in Campaigns
      /\ ~Over(c)' /\ ~Over(c)
  <2>1. ~Over(c)'
    BY DEF Over
  <2> QED BY <2>1, SuspectGrows, OverStable, ConstantsAssumption DEF SendInv
<1>1. CASE camp[c] = "COMPLETED"
  <2>1. c \notin raced
    BY <1>0 DEF Over
  <2>2. PICK s \in Recipients : CampaignOf[s] = c /\ item[s].status # "NONE"
    BY <1>0, <1>1, <2>1 DEF CompletedOK, RecipientsOf
  <2>3. item'[s].status # "NONE"
    BY <1>0, <2>2, ItemExists DEF SendInv
  <2>4. item[r].status \notin Pending
    BY <1>0, <1>1, <2>1 DEF CompletedOK
  <2>5. OnItsWay(r)
    BY <1>0 DEF OnItsWayOK
  <2>6. ItemWritten(r)
    BY <1>0, WhoWrites
  <2>7. ASSUME item[r].status = "NONE" PROVE item'[r].status # "WAITING"
    <3>1. SUFFICES ASSUME item'[r].status = "WAITING" PROVE FALSE
      OBVIOUS
    <3>2. PICK p \in Procs : EnqueueItems(p) /\ r \in proc[p].todo
      BY <1>0, <2>7, <3>1, ItemExists
    <3>3. proc[p].pc = "enqueue" /\ proc[p].camp = c
      BY <1>0, <3>2, InHand DEF EnqueueItems, Shape, RecipientsOf
    <3> QED BY <1>0, <2>2, <3>2, <3>3 DEF LaunchOK, RecipientsOf
  <2>8. ASSUME NEW w \in Workers, NEW batch \in SUBSET Recipients, ClaimBatch(w, batch) PROVE r \notin batch
    BY <1>1, <2>8 DEF ClaimBatch, Claimable
  <2>9. ASSUME NEW w \in Workers, proc[w].pc \in SendPcs, proc[w].cur = r PROVE proc[w].pc = "verdict"
    <3>1. r \in Holding(w)
      BY <1>0, <2>9, HoldingShape
    <3> QED BY <2>4, <2>5, <3>1 DEF OnItsWay, Pending
  <2>10. ASSUME NEW w \in Workers, proc[w].pc = "failing", proc[w].cur = r PROVE FALSE
    BY <2>9, <2>10 DEF SendPcs
  <2>11. item'[r].status \notin Pending
    BY <2>4, <2>6, <2>7, <2>8, <2>9, <2>10 DEF ItemWritten, Pending
  <2> QED BY <2>2, <2>3, <2>11 DEF RecipientsOf
<1>2. CASE camp[c] # "COMPLETED"
  <2>1. ASSUME NEW k \in Clients, RequestLaunch(k) \/ CommitRequest(k) PROVE FALSE
    <3>1. PICK status : /\ camp' = [camp EXCEPT ![proc[k].camp] = status]
                        /\ status \in {"QUEUED", "SCHEDULED", "PAUSED", "RUNNING", "CANCELLED", "ARCHIVED"}
      <4>1. CASE RequestLaunch(k)
        BY <4>1 DEF RequestLaunch, SetStatus
      <4>2. CASE CommitRequest(k)
        <5>1. proc[k].op \in {"pause", "resume", "cancel", "archive"}
          BY <1>0, <4>2, InHand DEF CommitRequest, Shape, OperatorRequests, Procs
        <5>2. Requested(proc[k].op) \in {"PAUSED", "RUNNING", "CANCELLED", "ARCHIVED"}
          BY <5>1 DEF Requested
        <5> QED BY <4>2, <5>2 DEF CommitRequest, SetStatus
      <4> QED BY <2>1, <4>1, <4>2
    <3> QED BY <1>0, <1>2, <3>1 DEF TypeOK
  <2>2. ASSUME NEW p \in Procs, StartRunning(p) PROVE FALSE
    BY <1>0, <1>2, <2>2 DEF StartRunning, SetStatus, TypeOK
  <2>3. ASSUME NEW p \in Procs, NEW leads \in SUBSET Recipients, LaunchFails(p, leads) PROVE FALSE
    BY <1>0, <1>2, <2>3 DEF LaunchFails, SetStatus, TypeOK
  <2>4. ASSUME NEW w \in Workers, PromoteDue(w) PROVE FALSE
    BY <1>0, <1>2, <2>4 DEF PromoteDue
  <2>5. PICK w \in Workers, d \in Campaigns : CompleteFinished(w, d)
    BY <1>2, <2>1, <2>2, <2>3, <2>4, StatusChanges
  <2>6. d = c /\ Drained(c) /\ UNCHANGED item
    BY <1>0, <1>2, <2>5 DEF CompleteFinished, SetStatus, TypeOK
  <2> QED BY <2>6 DEF Drained, RecipientsOf
<1> QED BY <1>1, <1>2

(* What holds in every state about sending, the launch and the end of a campaign. *)
DeliveryInv ==
    /\ SendInv /\ QueuedOK
    /\ LaunchOK /\ OverOK
    /\ OnItsWayOK /\ CompletedOK

LEMMA DeliveryInvariant == Spec => []DeliveryInv
<1>1. Init => DeliveryInv
  <2> SUFFICES ASSUME Init PROVE DeliveryInv
    OBVIOUS
  <2>1. SendInv
    BY SendInit
  <2>2. \A p \in Procs : proc[p].pc = "idle" /\ proc[p].todo = {} /\ proc[p].stale = {} /\ proc[p].cur = None
    BY DEF Init, Idle
  <2>3. \A r \in Recipients : rcpt[r] = "NONE" /\ item[r].status = "NONE" /\ camp[CampaignOf[r]] = "DRAFT"
    BY ConstantsAssumption DEF Init, NoItem
  <2>4. \A w \in Workers : Holding(w) = {} /\ w \in Procs
    BY <2>2 DEF Holding, Procs
  <2>5. QueuedOK
    BY <2>2, <2>4 DEF QueuedOK
  <2>6. LaunchOK /\ OverOK
    BY <2>2, <2>3, <2>4 DEF LaunchOK, OverOK
  <2>7. OnItsWayOK
    BY <2>3, <2>4 DEF OnItsWayOK, OnItsWay
  <2>8. CompletedOK
    BY <2>3 DEF CompletedOK
  <2> QED BY <2>1, <2>5, <2>6, <2>7, <2>8 DEF DeliveryInv
<1>2. DeliveryInv /\ [Next]_vars => DeliveryInv'
  <2> SUFFICES ASSUME DeliveryInv, [Next]_vars PROVE DeliveryInv'
    OBVIOUS
  <2>1. SendInv'
    BY TypeStep, HeldStep, SentStep DEF DeliveryInv, SendInv
  <2>2. QueuedOK' /\ LaunchOK' /\ OverOK'
    BY QueuedStep, LaunchKeeps, OverStep DEF DeliveryInv, SendInv
  <2>3. OnItsWayOK' /\ CompletedOK'
    BY OnItsWayStep, CompletedStep DEF DeliveryInv
  <2> QED BY <2>1, <2>2, <2>3 DEF DeliveryInv
<1> QED BY <1>1, <1>2, PTL DEF Spec

(* Pausing, releasing and retrying lose nobody: in a campaign that is RUNNING or   *)
(* PAUSED, whoever has no verdict has an item that will be claimed, a launch      *)
(* that still has to queue it, or a worker about to write the verdict.          *)
THEOREM UndecidedIsQueuedHolds == Spec => []UndecidedIsQueued
<1>1. DeliveryInv => UndecidedIsQueued
  <2> SUFFICES ASSUME DeliveryInv, NEW r \in Recipients \ suspect,
                      camp[CampaignOf[r]] \in {"RUNNING", "PAUSED"}, CampaignOf[r] \notin raced,
                      rcpt[r] \in {"PENDING", "ELIGIBLE", "SENDING"}
               PROVE  \/ item[r].status \in Pending
                      \/ \E w \in Workers : proc[w].cur = r /\ proc[w].pc = "verdict"
                      \/ \E p \in Procs : /\ proc[p].camp = CampaignOf[r]
                                          /\ proc[p].pc \in {"pending", "mark", "enqueue"}
    BY DEF UndecidedIsQueued
  <2>1. OnItsWay(r)
    BY DEF DeliveryInv, OnItsWayOK, Over
  <2> QED BY <2>1 DEF OnItsWay, Loading, Enqueueing
<1> QED BY <1>1, DeliveryInvariant, PTL

(* In a completed campaign everybody has a verdict, or a worker about to write it. *)
THEOREM CompletedHasVerdictsHolds == Spec => []CompletedHasVerdicts
<1>1. DeliveryInv => CompletedHasVerdicts
  <2> SUFFICES ASSUME DeliveryInv, NEW r \in Recipients \ suspect,
                      camp[CampaignOf[r]] = "COMPLETED", CampaignOf[r] \notin raced,
                      rcpt[r] \notin Verdicts \cup {"NONE"}
               PROVE  \E w \in Workers : proc[w].cur = r /\ proc[w].pc = "verdict"
    BY DEF CompletedHasVerdicts
  <2>1. OnItsWay(r)
    BY DEF DeliveryInv, OnItsWayOK, Over
  <2>2. rcpt[r] \in {"PENDING", "ELIGIBLE", "SENDING"}
    BY DEF DeliveryInv, SendInv, TypeOK, RecipientStatus, Verdicts
  <2>3. PICK s \in Recipients : CampaignOf[s] = CampaignOf[r] /\ item[s].status # "NONE"
    BY DEF DeliveryInv, CompletedOK, RecipientsOf
  <2>4. item[r].status \notin Pending
    BY DEF DeliveryInv, CompletedOK
  <2>5. rcpt[r] # "PENDING"
    BY <2>3 DEF DeliveryInv, LaunchOK
  <2>6. ASSUME NEW p \in Procs, Enqueueing(p, r) PROVE FALSE
    BY <2>3, <2>6 DEF Enqueueing, DeliveryInv, LaunchOK, RecipientsOf
  <2> QED BY <2>1, <2>2, <2>4, <2>5, <2>6 DEF OnItsWay
<1> QED BY <1>1, DeliveryInvariant, PTL

----------------------------------------------------------------------------
(* Refinement of RecipientFate. *)

(* The recipient has a queue item that will be sent, or is about to get one, or a  *)
(* worker has it in hand.                                                     *)
OnTheQueue(r) ==
    \/ item[r].status \in Pending
    \/ \E w \in Workers : r \in Holding(w)
    \/ \E p \in Procs : proc[p].pc = "enqueue" /\ r \in proc[p].todo

(* Only an Open recipient is on the queue, also when its campaign was cancelled;    *)
(* its item has failed for good when its verdict is due.                         *)
QueueOpenOK ==
    \A r \in Recipients \ suspect :
        /\ OnTheQueue(r) => rcpt[r] \in Fate!Open
        /\ \A w \in Workers : proc[w].cur = r /\ proc[w].pc = "verdict" => item[r].status = "FAILED"

(* The row says SENDING while the provider is asked and until its answer is          *)
(* recorded, and SENT of those whose message is recorded.                          *)
SendingOK ==
    \A r \in Recipients \ suspect :
        /\ \A w \in Workers : proc[w].cur = r /\ proc[w].pc \in {"sending", "accepted"}
               => rcpt[r] = "SENDING"
        /\ \A w \in Workers : proc[w].cur = r /\ proc[w].pc = "accepted" => sent[r] > 0
        /\ rcpt[r] = "SENT" => sent[r] > 0
        /\ sent[r] > 0 => \/ rcpt[r] = "SENT"
                          \/ \E w \in Workers : proc[w].cur = r /\ proc[w].pc = "accepted"

FateInv == DeliveryInv /\ QueueOpenOK /\ SendingOK

(* What a step may do to the status of a recipient, ... *)
StatusMoves(r) ==
    \/ rcpt'[r] = rcpt[r]
    \/ rcpt[r] = "NONE" /\ rcpt'[r] = "PENDING"
    \/ rcpt[r] = "PENDING" /\ rcpt'[r] \in {"ELIGIBLE", "INELIGIBLE"}
    \/ rcpt[r] \in {"PENDING", "ELIGIBLE"} /\ rcpt'[r] = "CANCELLED"
    \/ \E w \in Workers :
          /\ proc[w].cur = r
          /\ \/ BeginSending(w) /\ rcpt'[r] = "SENDING"
             \/ SkipRecipient(w) /\ rcpt'[r] = "SKIPPED"
             \/ RecordSent(w) /\ rcpt'[r] = "SENT"
             \/ FailRecipient(w) /\ rcpt'[r] = "FAILED"

(* ... and to its messages. *)
MessageMoves(r) ==
    \/ sent'[r] = sent[r]
    \/ \E w \in Workers : /\ proc[w].cur = r /\ ProviderSend(w, "ok")
                          /\ proc'[w].cur = r /\ proc'[w].pc = "accepted"
                          /\ rcpt'[r] = rcpt[r] /\ sent'[r] = sent[r] + 1

(* A step does no more to a recipient that it leaves unsuspected. *)
LEMMA FateMoves ==
    ASSUME SendInv, [Next]_vars, NEW r \in Recipients \ suspect'
    PROVE  StatusMoves(r) /\ MessageMoves(r)
<1>0. /\ TypeOK /\ ShapeOK /\ r \notin suspect
      /\ proc \in [Procs -> ProcStates] /\ Workers \subseteq Procs
      /\ rcpt \in [Recipients -> RecipientStatus \cup {"NONE"}] /\ sent \in [Recipients -> Nat]
  BY SuspectGrows DEF SendInv, TypeOK, Procs
<1>1. StatusMoves(r)
  <2>1. ASSUME NEW k \in Clients, CancelRecipients(k) PROVE StatusMoves(r)
    <3>1. rcpt'[r] = rcpt[r] \/ (rcpt[r] \in {"PENDING", "ELIGIBLE"} /\ rcpt'[r] = "CANCELLED")
      BY <2>1 DEF CancelRecipients
    <3> QED BY <3>1 DEF StatusMoves
  <2>2. ASSUME NEW p \in Procs, NEW leads \in SUBSET Recipients, Snapshot(p, leads) \/ LaunchFails(p, leads)
        PROVE  StatusMoves(r)
    <3>1. rcpt'[r] = rcpt[r] \/ (~Snapshotted(proc[p].camp) /\ r \in leads /\ rcpt'[r] = "PENDING")
      BY <2>2 DEF Snapshot, LaunchFails
    <3>2. leads \subseteq RecipientsOf(proc[p].camp)
      BY <2>2 DEF Snapshot, LaunchFails
    <3>3. rcpt'[r] = rcpt[r] \/ (rcpt[r] = "NONE" /\ rcpt'[r] = "PENDING")
      BY <3>1, <3>2 DEF Snapshotted
    <3> QED BY <3>3 DEF StatusMoves
  <2>3. ASSUME NEW p \in Procs, NEW eligible \in SUBSET proc[p].todo, MarkEligibility(p, eligible)
        PROVE  StatusMoves(r)
    <3>1. r \in proc[p].todo => rcpt[r] = "PENDING"
      BY <2>3 DEF MarkEligibility
    <3>2. CASE r \in eligible
      <4>1. rcpt'[r] = "ELIGIBLE"
        BY <2>3, <3>2 DEF MarkEligibility
      <4> QED BY <3>1, <3>2, <4>1 DEF StatusMoves
    <3>3. CASE r \in proc[p].todo \ eligible
      <4>1. rcpt'[r] = "INELIGIBLE"
        BY <2>3, <3>3 DEF MarkEligibility
      <4> QED BY <3>1, <3>3, <4>1 DEF StatusMoves
    <3>4. CASE r \notin proc[p].todo
      <4>1. rcpt'[r] = rcpt[r]
        BY <2>3, <3>4 DEF MarkEligibility
      <4> QED BY <4>1 DEF StatusMoves
    <3> QED BY <3>2, <3>3, <3>4
  <2>4. ASSUME NEW w \in Workers,
               SkipRecipient(w) \/ BeginSending(w) \/ RecordSent(w) \/ FailRecipient(w)
        PROVE  StatusMoves(r)
    <3>1. CASE proc[w].cur # r
      <4>1. rcpt'[r] = rcpt[r]
        BY <1>0, <2>4, <3>1 DEF SkipRecipient, BeginSending, RecordSent, FailRecipient
      <4> QED BY <4>1 DEF StatusMoves
    <3>2. CASE proc[w].cur = r
      <4>1. \/ BeginSending(w) /\ rcpt'[r] = "SENDING"
            \/ SkipRecipient(w) /\ rcpt'[r] = "SKIPPED"
            \/ RecordSent(w) /\ rcpt'[r] = "SENT"
            \/ FailRecipient(w) /\ rcpt'[r] = "FAILED"
        BY <1>0, <2>4, <3>2 DEF SkipRecipient, BeginSending, RecordSent, FailRecipient
      <4> QED BY <3>2, <4>1 DEF StatusMoves
    <3> QED BY <3>1, <3>2
  <2>5. rcpt' = rcpt => StatusMoves(r)
    BY DEF StatusMoves
  <2> QED BY <2>1, <2>2, <2>3, <2>4, <2>5, RcptChanges
<1>2. MessageMoves(r)
  <2>1. ASSUME NEW w \in Workers, NEW answer, ProviderSend(w, answer) PROVE MessageMoves(r)
    <3>1. CASE proc[w].cur # r
      <4>1. sent'[r] = sent[r]
        BY <1>0, <2>1, <3>1 DEF ProviderSend
      <4> QED BY <4>1 DEF MessageMoves
    <3>2. CASE proc[w].cur = r /\ answer = "ok"
      <4>1. proc'[w] = [proc[w] EXCEPT !.pc = "accepted"] /\ proc[w] \in ProcStates
        BY <1>0, <2>1, <3>2 DEF ProviderSend, Goto, Become
      <4>2. proc'[w].cur = r /\ proc'[w].pc = "accepted"
        BY <3>2, <4>1 DEF ProcStates
      <4>3. rcpt'[r] = rcpt[r] /\ sent'[r] = sent[r] + 1
        BY <1>0, <2>1, <3>2 DEF ProviderSend
      <4> QED BY <2>1, <3>2, <4>2, <4>3 DEF MessageMoves
    <3>3. CASE proc[w].cur = r /\ answer # "ok"
      <4>1. sent'[r] = sent[r]
        BY <2>1, <3>3 DEF ProviderSend
      <4> QED BY <4>1 DEF MessageMoves
    <3> QED BY <3>1, <3>2, <3>3
  <2>2. sent' = sent => MessageMoves(r)
    BY DEF MessageMoves
  <2> QED BY <2>1, <2>2, SentChanges
<1> QED BY <1>1, <1>2

(* A worker whose message is not accepted yet has a recipient who got none. *)
LEMMA NothingSentYet ==
    ASSUME SendInv, NEW r \in Recipients \ suspect, NEW w \in Workers, proc[w].cur = r,
           proc[w].pc \in SendPcs \ {"accepted"}
    PROVE  sent[r] = 0
<1>1. r \in Holding(w) /\ \A v \in Workers : r \in Holding(v) => v = w
  BY InHandAlone
<1>2. HeldItem(w, r)
  BY <1>1 DEF SendInv, HeldItems
<1>3. ASSUME NEW v \in Workers, proc[v].cur = r, proc[v].pc = "accepted" PROVE FALSE
  <2>1. r \in Holding(v)
    BY <1>3, InHandAlone DEF SendPcs
  <2> QED BY <1>1, <1>3, <2>1
<1> QED BY <1>2, <1>3 DEF HeldItem, SendInv, SentRecorded, TypeOK

(* A recipient on the queue after a step was on it before, or was just marked     *)
(* ELIGIBLE by the launch that will queue it.                                  *)
LEMMA ComesOnTheQueue ==
    ASSUME SendInv, [Next]_vars, NEW r \in Recipients \ suspect', OnTheQueue(r)'
    PROVE  OnTheQueue(r) \/ rcpt'[r] = "ELIGIBLE"
<1>0. /\ TypeOK /\ ShapeOK /\ r \notin suspect /\ item \in [Recipients -> Items]
      /\ proc \in [Procs -> ProcStates] /\ Workers \subseteq Procs
  BY SuspectGrows DEF SendInv, TypeOK, Procs
<1>1. ASSUME item'[r].status \in Pending PROVE OnTheQueue(r)
  <2>1. ASSUME NEW k \in Clients, CancelPending(k) PROVE item[r].status \in Pending
    BY <1>0, <1>1, <2>1 DEF CancelPending, Pending, Items
  <2>2. ASSUME NEW p \in Procs, EnqueueItems(p) PROVE OnTheQueue(r)
    BY <1>1, <2>2 DEF EnqueueItems, OnTheQueue
  <2>3. ASSUME NEW w \in Workers, NEW batch \in SUBSET Recipients, ClaimBatch(w, batch)
        PROVE  item[r].status \in Pending
    BY <1>1, <2>3 DEF ClaimBatch, Claimable, Pending
  <2>4. ASSUME NEW w \in Workers, RecoverStale(w) PROVE item[r].status \in Pending
    BY <1>0, <1>1, <2>4 DEF RecoverStale, Stale, Pending
  <2>5. ASSUME NEW w \in Workers, ReleaseItem(w) \/ DropItem(w) \/ SkipRecipient(w)
                                  \/ RecordSent(w) \/ ItemRaises(w) \/ FailItem(w)
        PROVE  OnTheQueue(r)
    <3>1. proc[w].pc \in SendPcs
      BY <2>5 DEF ReleaseItem, DropItem, SkipRecipient, RecordSent, ItemRaises, FailItem, SendPcs
    <3>2. CASE proc[w].cur = r
      BY <1>0, <3>1, <3>2, HoldingShape DEF OnTheQueue
    <3>3. CASE proc[w].cur # r
      <4>1. item'[r] = item[r]
        BY <1>0, <2>5, <3>3
           DEF ReleaseItem, DropItem, SkipRecipient, RecordSent, ItemRaises, FailItem, SetItem
      <4> QED BY <1>1, <4>1 DEF OnTheQueue
    <3> QED BY <3>2, <3>3
  <2>6. ASSUME NEW s \in Recipients, LeaseRunsOut(s) PROVE item[r].status \in Pending
    BY <1>0, <1>1, <2>6 DEF LeaseRunsOut, Items
  <2>7. item' = item => item[r].status \in Pending
    BY <1>1
  <2>8. item[r].status \in Pending => OnTheQueue(r)
    BY DEF OnTheQueue
  <2> QED BY <2>1, <2>2, <2>3, <2>4, <2>5, <2>6, <2>7, <2>8, ItemChanges
<1>2. ASSUME NEW w \in Workers, r \in Holding(w)' PROVE OnTheQueue(r)
  <2>1. ASSUME NEW batch \in SUBSET Recipients, ClaimBatch(w, batch) PROVE OnTheQueue(r)
    <3>1. proc'[w] = [Idle EXCEPT !.pc = IF Stale = {} THEN "item" ELSE "recover",
                            !.todo = batch, !.stale = Stale,
                            !.att = [s \in Recipients |->
                                       IF s \in batch THEN item[s].attempts + 1 ELSE 0]]
      BY <1>0, <2>1 DEF ClaimBatch, Become
    <3>2. proc'[w].todo = batch /\ proc'[w].cur = None
      BY <3>1 DEF Idle
    <3>3. r \in batch
      BY <1>2, <3>2 DEF Holding
    <3> QED BY <2>1, <3>3 DEF ClaimBatch, Claimable, OnTheQueue, Pending
  <2>2. r \in Holding(w) => OnTheQueue(r)
    BY DEF OnTheQueue
  <2> QED BY <1>0, <1>2, <2>1, <2>2, HoldingStep
<1>3. ASSUME NEW p \in Procs, proc'[p].pc = "enqueue", r \in proc'[p].todo
      PROVE  OnTheQueue(r) \/ rcpt'[r] = "ELIGIBLE"
  <2>1. CASE proc'[p] = proc[p]
    BY <1>3, <2>1 DEF OnTheQueue
  <2>2. CASE \E eligible \in SUBSET proc[p].todo : MarkEligibility(p, eligible)
    <3>1. PICK eligible \in SUBSET proc[p].todo : MarkEligibility(p, eligible)
      BY <2>2
    <3>2. proc'[p].todo = eligible
      BY <1>0, <3>1 DEF MarkEligibility, Become, ProcStates
    <3> QED BY <1>3, <3>1, <3>2 DEF MarkEligibility
  <2> QED BY <1>0, <1>3, <2>1, <2>2, EntersLaunch
<1> QED BY <1>1, <1>2, <1>3 DEF OnTheQueue, Holding

(* A step writes the verdict of a recipient that nobody has in hand after it. *)
LEMMA VerdictLeavesTheQueue ==
    ASSUME SendInv, QueuedOK, LaunchOK, QueueOpenOK, [Next]_vars, NEW r \in Recipients \ suspect',
           NEW w \in Workers, proc[w].cur = r,
           SkipRecipient(w) \/ RecordSent(w) \/ FailRecipient(w)
    PROVE  ~OnTheQueue(r)'
<1>0. /\ TypeOK /\ ShapeOK /\ r \notin suspect /\ item \in [Recipients -> Items]
      /\ proc \in [Procs -> ProcStates] /\ Workers \subseteq Procs
  BY SuspectGrows DEF SendInv, TypeOK, Procs
<1>1. proc[w].pc \in SendPcs /\ Become(w, Done(w))
  BY DEF SkipRecipient, RecordSent, FailRecipient, SendPcs
<1>2. r \in Holding(w) /\ \A v \in Workers : r \in Holding(v) => v = w
  BY <1>0, <1>1, InHandAlone
<1>3. item'[r].status \notin Pending
  <2>1. CASE SkipRecipient(w) \/ RecordSent(w)
    BY <1>0, <2>1 DEF SkipRecipient, RecordSent, SetItem, Items, Pending
  <2>2. CASE FailRecipient(w)
    BY <1>0, <2>2 DEF FailRecipient, QueueOpenOK, Pending
  <2> QED BY <2>1, <2>2
<1>4. r \notin Holding(w)'
  BY <1>0, <1>1, DoneDrops
<1>5. \A v \in Workers \ {w} : r \notin Holding(v)'
  BY <1>0, <1>1, <1>2, BecomeIs DEF Holding
<1>6. ASSUME NEW p \in Procs, proc'[p].pc = "enqueue", r \in proc'[p].todo PROVE FALSE
  <2>1. proc'[w].pc = "item"
    BY <1>0, <1>1 DEF Become, Done, ProcStates
  <2>2. proc'[p] = proc[p]
    BY <1>0, <1>1, <1>6, <2>1, BecomeIs
  <2>3. r \in RecipientsOf(proc[p].camp)
    BY <1>0, <1>6, <2>2, InHand DEF Shape
  <2>4. item[r].status = "NONE"
    BY <1>0, <1>6, <2>2, <2>3 DEF LaunchOK
  <2> QED BY <1>2, <2>4 DEF QueuedOK
<1> QED BY <1>3, <1>4, <1>5, <1>6 DEF OnTheQueue, Holding

(* Who is on the queue has been judged. *)
LEMMA QueuedIsJudged ==
    ASSUME SendInv, QueuedOK, LaunchOK, NEW r \in Recipients \ suspect, OnTheQueue(r)
    PROVE  rcpt[r] \notin {"NONE", "PENDING"}
<1>0. TypeOK /\ ShapeOK
  BY DEF SendInv
<1>1. CASE item[r].status # "NONE"
  BY <1>1 DEF LaunchOK
<1>2. CASE item[r].status = "NONE"
  <2>1. \A w \in Workers : r \notin Holding(w)
    BY <1>2 DEF QueuedOK
  <2>2. PICK p \in Procs : proc[p].pc = "enqueue" /\ r \in proc[p].todo
    BY <1>2, <2>1 DEF OnTheQueue, Pending
  <2>3. r \in RecipientsOf(proc[p].camp)
    BY <1>0, <2>2, InHand DEF Shape
  <2> QED BY <2>2, <2>3 DEF LaunchOK
<1> QED BY <1>1, <1>2

(* The ways into the last steps of a send. *)
LEMMA EntersVerdict ==
    ASSUME TypeOK, ShapeOK, [Next]_vars, NEW w \in Workers, proc'[w] # proc[w],
           proc'[w].pc \in {"sending", "accepted", "verdict"}
    PROVE  \/ proc'[w].pc = "verdict" /\ FailItem(w)
           \/ proc'[w].pc = "sending" /\ BeginSending(w)
           \/ proc'[w].pc = "accepted" /\ ProviderSend(w, "ok")
<1>0. /\ w \in Procs /\ proc[w] \in ProcStates /\ proc \in [Procs -> ProcStates]
      /\ proc'[w].pc \notin {"item", "recover"}
  BY DEF Procs, TypeOK
<1>1. ~LaunchStep(w) /\ ~Crash(w)
  BY <1>0, LaunchMoves
<1>2. ~CycleStep(w)
  BY <1>0, CycleMoves, ClaimMoves
<1>3. ASSUME NEW r \in Recipients, CheckCampaign(w, r) PROVE FALSE
  BY <1>0, <1>3 DEF CheckCampaign, Become, ProcStates
<1>4. ASSUME NEW finding, PreSend(w, finding) PROVE FALSE
  <2>1. \/ proc'[w] = [proc[w] EXCEPT !.pc = "failing", !.op = "FINAL"]
        \/ proc'[w] = [proc[w] EXCEPT !.pc = "release"]
        \/ proc'[w] = [proc[w] EXCEPT !.pc = "skip"]
        \/ proc'[w] = [proc[w] EXCEPT !.pc = "begin"]
    BY <1>0, <1>4 DEF Become, PreSend, Goto
  <2> QED BY <1>0, <2>1 DEF ProcStates
<1>5. ASSUME NEW answer, ProviderSend(w, answer) PROVE proc'[w].pc = "accepted" /\ ProviderSend(w, "ok")
  <2>1. \/ answer = "ok"
        \/ proc'[w] = [proc[w] EXCEPT !.pc = "failing", !.op = "TRANSIENT"]
        \/ proc'[w] = [proc[w] EXCEPT !.pc = "failing", !.op = "FINAL"]
    BY <1>0, <1>5 DEF Become, ProviderSend
  <2>2. answer = "ok"
    BY <1>0, <2>1 DEF ProcStates
  <2>3. proc'[w] = [proc[w] EXCEPT !.pc = "accepted"]
    BY <1>0, <1>5, <2>2 DEF Become, ProviderSend, Goto
  <2> QED BY <1>0, <1>5, <2>2, <2>3 DEF ProcStates
<1>6. ASSUME ReleaseItem(w) \/ DropItem(w) \/ SkipRecipient(w) \/ RecordSent(w)
             \/ FailRecipient(w) \/ ItemRaises(w)
      PROVE  FALSE
  <2>1. Become(w, Done(w))
    BY <1>6 DEF ReleaseItem, DropItem, SkipRecipient, RecordSent, FailRecipient, ItemRaises
  <2> QED BY <1>0, <2>1 DEF Become, Done, ProcStates
<1>7. ASSUME BeginSending(w) PROVE proc'[w].pc = "sending"
  BY <1>0, <1>7 DEF Become, BeginSending, Goto, ProcStates
<1>8. ASSUME FailItem(w) PROVE proc'[w].pc = "verdict"
  <2>1. proc'[w] = Done(w) \/ proc'[w] = [proc[w] EXCEPT !.pc = "verdict"]
    BY <1>0, <1>8 DEF Become, FailItem
  <2> QED BY <1>0, <2>1 DEF Done, ProcStates
<1> QED BY <1>1, <1>2, <1>3, <1>4, <1>5, <1>6, <1>7, <1>8, WorkerMoves DEF SendStep

(* Every step keeps the queue to Open recipients. *)
LEMMA QueueOpenStep ==
    ASSUME SendInv, QueuedOK, LaunchOK, QueueOpenOK, [Next]_vars
    PROVE  QueueOpenOK'
<1> SUFFICES ASSUME NEW r \in Recipients \ suspect'
             PROVE  /\ OnTheQueue(r)' => rcpt'[r] \in Fate!Open
                    /\ \A w \in Workers : proc'[w].cur = r /\ proc'[w].pc = "verdict"
                           => item'[r].status = "FAILED"
  BY DEF QueueOpenOK, Fate!Open
<1>0. /\ TypeOK /\ ShapeOK /\ r \notin suspect /\ item \in [Recipients -> Items]
      /\ proc \in [Procs -> ProcStates] /\ Workers \subseteq Procs
  BY SuspectGrows DEF SendInv, TypeOK, Procs
<1>1. ASSUME OnTheQueue(r)' PROVE rcpt'[r] \in Fate!Open
  <2>1. CASE rcpt'[r] = "ELIGIBLE"
    BY <2>1 DEF Fate!Open
  <2>2. CASE rcpt'[r] # "ELIGIBLE"
    <3>1. OnTheQueue(r)
      BY <1>1, <2>2, ComesOnTheQueue
    <3>2. rcpt[r] \in Fate!Open /\ rcpt[r] \notin {"NONE", "PENDING"}
      BY <1>0, <3>1, QueuedIsJudged DEF QueueOpenOK
    <3>3. ASSUME NEW w \in Workers, proc[w].cur = r,
                 SkipRecipient(w) \/ RecordSent(w) \/ FailRecipient(w)
          PROVE  FALSE
      BY <1>1, <3>3, VerdictLeavesTheQueue
    <3>4. StatusMoves(r)
      BY FateMoves
    <3>5. rcpt'[r] \in {rcpt[r], "CANCELLED", "SENDING"}
      BY <3>2, <3>3, <3>4 DEF StatusMoves
    <3> QED BY <3>2, <3>5 DEF Fate!Open
  <2> QED BY <2>1, <2>2
<1>2. ASSUME NEW w \in Workers, proc'[w].cur = r, proc'[w].pc = "verdict"
      PROVE  item'[r].status = "FAILED"
  <2>1. CASE proc'[w] = proc[w]
    <3>1. proc[w].pc = "verdict" /\ proc[w].cur = r /\ item[r].status = "FAILED"
      BY <1>0, <1>2, <2>1 DEF QueueOpenOK
    <3>2. r \in Holding(w) /\ r \in Holding(w)'
      BY <1>0, <1>2, <2>1, <3>1, InHandAlone DEF SendPcs, Holding
    <3>3. item'[r].status \in {"FAILED", "CANCELLED"}
      BY <3>1, <3>2, HeldItemStep DEF SendInv
    <3>4. item'[r].status # "CANCELLED"
      <4>1. ASSUME NEW k \in Clients, CancelPending(k) PROVE item'[r].status = "FAILED"
        BY <3>1, <4>1 DEF CancelPending, Pending
      <4>2. ASSUME NEW p \in Procs, EnqueueItems(p) PROVE item'[r].status = "FAILED"
        BY <3>1, <4>2 DEF EnqueueItems
      <4>3. ASSUME NEW v \in Workers, NEW batch \in SUBSET Recipients, ClaimBatch(v, batch)
            PROVE  item'[r].status = "FAILED"
        BY <3>1, <4>3 DEF ClaimBatch, Claimable
      <4>4. ASSUME NEW v \in Workers, RecoverStale(v) PROVE item'[r].status = "FAILED"
        BY <3>1, <4>4 DEF RecoverStale, Stale
      <4>5. ASSUME NEW v \in Workers, ReleaseItem(v) \/ DropItem(v) \/ SkipRecipient(v)
                                      \/ RecordSent(v) \/ ItemRaises(v) \/ FailItem(v)
            PROVE  item'[r].status = "FAILED"
        <5>1. proc[v].pc \in SendPcs \ {"verdict"}
          BY <4>5 DEF ReleaseItem, DropItem, SkipRecipient, RecordSent, ItemRaises, FailItem, SendPcs
        <5>2. proc[v].cur # r
          BY <1>0, <3>1, <3>2, <5>1, InHandAlone
        <5> QED BY <1>0, <3>1, <4>5, <5>2
                DEF ReleaseItem, DropItem, SkipRecipient, RecordSent, ItemRaises, FailItem, SetItem
      <4>6. ASSUME NEW s \in Recipients, LeaseRunsOut(s) PROVE item'[r].status = "FAILED"
        BY <1>0, <3>1, <4>6 DEF LeaseRunsOut, Items
      <4> QED BY <3>1, <4>1, <4>2, <4>3, <4>4, <4>5, <4>6, ItemChanges
    <3> QED BY <3>3, <3>4
  <2>2. CASE proc'[w] # proc[w]
    <3>1. FailItem(w)
      BY <1>0, <1>2, <2>2, EntersVerdict
    <3>2. ~Become(w, Done(w))
      BY <1>0, <1>2 DEF Become, Done, ProcStates
    <3>3. item' = SetItem(proc[w].cur, "FAILED") /\ proc'[w] = [proc[w] EXCEPT !.pc = "verdict"]
      BY <1>0, <3>1, <3>2 DEF FailItem, Become
    <3>4. proc[w].cur = r
      BY <1>0, <1>2, <3>3 DEF ProcStates
    <3> QED BY <1>0, <3>3, <3>4 DEF SetItem, Items
  <2> QED BY <2>1, <2>2
<1> QED BY <1>1, <1>2

(* Whoever the provider has accepted nothing for, by what the row says. *)
LEMMA NothingSentTo ==
    ASSUME SendInv, SendingOK, NEW r \in Recipients \ suspect, rcpt[r] \notin {"SENDING", "SENT"}
    PROVE  sent[r] = 0
BY DEF SendingOK, SendInv, TypeOK

(* Every step keeps the row and the messages of a recipient in line. *)
LEMMA SendingStep ==
    ASSUME SendInv, QueuedOK, LaunchOK, QueueOpenOK, SendingOK, [Next]_vars
    PROVE  SendingOK'
<1> SUFFICES ASSUME NEW r \in Recipients \ suspect'
             PROVE  /\ \A w \in Workers : proc'[w].cur = r /\ proc'[w].pc \in {"sending", "accepted"}
                           => rcpt'[r] = "SENDING"
                    /\ \A w \in Workers : proc'[w].cur = r /\ proc'[w].pc = "accepted" => sent'[r] > 0
                    /\ rcpt'[r] = "SENT" => sent'[r] > 0
                    /\ sent'[r] > 0 => \/ rcpt'[r] = "SENT"
                                       \/ \E w \in Workers : proc'[w].cur = r /\ proc'[w].pc = "accepted"
  BY DEF SendingOK
<1>0. /\ TypeOK /\ ShapeOK /\ r \notin suspect
      /\ proc \in [Procs -> ProcStates] /\ Workers \subseteq Procs
      /\ rcpt \in [Recipients -> RecipientStatus \cup {"NONE"}] /\ sent \in [Recipients -> Nat]
      /\ sent[r] \in Nat
  BY SuspectGrows DEF SendInv, TypeOK, Procs
<1>1. StatusMoves(r) /\ MessageMoves(r)
  BY FateMoves
<1>2. sent[r] > 0 => sent'[r] > 0
  BY <1>0, <1>1 DEF MessageMoves
<1>3. rcpt[r] = "SENT" => rcpt'[r] = "SENT"
  <2>1. ASSUME NEW w \in Workers, proc[w].cur = r,
               BeginSending(w) \/ SkipRecipient(w) \/ RecordSent(w) \/ FailRecipient(w)
        PROVE  rcpt[r] \in Fate!Open
    <3>1. proc[w].pc \in SendPcs
      BY <2>1 DEF BeginSending, SkipRecipient, RecordSent, FailRecipient, SendPcs
    <3>2. OnTheQueue(r)
      BY <1>0, <2>1, <3>1, InHandAlone DEF OnTheQueue
    <3> QED BY <1>0, <3>2 DEF QueueOpenOK
  <2> QED BY <1>1, <2>1 DEF StatusMoves, Fate!Open
<1>4. ASSUME NEW w \in Workers, proc'[w].cur = r, proc'[w].pc \in {"sending", "accepted"}
      PROVE  rcpt'[r] = "SENDING"
  <2>1. CASE proc'[w] = proc[w]
    <3>1. proc[w].pc \in {"sending", "accepted"} /\ proc[w].cur = r /\ rcpt[r] = "SENDING"
      BY <1>0, <1>4, <2>1 DEF SendingOK
    <3>2. \A v \in Workers : r \in Holding(v) => v = w
      BY <1>0, <3>1, InHandAlone DEF SendPcs
    <3>3. ASSUME NEW v \in Workers, proc[v].cur = r,
                 SkipRecipient(v) \/ RecordSent(v) \/ FailRecipient(v)
          PROVE  FALSE
      <4>1. proc[v].pc \in SendPcs /\ Become(v, Done(v))
        BY <3>3 DEF SkipRecipient, RecordSent, FailRecipient, SendPcs
      <4>2. v = w
        BY <1>0, <3>2, <3>3, <4>1, InHandAlone
      <4>3. proc'[w].pc = "item"
        BY <1>0, <4>1, <4>2 DEF Become, Done, ProcStates
      <4> QED BY <1>4, <4>3
    <3> QED BY <1>1, <3>1, <3>3 DEF StatusMoves
  <2>2. CASE proc'[w] # proc[w]
    <3>1. BeginSending(w) \/ ProviderSend(w, "ok")
      BY <1>0, <1>4, <2>2, EntersVerdict
    <3>2. CASE BeginSending(w)
      <4>1. proc'[w] = [proc[w] EXCEPT !.pc = "sending"]
        BY <1>0, <3>2 DEF BeginSending, Goto, Become
      <4>2. proc[w].cur = r
        BY <1>0, <1>4, <4>1 DEF ProcStates
      <4> QED BY <1>0, <3>2, <4>2 DEF BeginSending
    <3>3. CASE ProviderSend(w, "ok")
      <4>1. proc'[w] = [proc[w] EXCEPT !.pc = "accepted"] /\ proc[w].pc = "sending" /\ rcpt' = rcpt
        BY <1>0, <3>3 DEF ProviderSend, Goto, Become
      <4>2. proc[w].cur = r
        BY <1>0, <1>4, <4>1 DEF ProcStates
      <4> QED BY <1>0, <4>1, <4>2 DEF SendingOK
    <3> QED BY <3>1, <3>2, <3>3
  <2> QED BY <2>1, <2>2
<1>5. ASSUME NEW w \in Workers, proc'[w].cur = r, proc'[w].pc = "accepted" PROVE sent'[r] > 0
  <2>1. CASE proc'[w] = proc[w]
    BY <1>0, <1>2, <1>5, <2>1 DEF SendingOK
  <2>2. CASE proc'[w] # proc[w]
    <3>1. ProviderSend(w, "ok")
      BY <1>0, <1>5, <2>2, EntersVerdict
    <3>2. proc'[w] = [proc[w] EXCEPT !.pc = "accepted"]
      BY <1>0, <3>1 DEF ProviderSend, Goto, Become
    <3>3. proc[w].cur = r
      BY <1>0, <1>5, <3>2 DEF ProcStates
    <3> QED BY <1>0, <3>1, <3>3 DEF ProviderSend
  <2> QED BY <2>1, <2>2
<1>6. ASSUME rcpt'[r] = "SENT" PROVE sent'[r] > 0
  <2>1. CASE rcpt[r] = "SENT"
    BY <1>0, <1>2, <2>1 DEF SendingOK
  <2>2. CASE rcpt[r] # "SENT"
    <3>1. PICK w \in Workers : proc[w].cur = r /\ RecordSent(w)
      BY <1>1, <1>6, <2>2 DEF StatusMoves
    <3> QED BY <1>0, <1>2, <3>1 DEF RecordSent, SendingOK
  <2> QED BY <2>1, <2>2
<1>7. ASSUME sent'[r] > 0
      PROVE  rcpt'[r] = "SENT" \/ \E w \in Workers : proc'[w].cur = r /\ proc'[w].pc = "accepted"
  <2>1. CASE sent[r] > 0
    <3>1. ASSUME NEW w \in Workers, proc[w].cur = r, proc[w].pc = "accepted"
          PROVE  proc'[w] = proc[w] \/ rcpt'[r] = "SENT"
      <4>1. ~Crash(w)
        BY <3>1 DEF Crash
      <4>2. RecordSent(w) => rcpt'[r] = "SENT"
        BY <1>0, <3>1 DEF RecordSent
      <4> QED BY <1>0, <3>1, <4>1, <4>2, LastStep
    <3> QED BY <1>0, <1>3, <2>1, <3>1 DEF SendingOK
  <2>2. CASE ~(sent[r] > 0)
    BY <1>0, <1>1, <1>7, <2>2 DEF MessageMoves
  <2> QED BY <2>1, <2>2
<1> QED BY <1>4, <1>5, <1>6, <1>7

(* What RecipientFate needs of every state. *)
LEMMA FateInvariant == Spec => []FateInv
<1>1. Init => QueueOpenOK /\ SendingOK
  <2> SUFFICES ASSUME Init PROVE QueueOpenOK /\ SendingOK
    OBVIOUS
  <2>1. \A p \in Procs : proc[p].pc = "idle" /\ proc[p].todo = {} /\ proc[p].cur = None
    BY DEF Init, Idle
  <2>2. \A r \in Recipients : rcpt[r] = "NONE" /\ item[r].status = "NONE" /\ sent[r] = 0
    BY DEF Init, NoItem
  <2>3. \A w \in Workers : Holding(w) = {} /\ w \in Procs
    BY <2>1 DEF Holding, Procs
  <2> QED BY <2>1, <2>2, <2>3 DEF QueueOpenOK, SendingOK, OnTheQueue, Pending
<1>2. DeliveryInv /\ QueueOpenOK /\ SendingOK /\ [Next]_vars => (QueueOpenOK /\ SendingOK)'
  BY QueueOpenStep, SendingStep DEF DeliveryInv
<1> QED BY <1>1, <1>2, DeliveryInvariant, PTL DEF Spec, FateInv

(* The abstract state of one recipient before and after a step. *)
LEMMA VisibleRecipient ==
    ASSUME NEW r \in Recipients
    PROVE  /\ r \notin suspect => VisibleFate[r] = rcpt[r] /\ VisibleMessages[r] = sent[r]
           /\ r \notin suspect' => VisibleFate'[r] = rcpt'[r] /\ VisibleMessages'[r] = sent'[r]
           /\ r \in suspect' => VisibleFate'[r] = "UNKNOWN" /\ VisibleMessages'[r] = 0
BY DEF VisibleFate, VisibleMessages

(* A step, seen through the mapping, moves each recipient as its fate allows. *)
LEMMA StepIsFate ==
    ASSUME FateInv, [Next]_vars, NEW r \in Recipients
    PROVE  Fate!Stay(r) \/ Fate!Move(r)
<1> DEFINE Goal == Fate!Stay(r) \/ Fate!Move(r)
<1>1. CASE r \in suspect'
  <2>1. Fate!Disown(r)
    BY <1>1, VisibleRecipient DEF Fate!Disown, Fate!Becomes
  <2> QED BY <2>1 DEF Fate!Move
<1>2. CASE r \notin suspect'
  <2>0. /\ SendInv /\ r \notin suspect /\ sent[r] \in Nat /\ sent[r] <= 1 /\ QueueOpenOK /\ SendingOK
    BY <1>2, SuspectGrows DEF FateInv, DeliveryInv, SendInv, TypeOK, AtMostOneSend
  <2>1. StatusMoves(r) /\ MessageMoves(r)
    BY <1>2, <2>0, FateMoves
  <2>2. /\ VisibleFate[r] = rcpt[r] /\ VisibleMessages[r] = sent[r]
        /\ VisibleFate'[r] = rcpt'[r] /\ VisibleMessages'[r] = sent'[r]
    BY <1>2, <2>0, VisibleRecipient
  <2>3. CASE sent'[r] # sent[r]
    <3>1. PICK w \in Workers : /\ proc[w].cur = r /\ ProviderSend(w, "ok")
                               /\ rcpt'[r] = rcpt[r] /\ sent'[r] = sent[r] + 1
      BY <2>1, <2>3 DEF MessageMoves
    <3>2. proc[w].pc = "sending"
      BY <3>1 DEF ProviderSend
    <3>3. rcpt[r] = "SENDING" /\ sent[r] = 0
      BY <2>0, <3>1, <3>2, NothingSentYet DEF SendingOK, SendPcs
    <3>4. Fate!Deliver(r)
      BY <2>2, <3>1, <3>3 DEF Fate!Deliver, Fate!Becomes
    <3> QED BY <3>4 DEF Fate!Move
  <2>4. CASE sent'[r] = sent[r] /\ rcpt'[r] = rcpt[r]
    BY <2>2, <2>4 DEF Fate!Stay, Fate!Becomes
  <2>5. CASE /\ sent'[r] = sent[r]
             /\ \/ rcpt[r] = "NONE" /\ rcpt'[r] = "PENDING"
                \/ rcpt[r] = "PENDING" /\ rcpt'[r] \in {"ELIGIBLE", "INELIGIBLE"}
                \/ rcpt[r] \in {"PENDING", "ELIGIBLE"} /\ rcpt'[r] = "CANCELLED"
    <3>1. sent[r] = 0
      BY <2>0, <2>5, NothingSentTo
    <3>2. Fate!Enter(r) \/ Fate!Judge(r) \/ Fate!Cancel(r)
      BY <2>2, <2>5, <3>1 DEF Fate!Enter, Fate!Judge, Fate!Cancel, Fate!Becomes
    <3> QED BY <3>2 DEF Fate!Move
  <2>6. ASSUME sent'[r] = sent[r], NEW w \in Workers, proc[w].cur = r,
               \/ BeginSending(w) /\ rcpt'[r] = "SENDING"
               \/ SkipRecipient(w) /\ rcpt'[r] = "SKIPPED"
               \/ FailRecipient(w) /\ rcpt'[r] = "FAILED"
        PROVE  Goal
    <3>1. proc[w].pc \in SendPcs \ {"accepted"}
      BY <2>6 DEF BeginSending, SkipRecipient, FailRecipient, SendPcs
    <3>2. OnTheQueue(r) /\ sent[r] = 0
      BY <2>0, <2>6, <3>1, InHandAlone, NothingSentYet DEF OnTheQueue
    <3>3. rcpt[r] \in Fate!Open
      BY <2>0, <3>2 DEF QueueOpenOK
    <3>4. Fate!Attempt(r) \/ Fate!GiveUp(r)
      BY <2>2, <2>6, <3>2, <3>3 DEF Fate!Attempt, Fate!GiveUp, Fate!Becomes
    <3> QED BY <3>4 DEF Fate!Move
  <2>7. ASSUME sent'[r] = sent[r], NEW w \in Workers, proc[w].cur = r,
               RecordSent(w), rcpt'[r] = "SENT"
        PROVE  Goal
    <3>1. rcpt[r] = "SENDING" /\ sent[r] > 0
      BY <2>0, <2>7 DEF RecordSent, SendingOK
    <3>2. sent[r] = 1
      BY <2>0, <3>1
    <3>3. Fate!Confirm(r)
      BY <2>2, <2>7, <3>1, <3>2 DEF Fate!Confirm, Fate!Becomes
    <3> QED BY <3>3 DEF Fate!Move
  <2> HIDE DEF Goal
  <2>8. CASE /\ sent'[r] = sent[r]
             /\ \E w \in Workers :
                   /\ proc[w].cur = r
                   /\ \/ BeginSending(w) /\ rcpt'[r] = "SENDING"
                      \/ SkipRecipient(w) /\ rcpt'[r] = "SKIPPED"
                      \/ RecordSent(w) /\ rcpt'[r] = "SENT"
                      \/ FailRecipient(w) /\ rcpt'[r] = "FAILED"
    <3>1. PICK w \in Workers : /\ proc[w].cur = r
                               /\ \/ BeginSending(w) /\ rcpt'[r] = "SENDING"
                                  \/ SkipRecipient(w) /\ rcpt'[r] = "SKIPPED"
                                  \/ RecordSent(w) /\ rcpt'[r] = "SENT"
                                  \/ FailRecipient(w) /\ rcpt'[r] = "FAILED"
      BY <2>8
    <3>2. CASE RecordSent(w) /\ rcpt'[r] = "SENT"
      BY <2>7, <2>8, <3>1, <3>2 DEF Goal
    <3>3. CASE ~(RecordSent(w) /\ rcpt'[r] = "SENT")
      BY <2>6, <2>8, <3>1, <3>3 DEF Goal
    <3> QED BY <3>2, <3>3
  <2> QED BY <2>1, <2>3, <2>4, <2>5, <2>8 DEF StatusMoves, Goal
<1> QED BY <1>1, <1>2

(* Whatever operators, launches, workers, crashes and lost leases do, each recipient *)
(* makes only the moves of its fate: one message, accepted while the row says          *)
(* SENDING; SENT for exactly those who got one; and no verdict taken back but          *)
(* CANCELLED, of somebody in the hands of a worker or of a launch.                   *)
THEOREM FateImplemented == Spec => ImplementsFate
<1>1. Init => Fate!FateInit
  BY DEF Init, Fate!FateInit, VisibleFate, VisibleMessages
<1>2. FateInv /\ [Next]_vars => [Fate!FateNext]_(Fate!fateVars)
  BY StepIsFate DEF Fate!FateNext
<1> QED BY <1>1, <1>2, FateInvariant, PTL DEF Spec, ImplementsFate, Fate!FateSpec
=============================================================================
