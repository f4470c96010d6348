---------------------------- MODULE RecipientFate ---------------------------
(***************************************************************************)
(* What campaign delivery promises about one recipient, without queue,       *)
(* leases, workers, launches or requests: the status of its row and the      *)
(* messages that the provider accepted for it.  A message is accepted at     *)
(* most once and only while the row says SENDING; SENT is said of exactly    *)
(* those who got one, every other verdict of those who got none; and a       *)
(* verdict stays, except that somebody cancelled in the hands of a worker    *)
(* or of a launch may still be sent to, skipped or failed.                   *)
(*                                                                         *)
(* Recipients do not depend on each other: in a step each moves or stays.    *)
(***************************************************************************)
EXTENDS Naturals

CONSTANT Recipients   \* leads an audience may resolve to

VARIABLES
    status,     \* [Recipients -> Statuses]
    messages    \* [Recipients -> 0..1]: messages accepted by the provider

fateVars == <<status, messages>>

(* UNKNOWN: the answer to a send, the lease under a worker or the launch was lost;  *)
(* nothing is promised about the recipient from then on.                       *)
Statuses == {"NONE", "PENDING", "INELIGIBLE", "ELIGIBLE", "SENDING", "SENT", "FAILED", "SKIPPED",
             "CANCELLED", "UNKNOWN"}

(* Whom a worker may have in hand: a cancellation does not take it away. *)
Open == {"ELIGIBLE", "SENDING", "CANCELLED"}

Becomes(r, s, n) == status'[r] = s /\ messages'[r] = n

Enter(r) == status[r] = "NONE" /\ Becomes(r, "PENDING", 0)

Judge(r) == status[r] = "PENDING" /\ \E s \in {"ELIGIBLE", "INELIGIBLE"} : Becomes(r, s, 0)

Attempt(r) == status[r] \in Open /\ messages[r] = 0 /\ Becomes(r, "SENDING", 0)

Deliver(r) == status[r] = "SENDING" /\ messages[r] = 0 /\ Becomes(r, "SENDING", 1)

Confirm(r) == status[r] = "SENDING" /\ messages[r] = 1 /\ Becomes(r, "SENT", 1)

GiveUp(r) ==
    /\ status[r] \in Open /\ messages[r] = 0
    /\ \E s \in {"FAILED", "SKIPPED"} : Becomes(r, s, 0)

(* A cancellation reaches only those that no worker has begun to send to. *)
Cancel(r) == status[r] \in {"PENDING", "ELIGIBLE"} /\ Becomes(r, "CANCELLED", 0)

Disown(r) == Becomes(r, "UNKNOWN", 0)

Stay(r) == Becomes(r, status[r], messages[r])

Move(r) ==
    \/ Enter(r) \/ Judge(r) \/ Attempt(r) \/ Deliver(r)
    \/ Confirm(r) \/ GiveUp(r) \/ Cancel(r) \/ Disown(r)

FateInit ==
    /\ status = [r \in Recipients |-> "NONE"]
    /\ messages = [r \in Recipients |-> 0]

FateNext == \A r \in Recipients : Stay(r) \/ Move(r)

FateSpec == FateInit /\ [][FateNext]_fateVars

=============================================================================
