------------------------ MODULE CampaignDeliveryFate ------------------------
(* CampaignDelivery implements RecipientFate: the refinement mapping. *)
EXTENDS CampaignDelivery

(* The committed status, as long as something is promised about the recipient. *)
VisibleFate == [r \in Recipients |-> IF r \in suspect THEN "UNKNOWN" ELSE rcpt[r]]

VisibleMessages == [r \in Recipients |-> IF r \in suspect THEN 0 ELSE sent[r]]

Fate == INSTANCE RecipientFate WITH status <- VisibleFate, messages <- VisibleMessages

(* CampaignWorker and CampaignService do to a recipient only what its fate allows:    *)
(* no launch, claim, retry, pause, cancel or crash sends twice, writes a verdict that  *)
(* the messages contradict, or takes back a verdict other than CANCELLED.            *)
ImplementsFate == Fate!FateSpec
=============================================================================
