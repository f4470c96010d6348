------------------------- MODULE MCCampaignDelivery -------------------------
(* Instances of CampaignDelivery for TLC: all recipients in one campaign, or    *)
(* one recipient in each of two.                                              *)
EXTENDS CampaignDeliveryFate, TLC

CONSTANTS c1, c2, r1, r2

OneCampaign == [r \in Recipients |-> c1]

TwoCampaigns == [r \in Recipients |-> IF r = r1 THEN c1 ELSE c2]

WorkerSymmetry == Permutations(Workers)

ModelSymmetry == Permutations(Workers) \cup Permutations(Recipients)
=============================================================================
