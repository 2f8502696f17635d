------------------------- MODULE MCWebhookIngestion -------------------------
(* One event that is delivered until it is answered, for TLC. *)
EXTENDS WebhookIngestion, TLC

CONSTANTS s1, s2

OneCharge == [charged |-> [kind |-> "charge_captured", names |-> "charge", amountOk |-> TRUE]]
OneStory == {{"charged"}}
=============================================================================
