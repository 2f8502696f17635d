-------------------------- MODULE MCDealSettlement --------------------------
(* One participant to pay back, and a refund_issue beside a payment_reconcile. *)
EXTENDS DealSettlement

CONSTANTS p1, w1, w2
=============================================================================
