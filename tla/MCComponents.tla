---------------------------- MODULE MCComponents ----------------------------
(***************************************************************************)
(* Instances of the components that share no state with one another, for   *)
(* TLC in one run: the initial state says which of them moves.             *)
(***************************************************************************)
EXTENDS PayoutRail, WebhookIngestion, DealSettlement, AuthorizationIntents, InvoiceRail,
        NotificationCourier, ImageStore, TLC

CONSTANTS p1, p2, w1, w2

\* What the provider may say of one participant, and what may come together.
Event_(kind, names, amountOk) == [kind |-> kind, names |-> names, amountOk |-> amountOk]
ProviderEvents ==
  [charged |-> Event_("charge_captured", "charge", TRUE),
   again |-> Event_("charge_captured", "charge", TRUE),
   misstated |-> Event_("charge_captured", "charge", FALSE),
   foreign |-> Event_("charge_captured", "foreign", TRUE),
   crossed |-> Event_("charge_captured", "recovery", TRUE),
   declined |-> Event_("charge_failed", "charge", TRUE),
   recovered |-> Event_("recovery_captured", "recovery", TRUE),
   lost |-> Event_("recovery_failed", "recovery", TRUE),
   refunded |-> Event_("refund_issued", "refund", TRUE)]
ProviderStories ==
  {{"declined", "recovered", "charged"}, {"charged", "again"}, {"charged", "refunded"},
   {"foreign", "charged"}, {"misstated", "declined"}, {"declined", "lost"}, {"declined", "crossed"}}

VARIABLE component

ComponentInit ==
  /\ component \in {"payout", "webhook", "settlement", "intents", "invoice", "notification", "images"}
  /\ PayoutInit /\ (component # "payout" => ~frozen)
  /\ WebhookInit /\ (component # "webhook" => story = {"charged", "again"})
  /\ SettlementInit /\ (component # "settlement" => paid = {} /\ proves)
  /\ IntentInit /\ (component # "intents" => hosted)
  /\ InvoiceInit
  /\ CourierInit
  /\ ImageInit

componentVars ==
  <<payoutVars, webhookVars, settlementVars, intentVars, invoiceVars, courierVars, imageVars>>

\* The component that moves, and the others that do not.
PayoutMoves ==
  /\ component = "payout" /\ PayoutNext
  /\ UNCHANGED <<component, webhookVars, settlementVars, intentVars, invoiceVars, courierVars, imageVars>>
WebhookMoves ==
  /\ component = "webhook" /\ WebhookNext
  /\ UNCHANGED <<component, payoutVars, settlementVars, intentVars, invoiceVars, courierVars, imageVars>>
SettlementMoves ==
  /\ component = "settlement" /\ SettlementNext
  /\ UNCHANGED <<component, payoutVars, webhookVars, intentVars, invoiceVars, courierVars, imageVars>>
IntentMoves ==
  /\ component = "intents" /\ IntentNext
  /\ UNCHANGED <<component, payoutVars, webhookVars, settlementVars, invoiceVars, courierVars, imageVars>>
InvoiceMoves ==
  /\ component = "invoice" /\ InvoiceNext
  /\ UNCHANGED <<component, payoutVars, webhookVars, settlementVars, intentVars, courierVars, imageVars>>
CourierMoves ==
  /\ component = "notification" /\ CourierNext
  /\ UNCHANGED <<component, payoutVars, webhookVars, settlementVars, intentVars, invoiceVars, imageVars>>
ImageMoves ==
  /\ component = "images" /\ ImageNext
  /\ UNCHANGED <<component, payoutVars, webhookVars, settlementVars, intentVars, invoiceVars, courierVars>>
ComponentNext ==
  PayoutMoves \/ WebhookMoves \/ SettlementMoves \/ IntentMoves \/ InvoiceMoves \/ CourierMoves \/ ImageMoves
ComponentSpec == ComponentInit /\ [][ComponentNext]_<<component, componentVars>>

\* The types of all components.
TypesOK ==
  /\ PayoutTypeOK /\ WebhookTypeOK /\ SettlementTypeOK /\ IntentTypeOK /\ InvoiceTypeOK
  /\ CourierTypeOK /\ ImageTypeOK

Interchangeable == Permutations({p1, p2}) \cup Permutations({w1, w2})
=============================================================================
