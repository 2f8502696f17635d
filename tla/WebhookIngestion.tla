-------------------------- MODULE WebhookIngestion --------------------------
(***************************************************************************)
(* Events of the payment provider about one participant, delivered at      *)
(* least once: webhook_ingestion.ts, payment_reconciliation.ts and the     *)
(* processing of an event in app.ts, which the route of the provider       *)
(* (frontend_runtime.ts) and the handlers of the worker share.             *)
(*                                                                         *)
(* A delivery runs in several transactions: the claim (one or two), the    *)
(* target, the evidence, the effect and the mark.  Other deliveries, the   *)
(* jobs of the deal, the sweep and a death come between any two.           *)
(***************************************************************************)
EXTENDS Integers, FiniteSets

CONSTANTS
  Says,         \* the provider's events and what each says: [kind, names, amountOk]
  Server,       \* slots that carry one delivery each
  NoServer,
  Stories,      \* sets of events that may arrive in one behaviour
  MaxTrouble    \* deaths, failed transactions and slow servers in a behaviour

Event == DOMAIN Says
Capture == {"charge_captured", "recovery_captured"}
EventKind == Capture \cup {"charge_failed", "recovery_failed", "refund_issued"}
Identity == {"charge", "recovery", "refund"}
EventRow == {"absent", "pending", "processing", "processed", "ignored", "failed"}
Final == {"processed", "ignored"}
Captured == {"ChargedSuccess", "RecoveredCharge", "Refunded"}

ASSUME WebhookAssumption ==
  /\ Says \in [Event -> [kind : EventKind, names : Identity \cup {"foreign"}, amountOk : BOOLEAN]]
  /\ NoServer \notin Server /\ Stories \subseteq SUBSET Event /\ MaxTrouble \in Nat

VARIABLES
  story,          \* the events of this behaviour
  buyer, money,   \* the states of the participant
  attempt,        \* payment_attempts: the result of the newest row of each family
  ledger,         \* logical entries of the platform fee ledger
  case,           \* open operational cases, by what opened them
  idempotent,     \* idempotency_log: the events whose effect was committed
  event,          \* webhook_events: status, claim token, staleness of the claim
  server,         \* the deliveries being handled
  answered,       \* events the provider was answered with 200
  trouble         \* deaths, failed transactions and slow servers so far

webhookVars == <<story, buyer, money, attempt, ledger, case, idempotent, event, server, answered, trouble>>
participant == <<buyer, money, attempt>>
truth == <<story, participant, ledger, case, idempotent>>

Unused == [pc |-> "free", about |-> "none", buyer |-> "none", money |-> "none", verdict |-> "none"]
BuyerState == {"ChargingAttempt", "ChargedSuccess", "ChargeFailedCompletion", "Recovered", "Dropped", "Decided"}
MoneyState == {"ChargeAttempt", "ChargeFailedRecovery", "AuthReleased"} \cup Captured

WebhookTypeOK ==
  /\ story \in Stories /\ buyer \in BuyerState /\ money \in MoneyState
  /\ attempt \in [Identity -> {"absent", "unknown", "success", "permanent_fail"}]
  /\ ledger \subseteq {"charge", "refund_adjustment"}
  /\ case \subseteq EventKind \cup {"dual_capture", "amount_mismatch"}
  /\ idempotent \subseteq story /\ answered \subseteq story
  /\ event \in [story -> [status : EventRow, token : Server \cup {NoServer}, stale : BOOLEAN]]
  /\ \A e \in story : event[e].token # NoServer <=> event[e].status = "processing"
  /\ server \in [Server -> [pc : {"free", "claim", "reclaim", "resolve", "late", "escalate", "escalate_dual",
                                  "apply", "mark", "throw", "answer"},
                            about : story \cup {"none"}, buyer : BuyerState \cup {"none"},
                            money : MoneyState \cup {"none"}, verdict : Final \cup {"failed", "none"}]]
  /\ trouble \in 0..MaxTrouble

WebhookInit ==
  /\ story \in Stories
  /\ buyer = "ChargingAttempt" /\ money = "ChargeAttempt"
  /\ attempt = [i \in Identity |-> IF i = "charge" THEN "unknown" ELSE "absent"]
  /\ ledger = {} /\ case = {} /\ idempotent = {} /\ answered = {} /\ trouble = 0
  /\ event = [e \in story |-> [status |-> "absent", token |-> NoServer, stale |-> FALSE]]
  /\ server = [s \in Server |-> Unused]

-----------------------------------------------------------------------------
(* The claim.                                                                *)

Carries(s, pc) == server[s].pc = pc
About(s) == server[s].about
Step(s, pc) == server' = [server EXCEPT ![s].pc = pc]
Conclude(s, pc, verdict) == server' = [server EXCEPT ![s] = [Unused EXCEPT !.pc = pc, !.about = About(s), !.verdict = verdict]]
Row(status, token) == [status |-> status, token |-> token, stale |-> FALSE]
Claim(s, e) == [event EXCEPT ![e] = Row("processing", s)]

\* An event names an operation of ours that exists, or none. The provider
\* delivers it until it hears 200, several times at once if it likes; a death
\* on the way to the answer is an answer that was lost.
Deliver(s, e) ==
  /\ Carries(s, "free")
  /\ e \notin answered
  /\ Says[e].names \in {"foreign"} \cup {i \in Identity : attempt[i] # "absent"}
  /\ server' = [server EXCEPT ![s] = [Unused EXCEPT !.pc = "claim", !.about = e]]
  /\ UNCHANGED <<truth, event, answered, trouble>>

\* claimEvent, first transaction: insert, or read the row that is there
ClaimEvent(s) ==
  /\ Carries(s, "claim")
  /\ LET e == About(s) IN
     IF event[e].status = "absent"
     THEN event' = Claim(s, e) /\ Step(s, "resolve")
     ELSE Step(s, IF event[e].status \in Final THEN "answer" ELSE "reclaim") /\ UNCHANGED event
  /\ UNCHANGED <<truth, answered, trouble>>

\* claimEvent, second transaction: a finished claim is open again unless it
\* succeeded, a claim in progress only when it is stale
Reclaimable(e) == event[e].status \in {"pending", "failed"} \/ (event[e].status = "processing" /\ event[e].stale)
ReclaimEvent(s) ==
  /\ Carries(s, "reclaim")
  /\ LET e == About(s) IN
     IF Reclaimable(e)
     THEN event' = Claim(s, e) /\ Step(s, "resolve")
     ELSE Step(s, "answer") /\ UNCHANGED event
  /\ UNCHANGED <<truth, answered, trouble>>

\* markEvent: under the claimant's own token only. The token stays in the row,
\* where nothing reads it again.
\* Mutant of Marked: the event is marked by its key.
MarkedByKey(s, status) == [event EXCEPT ![About(s)] = Row(status, NoServer)]
Marked(s, status) ==
  LET e == About(s) IN
  IF event[e].status = "processing" /\ event[e].token = s THEN [event EXCEPT ![e] = Row(status, NoServer)] ELSE event

-----------------------------------------------------------------------------
(* What an event means for the participant.                                  *)

\* correlationFamilyMatches, attemptTypeFromEventType
Family(kind) == CASE kind \in {"charge_captured", "charge_failed"} -> "charge"
                  [] kind \in {"recovery_captured", "recovery_failed"} -> "recovery"
                  [] kind = "refund_issued" -> "refund"

\* The transition an event asks for: from <<buyer, money>> to <<buyer, money>>.
Awaiting(kind, b, m) ==
  CASE kind \in {"charge_captured", "charge_failed"} -> b = "ChargingAttempt" /\ m = "ChargeAttempt"
    [] kind \in {"recovery_captured", "recovery_failed"} -> b = "ChargeFailedCompletion" /\ m = "ChargeFailedRecovery"
    [] kind = "refund_issued" -> m \in {"ChargedSuccess", "RecoveredCharge"}
Effect(kind, b, m) ==
  CASE kind = "charge_captured" -> <<"ChargedSuccess", "ChargedSuccess">>
    [] kind = "charge_failed" -> <<"ChargeFailedCompletion", "ChargeFailedRecovery">>
    [] kind = "recovery_captured" -> <<"Recovered", "RecoveredCharge">>
    [] kind = "recovery_failed" -> <<"Dropped", m>>
    [] kind = "refund_issued" -> <<b, "Refunded">>

\* classifyEvent
Classified(e, b, m) ==
  IF ~Awaiting(Says[e].kind, b, m) THEN "ignored"
  ELSE IF Says[e].names = "foreign" THEN "failed" ELSE "processed"

\* resolveTarget and classifyEvent
Resolve(s) ==
  /\ Carries(s, "resolve")
  /\ LET verdict == Classified(About(s), buyer, money) IN
     server' = [server EXCEPT ![s] =
       [@ EXCEPT !.buyer = buyer, !.money = money, !.verdict = verdict,
                 !.pc = CASE verdict = "processed" -> "apply" [] verdict = "ignored" -> "late"
                          [] verdict = "failed" -> "mark"]]
  /\ UNCHANGED <<truth, event, answered, trouble>>

\* settleAttemptInTx: success is never taken back, a decline only by a success
Settled(e, result) ==
  IF Says[e].names # Family(Says[e].kind) \/ attempt[Says[e].names] = "success"
     \/ (attempt[Says[e].names] = "permanent_fail" /\ result # "success")
  THEN attempt ELSE [attempt EXCEPT ![Says[e].names] = result]

\* readCaptureSideIdentityEvidence and the contradiction it is read for.
\* Mutant of Dual: decided by the state, not by the identities.
DualByState(e) == Says[e].kind \in Capture /\ money \in {"ChargeFailedRecovery"}
Dual(e) ==
  LET reported == {<<Family(Says[e].kind), Says[e].names>>}
      settled == {<<i, i>> : i \in {i \in {"charge", "recovery"} : attempt[i] = "success"}}
  IN Says[e].kind \in Capture /\ Cardinality(settled \cup reported) >= 2
Contradicts(e, m) == (Says[e].kind \in Capture /\ m \notin Captured) \/ (Says[e].kind = "refund_issued" /\ m # "Refunded")

\* recordLateMoneyEffectException: the reading ...
ReadEvidence(s) ==
  /\ Carries(s, "late")
  /\ IF Dual(About(s)) THEN Step(s, "escalate_dual")
     ELSE IF Contradicts(About(s), server[s].money) THEN Step(s, "escalate")
     ELSE Conclude(s, "mark", "ignored")
  /\ UNCHANGED <<truth, event, answered, trouble>>
\* ... and the one transaction of evidence and case
Escalate(s) ==
  /\ Carries(s, "escalate") \/ Carries(s, "escalate_dual")
  /\ attempt' = Settled(About(s), "success")
  /\ case' = case \cup {IF Carries(s, "escalate") THEN Says[About(s)].kind ELSE "dual_capture"}
  /\ Conclude(s, "mark", "ignored")
  /\ UNCHANGED <<story, buyer, money, ledger, idempotent, event, answered, trouble>>

\* applyPaymentWebhookClassification: an amount that is not the obligation's
Held(s) ==
  /\ Carries(s, "apply") /\ Says[About(s)].kind \in Capture /\ ~Says[About(s)].amountOk
  /\ case' = case \cup {"amount_mismatch"}
  /\ Conclude(s, "mark", "ignored")
  /\ UNCHANGED <<story, participant, ledger, idempotent, event, answered, trouble>>

\* ... a replay of a committed effect; the effect, by compare-and-swap from the
\* state that was resolved; or a conflict
\* Mutant of Apply: the effect is written over whatever the state has become.
ApplyOver(s) ==
  /\ Carries(s, "apply") /\ (Says[About(s)].kind \in Capture => Says[About(s)].amountOk)
  /\ LET e == About(s)
         next == Effect(Says[e].kind, buyer, money) IN
     /\ buyer' = next[1] /\ money' = next[2]
     /\ attempt' = Settled(e, IF Says[e].kind \in Capture \cup {"refund_issued"} THEN "success" ELSE "permanent_fail")
     /\ idempotent' = idempotent \cup {e}
     /\ ledger' = ledger \cup (IF Says[e].kind \in Capture THEN {"charge"} ELSE {})
  /\ Conclude(s, "mark", "processed")
  /\ UNCHANGED <<story, case, event, answered, trouble>>
Apply(s) ==
  /\ Carries(s, "apply") /\ (Says[About(s)].kind \in Capture => Says[About(s)].amountOk)
  /\ LET e == About(s)
         next == Effect(Says[e].kind, buyer, money) IN
     \/ e \in idempotent /\ Conclude(s, "mark", "processed") /\ UNCHANGED <<story, participant, ledger, idempotent>>
     \/ /\ e \notin idempotent
        /\ server[s].money = money /\ (next[1] # buyer => server[s].buyer = buyer)
        /\ buyer' = next[1] /\ money' = next[2]
        /\ attempt' = Settled(e, IF Says[e].kind \in Capture \cup {"refund_issued"} THEN "success" ELSE "permanent_fail")
        /\ idempotent' = idempotent \cup {e}
        /\ ledger' = ledger \cup (IF Says[e].kind \in Capture THEN {"charge"} ELSE {})
                            \cup (IF Says[e].kind = "refund_issued" THEN {"charge", "refund_adjustment"} ELSE {})
        /\ Conclude(s, "mark", "processed")
     \/ /\ e \notin idempotent
        /\ server[s].money # money \/ (next[1] # buyer /\ server[s].buyer # buyer)
        /\ Conclude(s, "throw", "failed") /\ UNCHANGED <<story, participant, ledger, idempotent>>
  /\ UNCHANGED <<story, case, event, answered, trouble>>

\* The mark and the answer: 200, or an error after which the provider repeats.
Mark(s) ==
  /\ Carries(s, "mark")
  /\ event' = Marked(s, server[s].verdict) /\ Conclude(s, "answer", "none")
  /\ UNCHANGED <<truth, answered, trouble>>
MarkFailed(s) ==
  /\ Carries(s, "throw")
  /\ event' = Marked(s, "failed") /\ server' = [server EXCEPT ![s] = Unused]
  /\ UNCHANGED <<truth, answered, trouble>>
Acknowledge(s) ==
  /\ Carries(s, "answer")
  /\ answered' = answered \cup {About(s)} /\ server' = [server EXCEPT ![s] = Unused]
  /\ UNCHANGED <<truth, event, trouble>>

-----------------------------------------------------------------------------
(* Trouble, time, and the jobs of the deal.                                  *)

\* A transaction that fails (a lock, an operation in flight, evidence that
\* cannot be read), before it wrote anything.
Fails(s) ==
  /\ server[s].pc \in {"resolve", "late", "escalate", "escalate_dual", "apply"} /\ trouble < MaxTrouble
  /\ trouble' = trouble + 1 /\ Conclude(s, "throw", "failed")
  /\ UNCHANGED <<truth, event, answered>>
Dies(s) ==
  /\ ~Carries(s, "free") /\ trouble < MaxTrouble
  /\ trouble' = trouble + 1 /\ server' = [server EXCEPT ![s] = Unused]
  /\ UNCHANGED <<truth, event, answered>>
\* A claim grows old: nobody works on it any more, or its server is slow.
GoesStale(e) ==
  /\ event[e].status = "processing" /\ ~event[e].stale
  /\ IF About(event[e].token) # e THEN UNCHANGED trouble
     ELSE trouble < MaxTrouble /\ trouble' = trouble + 1
  /\ event' = [event EXCEPT ![e].stale = TRUE]
  /\ UNCHANGED <<truth, server, answered>>
\* reclaimStaleProcessing
\* Mutant of ReclaimStaleProcessing: the row keeps its claimant.
ReclaimWithToken(e) ==
  /\ event[e].status = "processing" /\ event[e].stale
  /\ event' = [event EXCEPT ![e] = Row("pending", event[e].token)]
  /\ UNCHANGED <<truth, server, answered, trouble>>
ReclaimStaleProcessing(e) ==
  /\ event[e].status = "processing" /\ event[e].stale
  /\ event' = [event EXCEPT ![e] = Row("pending", NoServer)]
  /\ UNCHANGED <<truth, server, answered, trouble>>

\* The handlers of MoneyRails, as far as an event can tell: a recovery or a
\* refund is attempted, a dispatch answers, a deal is decided, a hold released.
MintRecovery ==
  /\ buyer = "ChargeFailedCompletion" /\ money = "ChargeFailedRecovery"
  /\ attempt["recovery"] = "absent" /\ attempt["charge"] # "success"
  /\ attempt' = [attempt EXCEPT !["recovery"] = "unknown"]
  /\ UNCHANGED <<story, buyer, money, ledger, case, idempotent, event, server, answered, trouble>>
MintRefund ==
  /\ buyer = "Decided" /\ money \in {"ChargedSuccess", "RecoveredCharge"} /\ attempt["refund"] = "absent"
  /\ attempt' = [attempt EXCEPT !["refund"] = "unknown"]
  /\ UNCHANGED <<story, buyer, money, ledger, case, idempotent, event, server, answered, trouble>>
RecoveryAnswers ==
  /\ attempt["recovery"] = "unknown"
  /\ \E r \in {"success", "permanent_fail"} : attempt' = [attempt EXCEPT !["recovery"] = r]
  /\ UNCHANGED <<story, buyer, money, ledger, case, idempotent, event, server, answered, trouble>>
Decide ==
  /\ buyer \in {"ChargedSuccess", "Recovered", "ChargeFailedCompletion"}
  /\ buyer' = IF buyer = "ChargeFailedCompletion" THEN "Dropped" ELSE "Decided"
  /\ UNCHANGED <<story, money, attempt, ledger, case, idempotent, event, server, answered, trouble>>
Release ==
  /\ buyer = "Dropped" /\ money = "ChargeFailedRecovery"
  /\ attempt["charge"] # "success" /\ attempt["recovery"] # "success"
  /\ money' = "AuthReleased"
  /\ UNCHANGED <<story, buyer, attempt, ledger, case, idempotent, event, server, answered, trouble>>

Handle(s) ==
  \/ ClaimEvent(s) \/ ReclaimEvent(s) \/ Resolve(s) \/ ReadEvidence(s) \/ Escalate(s)
  \/ Held(s) \/ Apply(s) \/ Mark(s) \/ MarkFailed(s) \/ Acknowledge(s)
WebhookNext ==
  \/ \E s \in Server, e \in story : Deliver(s, e)
  \/ \E s \in Server : Handle(s) \/ Fails(s) \/ Dies(s)
  \/ \E e \in story : GoesStale(e) \/ ReclaimStaleProcessing(e)
  \/ MintRecovery \/ RecoveryAnswers \/ MintRefund \/ Decide \/ Release

WebhookSpec == WebhookInit /\ [][WebhookNext]_webhookVars

\* The provider repeats what is not answered with 200 and a server that lives
\* goes on; claims grow old, and the maintenance of the worker sweeps them.
Redeliver(e) == e \in story /\ event[e].status # "absent" /\ \E s \in Server : Deliver(s, e)
WebhookLiveSpec ==
  /\ WebhookSpec
  /\ \A s \in Server : WF_webhookVars(Handle(s))
  /\ \A e \in Event : /\ WF_webhookVars(Redeliver(e))
                      /\ WF_webhookVars(e \in story /\ GoesStale(e))
                      /\ WF_webhookVars(e \in story /\ ReclaimStaleProcessing(e))

-----------------------------------------------------------------------------
(* Properties.                                                               *)

\* Captured money the provider reported, once its event is finished, is in the
\* ledger or before an operator, whatever the state was when it came; and two
\* captures of one obligation, both reported, are before an operator.
RealMoneyKnown ==
  LET Own(e, family) == Says[e].kind \in Capture /\ Says[e].names = family /\ event[e].status \in Final IN
  /\ \A e \in story : Own(e, Family(Says[e].kind)) => "charge" \in ledger \/ case # {}
  /\ \A e, f \in story :
       Own(e, "charge") /\ Own(f, "recovery")
         /\ Says[e].kind = "charge_captured" /\ Says[f].kind = "recovery_captured" => case # {}

\* Money moves on evidence about an operation of ours, and the ledger with it.
OnlyOwnMoney ==
  /\ \A e \in idempotent : Says[e].names # "foreign"
  /\ "charge" \in ledger <=> money \in Captured
  /\ "refund_adjustment" \in ledger <=> money = "Refunded"

\* An event that was processed or ignored stays so: no claimant that was
\* overtaken marks it again and no sweep reopens it.
FinishedForGood ==
  [][\A e \in story : event[e].status \in Final => event'[e].status = event[e].status]_webhookVars

\* The comment at app.ts:5415: a claim of a dead process is returned, so that
\* the provider's replay is not swallowed. What the provider was told to forget
\* has its effect in the end, or is finished here.
ReplayNotSwallowed ==
  \A e \in Event : e \in answered ~> e \in idempotent \/ (e \in story /\ event[e].status \in Final \cup {"failed"})
=============================================================================
