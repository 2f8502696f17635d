----------------------------- MODULE PayoutRail -----------------------------
(***************************************************************************)
(* The money of one completed deal on its way to its seller:               *)
(* payout_rail.ts, the jobs that drive it and the operator's attestation.  *)
(*                                                                         *)
(* Every transaction takes the deal's lock, so a transaction is a step;    *)
(* the calls to the payout provider are made between transactions, so that *)
(* other workers, refunds, freezes and operators come in between.          *)
(***************************************************************************)
EXTENDS Integers, FiniteSets

CONSTANTS
  Payer,        \* participants whose captures the ledger of the deal holds
  Teller,       \* worker slots that run payout jobs
  MaxLapses     \* leases and processes the model lets be lost

PayoutJob == {"prepare", "dispatch", "reconcile"}
PayoutStatus == {"pending", "ready", "batched", "processing", "failed", "returned", "paid", "reconciled"}
CaseType == {"dispatch_outcome_unknown", "settlement_changed_before_dispatch",
             "refund_after_payout_dispatch", "amount_mismatch"}

ASSUME PayoutAssumption == IsFiniteSet(Payer) /\ MaxLapses \in Nat

VARIABLES
  refunded,     \* the payers whose refund the ledger and their money state hold
  frozen,       \* a payout freeze, or a hold on the seller's settlements
  settlement,   \* seller_settlements
  batch,        \* seller_payout_batches and its items
  open,         \* open blocking cases, by type
  attested,     \* an operator's attestation is among the payout attempts
  pjob,         \* outbox: the newest row of each type of job
  dead,         \* outbox_dlq: the types of job that were given up
  teller,       \* the runs of the handlers
  lapses,       \* leases and processes lost so far
  payout,       \* the provider: what became of the payout
  requests      \* calls to createPayout: not yet arrived, and in total

payoutVars == <<refunded, frozen, settlement, batch, open, attested, pjob, dead, teller, lapses, payout, requests>>
books == <<settlement, batch, open, attested>>
world == <<refunded, frozen, lapses>>
bank == <<payout, requests>>

Idle == [job |-> "none", pc |-> "free", live |-> FALSE, seen |-> "none", observed |-> 0]
Answer == {"none", "processing", "paid", "failed", "returned", "permanent_fail", "unknown",
           "matched", "mismatched"}

PayoutTypeOK ==
  /\ refunded \subseteq Payer /\ frozen \in BOOLEAN
  /\ settlement \in [status : PayoutStatus \cup {"absent"}, amount : 0..Cardinality(Payer)]
  /\ batch \in [status : PayoutStatus \cup {"absent"}, items : SUBSET Payer, refunds : 0..Cardinality(Payer)]
  /\ open \subseteq CaseType /\ attested \in BOOLEAN
  /\ pjob \in [PayoutJob -> {"none", "pending", "processing", "sent", "failed"}] /\ dead \subseteq PayoutJob
  /\ teller \in [Teller -> [job : PayoutJob \cup {"none"},
                            pc : {"free", "start", "create", "await", "result", "head", "ask", "look",
                                  "inquire", "book", "ack", "throw", "permanent"},
                            live : BOOLEAN, seen : Answer, observed : 0..Cardinality(Payer)]]
  /\ lapses \in 0..MaxLapses
  /\ payout \in {"none", "processing", "paid", "failed", "returned"}
  /\ requests \in [wire : 0..1, total : 0..2]

PayoutInit ==
  /\ refunded = {} /\ frozen \in BOOLEAN
  /\ settlement = [status |-> "absent", amount |-> 0]
  /\ batch = [status |-> "absent", items |-> {}, refunds |-> 0]
  /\ open = {} /\ attested = FALSE
  /\ pjob = [j \in PayoutJob |-> IF j = "prepare" THEN "pending" ELSE "none"] /\ dead = {}
  /\ teller = [t \in Teller |-> Idle] /\ lapses = 0
  /\ payout = "none" /\ requests = [wire |-> 0, total |-> 0]

-----------------------------------------------------------------------------
(* The forward-only lifecycle, and what a settlement is worth.               *)

Rank == [s \in PayoutStatus |->
  CASE s \in {"pending", "ready"} -> 0
    [] s = "batched" -> 2
    [] s = "processing" -> 3
    [] s \in {"failed", "returned"} -> 4
    [] s = "paid" -> 5
    [] s = "reconciled" -> 6]
CanAdvance(from, to) == from = "absent" \/ from = to \/ Rank[from] = 0 \/ Rank[to] > Rank[from]

PreBatch == {"absent", "pending", "ready"}
Batched == batch.status # "absent"
Payable == Payer \ refunded
Expected == Cardinality(batch.items)
Net == Cardinality(Payable)

\* calculateSellerSettlementForDealInTx without the batch itself
Blocked == frozen \/ Net = 0 \/ open # {}
Calculated ==
  IF Batched THEN [status |-> batch.status, amount |-> 0]
  ELSE IF Blocked THEN [status |-> "pending", amount |-> 0]
  ELSE [status |-> "ready", amount |-> Net]
\* ... and with it excluded
CalculatedAlone ==
  IF Blocked THEN [status |-> "pending", amount |-> 0] ELSE [status |-> "ready", amount |-> Net]

\* upsertSellerSettlementInTx
Upserted(s) ==
  [status |-> IF CanAdvance(settlement.status, s.status) THEN s.status ELSE settlement.status,
   amount |-> IF settlement.status \in PreBatch THEN s.amount ELSE settlement.amount]

\* advanceBatchTreeInTx, on the settlement a transaction may have written before it
MovedBatch(to) ==
  IF CanAdvance(batch.status, to) THEN [batch EXCEPT !.status = to] ELSE batch
MovedSettlement(s, to) ==
  IF CanAdvance(s.status, to) THEN [s EXCEPT !.status = to] ELSE s
Advance(to) ==
  /\ batch' = MovedBatch(to)
  /\ settlement' = MovedSettlement(settlement, to)

\* insertOutboxEventIfMissing: a job that was already done counts as present
Inserted(j) == IF pjob[j] \in {"pending", "processing", "sent"} THEN pjob ELSE [pjob EXCEPT ![j] = "pending"]

\* applyProviderAcceptedInTx
Accept(status) ==
  /\ Advance(IF status = "paid" THEN "paid" ELSE "processing")
  /\ open' = open \ {"dispatch_outcome_unknown"}
  /\ pjob' = Inserted("reconcile")

-----------------------------------------------------------------------------
(* The worker around the handlers.                                           *)

At(t, j, pc) == teller[t].job = j /\ teller[t].pc = pc
Goto(t, pc) == teller' = [teller EXCEPT ![t].pc = pc]
Note(t, pc, seen) == teller' = [teller EXCEPT ![t].pc = pc, ![t].seen = seen]

TakeJob(t, j) ==
  /\ teller[t].pc = "free" /\ pjob[j] = "pending"
  /\ pjob' = [pjob EXCEPT ![j] = "processing"]
  /\ teller' = [teller EXCEPT ![t] = [Idle EXCEPT !.job = j, !.pc = "start", !.live = TRUE]]
  /\ UNCHANGED <<books, dead, world, bank>>

\* The verdict on the job; a run that lost its lease writes none. A failure is
\* retried until the attempts are used up, a permanent one is given up at once.
EndRun(t) ==
  /\ teller[t].pc \in {"ack", "throw", "permanent"}
  /\ LET j == teller[t].job IN
     IF ~teller[t].live THEN UNCHANGED <<pjob, dead>>
     ELSE \/ teller[t].pc = "ack" /\ pjob' = [pjob EXCEPT ![j] = "sent"] /\ UNCHANGED dead
          \/ teller[t].pc = "throw" /\ pjob' = [pjob EXCEPT ![j] = "pending"] /\ UNCHANGED dead
          \/ /\ teller[t].pc \in {"throw", "permanent"}
             /\ pjob' = [pjob EXCEPT ![j] = "failed"] /\ dead' = dead \cup {j}
  /\ teller' = [teller EXCEPT ![t] = Idle]
  /\ UNCHANGED <<books, world, bank>>

\* A lease runs out under a run that goes on, or its process dies.
Lapse(t) ==
  /\ teller[t].live /\ lapses < MaxLapses
  /\ pjob' = [pjob EXCEPT ![teller[t].job] = "pending"]
  /\ \/ teller' = [teller EXCEPT ![t].live = FALSE]
     \/ teller' = [teller EXCEPT ![t] = Idle]
  /\ lapses' = lapses + 1
  /\ UNCHANGED <<books, refunded, frozen, dead, bank>>

-----------------------------------------------------------------------------
(* seller_payout_prepare                                                     *)

Prepare(t) ==
  /\ At(t, "prepare", "start")
  /\ LET s == Upserted(Calculated) IN
     IF Calculated.status = "ready" /\ s.status = "ready" /\ ~Batched
     THEN /\ batch' = [status |-> "batched", items |-> Payable, refunds |-> Cardinality(refunded)]
          /\ settlement' = MovedSettlement(s, "batched")
          /\ pjob' = Inserted("dispatch")
     ELSE settlement' = s /\ UNCHANGED <<batch, pjob>>
  /\ Goto(t, "ack")
  /\ UNCHANGED <<open, attested, dead, world, bank>>

-----------------------------------------------------------------------------
(* seller_payout_dispatch                                                    *)

\* The last look before the point of no return.
Drifted == Net # Expected \/ Cardinality(refunded) > batch.refunds \/ open # {}
\* Mutant of Phase1: a batch that is processing is dispatched once more.
Redispatch(t) ==
  /\ At(t, "dispatch", "start")
  /\ IF batch.status \in {"paid", "reconciled"} THEN Goto(t, "ack") /\ UNCHANGED books
     ELSE IF batch.status \notin {"batched", "processing"} THEN Goto(t, "permanent") /\ UNCHANGED books
     ELSE Advance("processing") /\ Goto(t, "create") /\ UNCHANGED <<open, attested>>
  /\ UNCHANGED <<pjob, dead, world, bank>>
Phase1(t) ==
  /\ At(t, "dispatch", "start")
  /\ \/ batch.status \in {"paid", "reconciled"} /\ Goto(t, "ack") /\ UNCHANGED books
     \/ batch.status = "processing" /\ Goto(t, "head") /\ UNCHANGED books
     \/ batch.status \in {"failed", "returned"} /\ Goto(t, "permanent") /\ UNCHANGED books
     \/ batch.status = "batched" /\ frozen /\ Goto(t, "throw") /\ UNCHANGED books
     \/ /\ batch.status = "batched" /\ ~frozen /\ Drifted
        /\ open' = open \cup {"settlement_changed_before_dispatch"}
        /\ Goto(t, "permanent") /\ UNCHANGED <<settlement, batch, attested>>
     \/ /\ batch.status = "batched" /\ ~frozen /\ ~Drifted
        /\ Advance("processing") /\ Goto(t, "create") /\ UNCHANGED <<open, attested>>
  /\ UNCHANGED <<pjob, dead, world, bank>>

Create(t) ==
  /\ At(t, "dispatch", "create") /\ requests.total < 2
  /\ requests' = [wire |-> 1, total |-> requests.total + 1]
  /\ Goto(t, "await")
  /\ UNCHANGED <<books, pjob, dead, world, payout>>

\* What the provider may say of the payout: the truth, or nothing conclusive.
Created(t) ==
  /\ At(t, "dispatch", "await")
  /\ \/ Note(t, "result", "unknown")
     \/ requests.wire = 0 /\ payout \in {"processing", "paid"} /\ Note(t, "result", payout)
     \/ requests.wire = 0 /\ payout = "failed" /\ Note(t, "result", "permanent_fail")
  /\ UNCHANGED <<books, pjob, dead, world, bank>>

\* Mutant of CreateResult: no answer is a refusal.
UnknownFails(t) ==
  /\ At(t, "dispatch", "result")
  /\ \/ /\ teller[t].seen \in {"processing", "paid"}
        /\ Accept(teller[t].seen) /\ Goto(t, "ack")
     \/ /\ teller[t].seen \in {"permanent_fail", "unknown"}
        /\ Advance("failed") /\ Goto(t, "ack") /\ UNCHANGED <<open, pjob>>
  /\ UNCHANGED <<attested, dead, world, bank>>
CreateResult(t) ==
  /\ At(t, "dispatch", "result")
  /\ \/ /\ teller[t].seen \in {"processing", "paid"}
        /\ Accept(teller[t].seen) /\ Goto(t, "ack")
     \/ /\ teller[t].seen = "permanent_fail"
        /\ Advance("failed") /\ Goto(t, "ack") /\ UNCHANGED <<open, pjob>>
     \/ /\ teller[t].seen = "unknown"
        /\ open' = open \cup {"dispatch_outcome_unknown"}
        /\ Goto(t, "throw") /\ UNCHANGED <<settlement, batch, pjob>>
  /\ UNCHANGED <<attested, dead, world, bank>>

\* lookupBatchPayoutStatus: its first read, its question, its transaction
FirstLook(t) ==
  /\ At(t, "dispatch", "head")
  /\ Goto(t, IF batch.status = "processing" THEN "ask" ELSE "ack")
  /\ UNCHANGED <<books, pjob, dead, world, bank>>

Ask(t) ==
  /\ At(t, "dispatch", "ask")
  /\ \/ Note(t, "look", "unknown")
     \/ requests.wire = 0 /\ payout # "none" /\ Note(t, "look", payout)
  /\ UNCHANGED <<books, pjob, dead, world, bank>>

Look(t) ==
  /\ At(t, "dispatch", "look")
  /\ \/ /\ batch.status # "processing"
        /\ Goto(t, "ack") /\ UNCHANGED <<settlement, batch, open, pjob>>
     \/ /\ batch.status = "processing" /\ teller[t].seen \in {"processing", "paid"}
        /\ Accept(teller[t].seen) /\ Goto(t, "ack")
     \/ /\ batch.status = "processing" /\ teller[t].seen \in {"failed", "returned"}
        /\ Advance(teller[t].seen)
        /\ open' = open \ {"dispatch_outcome_unknown"}
        /\ Goto(t, "ack") /\ UNCHANGED pjob
     \/ /\ batch.status = "processing" /\ teller[t].seen = "unknown"
        /\ open' = open \cup {"dispatch_outcome_unknown"}
        /\ Goto(t, "throw") /\ UNCHANGED <<settlement, batch, pjob>>
  /\ UNCHANGED <<attested, dead, world, bank>>

-----------------------------------------------------------------------------
(* seller_payout_reconcile                                                   *)

PhaseA(t) ==
  /\ At(t, "reconcile", "start")
  /\ \/ batch.status = "reconciled" /\ Goto(t, "ack")
     \/ batch.status \in {"failed", "returned"} /\ Goto(t, "permanent")
     \/ /\ batch.status \in {"processing", "paid"} /\ "dispatch_outcome_unknown" \in open
        /\ Goto(t, "permanent")
     \/ /\ batch.status \in {"processing", "paid"} /\ "dispatch_outcome_unknown" \notin open
        /\ teller' = [teller EXCEPT ![t].pc = "inquire", ![t].observed = Net]
  /\ UNCHANGED <<books, pjob, dead, world, bank>>

Inquire(t) ==
  /\ At(t, "reconcile", "inquire")
  /\ \E said \in {"unknown", "mismatched"} \cup (IF teller[t].observed = Expected THEN {"matched"} ELSE {}) :
       Note(t, "book", said)
  /\ UNCHANGED <<books, pjob, dead, world, bank>>

Book(t) ==
  /\ At(t, "reconcile", "book")
  /\ LET s == Upserted(CalculatedAlone)
         final == batch.status \in {"processing", "paid"}
         matched == teller[t].seen = "matched" /\ Net = Expected /\ Net = teller[t].observed IN
     \/ /\ teller[t].seen = "unknown"
        /\ settlement' = s /\ Goto(t, "throw") /\ UNCHANGED <<batch, open>>
     \/ /\ teller[t].seen # "unknown" /\ ~final
        /\ settlement' = s /\ Goto(t, "ack") /\ UNCHANGED <<batch, open>>
     \/ /\ final /\ matched
        /\ batch' = MovedBatch("reconciled") /\ settlement' = MovedSettlement(s, "reconciled")
        /\ open' = open \cap {"dispatch_outcome_unknown"} /\ Goto(t, "ack")
     \/ /\ teller[t].seen # "unknown" /\ final /\ ~matched
        /\ batch' = MovedBatch("failed") /\ settlement' = MovedSettlement(s, "failed")
        /\ open' = open \cup {IF Cardinality(refunded) > batch.refunds
                              THEN "refund_after_payout_dispatch" ELSE "amount_mismatch"}
        /\ Goto(t, "ack")
  /\ UNCHANGED <<attested, pjob, dead, world, bank>>

-----------------------------------------------------------------------------
(* What happens around the rail.                                             *)

\* resolveDispatchUnknownByAttestationInTx: the operator records what the
\* provider shows at that moment.
Attest ==
  /\ "dispatch_outcome_unknown" \in open /\ batch.status = "processing"
  /\ attested' = TRUE
  /\ \/ payout \in {"processing", "paid"} /\ Accept(payout)
     \/ /\ payout \in {"none", "failed"} /\ requests.wire = 0
        /\ Advance("failed") /\ open' = open \ {"dispatch_outcome_unknown"} /\ UNCHANGED pjob
  /\ UNCHANGED <<dead, teller, world, bank>>

\* refund_issued of a participant of the deal, pushed by the payment provider
RefundPayer(p) ==
  /\ p \notin refunded /\ refunded' = refunded \cup {p}
  /\ UNCHANGED <<frozen, books, pjob, dead, teller, lapses, bank>>

\* freeze_payouts, unfreeze_payouts, and the seller's settlement_status
Freeze ==
  /\ frozen' = ~frozen
  /\ UNCHANGED <<refunded, books, pjob, dead, teller, lapses, bank>>

\* The payout provider: a request arrives, a payout is settled.
Arrive ==
  /\ requests.wire = 1 /\ requests' = [requests EXCEPT !.wire = 0]
  /\ payout' \in (IF payout = "none" THEN {"processing", "paid", "failed"} ELSE {payout})
  /\ UNCHANGED <<books, pjob, dead, teller, world>>
Settle ==
  /\ payout = "processing" /\ payout' \in {"paid", "failed", "returned"}
  /\ UNCHANGED <<books, pjob, dead, teller, world, requests>>

PayoutNext ==
  \/ \E t \in Teller, j \in PayoutJob : TakeJob(t, j)
  \/ \E t \in Teller :
       \/ EndRun(t) \/ Lapse(t) \/ Prepare(t)
       \/ Phase1(t) \/ Create(t) \/ Created(t) \/ CreateResult(t)
       \/ FirstLook(t) \/ Ask(t) \/ Look(t)
       \/ PhaseA(t) \/ Inquire(t) \/ Book(t)
  \/ \E p \in Payer : RefundPayer(p)
  \/ Attest \/ Freeze \/ Arrive \/ Settle

PayoutSpec == PayoutInit /\ [][PayoutNext]_payoutVars

-----------------------------------------------------------------------------
(* Properties.                                                               *)

\* The provider is asked to pay a batch at most once, whatever is retried, lost
\* or answered late.
PaidOutOnce == requests.total <= 1

\* A batch that is booked as failed while its payout lives at the provider is
\* in front of an operator, unless an operator's word made it so; and once the
\* jobs of a batch are done, it is reconciled or refused, or someone has it before
\* them: an open case or a job in the dead-letter queue.  The settlement tells the
\* same story as its batch throughout, of one amount.
Quiet ==
  /\ \A j \in PayoutJob : pjob[j] \notin {"pending", "processing"}
  /\ \A t \in Teller : teller[t].pc = "free"
NoBatchForgotten ==
  /\ batch.status = "failed" /\ payout \in {"processing", "paid"} => open # {} \/ attested
  /\ Batched /\ Quiet => batch.status \in {"reconciled", "failed", "returned"} \/ open # {} \/ dead # {}
  /\ Batched => settlement.status = batch.status /\ settlement.amount = Expected
=============================================================================
