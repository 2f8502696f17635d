--------------------------- MODULE DealSettlement ---------------------------
(***************************************************************************)
(* What a decision owes the participants of a deal: the end of             *)
(* finalize_deal, the job refund_issue and the reconciliation of refunds   *)
(* (app.ts), with the rules of payment_attempt_helpers.ts for refunds.     *)
(*                                                                         *)
(* Which participants are captured is known when it starts: that a         *)
(* decision knows it is MoneyRails' DecisionKnowsTheMoney.  Each           *)
(* transaction and each call of the provider is a step.                    *)
(***************************************************************************)
EXTENDS Integers, FiniteSets

CONSTANTS
  Joiner,       \* the participants
  Needed,       \* captured participants that complete the deal
  Hand,         \* handler runs that may be under way at once
  MaxRefunds,   \* refund identities the model lets a participant have
  MaxMishaps    \* leases lost, jobs out of attempts and second refund identities, together

Task == {"finalize_deal", "refund_issue"} \cup Joiner   \* a joiner: his payment_reconcile
RefundId == 1..MaxRefunds

ASSUME SettlementAssumption ==
  /\ IsFiniteSet(Joiner) /\ Needed \in Nat /\ MaxRefunds \in Nat \ {0} /\ MaxMishaps \in Nat
  /\ Joiner \cap {"finalize_deal", "refund_issue", "none"} = {}
  /\ Hand \cap {"null", "gone"} = {}

VARIABLES
  paid,         \* the participants whose capture was executed, before the decision
  proves,       \* of the provider: a status without the refund proves there was none
  dealState,      \* deals.state
  joiner,       \* buyer_state
  purse,        \* money_state
  refund,       \* payment_attempts of type refund
  task, concerns,  \* outbox; the identity a payment_reconcile is about
  hand,         \* the handler runs
  flagged,      \* participants with an open case
  misjudged,    \* history: participants whose refund was concluded not to have run, and it had
  mishaps,      \* leases lost and jobs given up so far
  transit, paidBack   \* the provider: refunds requested and not yet executed; executed

settlementVars == <<paid, proves, dealState, joiner, purse, refund, task, concerns, hand, flagged, misjudged, mishaps, transit, paidBack>>
premises == <<paid, proves, misjudged, mishaps>>
outcome == <<dealState, joiner>>
outbox == <<task, concerns>>
till == <<transit, paidBack>>

Nobody == <<"none", 0>>
Free == [task |-> "none", pc |-> "free", live |-> FALSE, todo |-> {}, on |-> Nobody, seen |-> "none"]
NoRefund == [result |-> "none", dispatch |-> "recorded", owner |-> "null"]

SettlementTypeOK ==
  /\ paid \subseteq Joiner /\ proves \in BOOLEAN
  /\ dealState \in {"CompletionWindow", "Completed", "Failed"}
  /\ joiner \in [Joiner -> {"Charged", "Uncharged", "DealCompleted", "DealFailed"}]
  /\ purse \in [Joiner -> {"Captured", "Held", "Refunded"}]
  /\ refund \in [Joiner \X RefundId ->
       [result : {"none", "unknown", "success", "permanent_fail", "temporary_fail"},
        dispatch : {"recorded", "dispatching", "responded"}, owner : Hand \cup {"null", "gone"}]]
  /\ task \in [Task -> {"none", "pending", "processing", "sent", "dlq"}] /\ concerns \in [Joiner -> 0..MaxRefunds]
  /\ hand \in [Hand -> [task : Task \cup {"none"},
                        pc : {"free", "start", "decide", "list", "members", "refunds", "resolve", "arm", "send",
                              "await", "settle", "ingest", "reconcile", "flight", "status", "conclude", "rearm",
                              "ack", "throw", "give_up"},
                        live : BOOLEAN, todo : SUBSET Joiner,
                        on : (Joiner \X (0..MaxRefunds)) \cup {Nobody},
                        seen : {"none", "success", "permanent_fail", "unknown", "waiting"}]]
  /\ flagged \subseteq Joiner /\ misjudged \subseteq Joiner /\ mishaps \in 0..MaxMishaps
  /\ transit \subseteq Joiner \X RefundId /\ paidBack \subseteq Joiner \X RefundId

SettlementInit ==
  /\ paid \in SUBSET Joiner /\ proves \in BOOLEAN /\ dealState = "CompletionWindow"
  /\ joiner = [j \in Joiner |-> IF j \in paid THEN "Charged" ELSE "Uncharged"]
  /\ purse = [j \in Joiner |-> IF j \in paid THEN "Captured" ELSE "Held"]
  /\ refund = [i \in Joiner \X RefundId |-> NoRefund]
  /\ task = [t \in Task |-> IF t = "finalize_deal" THEN "pending" ELSE "none"]
  /\ concerns = [j \in Joiner |-> 0]
  /\ hand = [h \in Hand |-> Free]
  /\ flagged = {} /\ misjudged = {} /\ mishaps = 0 /\ transit = {} /\ paidBack = {}

-----------------------------------------------------------------------------
(* Jobs and runs, as in OutboxWorker.                                        *)

Doing(h, pc) == hand[h].pc = pc
Over == {"ack", "throw", "give_up"}
Moves(h, pc) ==
  hand' = [hand EXCEPT ![h].pc = pc,
                       ![h].seen = IF pc \in {"ingest", "conclude"} THEN @ ELSE "none",
                       ![h].todo = IF pc \in Over THEN {} ELSE @,
                       ![h].on = IF pc \in Over \cup {"refunds"} THEN Nobody ELSE @]
Works(h, pc, i) == hand' = [hand EXCEPT ![h].pc = pc, ![h].on = IF pc = "refunds" THEN Nobody ELSE i, ![h].todo = @ \ {i[1]}]
On(h) == hand[h].on
Alive(t) == task[t] \in {"pending", "processing"}
Enqueued(t) == IF Alive(t) THEN task ELSE [task EXCEPT ![t] = "pending"]

Spent == mishaps + Cardinality({i \in DOMAIN refund : i[2] > 1 /\ refund[i].result # "none"})

TakeTask(h, t) ==
  /\ Doing(h, "free") /\ task[t] = "pending"
  /\ task' = [task EXCEPT ![t] = "processing"]
  /\ hand' = [hand EXCEPT ![h] = [Free EXCEPT !.task = t, !.pc = "start", !.live = TRUE,
                                              !.on = IF t \in Joiner THEN <<t, concerns[t]>> ELSE @]]
  /\ UNCHANGED <<premises, outcome, purse, refund, concerns, flagged, till>>

\* The end of a run. What it left dispatching has no live owner any more.
Disown(h) == refund' = [i \in DOMAIN refund |-> IF refund[i].owner = h THEN [refund[i] EXCEPT !.owner = "gone"] ELSE refund[i]]
EndsWith(h, status) ==
  /\ task' = IF hand[h].live THEN [task EXCEPT ![hand[h].task] = status] ELSE task
  /\ hand' = [hand EXCEPT ![h] = Free] /\ Disown(h)
  /\ UNCHANGED <<paid, proves, misjudged, outcome, purse, concerns, till>>
HandAcks(h) == Doing(h, "ack") /\ EndsWith(h, "sent") /\ UNCHANGED <<flagged, mishaps>>
HandRetries(h) == Doing(h, "throw") /\ EndsWith(h, "pending") /\ UNCHANGED <<flagged, mishaps>>
HandGivesUp(h) == Doing(h, "give_up") /\ EndsWith(h, "dlq") /\ UNCHANGED <<flagged, mishaps>>
\* Out of attempts: the dead letter shows what was given up.
Exhausted(h) ==
  /\ Doing(h, "throw") /\ hand[h].live /\ Spent < MaxMishaps
  /\ mishaps' = mishaps + 1 /\ EndsWith(h, "dlq") /\ UNCHANGED flagged
\* A process that lost its lease may be gone; an exception comes anywhere.
HandDies(h) == ~Doing(h, "free") /\ ~hand[h].live /\ EndsWith(h, "none") /\ UNCHANGED <<flagged, mishaps>>
HandThrows(h) ==
  /\ hand[h].pc \notin {"free", "ack", "throw", "give_up", "send"} /\ On(h) \notin transit
  /\ Moves(h, "throw")
  /\ UNCHANGED <<premises, outcome, purse, refund, outbox, flagged, till>>
\* The lease outlasts the request (ProviderIoFenced).
LeaseLapses(h) ==
  /\ hand[h].live /\ ~Doing(h, "send") /\ On(h) \notin transit
  /\ Spent < MaxMishaps /\ mishaps' = mishaps + 1
  /\ hand' = [hand EXCEPT ![h].live = FALSE]
  /\ \E s \in {"pending", "dlq"} : task' = [task EXCEPT ![hand[h].task] = s]
  /\ UNCHANGED <<paid, proves, misjudged, outcome, purse, refund, concerns, flagged, till>>

-----------------------------------------------------------------------------
(* finalize_deal, from the decision on.                                      *)

\* The retry of a decided deal: a completed one is settled again, a failed one
\* is left as it is.
Resumes(v) == CASE v = "CompletionWindow" -> "decide" [] v = "Completed" -> "list" [] v = "Failed" -> "ack"
FinalizeBegins(h) ==
  /\ hand[h].task = "finalize_deal" /\ Doing(h, "start")
  /\ Moves(h, Resumes(dealState))
  /\ UNCHANGED <<premises, outcome, purse, refund, outbox, flagged, till>>

\* The compare-and-swap, or the replay of its key; the job that refunds is
\* inserted with the failure.
\* Mutant of DecideOutcome: it is inserted when the failure is committed.
DecideThenEnqueue(h) ==
  /\ Doing(h, "decide")
  /\ IF dealState = "CompletionWindow"
     THEN /\ dealState' = IF Cardinality(paid) >= Needed THEN "Completed" ELSE "Failed"
          /\ UNCHANGED <<task, hand>>
     ELSE /\ task' = IF dealState = "Failed" THEN Enqueued("refund_issue") ELSE task
          /\ Moves(h, "list") /\ UNCHANGED dealState
  /\ UNCHANGED <<premises, joiner, purse, refund, concerns, flagged, till>>
DecideOutcome(h) ==
  /\ Doing(h, "decide")
  /\ IF dealState = "CompletionWindow"
     THEN IF Cardinality(paid) >= Needed
          THEN dealState' = "Completed" /\ UNCHANGED task
          ELSE dealState' = "Failed" /\ task' = Enqueued("refund_issue")
     ELSE UNCHANGED <<dealState, task>>
  /\ Moves(h, "list")
  /\ UNCHANGED <<premises, joiner, purse, refund, concerns, flagged, till>>
\* failAllParticipantsForDeal and applyCompletedDealOutcome: one transaction per
\* participant, replayed when another run was faster.
ListMembers(h) ==
  /\ Doing(h, "list")
  /\ hand' = [hand EXCEPT ![h].pc = "members", ![h].todo = {j \in Joiner : joiner[j] \notin {"DealCompleted", "DealFailed"}}]
  /\ UNCHANGED <<premises, outcome, purse, refund, outbox, flagged, till>>
Owed(j) == IF dealState = "Completed" /\ j \in paid THEN "DealCompleted" ELSE "DealFailed"
SettleMember(h, j) ==
  /\ Doing(h, "members") /\ j \in hand[h].todo
  /\ joiner' = [joiner EXCEPT ![j] = Owed(j)]
  /\ hand' = [hand EXCEPT ![h].todo = @ \ {j}]
  /\ UNCHANGED <<premises, dealState, purse, refund, outbox, flagged, till>>
MembersSettled(h) ==
  /\ Doing(h, "members") /\ hand[h].todo = {}
  /\ Moves(h, "ack")
  /\ UNCHANGED <<premises, outcome, purse, refund, outbox, flagged, till>>

-----------------------------------------------------------------------------
(* refund_issue: whom the deal owes a refund, one after the other.           *)

LiveOwner(i) == refund[i].owner \in Hand /\ hand[refund[i].owner].live
InFlightRefund(i) == refund[i].result = "unknown" /\ refund[i].dispatch = "dispatching" /\ LiveOwner(i)
Minted(j) == {n \in RefundId : refund[<<j, n>>].result # "none"}
\* Mutant of Unresolved: what was executed is not unresolved.
UnresolvedIfUnknown(j) == {n \in Minted(j) : refund[<<j, n>>].result = "unknown"}
Unresolved(j) == {n \in Minted(j) : refund[<<j, n>>].result \in {"unknown", "success"}}

RefundBegins(h) ==
  /\ hand[h].task = "refund_issue" /\ Doing(h, "start")
  /\ hand' = [hand EXCEPT ![h].pc = "refunds", ![h].todo = {j \in Joiner : purse[j] = "Captured"}]
  /\ UNCHANGED <<premises, outcome, purse, refund, outbox, flagged, till>>
RefundsThrough(h) ==
  /\ Doing(h, "refunds") /\ hand[h].todo = {}
  /\ Moves(h, "ack")
  /\ UNCHANGED <<premises, outcome, purse, refund, outbox, flagged, till>>

\* beginProviderAttempt: no longer refundable; the identity of an earlier run;
\* or a new one.
RefundNotAdmitted(h, j) ==
  /\ Doing(h, "refunds") /\ j \in hand[h].todo /\ purse[j] # "Captured"
  /\ refund' = [i \in DOMAIN refund |->
       IF i[1] = j /\ refund[i].result = "unknown" /\ refund[i].dispatch = "recorded" /\ refund[i].owner = "null"
       THEN [refund[i] EXCEPT !.result = "temporary_fail"] ELSE refund[i]]
  /\ hand' = [hand EXCEPT ![h].todo = @ \ {j}]
  /\ UNCHANGED <<premises, outcome, purse, outbox, flagged, till>>
RefundAgain(h, j) ==
  /\ Doing(h, "refunds") /\ j \in hand[h].todo /\ purse[j] = "Captured"
  /\ \E n \in Unresolved(j) :
       Works(h, IF InFlightRefund(<<j, n>>) THEN "refunds"
                ELSE IF refund[<<j, n>>].result = "unknown" /\ refund[<<j, n>>].dispatch = "recorded" THEN "arm"
                ELSE "resolve", <<j, n>>)
  /\ UNCHANGED <<premises, outcome, purse, refund, outbox, flagged, till>>
RefundFresh(h, j) ==
  LET i == <<j, Cardinality(Minted(j)) + 1>> IN
  /\ Doing(h, "refunds") /\ j \in hand[h].todo /\ purse[j] = "Captured" /\ Unresolved(j) = {}
  /\ i[2] \in RefundId /\ (i[2] > 1 => Spent < MaxMishaps)          \* bounds: MaxRefunds, MaxMishaps
  /\ refund' = [refund EXCEPT ![i].result = "unknown"]
  /\ Works(h, "arm", i)
  /\ UNCHANGED <<premises, outcome, purse, outbox, flagged, till>>

\* What a status says. It is open ("pending") as long as it likes; captured is
\* final: nothing was refunded and nothing is on its way.
StatusOf(j) ==
  {"pending"} \cup (IF \E n \in RefundId : <<j, n>> \in paidBack THEN {"refunded"}
                    ELSE IF \E n \in RefundId : <<j, n>> \in transit THEN {} ELSE {"captured"})
\* The event refund_issued and the settlement of its identity.
Refunded(i) ==
  /\ purse' = [purse EXCEPT ![i[1]] = IF @ = "Captured" THEN "Refunded" ELSE @]
  /\ refund' = [refund EXCEPT ![i].result = "success", ![i].dispatch = "responded"]

\* resolvePriorProviderAttempt
ResolveRefunded(h) ==
  /\ Doing(h, "resolve") /\ "refunded" \in StatusOf(On(h)[1])
  /\ Refunded(On(h)) /\ Moves(h, "refunds")
  /\ UNCHANGED <<premises, outcome, outbox, flagged, till>>
ResolveOpen(h) ==
  /\ Doing(h, "resolve")
  /\ \/ "captured" \in StatusOf(On(h)[1]) /\ proves /\ Moves(h, "arm") /\ UNCHANGED flagged
     \/ "captured" \in StatusOf(On(h)[1]) /\ ~proves /\ Moves(h, "refunds") /\ flagged' = flagged \cup {On(h)[1]}
     \/ Moves(h, "reconcile") /\ UNCHANGED flagged
  /\ UNCHANGED <<premises, outcome, purse, refund, outbox, till>>

\* armMoneyOperation, the call and its settlement, as in MoneyRails
ArmRefund(h) ==
  LET i == On(h) IN
  /\ Doing(h, "arm")
  /\ IF ~hand[h].live THEN Moves(h, "throw") /\ UNCHANGED refund
     ELSE IF purse[i[1]] = "Captured" /\ refund[i].result = "unknown" /\ ~InFlightRefund(i)
     THEN Moves(h, "send") /\ refund' = [refund EXCEPT ![i].dispatch = "dispatching", ![i].owner = h]
     ELSE Moves(h, "refunds") /\ UNCHANGED refund
  /\ UNCHANGED <<premises, outcome, purse, outbox, flagged, till>>
SendRefund(h) ==
  /\ Doing(h, "send")
  /\ transit' = transit \cup ({On(h)} \ paidBack) /\ Moves(h, "await")
  /\ UNCHANGED <<premises, outcome, purse, refund, outbox, flagged, paidBack>>
RefundAnswered(h) ==
  /\ Doing(h, "await") /\ On(h) \notin transit
  /\ \E r \in {"unknown"} \cup (IF On(h) \in paidBack THEN {"success"} ELSE {"permanent_fail"}) :
       hand' = [hand EXCEPT ![h].pc = "settle", ![h].seen = r]
  /\ UNCHANGED <<premises, outcome, purse, refund, outbox, flagged, till>>
OwnsRefund(h) == refund[On(h)].owner \in {h, "null"}
ClosedRefund(i) == refund[i].result \in {"success", "permanent_fail"}
SettleRefund(h) ==
  LET i == On(h) IN
  /\ Doing(h, "settle")
  /\ \/ /\ hand[h].seen = "success"
        /\ refund' = [refund EXCEPT ![i].result = "success", ![i].dispatch = "responded"] /\ Moves(h, "ingest")
     \/ /\ hand[h].seen # "success" /\ ~OwnsRefund(h)
        /\ Moves(h, IF ~ClosedRefund(i) THEN "throw" ELSE IF hand[h].seen = "unknown" THEN "reconcile" ELSE "give_up")
        /\ UNCHANGED refund
     \/ /\ hand[h].seen # "success" /\ OwnsRefund(h)
        /\ refund' = [refund EXCEPT ![i].dispatch = "responded",
                                    ![i].result = IF ClosedRefund(i) THEN @ ELSE hand[h].seen]
        /\ Moves(h, IF hand[h].seen = "unknown" THEN "reconcile" ELSE "give_up")
  /\ UNCHANGED <<premises, outcome, purse, outbox, flagged, till>>
IngestRefund(h) ==
  /\ Doing(h, "ingest")
  /\ Refunded(On(h)) /\ Moves(h, "refunds")
  /\ UNCHANGED <<premises, outcome, outbox, flagged, till>>

\* schedulePaymentReconcile: one that is live for another identity opens a case
Scheduled(i) ==
  /\ task' = Enqueued(i[1])
  /\ concerns' = IF Alive(i[1]) THEN concerns ELSE [concerns EXCEPT ![i[1]] = i[2]]
  /\ flagged' = IF Alive(i[1]) /\ concerns[i[1]] # i[2] THEN flagged \cup {i[1]} ELSE flagged
ScheduleRefundReconcile(h) ==
  /\ Doing(h, "reconcile")
  /\ Scheduled(On(h)) /\ Moves(h, "refunds")
  /\ UNCHANGED <<premises, outcome, purse, refund, till>>

-----------------------------------------------------------------------------
(* payment_reconcile of a refund.                                            *)

\* A refund that was never sent is its rail's while that has a live job;
\* otherwise a case, or it is retired. A settled identity leaves the dealState to
\* an unresolved sibling.
RefundReconcileBegins(h) ==
  LET i == On(h)
      waiting == purse[i[1]] = "Captured"
      unsent == refund[i].result = "unknown" /\ refund[i].dispatch = "recorded"
      sibling == \E n \in RefundId : n # i[2] /\ refund[<<i[1], n>>].result = "unknown" IN
  /\ hand[h].task \in Joiner /\ Doing(h, "start")
  /\ \/ /\ ~unsent /\ (refund[i].result = "unknown" \/ (waiting /\ ~sibling))
        /\ hand' = [hand EXCEPT ![h].pc = "flight", ![h].seen = IF waiting THEN "waiting" ELSE "none"]
        /\ UNCHANGED <<refund, flagged>>
     \/ /\ ~unsent /\ refund[i].result # "unknown" /\ (~waiting \/ sibling)
        /\ Moves(h, "ack") /\ UNCHANGED <<refund, flagged>>
     \/ /\ unsent /\ Moves(h, "ack")
        /\ flagged' = (IF ~Alive("refund_issue") /\ waiting THEN flagged \cup {i[1]} ELSE flagged)
        /\ refund' = (IF ~Alive("refund_issue") /\ ~waiting /\ refund[i].owner = "null"
                      THEN [refund EXCEPT ![i].result = "temporary_fail"] ELSE refund)
  /\ UNCHANGED <<premises, outcome, purse, outbox, till>>
RefundReconcileLooks(h) ==
  /\ Doing(h, "flight")
  /\ IF \E n \in RefundId : InFlightRefund(<<On(h)[1], n>>) THEN Moves(h, "throw")
     ELSE hand' = [hand EXCEPT ![h].pc = "status"]
  /\ UNCHANGED <<premises, outcome, purse, refund, outbox, flagged, till>>
RefundReconcileReads(h) ==
  LET j == On(h)[1] IN
  /\ Doing(h, "status")
  /\ \/ "refunded" \in StatusOf(j) /\ Refunded(On(h)) /\ Moves(h, "ack") /\ UNCHANGED flagged
     \/ "captured" \in StatusOf(j) /\ proves /\ Moves(h, "conclude") /\ UNCHANGED <<purse, refund, flagged>>
     \/ "captured" \in StatusOf(j) /\ ~proves /\ Moves(h, "give_up")
        /\ flagged' = flagged \cup {j} /\ UNCHANGED <<purse, refund>>
     \/ Moves(h, "throw") /\ UNCHANGED <<purse, refund, flagged>>
  /\ UNCHANGED <<premises, outcome, outbox, till>>
\* The refund never executed: its identity is closed ...
RefundNeverExecuted(h) ==
  LET i == On(h)
      busy == \E n \in RefundId : InFlightRefund(<<i[1], n>>)
      closes == ~busy /\ ~ClosedRefund(i) IN
  /\ Doing(h, "conclude")
  /\ Moves(h, IF busy THEN "throw" ELSE IF hand[h].seen = "waiting" THEN "rearm" ELSE "ack")
  /\ refund' = IF closes THEN [refund EXCEPT ![i].result = "permanent_fail", ![i].dispatch = "responded"] ELSE refund
  /\ misjudged' = IF closes /\ i \in paidBack \cup transit THEN misjudged \cup {i[1]} ELSE misjudged
  /\ UNCHANGED <<paid, proves, mishaps, outcome, purse, outbox, flagged, till>>
\* ... and refund_issue armed again, if it is not live already.
RearmRefundIssue(h) ==
  /\ Doing(h, "rearm")
  /\ task' = Enqueued("refund_issue") /\ Moves(h, "ack")
  /\ UNCHANGED <<premises, outcome, purse, refund, concerns, flagged, till>>

-----------------------------------------------------------------------------
(* Worker maintenance, and the provider.                                     *)

RescheduleStalled ==
  /\ dealState = "CompletionWindow" /\ ~Alive("finalize_deal")
  /\ task' = Enqueued("finalize_deal")
  /\ UNCHANGED <<premises, outcome, purse, refund, concerns, hand, flagged, till>>
ReconcileOrphanedRefund(i) ==
  /\ refund[i].result = "unknown" /\ ~LiveOwner(i) /\ ~Alive(i[1])
  /\ Scheduled(i)
  /\ UNCHANGED <<premises, outcome, purse, refund, hand, till>>
ExecuteRefund(i) ==
  /\ i \in transit
  /\ transit' = transit \ {i} /\ paidBack' = paidBack \cup {i}
  /\ UNCHANGED <<premises, outcome, purse, refund, outbox, hand, flagged>>
LoseRefund(i) ==
  /\ i \in transit
  /\ transit' = transit \ {i}
  /\ UNCHANGED <<premises, outcome, purse, refund, outbox, hand, flagged, paidBack>>
RefundCallback(i) ==
  /\ i \in paidBack
  /\ Refunded(i)
  /\ UNCHANGED <<premises, outcome, outbox, hand, flagged, till>>

HandSteps(h) ==
  \/ \E t \in Task : TakeTask(h, t)
  \/ HandAcks(h) \/ HandRetries(h) \/ HandGivesUp(h) \/ Exhausted(h) \/ HandDies(h) \/ HandThrows(h) \/ LeaseLapses(h)
  \/ FinalizeBegins(h) \/ DecideOutcome(h) \/ ListMembers(h) \/ (\E j \in Joiner : SettleMember(h, j)) \/ MembersSettled(h)
  \/ RefundBegins(h) \/ RefundsThrough(h)
  \/ \E j \in Joiner : RefundNotAdmitted(h, j) \/ RefundAgain(h, j) \/ RefundFresh(h, j)
  \/ ResolveRefunded(h) \/ ResolveOpen(h) \/ ArmRefund(h) \/ SendRefund(h) \/ RefundAnswered(h) \/ SettleRefund(h)
  \/ IngestRefund(h) \/ ScheduleRefundReconcile(h)
  \/ RefundReconcileBegins(h) \/ RefundReconcileLooks(h) \/ RefundReconcileReads(h) \/ RefundNeverExecuted(h) \/ RearmRefundIssue(h)
SettlementNext ==
  \/ \E h \in Hand : HandSteps(h)
  \/ RescheduleStalled
  \/ \E i \in Joiner \X RefundId : ReconcileOrphanedRefund(i) \/ ExecuteRefund(i) \/ LoseRefund(i) \/ RefundCallback(i)
SettlementSpec == SettlementInit /\ [][SettlementNext]_settlementVars

-----------------------------------------------------------------------------
(* Properties.                                                               *)

PaidBack(j) == {n \in RefundId : <<j, n>> \in paidBack}
\* tests/payment_provider_operation_identity_crash_validation.ts:10: money never
\* goes out twice for one participant.
PaidBackOnce == \A j \in Joiner : Cardinality(PaidBack(j)) <= 1

\* A captured participant is paid back when the deal failed and once, whatever
\* was repeated, timed out or raced, unless a reconcile took a status that was
\* out of date for the proof that his refund never ran.
PaidBackTwiceOnlyIfMisjudged ==
  \A j \in Joiner :
    /\ j \notin misjudged => Cardinality(PaidBack(j)) <= 1
    /\ PaidBack(j) # {} => dealState = "Failed" /\ j \in paid
    /\ purse[j] = "Refunded" => PaidBack(j) # {}

\* Nothing is under way for participant j, nor will be.
AtRest(j) ==
  /\ \A h \in Hand : Doing(h, "free")
  /\ \A t \in {"finalize_deal", "refund_issue", j} : task[t] \in {"none", "sent"}
  /\ \A n \in RefundId : refund[<<j, n>>].result # "unknown"
\* The provider paid him back (it tells so until it is heard), or an operator is
\* told.
Cared(j) == (\E n \in RefundId : <<j, n>> \in paidBack) \/ j \in flagged
\* A completed deal whose last job is done has completed every participant that
\* paid and failed every other, however often that job stopped half-way (F-14).
\* When nothing is under way any more, a participant that a failed deal charged
\* is paid back or before an operator, whatever crashed, was lost or was refused a
\* job of its own; but for one whose refund was concluded not to have run, whose
\* refund_issue may be lost (app.ts:2657).
NobodyForgotten ==
  /\ dealState = "Completed" /\ task["finalize_deal"] = "sent" =>
       \A j \in Joiner : joiner[j] = IF j \in paid THEN "DealCompleted" ELSE "DealFailed"
  /\ dealState = "Failed" =>
       \A j \in paid : AtRest(j) => Cared(j) \/ \E n \in RefundId : refund[<<j, n>>].result = "permanent_fail"
=============================================================================
