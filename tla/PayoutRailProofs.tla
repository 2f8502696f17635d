-------------------------- MODULE PayoutRailProofs --------------------------
(***************************************************************************)
(* Proofs about the payout rail: the types of its state, that the provider *)
(* is asked to pay a batch at most once, and that no batch is forgotten.   *)
(*                                                                         *)
(* The proofs rest on the order in which things come to exist: a batch     *)
(* before the job that dispatches it, a payout before the job that         *)
(* reconciles it, a word of the provider before the verdict that quotes    *)
(* it, and on what cannot be taken back once it is there.                  *)
(***************************************************************************)
EXTENDS PayoutRail, FiniteSetTheorems, TLAPS

Dispatching == {"create", "await", "result", "head", "ask", "look"}
Reconciling == {"inquire", "book"}
Undispatched == {"absent", "batched"}
Refused == {"failed", "returned"}

\* A run is where its job's handler can be, and its job has been armed.
Shapes ==
  \A t \in Teller :
    /\ teller[t].live => teller[t].pc # "free"
    /\ teller[t].pc # "free" => teller[t].job \in PayoutJob /\ pjob[teller[t].job] # "none"
    /\ teller[t].pc \in Dispatching => teller[t].job = "dispatch"
    /\ teller[t].pc \in Reconciling => teller[t].job = "reconcile"

\* A batch is made whole: there is no job about it before it, nor a reconcile
\* before its dispatch, a dispatch that went past its first transaction finds it
\* dispatched, and the settlement tells its story.
Made ==
  /\ batch.status \notin {"pending", "ready"}
  /\ batch.status = "absent" => pjob["dispatch"] = "none"
  /\ batch.status \in Undispatched => pjob["reconcile"] = "none"
  /\ \A t \in Teller :
       teller[t].job = "dispatch" /\ teller[t].pc \notin {"free", "start", "throw", "permanent"} =>
         batch.status \notin Undispatched
  /\ ~Batched => settlement.status \in PreBatch
  /\ Batched => settlement.status = batch.status /\ settlement.amount = Expected

\* There is one permission to call the provider, and a call uses it up.
OnePermit ==
  /\ batch.status \in Undispatched => requests.total = 0
  /\ \A t \in Teller : teller[t].pc = "create" => requests.total = 0
  /\ \A t, u \in Teller : teller[t].pc = "create" /\ teller[u].pc = "create" => t = u
  /\ requests.total <= 1

\* What a run was told of the payout is final at the provider, or moves on.
Told ==
  /\ \A t \in Teller : teller[t].pc \in {"result", "look"} =>
       /\ teller[t].seen = "permanent_fail" => payout = "failed"
       /\ teller[t].seen \in {"paid", "failed", "returned"} => payout = teller[t].seen
       /\ teller[t].seen = "processing" => payout # "none"
  /\ pjob["reconcile"] # "none" => payout # "none"

\* A case that only a reconcile that matches can close.
Case == open \ {"dispatch_outcome_unknown"} # {}

\* A batch is booked as refused by an operator, with a case, or rightly; by the
\* first only while nothing was reconciling.
Grounds ==
  /\ batch.status \in Refused => attested \/ Case \/ payout \in Refused
  /\ \A t \in Teller : teller[t].pc \in Reconciling /\ batch.status \in Refused => Case \/ payout \in Refused

\* The reconcile of the batch has nothing left to do.
Closed == batch.status = "reconciled" \/ Case \/ (batch.status \in Refused /\ payout \in Refused)

Active(j) == pjob[j] \in {"pending", "processing"}

\* Who has the batch: a job, an operator, or nobody needs to.
Held ==
  /\ (\E j \in PayoutJob : pjob[j] = "failed") => dead # {}
  /\ batch.status = "batched" => Active("dispatch") \/ dead # {}
  /\ batch.status \in {"processing", "paid"} =>
       Active("dispatch") \/ Active("reconcile") \/ open # {} \/ dead # {}
  /\ batch.status = "paid" => pjob["reconcile"] # "none"
  /\ batch.status = "processing" =>
       \A t \in Teller : teller[t].job = "dispatch" /\ teller[t].pc = "ack" => pjob["reconcile"] # "none"
  /\ pjob["reconcile"] = "sent" => Closed
  /\ \A t \in Teller : teller[t].job = "reconcile" /\ teller[t].pc = "ack" => Closed

PayoutInv == PayoutTypeOK /\ Shapes /\ Made /\ OnePermit /\ Told /\ Grounds /\ Held

-----------------------------------------------------------------------------
(* What the operators say.                                                   *)

\* The lifecycle of a settlement, rank by rank.
LEMMA Ranks ==
  /\ Rank["pending"] = 0 /\ Rank["ready"] = 0 /\ Rank["batched"] = 2 /\ Rank["processing"] = 3
  /\ Rank["failed"] = 4 /\ Rank["returned"] = 4 /\ Rank["paid"] = 5 /\ Rank["reconciled"] = 6
BY DEF Rank, PayoutStatus

\* Sums over payers are between nothing and everybody.
LEMMA Amounts ==
  ASSUME PayoutTypeOK
  PROVE  /\ Net \in 0..Cardinality(Payer)
         /\ Cardinality(refunded) \in 0..Cardinality(Payer)
         /\ Cardinality(Payer) \in Nat
<1>1. IsFiniteSet(Payer) BY PayoutAssumption
<1>2. \A S \in SUBSET Payer : Cardinality(S) \in 0..Cardinality(Payer)
  BY <1>1, FS_Subset, FS_CardinalityType
<1>3. refunded \in SUBSET Payer /\ Payable \in SUBSET Payer BY DEF PayoutTypeOK, Payable
<1>4. QED BY <1>1, <1>2, <1>3, FS_CardinalityType DEF Net

\* A batch only moves forward, and a settlement beside it does the same.
LEMMA Forward ==
  ASSUME PayoutTypeOK, NEW to \in {"processing", "failed", "returned", "paid", "reconciled"}
  PROVE  /\ MovedBatch(to) \in [status : PayoutStatus \cup {"absent"}, items : SUBSET Payer, refunds : 0..Cardinality(Payer)]
         /\ MovedBatch(to).items = batch.items
         /\ MovedBatch(to).status \in {batch.status, to}
         /\ batch.status = "batched" => MovedBatch(to).status = to
         /\ batch.status = "processing" => MovedBatch(to).status = to
         /\ batch.status \in Refused => MovedBatch(to).status \in {batch.status, "paid", "reconciled"}
         /\ batch.status = "paid" => MovedBatch(to).status \in {"paid", "reconciled"}
         /\ batch.status = "reconciled" => MovedBatch(to).status = "reconciled"
         /\ \A s \in [status : PayoutStatus \cup {"absent"}, amount : 0..Cardinality(Payer)] :
              /\ MovedSettlement(s, to) \in [status : PayoutStatus \cup {"absent"}, amount : 0..Cardinality(Payer)]
              /\ MovedSettlement(s, to).amount = s.amount
              /\ s.status = batch.status => MovedSettlement(s, to).status = MovedBatch(to).status
<1>1. batch \in [status : PayoutStatus \cup {"absent"}, items : SUBSET Payer, refunds : 0..Cardinality(Payer)]
  BY DEF PayoutTypeOK
<1>2. to \in PayoutStatus BY DEF PayoutStatus
<1>3. ASSUME NEW s \in [status : PayoutStatus \cup {"absent"}, amount : 0..Cardinality(Payer)]
      PROVE  /\ MovedSettlement(s, to) \in [status : PayoutStatus \cup {"absent"}, amount : 0..Cardinality(Payer)]
             /\ MovedSettlement(s, to).amount = s.amount
             /\ s.status = batch.status => MovedSettlement(s, to).status = MovedBatch(to).status
  BY <1>1, <1>2, <1>3 DEF MovedSettlement, MovedBatch
<1>4. QED BY <1>1, <1>2, <1>3, Ranks DEF MovedBatch, CanAdvance, Refused, PayoutStatus

\* A settlement that is calculated anew keeps its type; a settlement under a
\* batch does not change by it.
LEMMA Recalculated ==
  ASSUME PayoutTypeOK,
         NEW s \in [status : {"pending", "ready"}, amount : 0..Cardinality(Payer)]
  PROVE  /\ Upserted(s) \in [status : PayoutStatus \cup {"absent"}, amount : 0..Cardinality(Payer)]
         /\ settlement.status \notin PreBatch => Upserted(s) = settlement
         /\ settlement.status \in PreBatch => Upserted(s) = s
<1>1. settlement \in [status : PayoutStatus \cup {"absent"}, amount : 0..Cardinality(Payer)]
  BY DEF PayoutTypeOK
<1>2. QED BY <1>1, Ranks DEF Upserted, CanAdvance, PreBatch, PayoutStatus

\* What a deal without a batch is worth to its seller.
LEMMA Worth ==
  ASSUME PayoutTypeOK
  PROVE  /\ CalculatedAlone \in [status : {"pending", "ready"}, amount : 0..Cardinality(Payer)]
         /\ ~Batched => Calculated = CalculatedAlone
         /\ CalculatedAlone.status = "ready" => CalculatedAlone.amount = Net
BY Amounts DEF CalculatedAlone, Calculated

-----------------------------------------------------------------------------
(* What a step moves.                                                        *)

Points == {"free", "start", "create", "await", "result", "head", "ask", "look",
           "inquire", "book", "ack", "throw", "permanent"}
RunRecord == [job : PayoutJob \cup {"none"}, pc : Points, live : BOOLEAN, seen : Answer,
              observed : 0..Cardinality(Payer)]
BatchRecord == [status : PayoutStatus \cup {"absent"}, items : SUBSET Payer, refunds : 0..Cardinality(Payer)]
SettlementRecord == [status : PayoutStatus \cup {"absent"}, amount : 0..Cardinality(Payer)]
JobTable == [PayoutJob -> {"none", "pending", "processing", "sent", "failed"}]

\* The type of the state, by these names.
LEMMA Types ==
  ASSUME PayoutTypeOK
  PROVE  /\ refunded \subseteq Payer /\ frozen \in BOOLEAN
         /\ settlement \in SettlementRecord /\ batch \in BatchRecord
         /\ open \subseteq CaseType /\ attested \in BOOLEAN
         /\ pjob \in JobTable /\ dead \subseteq PayoutJob
         /\ teller \in [Teller -> RunRecord] /\ lapses \in 0..MaxLapses
         /\ payout \in {"none", "processing", "paid", "failed", "returned"}
         /\ requests \in [wire : 0..1, total : 0..2]
BY DEF PayoutTypeOK, SettlementRecord, BatchRecord, JobTable, RunRecord, Points

\* The types after a step, by these names.
LEMMA TypesNext ==
  ASSUME refunded' \subseteq Payer, frozen' \in BOOLEAN,
         settlement' \in SettlementRecord, batch' \in BatchRecord,
         open' \subseteq CaseType, attested' \in BOOLEAN,
         pjob' \in JobTable, dead' \subseteq PayoutJob,
         teller' \in [Teller -> RunRecord], lapses' \in 0..MaxLapses,
         payout' \in {"none", "processing", "paid", "failed", "returned"},
         requests' \in [wire : 0..1, total : 0..2]
  PROVE  PayoutTypeOK'
BY DEF PayoutTypeOK, SettlementRecord, BatchRecord, JobTable, RunRecord, Points

\* The run of one slot goes to another point of its handler, and nothing else of it changes.
LEMMA Going ==
  ASSUME PayoutTypeOK, NEW t \in Teller, NEW pc \in Points, Goto(t, pc)
  PROVE  /\ teller' \in [Teller -> RunRecord]
         /\ teller'[t].pc = pc /\ teller'[t].job = teller[t].job /\ teller'[t].live = teller[t].live
         /\ teller'[t].seen = teller[t].seen
         /\ \A u \in Teller \ {t} : teller'[u] = teller[u]
<1>1. teller \in [Teller -> RunRecord] BY Types
<1>2. teller[t] \in RunRecord BY <1>1
<1>3. [teller[t] EXCEPT !.pc = pc] \in RunRecord BY <1>2 DEF RunRecord
<1>4. teller' = [teller EXCEPT ![t] = [teller[t] EXCEPT !.pc = pc]] BY <1>1 DEF Goto
<1>5. teller' \in [Teller -> RunRecord] /\ teller'[t] = [teller[t] EXCEPT !.pc = pc]
      /\ \A u \in Teller \ {t} : teller'[u] = teller[u]
  BY <1>1, <1>3, <1>4
<1>6. QED BY <1>2, <1>5 DEF RunRecord

\* ... or goes there with an answer.
LEMMA Noting ==
  ASSUME PayoutTypeOK, NEW t \in Teller, NEW pc \in Points, NEW seen \in Answer, Note(t, pc, seen)
  PROVE  /\ teller' \in [Teller -> RunRecord]
         /\ teller'[t].pc = pc /\ teller'[t].job = teller[t].job /\ teller'[t].live = teller[t].live
         /\ teller'[t].seen = seen
         /\ \A u \in Teller \ {t} : teller'[u] = teller[u]
<1>1. teller \in [Teller -> RunRecord] BY Types
<1>2. teller[t] \in RunRecord BY <1>1
<1> DEFINE told == [teller[t] EXCEPT !.pc = pc, !.seen = seen]
<1>3. told \in RunRecord BY <1>2 DEF RunRecord
<1>4. teller' = [teller EXCEPT ![t] = told] BY <1>1 DEF Note
<1>5. teller' \in [Teller -> RunRecord] /\ teller'[t] = told
      /\ \A u \in Teller \ {t} : teller'[u] = teller[u]
  BY <1>1, <1>3, <1>4
<1>6. QED BY <1>2, <1>5 DEF RunRecord

\* ... or goes to inquire, with the amount it has just looked up.
LEMMA Observing ==
  ASSUME PayoutTypeOK, NEW t \in Teller,
         teller' = [teller EXCEPT ![t].pc = "inquire", ![t].observed = Net]
  PROVE  /\ teller' \in [Teller -> RunRecord]
         /\ teller'[t].pc = "inquire" /\ teller'[t].job = teller[t].job /\ teller'[t].live = teller[t].live
         /\ \A u \in Teller \ {t} : teller'[u] = teller[u]
<1>1. teller \in [Teller -> RunRecord] /\ Net \in 0..Cardinality(Payer) BY Types, Amounts
<1>2. teller[t] \in RunRecord BY <1>1
<1> DEFINE asks == [teller[t] EXCEPT !.pc = "inquire", !.observed = Net]
<1>3. /\ asks \in RunRecord /\ asks.pc = "inquire" /\ asks.job = teller[t].job
      /\ asks.live = teller[t].live
  BY <1>1, <1>2 DEF RunRecord, Points
<1>4. teller' = [teller EXCEPT ![t] = asks] BY <1>1
<1> HIDE DEF asks
<1>5. QED BY <1>1, <1>3, <1>4

\* A job is taken by a free slot.
LEMMA Taking ==
  ASSUME PayoutTypeOK, NEW t \in Teller, NEW j \in PayoutJob, TakeJob(t, j)
  PROVE  /\ teller' \in [Teller -> RunRecord]
         /\ teller'[t].pc = "start" /\ teller'[t].job = j /\ teller'[t].live
         /\ \A u \in Teller \ {t} : teller'[u] = teller[u]
         /\ pjob' \in JobTable /\ pjob[j] = "pending" /\ pjob'[j] = "processing"
         /\ \A k \in PayoutJob \ {j} : pjob'[k] = pjob[k]
<1>1. teller \in [Teller -> RunRecord] /\ pjob \in JobTable /\ 0 \in 0..Cardinality(Payer) BY Types, Amounts
<1> DEFINE taken == [Idle EXCEPT !.job = j, !.pc = "start", !.live = TRUE]
<1>2. Idle \in RunRecord BY <1>1 DEF Idle, RunRecord, Points, Answer
<1>3. taken \in RunRecord /\ taken.job = j /\ taken.pc = "start" /\ taken.live
  BY <1>2 DEF RunRecord, Points
<1>4. teller' \in [Teller -> RunRecord] /\ teller'[t] = taken /\ \A u \in Teller \ {t} : teller'[u] = teller[u]
  BY <1>1, <1>3 DEF TakeJob
<1>5. pjob' \in JobTable /\ pjob[j] = "pending" /\ pjob'[j] = "processing"
      /\ \A k \in PayoutJob \ {j} : pjob'[k] = pjob[k]
  BY <1>1 DEF TakeJob, JobTable
<1>6. QED BY <1>3, <1>4, <1>5

\* A run ends: its slot is free, and the row of its job is what the run made of
\* it, or what it was.
LEMMA Ending ==
  ASSUME PayoutTypeOK, NEW t \in Teller, EndRun(t), teller[t].job \in PayoutJob
  PROVE  /\ teller' \in [Teller -> RunRecord]
         /\ teller'[t].pc = "free" /\ teller'[t].job = "none" /\ ~teller'[t].live
         /\ \A u \in Teller \ {t} : teller'[u] = teller[u]
         /\ pjob' \in JobTable
         /\ \A k \in PayoutJob \ {teller[t].job} : pjob'[k] = pjob[k]
         /\ dead \subseteq dead' /\ dead' \subseteq PayoutJob
         /\ \/ pjob'[teller[t].job] = pjob[teller[t].job]
            \/ pjob'[teller[t].job] = "sent" /\ teller[t].pc = "ack"
            \/ pjob'[teller[t].job] = "pending"
            \/ pjob'[teller[t].job] = "failed" /\ dead' # {}
<1> DEFINE j == teller[t].job
<1>1. teller \in [Teller -> RunRecord] /\ pjob \in JobTable /\ 0 \in 0..Cardinality(Payer)
      /\ dead \subseteq PayoutJob
  BY Types, Amounts
<1>2. Idle \in RunRecord BY <1>1 DEF Idle, RunRecord, Points, Answer
<1>3. teller' \in [Teller -> RunRecord] /\ teller'[t] = Idle /\ \A u \in Teller \ {t} : teller'[u] = teller[u]
  BY <1>1, <1>2 DEF EndRun
<1>4. \/ pjob' = pjob /\ dead' = dead
      \/ teller[t].pc = "ack" /\ pjob' = [pjob EXCEPT ![j] = "sent"] /\ dead' = dead
      \/ pjob' = [pjob EXCEPT ![j] = "pending"] /\ dead' = dead
      \/ pjob' = [pjob EXCEPT ![j] = "failed"] /\ dead' = dead \cup {j}
  BY DEF EndRun
<1>5. j \in PayoutJob OBVIOUS
<1> HIDE DEF j
<1>6. /\ pjob' \in JobTable /\ \A k \in PayoutJob \ {j} : pjob'[k] = pjob[k]
      /\ dead \subseteq dead' /\ dead' \subseteq PayoutJob
      /\ \/ pjob'[j] = pjob[j]
         \/ pjob'[j] = "sent" /\ teller[t].pc = "ack"
         \/ pjob'[j] = "pending"
         \/ pjob'[j] = "failed" /\ dead' # {}
  BY <1>1, <1>4, <1>5 DEF JobTable
<1>7. QED BY <1>3, <1>6 DEF Idle, j

\* A lease or a process is lost: the job is pending again, and its run goes on
\* without it or not at all.
LEMMA Lapsing ==
  ASSUME PayoutTypeOK, NEW t \in Teller, Lapse(t), teller[t].job \in PayoutJob
  PROVE  /\ teller' \in [Teller -> RunRecord] /\ ~teller'[t].live
         /\ \/ /\ teller'[t].pc = teller[t].pc /\ teller'[t].job = teller[t].job
               /\ teller'[t].seen = teller[t].seen
            \/ teller'[t].pc = "free" /\ teller'[t].job = "none"
         /\ \A u \in Teller \ {t} : teller'[u] = teller[u]
         /\ pjob' \in JobTable /\ pjob'[teller[t].job] = "pending"
         /\ \A k \in PayoutJob \ {teller[t].job} : pjob'[k] = pjob[k]
         /\ lapses' \in 0..MaxLapses
<1>1. teller \in [Teller -> RunRecord] /\ pjob \in JobTable /\ 0 \in 0..Cardinality(Payer)
      /\ lapses \in 0..MaxLapses
  BY Types, Amounts
<1>2. Idle \in RunRecord BY <1>1 DEF Idle, RunRecord, Points, Answer
<1>3. teller[t] \in RunRecord BY <1>1
<1> DEFINE stale == [teller[t] EXCEPT !.live = FALSE]
<1>4. /\ stale \in RunRecord /\ ~stale.live /\ stale.pc = teller[t].pc /\ stale.job = teller[t].job
      /\ stale.seen = teller[t].seen
  BY <1>3 DEF RunRecord
<1>5. teller' = [teller EXCEPT ![t] = stale] \/ teller' = [teller EXCEPT ![t] = Idle]
  BY <1>1 DEF Lapse
<1>6. /\ teller' \in [Teller -> RunRecord] /\ teller'[t] \in {stale, Idle}
      /\ \A u \in Teller \ {t} : teller'[u] = teller[u]
  <2>1. CASE teller' = [teller EXCEPT ![t] = stale] BY <2>1, <1>1, <1>4
  <2>2. CASE teller' = [teller EXCEPT ![t] = Idle] BY <2>2, <1>1, <1>2
  <2>3. QED BY <1>5, <2>1, <2>2
<1>7. pjob' \in JobTable /\ pjob'[teller[t].job] = "pending"
      /\ \A k \in PayoutJob \ {teller[t].job} : pjob'[k] = pjob[k]
  BY <1>1 DEF Lapse, JobTable
<1>8. lapses' \in 0..MaxLapses BY <1>1, PayoutAssumption DEF Lapse
<1>9. QED
  <2>1. ~Idle.live /\ Idle.pc = "free" /\ Idle.job = "none" BY DEF Idle
  <2>2. QED BY <1>4, <1>6, <1>7, <1>8, <2>1

\* A job that is inserted is there afterwards, and was not given up.
LEMMA Inserting ==
  ASSUME PayoutTypeOK, NEW j \in PayoutJob
  PROVE  /\ Inserted(j) \in JobTable
         /\ Inserted(j)[j] \in {"pending", "processing", "sent"}
         /\ Inserted(j)[j] = "sent" => pjob[j] = "sent"
         /\ \A k \in PayoutJob \ {j} : Inserted(j)[k] = pjob[k]
<1>1. pjob \in JobTable BY Types
<1>2. QED BY <1>1 DEF Inserted, JobTable

\* The provider's acceptance is booked: batch and settlement move together, the
\* question what became of the dispatch is closed, and a reconcile is armed.
LEMMA Accepting ==
  ASSUME PayoutTypeOK, NEW status \in {"processing", "paid"}, Accept(status)
  PROVE  /\ batch' = MovedBatch(status) /\ settlement' = MovedSettlement(settlement, status)
         /\ batch' \in BatchRecord /\ settlement' \in SettlementRecord
         /\ open' = open \ {"dispatch_outcome_unknown"} /\ open' \subseteq CaseType
         /\ pjob' = Inserted("reconcile") /\ pjob' \in JobTable
<1>1. settlement \in SettlementRecord /\ open \subseteq CaseType BY Types
<1>2. "reconcile" \in PayoutJob BY DEF PayoutJob
<1>3. QED BY <1>1, <1>2, Forward, Inserting DEF Accept, Advance, BatchRecord, SettlementRecord

\* Batch and settlement advance together.
LEMMA Advancing ==
  ASSUME PayoutTypeOK, NEW to \in {"processing", "failed", "returned", "paid", "reconciled"}, Advance(to)
  PROVE  batch' = MovedBatch(to) /\ settlement' = MovedSettlement(settlement, to)
         /\ batch' \in BatchRecord /\ settlement' \in SettlementRecord
<1>1. settlement \in SettlementRecord BY Types
<1>2. QED BY <1>1, Forward DEF Advance, BatchRecord, SettlementRecord

\* What a transaction that prepares a batch makes of the books.
LEMMA Preparing ==
  ASSUME PayoutTypeOK, Made, NEW t \in Teller, Prepare(t)
  PROVE  /\ batch' \in BatchRecord /\ settlement' \in SettlementRecord /\ pjob' \in JobTable
         /\ \/ /\ batch' = batch /\ pjob' = pjob
               /\ Batched => settlement' = settlement
               /\ ~Batched => settlement'.status \in PreBatch
            \/ /\ ~Batched /\ batch'.status = "batched" /\ pjob' = Inserted("dispatch")
               /\ settlement'.status = "batched" /\ settlement'.amount = Cardinality(batch'.items)
<1> DEFINE s == Upserted(Calculated)
<1>1. settlement \in SettlementRecord /\ batch \in BatchRecord /\ pjob \in JobTable BY Types
<1>2. CASE Batched
  <2>1. Calculated = [status |-> batch.status, amount |-> 0] BY <1>2 DEF Calculated
  <2>2. s = settlement
    <3>1. settlement.status = batch.status /\ settlement.status \notin PreBatch
      BY <1>1, <1>2 DEF Made, Batched, PreBatch, BatchRecord, PayoutStatus
    <3>2. [status |-> settlement.status, amount |-> settlement.amount] = settlement
      BY <1>1 DEF SettlementRecord
    <3>3. QED BY <2>1, <3>1, <3>2 DEF Upserted
  <2>3. batch' = batch /\ pjob' = pjob /\ settlement' = settlement BY <1>2, <2>2 DEF Prepare
  <2>4. QED BY <1>1, <1>2, <2>3
<1>3. CASE ~Batched
  <2>1. Calculated = CalculatedAlone /\ CalculatedAlone \in [status : {"pending", "ready"}, amount : 0..Cardinality(Payer)]
    BY <1>3, Worth
  <2>2. settlement.status \in PreBatch BY <1>3 DEF Made
  <2>3. s = CalculatedAlone BY <2>1, <2>2, Recalculated
  <2>4. s \in SettlementRecord /\ s.status \in PreBatch BY <2>1, <2>3 DEF SettlementRecord, PayoutStatus, PreBatch
  <2>5. CASE Calculated.status = "ready" /\ s.status = "ready"
    <3>1. batch' = [status |-> "batched", items |-> Payable, refunds |-> Cardinality(refunded)]
          /\ settlement' = MovedSettlement(s, "batched") /\ pjob' = Inserted("dispatch")
      BY <1>3, <2>5 DEF Prepare
    <3>2. settlement' = [s EXCEPT !.status = "batched"] BY <2>5, <3>1, Ranks DEF MovedSettlement, CanAdvance
    <3>3. settlement' \in SettlementRecord /\ settlement'.status = "batched" /\ settlement'.amount = s.amount
      BY <2>4, <3>2 DEF SettlementRecord, PayoutStatus
    <3>4. s.amount = Net BY <2>1, <2>3, <2>5, Worth
    <3>5. batch' \in BatchRecord BY <3>1, Amounts DEF BatchRecord, Payable, PayoutStatus
    <3>6. pjob' \in JobTable BY <3>1, Inserting DEF PayoutJob
    <3>7. settlement'.amount = Cardinality(batch'.items) BY <3>1, <3>3, <3>4 DEF Net
    <3>8. batch'.status = "batched" BY <3>1
    <3>9. QED BY <1>3, <3>1, <3>3, <3>5, <3>6, <3>7, <3>8
  <2>6. CASE ~(Calculated.status = "ready" /\ s.status = "ready")
    <3>1. batch' = batch /\ pjob' = pjob /\ settlement' = s BY <2>6 DEF Prepare
    <3>2. QED BY <1>1, <1>3, <2>4, <3>1
  <2>7. QED BY <2>5, <2>6
<1>4. QED BY <1>2, <1>3

\* What the transaction of a reconcile makes of the books of a batch.
LEMMA Booking ==
  ASSUME PayoutTypeOK, Made, Batched, NEW t \in Teller, Book(t)
  PROVE  /\ batch' \in BatchRecord /\ settlement' \in SettlementRecord /\ open' \subseteq CaseType
         /\ \/ /\ batch' = batch /\ settlement' = settlement /\ open' = open
               /\ \/ Goto(t, "throw")
                  \/ Goto(t, "ack") /\ batch.status \notin {"processing", "paid"}
            \/ /\ batch.status \in {"processing", "paid"} /\ Goto(t, "ack")
               /\ batch' = MovedBatch("reconciled") /\ settlement' = MovedSettlement(settlement, "reconciled")
            \/ /\ batch.status \in {"processing", "paid"} /\ Goto(t, "ack")
               /\ batch' = MovedBatch("failed") /\ settlement' = MovedSettlement(settlement, "failed")
               /\ open \subseteq open' /\ open' \ {"dispatch_outcome_unknown"} # {}
<1> DEFINE s == Upserted(CalculatedAlone)
<1>1. settlement \in SettlementRecord /\ batch \in BatchRecord /\ open \subseteq CaseType BY Types
<1>2. settlement.status \notin PreBatch
  BY <1>1 DEF Made, Batched, PreBatch, BatchRecord, PayoutStatus
<1>3. s = settlement BY <1>2, Worth, Recalculated
<1> HIDE DEF s
<1>4. \/ settlement' = s /\ Goto(t, "throw") /\ UNCHANGED <<batch, open>>
      \/ batch.status \notin {"processing", "paid"} /\ settlement' = s /\ Goto(t, "ack") /\ UNCHANGED <<batch, open>>
      \/ /\ batch.status \in {"processing", "paid"}
         /\ batch' = MovedBatch("reconciled") /\ settlement' = MovedSettlement(s, "reconciled")
         /\ open' = open \cap {"dispatch_outcome_unknown"} /\ Goto(t, "ack")
      \/ /\ batch.status \in {"processing", "paid"}
         /\ batch' = MovedBatch("failed") /\ settlement' = MovedSettlement(s, "failed")
         /\ open' = open \cup {IF Cardinality(refunded) > batch.refunds
                               THEN "refund_after_payout_dispatch" ELSE "amount_mismatch"}
         /\ Goto(t, "ack")
  BY DEF Book, s
<1>5. (IF Cardinality(refunded) > batch.refunds THEN "refund_after_payout_dispatch" ELSE "amount_mismatch")
        \in CaseType \ {"dispatch_outcome_unknown"}
  BY DEF CaseType
<1>6. /\ MovedBatch("reconciled") \in BatchRecord /\ MovedSettlement(settlement, "reconciled") \in SettlementRecord
      /\ MovedBatch("failed") \in BatchRecord /\ MovedSettlement(settlement, "failed") \in SettlementRecord
  BY <1>1, Forward DEF BatchRecord, SettlementRecord
<1>7. QED BY <1>1, <1>3, <1>4, <1>5, <1>6

\* A run that is under way has a job, that of its handler; before the batch is
\* made there is nothing to dispatch or to reconcile.
LEMMA Running ==
  ASSUME PayoutTypeOK, Shapes, Made, NEW t \in Teller
  PROVE  /\ teller[t] \in RunRecord
         /\ teller[t].pc # "free" => teller[t].job \in PayoutJob
         /\ teller[t].job \in PayoutJob => PayoutJob \ {teller[t].job} \subseteq PayoutJob
         /\ teller[t].pc # "free" /\ teller[t].job \in {"dispatch", "reconcile"} => Batched
<1>1. teller[t] \in RunRecord BY Types
<1>2. QED BY <1>1 DEF Shapes, Made, Batched, Undispatched

\* Every action keeps the types.
LEMMA TypeStep ==
  ASSUME PayoutTypeOK, Shapes, Made, OnePermit, PayoutNext
  PROVE  PayoutTypeOK'
<1> USE Types DEF books, world, bank
<1>1. ASSUME NEW t \in Teller, NEW j \in PayoutJob, TakeJob(t, j) PROVE PayoutTypeOK'
  <2>1. teller' \in [Teller -> RunRecord] /\ pjob' \in JobTable BY <1>1, Taking
  <2>2. QED BY <1>1, <2>1, TypesNext DEF TakeJob
<1>2. ASSUME NEW t \in Teller, EndRun(t) PROVE PayoutTypeOK'
  <2>1. teller[t].job \in PayoutJob BY <1>2 DEF EndRun, Shapes
  <2>2. teller' \in [Teller -> RunRecord] /\ pjob' \in JobTable /\ dead' \subseteq PayoutJob BY <1>2, <2>1, Ending
  <2>3. QED BY <1>2, <2>2, TypesNext DEF EndRun
<1>3. ASSUME NEW t \in Teller, Lapse(t) PROVE PayoutTypeOK'
  <2>1. teller[t].job \in PayoutJob BY <1>3 DEF Lapse, Shapes
  <2>2. teller' \in [Teller -> RunRecord] /\ pjob' \in JobTable /\ lapses' \in 0..MaxLapses BY <1>3, <2>1, Lapsing
  <2>3. QED BY <1>3, <2>2, TypesNext DEF Lapse
<1>4. ASSUME NEW t \in Teller, Prepare(t) PROVE PayoutTypeOK'
  <2>1. batch' \in BatchRecord /\ settlement' \in SettlementRecord /\ pjob' \in JobTable BY <1>4, Preparing
  <2>2. teller' \in [Teller -> RunRecord] BY <1>4, Going DEF Prepare, Points
  <2>3. QED BY <1>4, <2>1, <2>2, TypesNext DEF Prepare
<1>5. ASSUME NEW t \in Teller, Phase1(t) PROVE PayoutTypeOK'
  <2>1. teller' \in [Teller -> RunRecord]
    BY <1>5, Going DEF Phase1, Points
  <2>2. batch' \in BatchRecord /\ settlement' \in SettlementRecord /\ open' \subseteq CaseType
    BY <1>5, Advancing DEF Phase1, CaseType
  <2>3. QED BY <1>5, <2>1, <2>2, TypesNext DEF Phase1
<1>6. ASSUME NEW t \in Teller, Create(t) PROVE PayoutTypeOK'
  <2>1. teller' \in [Teller -> RunRecord] BY <1>6, Going DEF Create, Points
  <2>2. requests' \in [wire : 0..1, total : 0..2] BY <1>6 DEF Create
  <2>3. QED BY <1>6, <2>1, <2>2, TypesNext DEF Create
<1>7. ASSUME NEW t \in Teller, Created(t) PROVE PayoutTypeOK'
  <2>1. PICK seen \in Answer : Note(t, "result", seen) BY <1>7 DEF Created, Answer
  <2>2. teller' \in [Teller -> RunRecord] BY <2>1, Noting DEF Points
  <2>3. QED BY <1>7, <2>2, TypesNext DEF Created
<1>8. ASSUME NEW t \in Teller, CreateResult(t) PROVE PayoutTypeOK'
  <2>1. teller' \in [Teller -> RunRecord] BY <1>8, Going DEF CreateResult, Points
  <2>2. /\ batch' \in BatchRecord /\ settlement' \in SettlementRecord
        /\ open' \subseteq CaseType /\ pjob' \in JobTable
    BY <1>8, Accepting, Advancing DEF CreateResult, CaseType
  <2>3. QED BY <1>8, <2>1, <2>2, TypesNext DEF CreateResult
<1>9. ASSUME NEW t \in Teller, FirstLook(t) PROVE PayoutTypeOK'
  <2>1. PICK pc \in Points : Goto(t, pc) BY <1>9 DEF FirstLook, Points
  <2>2. teller' \in [Teller -> RunRecord] BY <2>1, Going
  <2>3. QED BY <1>9, <2>2, TypesNext DEF FirstLook
<1>10. ASSUME NEW t \in Teller, Ask(t) PROVE PayoutTypeOK'
  <2>1. PICK seen \in Answer : Note(t, "look", seen) BY <1>10 DEF Ask, Answer
  <2>2. teller' \in [Teller -> RunRecord] BY <2>1, Noting DEF Points
  <2>3. QED BY <1>10, <2>2, TypesNext DEF Ask
<1>11. ASSUME NEW t \in Teller, Look(t) PROVE PayoutTypeOK'
  <2>1. teller' \in [Teller -> RunRecord] BY <1>11, Going DEF Look, Points
  <2>2. /\ batch' \in BatchRecord /\ settlement' \in SettlementRecord
        /\ open' \subseteq CaseType /\ pjob' \in JobTable
    BY <1>11, Accepting, Advancing DEF Look, CaseType
  <2>3. QED BY <1>11, <2>1, <2>2, TypesNext DEF Look
<1>12. ASSUME NEW t \in Teller, PhaseA(t) PROVE PayoutTypeOK'
  <2>1. teller' \in [Teller -> RunRecord]
    <3>1. CASE Goto(t, "ack") \/ Goto(t, "permanent") BY <3>1, Going DEF Points
    <3>2. CASE teller' = [teller EXCEPT ![t].pc = "inquire", ![t].observed = Net]
      BY <3>2, Observing
    <3>3. QED BY <1>12, <3>1, <3>2 DEF PhaseA
  <2>2. QED BY <1>12, <2>1, TypesNext DEF PhaseA
<1>13. ASSUME NEW t \in Teller, Inquire(t) PROVE PayoutTypeOK'
  <2>1. PICK seen \in Answer : Note(t, "book", seen) BY <1>13 DEF Inquire, Answer
  <2>2. teller' \in [Teller -> RunRecord] BY <2>1, Noting DEF Points
  <2>3. QED BY <1>13, <2>2, TypesNext DEF Inquire
<1>14. ASSUME NEW t \in Teller, Book(t) PROVE PayoutTypeOK'
  <2>1. Batched BY <1>14, Running DEF Book, At
  <2>2. batch' \in BatchRecord /\ settlement' \in SettlementRecord /\ open' \subseteq CaseType BY <1>14, <2>1, Booking
  <2>3. teller' \in [Teller -> RunRecord] BY <1>14, Going DEF Book, Points
  <2>4. QED BY <1>14, <2>2, <2>3, TypesNext DEF Book
<1>15. ASSUME NEW p \in Payer, RefundPayer(p) PROVE PayoutTypeOK'
  BY <1>15, TypesNext DEF RefundPayer
<1>16. ASSUME Attest PROVE PayoutTypeOK'
  <2>1. /\ batch' \in BatchRecord /\ settlement' \in SettlementRecord
        /\ open' \subseteq CaseType /\ pjob' \in JobTable /\ attested' \in BOOLEAN
    BY <1>16, Accepting, Advancing DEF Attest
  <2>2. QED BY <1>16, <2>1, TypesNext DEF Attest
<1>17. ASSUME Freeze PROVE PayoutTypeOK' BY <1>17, TypesNext DEF Freeze
<1>18. ASSUME Arrive PROVE PayoutTypeOK'
  <2>1. requests' \in [wire : 0..1, total : 0..2]
        /\ payout' \in {"none", "processing", "paid", "failed", "returned"}
    BY <1>18 DEF Arrive
  <2>2. QED BY <1>18, <2>1, TypesNext DEF Arrive
<1>19. ASSUME Settle PROVE PayoutTypeOK' BY <1>19, TypesNext DEF Settle
<1>20. QED
  BY <1>1, <1>2, <1>3, <1>4, <1>5, <1>6, <1>7, <1>8, <1>9, <1>10, <1>11, <1>12, <1>13, <1>14,
     <1>15, <1>16, <1>17, <1>18, <1>19 DEF PayoutNext

\* The parts of the invariant beside the types.
Rest == Shapes /\ Made /\ OnePermit /\ Told /\ Grounds /\ Held

\* A job that is taken.
LEMMA TakeKeeps ==
  ASSUME PayoutInv, NEW t \in Teller, NEW j \in PayoutJob, TakeJob(t, j)
  PROVE  Rest'
<1> USE DEF books, world, bank
<1>1. /\ UNCHANGED <<settlement, batch, open, attested, dead, payout, requests>>
      /\ teller[t].pc = "free"
      /\ teller'[t].pc = "start" /\ teller'[t].job = j
      /\ \A u \in Teller \ {t} : teller'[u] = teller[u]
      /\ pjob[j] = "pending" /\ pjob'[j] = "processing" /\ \A k \in PayoutJob \ {j} : pjob'[k] = pjob[k]
  <2>1. PayoutTypeOK BY DEF PayoutInv
  <2>2. UNCHANGED <<settlement, batch, open, attested, dead, payout, requests>> /\ teller[t].pc = "free"
    BY DEF TakeJob
  <2>3. QED BY <2>1, <2>2, Taking
<1>2. Shapes' BY <1>1 DEF PayoutInv, Shapes, Dispatching, Reconciling
<1>3. Made' BY <1>1 DEF PayoutInv, Made, Batched, Expected, PayoutJob
<1>4. OnePermit' BY <1>1 DEF PayoutInv, OnePermit
<1>5. Told' BY <1>1 DEF PayoutInv, Told, PayoutJob
<1>6. Grounds' BY <1>1 DEF PayoutInv, Grounds, Case, Reconciling
<1>7. Held' BY <1>1 DEF PayoutInv, Held, Closed, Case, Active, PayoutJob
<1>8. QED BY <1>2, <1>3, <1>4, <1>5, <1>6, <1>7 DEF Rest

\* A run that ends.
LEMMA EndKeeps ==
  ASSUME PayoutInv, NEW t \in Teller, EndRun(t)
  PROVE  Rest'
<1> USE DEF books, world, bank
<1>1. teller[t].job \in PayoutJob /\ pjob[teller[t].job] # "none" BY DEF EndRun, PayoutInv, Shapes
<1>2. /\ UNCHANGED <<settlement, batch, open, attested, payout, requests>>
      /\ teller'[t].pc = "free" /\ teller'[t].job = "none" /\ ~teller'[t].live
      /\ \A u \in Teller \ {t} : teller'[u] = teller[u]
      /\ \A k \in PayoutJob \ {teller[t].job} : pjob'[k] = pjob[k]
      /\ dead \subseteq dead'
      /\ \/ pjob'[teller[t].job] = pjob[teller[t].job]
         \/ pjob'[teller[t].job] = "sent" /\ teller[t].pc = "ack"
         \/ pjob'[teller[t].job] = "pending"
         \/ pjob'[teller[t].job] = "failed" /\ dead' # {}
  BY <1>1, Ending DEF EndRun, PayoutInv
<1>3. Shapes' BY <1>1, <1>2 DEF PayoutInv, Shapes, Dispatching, Reconciling
<1>4. Made' BY <1>1, <1>2 DEF PayoutInv, Made, Batched, Expected, PayoutJob
<1>5. OnePermit' BY <1>1, <1>2 DEF PayoutInv, OnePermit
<1>6. Told' BY <1>1, <1>2 DEF PayoutInv, Told, PayoutJob
<1>7. Grounds' BY <1>1, <1>2 DEF PayoutInv, Grounds, Case, Reconciling
<1>8. Held'
  <2>1. pjob \in JobTable BY Types DEF PayoutInv
  <2>2. Case' = Case /\ Closed' = Closed BY <1>2 DEF Case, Closed
  <2>3. teller[t].job = "dispatch" /\ teller[t].pc = "ack" =>
          batch.status \notin Undispatched /\ (batch.status = "processing" => pjob["reconcile"] # "none")
    BY DEF PayoutInv, Made, Held
  <2>4. teller[t].job = "reconcile" /\ teller[t].pc = "ack" => Closed BY DEF PayoutInv, Held
  <2>5. Closed /\ batch.status \in {"processing", "paid"} => open # {} BY DEF Closed, Case, Refused
  <2>6. (\E j \in PayoutJob : pjob'[j] = "failed") => dead' # {} BY <1>1, <1>2 DEF PayoutInv, Held
  <2>7. batch'.status = "batched" => Active("dispatch")' \/ dead' # {}
    BY <1>1, <1>2, <2>3 DEF PayoutInv, Held, Active, PayoutJob, Undispatched
  <2>8. pjob'["reconcile"] = "sent" => Closed' BY <1>1, <1>2, <2>2, <2>4 DEF PayoutInv, Held, PayoutJob
  <2>9. batch'.status = "paid" => pjob'["reconcile"] # "none" BY <1>1, <1>2 DEF PayoutInv, Held, PayoutJob
  <2>10. batch'.status \in {"processing", "paid"} =>
          Active("dispatch")' \/ Active("reconcile")' \/ open' # {} \/ dead' # {}
    <3>1. SUFFICES ASSUME batch.status \in {"processing", "paid"}, open = {}, dead' = {},
                          teller[t].job \in {"dispatch", "reconcile"}
                   PROVE  Active("dispatch")' \/ Active("reconcile")'
      BY <1>1, <1>2 DEF PayoutInv, Held, Active, PayoutJob
    <3>2. ~Closed BY <2>5, <3>1
    <3>3. CASE teller[t].job = "dispatch"
      BY <1>1, <1>2, <2>1, <2>3, <3>1, <3>2, <3>3 DEF PayoutInv, Held, Active, PayoutJob, JobTable
    <3>4. CASE teller[t].job = "reconcile"
      BY <1>1, <1>2, <2>4, <3>1, <3>2, <3>4 DEF PayoutInv, Held, Active, PayoutJob
    <3>5. QED BY <3>1, <3>3, <3>4
  <2>11. \A u \in Teller : teller'[u].job = "dispatch" /\ teller'[u].pc = "ack" /\ batch'.status = "processing" =>
           pjob'["reconcile"] # "none"
    BY <1>1, <1>2 DEF PayoutInv, Held, PayoutJob
  <2>12. \A u \in Teller : teller'[u].job = "reconcile" /\ teller'[u].pc = "ack" => Closed'
    BY <1>2, <2>2 DEF PayoutInv, Held
  <2>13. QED BY <2>6, <2>7, <2>8, <2>9, <2>10, <2>11, <2>12 DEF Held
<1>9. QED BY <1>3, <1>4, <1>5, <1>6, <1>7, <1>8 DEF Rest

\* A lease or a process that is lost.
LEMMA LapseKeeps ==
  ASSUME PayoutInv, NEW t \in Teller, Lapse(t)
  PROVE  Rest'
<1> USE DEF books, world, bank
<1>1. teller[t].job \in PayoutJob BY DEF Lapse, PayoutInv, Shapes
<1>2. /\ UNCHANGED <<settlement, batch, open, attested, dead, payout, requests>>
      /\ ~teller'[t].live
      /\ \/ /\ teller'[t].pc = teller[t].pc /\ teller'[t].job = teller[t].job
            /\ teller'[t].seen = teller[t].seen
         \/ teller'[t].pc = "free" /\ teller'[t].job = "none"
      /\ \A u \in Teller \ {t} : teller'[u] = teller[u]
      /\ pjob'[teller[t].job] = "pending"
      /\ \A k \in PayoutJob \ {teller[t].job} : pjob'[k] = pjob[k]
      /\ pjob[teller[t].job] # "none"
  BY <1>1, Lapsing DEF Lapse, PayoutInv, Shapes
<1>3. Shapes' BY <1>1, <1>2 DEF PayoutInv, Shapes, Dispatching, Reconciling
<1>4. Made' BY <1>1, <1>2 DEF PayoutInv, Made, Batched, Expected, PayoutJob
<1>5. OnePermit' BY <1>1, <1>2 DEF PayoutInv, OnePermit
<1>6. Told' BY <1>1, <1>2 DEF PayoutInv, Told, PayoutJob
<1>7. Grounds' BY <1>1, <1>2 DEF PayoutInv, Grounds, Case, Reconciling
<1>8. Held' BY <1>1, <1>2 DEF PayoutInv, Held, Closed, Case, Active, PayoutJob
<1>9. QED BY <1>3, <1>4, <1>5, <1>6, <1>7, <1>8 DEF Rest

\* A batch that is prepared.
LEMMA PrepareKeeps ==
  ASSUME PayoutInv, NEW t \in Teller, Prepare(t)
  PROVE  Rest'
<1> USE DEF books, world, bank
<1>1. /\ UNCHANGED <<open, attested, dead, payout, requests>>
      /\ teller[t].pc = "start" /\ teller[t].job = "prepare"
      /\ teller'[t].pc = "ack" /\ teller'[t].job = "prepare" /\ teller'[t].live = teller[t].live
      /\ \A u \in Teller \ {t} : teller'[u] = teller[u]
  BY Going DEF Prepare, At, PayoutInv, Points
<1>2. batch \in BatchRecord /\ settlement \in SettlementRecord /\ pjob \in JobTable BY Types DEF PayoutInv
<1>3. CASE batch' = batch /\ pjob' = pjob /\ (Batched => settlement' = settlement)
           /\ (~Batched => settlement'.status \in PreBatch)
  <2>1. Shapes' BY <1>1, <1>3 DEF PayoutInv, Shapes, Dispatching, Reconciling
  <2>2. Made' BY <1>1, <1>3 DEF PayoutInv, Made, Batched, Expected, PayoutJob
  <2>3. OnePermit' BY <1>1, <1>3 DEF PayoutInv, OnePermit
  <2>4. Told' BY <1>1, <1>3 DEF PayoutInv, Told, PayoutJob
  <2>5. Grounds' BY <1>1, <1>3 DEF PayoutInv, Grounds, Case, Reconciling
  <2>6. Held' BY <1>1, <1>3 DEF PayoutInv, Held, Closed, Case, Active, PayoutJob
  <2>7. QED BY <2>1, <2>2, <2>3, <2>4, <2>5, <2>6 DEF Rest
<1>4. CASE /\ ~Batched /\ batch'.status = "batched" /\ pjob' = Inserted("dispatch")
           /\ settlement'.status = "batched" /\ settlement'.amount = Cardinality(batch'.items)
  <2>1. batch.status = "absent" BY <1>4 DEF Batched
  <2>2. pjob'["dispatch"] = "pending" /\ pjob'["reconcile"] = "none" /\ pjob'["prepare"] = pjob["prepare"]
       /\ pjob["reconcile"] = "none"
    BY <2>1, <1>2, <1>4 DEF PayoutInv, Made, Inserted, PayoutJob, JobTable, Undispatched
  <2>3. Shapes' BY <1>1, <2>2 DEF PayoutInv, Shapes, Dispatching, Reconciling, PayoutJob
  <2>4. Made' BY <1>1, <1>4, <2>1, <2>2 DEF PayoutInv, Shapes, Made, Batched, Expected, PayoutJob, Undispatched
  <2>5. OnePermit' BY <1>1, <1>4, <2>1 DEF PayoutInv, OnePermit, Undispatched
  <2>6. Told' BY <1>1, <2>2 DEF PayoutInv, Told, PayoutJob
  <2>7. Grounds' BY <1>1, <1>4 DEF PayoutInv, Grounds, Case, Refused
  <2>8. Held' BY <1>1, <1>4, <2>1, <2>2 DEF PayoutInv, Made, Shapes, Held, Closed, Case, Active, PayoutJob
  <2>9. QED BY <2>3, <2>4, <2>5, <2>6, <2>7, <2>8 DEF Rest
<1>5. QED BY <1>3, <1>4, Preparing DEF PayoutInv

\* The first transaction of a dispatch: it gives the permission to call the
\* provider, to one run.
LEMMA Phase1Keeps ==
  ASSUME PayoutInv, NEW t \in Teller, Phase1(t)
  PROVE  Rest'
<1> USE DEF books, world, bank
<1>1. /\ UNCHANGED <<attested, pjob, dead, payout, requests>>
      /\ teller[t].pc = "start" /\ teller[t].job = "dispatch"
      /\ teller'[t].job = "dispatch" /\ teller'[t].live = teller[t].live
      /\ \A u \in Teller \ {t} : teller'[u] = teller[u]
  BY Going DEF Phase1, At, PayoutInv, Points
<1>2. batch \in BatchRecord /\ settlement \in SettlementRecord /\ pjob \in JobTable BY Types DEF PayoutInv
<1>3. pjob["dispatch"] # "none" /\ batch.status # "absent" BY <1>1 DEF PayoutInv, Shapes, Made
<1>4. CASE /\ UNCHANGED <<batch, settlement>> /\ open \subseteq open'
           /\ (open' = open \/ open' = open \cup {"settlement_changed_before_dispatch"})
           /\ teller'[t].pc \in {"ack", "head", "permanent", "throw"}
           /\ teller'[t].pc \in {"ack", "head"} => batch.status \notin Undispatched
           /\ teller'[t].pc = "ack" => batch.status # "processing"
  <2>1. Shapes' BY <1>1, <1>3, <1>4 DEF PayoutInv, Shapes, Dispatching, Reconciling, PayoutJob
  <2>2. Made' BY <1>1, <1>4 DEF PayoutInv, Made, Batched, Expected
  <2>3. OnePermit' BY <1>1, <1>4 DEF PayoutInv, OnePermit
  <2>4. Told' BY <1>1, <1>4 DEF PayoutInv, Told
  <2>5. Grounds' BY <1>1, <1>4 DEF PayoutInv, Grounds, Case, Reconciling
  <2>6. Held' BY <1>1, <1>4 DEF PayoutInv, Held, Closed, Case, Active
  <2>7. QED BY <2>1, <2>2, <2>3, <2>4, <2>5, <2>6 DEF Rest
<1>5. CASE batch.status = "batched" /\ Advance("processing") /\ open' = open /\ teller'[t].pc = "create"
  <2>1. /\ batch'.status = "processing" /\ batch'.items = batch.items
        /\ settlement'.status = "processing" /\ settlement'.amount = settlement.amount
    BY <1>2, <1>5, Advancing, Forward DEF PayoutInv, Made, Batched, BatchRecord, SettlementRecord
  <2>2. \A u \in Teller \ {t} : teller[u].pc # "create"
    BY <1>5 DEF PayoutInv, Made, Shapes, Dispatching, Undispatched
  <2>3. Shapes' BY <1>1, <1>3, <1>5 DEF PayoutInv, Shapes, Dispatching, Reconciling, PayoutJob
  <2>4. Made' BY <1>1, <1>5, <2>1 DEF PayoutInv, Made, Batched, Expected, Undispatched
  <2>5. OnePermit' BY <1>1, <1>5, <2>1, <2>2 DEF PayoutInv, OnePermit, Undispatched
  <2>6. Told' BY <1>1, <1>5 DEF PayoutInv, Told
  <2>7. Grounds' BY <1>1, <1>5, <2>1 DEF PayoutInv, Grounds, Case, Refused
  <2>8. Held'
    <3>1. \A u \in Teller : ~(teller'[u].job = "dispatch" /\ teller'[u].pc = "ack")
      BY <1>1, <1>5 DEF PayoutInv, Made, Undispatched
    <3>2. Active("dispatch") \/ dead # {} BY <1>5 DEF PayoutInv, Held
    <3>3. ~(pjob["reconcile"] = "sent" \/ \E u \in Teller : teller[u].job = "reconcile" /\ teller[u].pc = "ack") \/ Case
      BY <1>5 DEF PayoutInv, Held, Closed, Refused
    <3>4. QED BY <1>1, <1>5, <2>1, <3>1, <3>2, <3>3 DEF PayoutInv, Held, Closed, Case, Active
  <2>9. QED BY <2>3, <2>4, <2>5, <2>6, <2>7, <2>8 DEF Rest
<1>6. QED
  <2>1. \A pc \in Points : Goto(t, pc) => teller'[t].pc = pc BY Going DEF PayoutInv
  <2>2. QED BY <1>3, <1>4, <1>5, <2>1 DEF Phase1, Points, Undispatched

\* A run that goes on with an answer or without one, and changes nothing else.
LEMMA ReadKeeps ==
  ASSUME PayoutInv, NEW t \in Teller, teller[t].pc # "free",
         UNCHANGED <<settlement, batch, open, attested, pjob, dead, payout, requests>>,
         \A u \in Teller \ {t} : teller'[u] = teller[u],
         teller'[t].job = teller[t].job, teller'[t].live = teller[t].live,
         teller'[t].pc \notin {"free", "create"},
         teller'[t].pc \in Dispatching => teller[t].job = "dispatch",
         teller'[t].pc \in Reconciling => teller[t].job = "reconcile",
         teller[t].job = "dispatch" /\ teller'[t].pc \notin {"start", "throw", "permanent"} =>
           batch.status \notin Undispatched,
         teller'[t].pc \in {"result", "look"} =>
           /\ teller'[t].seen = "permanent_fail" => payout = "failed"
           /\ teller'[t].seen \in {"paid", "failed", "returned"} => payout = teller'[t].seen
           /\ teller'[t].seen = "processing" => payout # "none",
         teller'[t].pc \in Reconciling /\ batch.status \in Refused => Case \/ payout \in Refused,
         teller[t].job = "dispatch" /\ teller'[t].pc = "ack" => batch.status # "processing",
         teller[t].job = "reconcile" /\ teller'[t].pc = "ack" => Closed
  PROVE  Rest'
<1>1. Shapes' BY DEF PayoutInv, Shapes
<1>2. Made' BY DEF PayoutInv, Made, Batched, Expected
<1>3. OnePermit' BY DEF PayoutInv, OnePermit
<1>4. Told' BY DEF PayoutInv, Told
<1>5. Grounds' BY DEF PayoutInv, Grounds, Case
<1>6. Held' BY DEF PayoutInv, Held, Closed, Case, Active
<1>7. QED BY <1>1, <1>2, <1>3, <1>4, <1>5, <1>6 DEF Rest

\* The provider's answer to a call, what a run reads of the batch, and what it
\* asks the provider.
LEMMA ReadersKeep ==
  ASSUME PayoutInv, NEW t \in Teller,
         Created(t) \/ FirstLook(t) \/ Ask(t) \/ PhaseA(t) \/ Inquire(t)
  PROVE  Rest'
<1> USE DEF books, world, bank, At, Dispatching, Reconciling
<1>1. PayoutTypeOK BY DEF PayoutInv
<1>2. ASSUME Created(t) PROVE Rest'
  <2>1. PICK seen \in Answer :
          /\ Note(t, "result", seen)
          /\ \/ seen = "unknown"
             \/ seen \in {"processing", "paid"} /\ payout = seen
             \/ seen = "permanent_fail" /\ payout = "failed"
    <3>1. {"unknown", "processing", "paid", "permanent_fail"} \subseteq Answer BY DEF Answer
    <3>2. CASE Note(t, "result", "unknown") BY <3>1, <3>2
    <3>3. CASE payout \in {"processing", "paid"} /\ Note(t, "result", payout) BY <3>1, <3>3
    <3>4. CASE payout = "failed" /\ Note(t, "result", "permanent_fail") BY <3>1, <3>4
    <3>5. QED BY <1>2, <3>2, <3>3, <3>4 DEF Created
  <2>2. /\ teller'[t].pc = "result" /\ teller'[t].job = teller[t].job /\ teller'[t].live = teller[t].live
        /\ teller'[t].seen = seen /\ \A u \in Teller \ {t} : teller'[u] = teller[u]
    BY <1>1, <2>1, Noting DEF Points
  <2>3. batch.status \notin Undispatched BY <1>2 DEF Created, PayoutInv, Made
  <2>4. QED BY <1>2, <2>1, <2>2, <2>3, ReadKeeps DEF Created
<1>3. ASSUME FirstLook(t) PROVE Rest'
  <2>1. PICK pc \in {"ask", "ack"} : Goto(t, pc) /\ (pc = "ack" => batch.status # "processing")
    BY <1>3 DEF FirstLook
  <2>2. /\ teller'[t].pc = pc /\ teller'[t].job = teller[t].job /\ teller'[t].live = teller[t].live
        /\ \A u \in Teller \ {t} : teller'[u] = teller[u]
    BY <1>1, <2>1, Going DEF Points
  <2>3. batch.status \notin Undispatched BY <1>3 DEF FirstLook, PayoutInv, Made
  <2>4. QED BY <1>3, <2>1, <2>2, <2>3, ReadKeeps DEF FirstLook
<1>4. ASSUME Ask(t) PROVE Rest'
  <2>1. PICK seen \in Answer : Note(t, "look", seen) /\ (seen = "unknown" \/ (payout # "none" /\ seen = payout))
    <3>1. "unknown" \in Answer /\ payout \in Answer BY <1>1, Types DEF Answer
    <3>2. CASE Note(t, "look", "unknown") BY <3>1, <3>2
    <3>3. CASE payout # "none" /\ Note(t, "look", payout) BY <3>1, <3>3
    <3>4. QED BY <1>4, <3>2, <3>3 DEF Ask
  <2>2. /\ teller'[t].pc = "look" /\ teller'[t].job = teller[t].job /\ teller'[t].live = teller[t].live
        /\ teller'[t].seen = seen /\ \A u \in Teller \ {t} : teller'[u] = teller[u]
    BY <1>1, <2>1, Noting DEF Points
  <2>3. batch.status \notin Undispatched BY <1>4 DEF Ask, PayoutInv, Made
  <2>4. payout # "permanent_fail" BY <1>1 DEF PayoutTypeOK
  <2>5. QED BY <1>4, <2>1, <2>2, <2>3, <2>4, ReadKeeps DEF Ask
<1>5. ASSUME PhaseA(t) PROVE Rest'
  <2>1. \/ Goto(t, "ack") /\ batch.status = "reconciled"
        \/ Goto(t, "permanent")
        \/ teller' = [teller EXCEPT ![t].pc = "inquire", ![t].observed = Net] /\ batch.status \in {"processing", "paid"}
    BY <1>5 DEF PhaseA
  <2>2. /\ \/ teller'[t].pc = "ack" /\ batch.status = "reconciled"
           \/ teller'[t].pc = "permanent"
           \/ teller'[t].pc = "inquire" /\ batch.status \in {"processing", "paid"}
        /\ teller'[t].job = teller[t].job /\ teller'[t].live = teller[t].live
        /\ \A u \in Teller \ {t} : teller'[u] = teller[u]
    <3>1. ASSUME Goto(t, "ack") /\ batch.status = "reconciled" PROVE <2>2!: BY <1>1, <3>1, Going DEF Points
    <3>2. ASSUME Goto(t, "permanent") PROVE <2>2!: BY <1>1, <3>2, Going DEF Points
    <3>3. ASSUME teller' = [teller EXCEPT ![t].pc = "inquire", ![t].observed = Net],
                 batch.status \in {"processing", "paid"}
          PROVE  <2>2!:
      BY <1>1, <3>3, Observing
    <3>4. QED BY <2>1, <3>1, <3>2, <3>3
  <2>3. QED BY <1>5, <2>2, ReadKeeps DEF PhaseA, Refused, Closed
<1>6. ASSUME Inquire(t) PROVE Rest'
  <2>1. PICK seen \in Answer : Note(t, "book", seen) BY <1>6 DEF Inquire, Answer
  <2>2. /\ teller'[t].pc = "book" /\ teller'[t].job = teller[t].job /\ teller'[t].live = teller[t].live
        /\ \A u \in Teller \ {t} : teller'[u] = teller[u]
    BY <1>1, <2>1, Noting DEF Points
  <2>3. batch.status \in Refused => Case \/ payout \in Refused BY <1>6 DEF Inquire, PayoutInv, Grounds
  <2>4. QED BY <1>6, <2>2, <2>3, ReadKeeps DEF Inquire
<1>7. QED BY <1>2, <1>3, <1>4, <1>5, <1>6

\* The call itself uses the permission up.
LEMMA CreateKeeps ==
  ASSUME PayoutInv, NEW t \in Teller, Create(t)
  PROVE  Rest'
<1> USE DEF books, world, bank, At
<1>1. /\ UNCHANGED <<settlement, batch, open, attested, pjob, dead, payout>>
      /\ teller[t].pc = "create" /\ teller[t].job = "dispatch"
      /\ teller'[t].pc = "await" /\ teller'[t].job = "dispatch" /\ teller'[t].live = teller[t].live
      /\ \A u \in Teller \ {t} : teller'[u] = teller[u]
      /\ requests'.total = requests.total + 1
  BY Going DEF Create, PayoutInv, Points
<1>2. requests.total = 0 /\ batch.status \notin Undispatched /\ \A u \in Teller \ {t} : teller[u].pc # "create"
  BY <1>1 DEF PayoutInv, OnePermit, Made
<1>3. Shapes' BY <1>1 DEF PayoutInv, Shapes, Dispatching, Reconciling
<1>4. Made' BY <1>1, <1>2 DEF PayoutInv, Made, Batched, Expected
<1>5. OnePermit' BY <1>1, <1>2 DEF PayoutInv, OnePermit
<1>6. Told' BY <1>1 DEF PayoutInv, Told
<1>7. Grounds' BY <1>1 DEF PayoutInv, Grounds, Case, Reconciling
<1>8. Held' BY <1>1 DEF PayoutInv, Held, Closed, Case, Active
<1>9. QED BY <1>3, <1>4, <1>5, <1>6, <1>7, <1>8 DEF Rest

\* What the three transactions make of the books that record an acceptance, a
\* refusal, or that the outcome is unknown.
LEMMA AcceptKeeps ==
  ASSUME PayoutInv, NEW status \in {"processing", "paid"}, Accept(status),
         batch.status \notin Undispatched, payout # "none", status = "paid" => payout = "paid",
         UNCHANGED <<dead, payout, requests>>, attested => attested',
         \A u \in Teller : teller'[u] = teller[u] \/ (teller[u].job = "dispatch" /\ teller'[u].job = "dispatch"
           /\ teller[u].pc # "free" /\ teller'[u].pc = "ack" /\ teller'[u].live = teller[u].live)
  PROVE  Rest'
<1>1. batch \in BatchRecord /\ settlement \in SettlementRecord /\ pjob \in JobTable BY Types DEF PayoutInv
<1>2. /\ batch'.items = batch.items /\ batch'.status \in {batch.status, status}
      /\ batch.status = "processing" => batch'.status = status
      /\ batch.status \in Refused => batch'.status \in {batch.status, "paid", "reconciled"}
      /\ batch.status = "paid" => batch'.status = "paid"
      /\ batch.status = "reconciled" => batch'.status = "reconciled"
      /\ settlement'.amount = settlement.amount /\ settlement'.status = batch'.status
  BY <1>1, Accepting, Forward DEF PayoutInv, Made, Batched, Undispatched, BatchRecord, SettlementRecord
<1>3. /\ pjob'["reconcile"] \in {"pending", "processing", "sent"}
      /\ pjob'["reconcile"] = "sent" => pjob["reconcile"] = "sent"
      /\ \A k \in PayoutJob \ {"reconcile"} : pjob'[k] = pjob[k]
  BY Accepting, Inserting DEF PayoutInv, PayoutJob
<1>4. Case' = Case BY Accepting DEF PayoutInv, Case
<1>5. Shapes' BY <1>3 DEF PayoutInv, Shapes, Dispatching, Reconciling
<1>6. batch'.status \notin Undispatched BY <1>2 DEF Undispatched
<1>7. batch'.status \notin {"pending", "ready"} BY <1>2 DEF PayoutInv, Made
<1>8. Made' BY <1>2, <1>6, <1>7 DEF PayoutInv, Made, Batched, Expected, Undispatched
<1>9. OnePermit' BY <1>6 DEF PayoutInv, OnePermit
<1>10. Told' BY DEF PayoutInv, Told
<1>11. batch'.status \in Refused => batch.status \in Refused BY <1>2 DEF Refused
<1>12. Grounds' BY <1>4, <1>11 DEF PayoutInv, Grounds, Reconciling
<1>13. Closed => Closed' BY <1>2, <1>4 DEF Closed, Refused
<1>14. Held'
  <2>1. pjob["reconcile"] = "sent" => Closed' BY <1>13 DEF PayoutInv, Held
  <2>2. Closed' /\ batch'.status \in {"processing", "paid"} => open' # {} BY DEF Closed, Case, Refused
  <2>3. \A u \in Teller : teller'[u].job = "reconcile" /\ teller'[u].pc = "ack" => Closed'
    BY <1>13 DEF PayoutInv, Held
  <2>4. (\E j \in PayoutJob : pjob'[j] = "failed") => dead' # {} BY <1>3 DEF PayoutInv, Held, PayoutJob
  <2>5. QED BY <1>3, <1>6, <2>1, <2>2, <2>3, <2>4 DEF Held, Active, Undispatched
<1>15. QED BY <1>5, <1>8, <1>9, <1>10, <1>12, <1>14 DEF Rest

\* ... a refusal, on the provider's word, the operator's, or for a case; where
\* the outcome was not known, that case is closed at most.
LEMMA RefuseKeeps ==
  ASSUME PayoutInv, NEW to \in Refused, Advance(to),
         batch.status \notin Undispatched,
         open \ {"dispatch_outcome_unknown"} \subseteq open',
         batch.status = "processing" \/ open' = open \/ Case',
         attested' \/ Case' \/ payout \in Refused,
         pjob["reconcile"] # "none" => Case' \/ payout \in Refused,
         UNCHANGED <<pjob, dead, payout, requests>>, attested => attested',
         \A u \in Teller : teller'[u] = teller[u] \/ (teller'[u].job = teller[u].job
           /\ teller[u].pc # "free" /\ teller'[u].pc = "ack" /\ teller'[u].live = teller[u].live
           /\ (teller[u].job = "reconcile" => Case'))
  PROVE  Rest'
<1>1. batch \in BatchRecord /\ settlement \in SettlementRecord /\ pjob \in JobTable BY Types DEF PayoutInv
<1>2. /\ batch'.items = batch.items /\ batch'.status \in {batch.status, to}
      /\ batch.status = "processing" => batch'.status = to
      /\ batch.status \in Refused => batch'.status \in {batch.status, "paid", "reconciled"}
      /\ batch.status = "paid" => batch'.status = "paid"
      /\ batch.status = "reconciled" => batch'.status = "reconciled"
      /\ settlement'.amount = settlement.amount /\ settlement'.status = batch'.status
  BY <1>1, Advancing, Forward DEF PayoutInv, Made, Batched, Undispatched, BatchRecord, SettlementRecord, Refused
<1>3. Case => Case' BY DEF Case
<1>4. Shapes' BY DEF PayoutInv, Shapes, Dispatching, Reconciling
<1>5. batch'.status \notin Undispatched /\ batch'.status \notin {"pending", "ready", "processing"}
  BY <1>2 DEF Undispatched, PayoutInv, Made, Refused
<1>6. Made' BY <1>2, <1>5 DEF PayoutInv, Made, Batched, Expected, Undispatched
<1>7. OnePermit' BY <1>5 DEF PayoutInv, OnePermit
<1>8. Told' BY DEF PayoutInv, Told
<1>9. Grounds'
  <2>1. \A u \in Teller : teller'[u].pc \in Reconciling => pjob["reconcile"] # "none"
    BY DEF PayoutInv, Shapes, Reconciling
  <2>2. QED BY <2>1 DEF Grounds
<1>10. Closed => Closed' BY <1>2, <1>3 DEF Closed, Refused
<1>11. Held'
  <2>1. pjob["reconcile"] = "sent" => Closed' BY <1>10 DEF PayoutInv, Held
  <2>2. \A u \in Teller : teller'[u].job = "reconcile" /\ teller'[u].pc = "ack" => Closed'
    BY <1>10 DEF PayoutInv, Held, Closed
  <2>3. batch'.status = "paid" => batch.status = "paid" BY <1>2 DEF Refused
  <2>4. batch.status = "paid" => pjob["reconcile"] # "none"
        /\ (Active("dispatch") \/ Active("reconcile") \/ open' # {} \/ dead # {})
    BY DEF PayoutInv, Held, Case
  <2>5. QED BY <1>5, <2>1, <2>2, <2>3, <2>4 DEF PayoutInv, Held, Active, Undispatched
<1>12. QED BY <1>4, <1>6, <1>7, <1>8, <1>9, <1>11 DEF Rest

\* ... or the question what became of a dispatch, which an operator sees.
LEMMA UnknownKeeps ==
  ASSUME PayoutInv, NEW t \in Teller, teller[t].job = "dispatch", teller[t].pc # "free",
         teller'[t].job = "dispatch", teller'[t].pc = "throw", teller'[t].live = teller[t].live,
         \A u \in Teller \ {t} : teller'[u] = teller[u],
         open' = open \cup {"dispatch_outcome_unknown"},
         UNCHANGED <<settlement, batch, attested, pjob, dead, payout, requests>>
  PROVE  Rest'
<1>1. Case' = Case BY DEF Case
<1>2. Shapes' BY DEF PayoutInv, Shapes, Dispatching, Reconciling
<1>3. Made' BY DEF PayoutInv, Made, Batched, Expected
<1>4. OnePermit' BY DEF PayoutInv, OnePermit
<1>5. Told' BY DEF PayoutInv, Told
<1>6. Grounds' BY <1>1 DEF PayoutInv, Grounds, Reconciling
<1>7. Held' BY <1>1 DEF PayoutInv, Held, Closed, Active
<1>8. QED BY <1>2, <1>3, <1>4, <1>5, <1>6, <1>7 DEF Rest

\* The transactions that write down what a dispatch was answered.
LEMMA AnswerKeeps ==
  ASSUME PayoutInv, NEW t \in Teller, CreateResult(t) \/ Look(t)
  PROVE  Rest'
<1> USE DEF books, world, bank, At
<1>1. PayoutTypeOK /\ teller[t].job = "dispatch" /\ teller[t].pc \in {"result", "look"}
      /\ UNCHANGED <<attested, dead, payout, requests>>
  BY DEF PayoutInv, CreateResult, Look
<1>2. batch.status \notin Undispatched BY <1>1 DEF PayoutInv, Made
<1>3. /\ teller[t].seen = "permanent_fail" => payout = "failed"
      /\ teller[t].seen \in {"paid", "failed", "returned"} => payout = teller[t].seen
      /\ teller[t].seen = "processing" => payout # "none"
  BY <1>1 DEF PayoutInv, Told
<1>4. \A pc \in {"ack", "throw"} : Goto(t, pc) =>
        /\ teller'[t].pc = pc /\ teller'[t].job = "dispatch" /\ teller'[t].live = teller[t].live
        /\ \A u \in Teller \ {t} : teller'[u] = teller[u]
  BY <1>1, Going DEF Points
<1>5. \/ teller[t].seen \in {"processing", "paid"} /\ Accept(teller[t].seen) /\ Goto(t, "ack")
      \/ /\ teller[t].seen = "permanent_fail" /\ Advance("failed") /\ Goto(t, "ack") /\ UNCHANGED <<open, pjob>>
      \/ /\ batch.status = "processing" /\ teller[t].seen \in {"failed", "returned"} /\ Advance(teller[t].seen)
         /\ open' = open \ {"dispatch_outcome_unknown"} /\ Goto(t, "ack") /\ UNCHANGED pjob
      \/ /\ batch.status # "processing" /\ Goto(t, "ack") /\ UNCHANGED <<settlement, batch, open, pjob>>
      \/ /\ open' = open \cup {"dispatch_outcome_unknown"}
         /\ Goto(t, "throw") /\ UNCHANGED <<settlement, batch, pjob>>
  BY DEF CreateResult, Look
<1>6. CASE teller[t].seen \in {"processing", "paid"} /\ Accept(teller[t].seen) /\ Goto(t, "ack")
  BY <1>1, <1>2, <1>3, <1>4, <1>6, AcceptKeeps
<1>7. CASE teller[t].seen = "permanent_fail" /\ Advance("failed") /\ Goto(t, "ack") /\ UNCHANGED <<open, pjob>>
  BY <1>1, <1>2, <1>3, <1>4, <1>7, RefuseKeeps DEF Refused
<1>8. CASE /\ batch.status = "processing" /\ teller[t].seen \in {"failed", "returned"} /\ Advance(teller[t].seen)
           /\ open' = open \ {"dispatch_outcome_unknown"} /\ Goto(t, "ack") /\ UNCHANGED pjob
  BY <1>1, <1>2, <1>3, <1>4, <1>8, RefuseKeeps DEF Refused
<1>9. CASE batch.status # "processing" /\ Goto(t, "ack") /\ UNCHANGED <<settlement, batch, open, pjob>>
  BY <1>1, <1>2, <1>4, <1>9, ReadKeeps DEF Dispatching, Reconciling
<1>10. CASE /\ open' = open \cup {"dispatch_outcome_unknown"}
            /\ Goto(t, "throw") /\ UNCHANGED <<settlement, batch, pjob>>
  BY <1>1, <1>4, <1>10, UnknownKeeps
<1>11. QED BY <1>5, <1>6, <1>7, <1>8, <1>9, <1>10

\* The transaction of a reconcile.
LEMMA BookKeeps ==
  ASSUME PayoutInv, NEW t \in Teller, Book(t)
  PROVE  Rest'
<1> USE DEF books, world, bank, At
<1>1. /\ PayoutTypeOK /\ Made /\ Batched /\ teller[t].job = "reconcile" /\ teller[t].pc = "book"
      /\ UNCHANGED <<attested, pjob, dead, payout, requests>>
  BY Running DEF PayoutInv, Book
<1>2. pjob["reconcile"] # "none" BY <1>1 DEF PayoutInv, Shapes
<1>3. \A pc \in {"ack", "throw"} : Goto(t, pc) =>
        /\ teller'[t].pc = pc /\ teller'[t].job = "reconcile" /\ teller'[t].live = teller[t].live
        /\ \A u \in Teller \ {t} : teller'[u] = teller[u]
  BY <1>1, Going DEF Points
<1>4. CASE /\ batch' = batch /\ settlement' = settlement /\ open' = open
           /\ \/ Goto(t, "throw")
              \/ Goto(t, "ack") /\ batch.status \notin {"processing", "paid"}
  <2>1. teller'[t].pc = "ack" => Closed
    <3>1. ASSUME Goto(t, "ack"), batch.status \notin {"processing", "paid"} PROVE Closed
      <4>1. batch.status \notin Undispatched BY <1>1, <1>2 DEF Made
      <4>2. batch.status \in Refused \cup {"reconciled"}
        BY <1>1, <3>1, <4>1, Types DEF BatchRecord, PayoutStatus, Refused, Undispatched, Made
      <4>3. batch.status \in Refused => Case \/ payout \in Refused
        BY <1>1 DEF PayoutInv, Grounds, Reconciling
      <4>4. QED BY <4>2, <4>3 DEF Closed
    <3>2. QED BY <1>3, <1>4, <3>1
  <2>2. QED BY <1>1, <1>3, <1>4, <2>1, ReadKeeps DEF Dispatching, Reconciling

<1>5. CASE /\ batch.status \in {"processing", "paid"} /\ Goto(t, "ack")
           /\ batch' = MovedBatch("reconciled") /\ settlement' = MovedSettlement(settlement, "reconciled")
  <2>1. batch \in BatchRecord /\ settlement \in SettlementRecord BY <1>1, Types
  <2>2. /\ batch'.status = "reconciled" /\ batch'.items = batch.items
        /\ settlement'.status = "reconciled" /\ settlement'.amount = settlement.amount
    <3>1. CanAdvance(batch.status, "reconciled") BY <1>5, Ranks DEF CanAdvance
    <3>2. settlement.status = batch.status BY <1>1 DEF Made
    <3>3. batch' = [batch EXCEPT !.status = "reconciled"] BY <1>5, <3>1 DEF MovedBatch
    <3>4. settlement' = [settlement EXCEPT !.status = "reconciled"]
      BY <1>5, <3>1, <3>2 DEF MovedSettlement
    <3>5. QED BY <2>1, <3>3, <3>4 DEF BatchRecord, SettlementRecord
  <2>3. /\ teller'[t].pc = "ack" /\ teller'[t].job = "reconcile" /\ teller'[t].live = teller[t].live
        /\ \A u \in Teller \ {t} : teller'[u] = teller[u]
    BY <1>3, <1>5
  <2>4. Shapes' BY <1>1, <2>3 DEF PayoutInv, Shapes, Dispatching, Reconciling
  <2>5. Made' BY <1>1, <2>2, <2>3 DEF PayoutInv, Made, Batched, Expected, Undispatched
  <2>6. OnePermit' BY <1>1, <2>2, <2>3 DEF PayoutInv, OnePermit, Undispatched
  <2>7. Told' BY <1>1, <2>3 DEF PayoutInv, Told
  <2>8. Grounds' BY <2>2 DEF Grounds, Refused
  <2>9. Held' BY <1>1, <2>2 DEF PayoutInv, Held, Closed
  <2>10. QED BY <2>4, <2>5, <2>6, <2>7, <2>8, <2>9 DEF Rest
<1>6. CASE /\ batch.status \in {"processing", "paid"} /\ Goto(t, "ack")
           /\ batch' = MovedBatch("failed") /\ settlement' = MovedSettlement(settlement, "failed")
           /\ open \subseteq open' /\ open' \ {"dispatch_outcome_unknown"} # {}
  <2>1. Case' BY <1>6 DEF Case
  <2>2. Advance("failed") BY <1>6 DEF Advance
  <2>3. QED BY <1>1, <1>3, <1>6, <2>1, <2>2, RefuseKeeps DEF Refused, Undispatched
<1>7. QED BY <1>1, <1>4, <1>5, <1>6, Booking

\* The word of an operator, who looks at the provider first.
LEMMA AttestKeeps ==
  ASSUME PayoutInv, Attest
  PROVE  Rest'
<1> USE DEF books, world, bank
<1>1. /\ batch.status = "processing" /\ attested' = TRUE
      /\ UNCHANGED <<dead, teller, payout, requests>>
  BY DEF Attest
<1>2. CASE payout \in {"processing", "paid"} /\ Accept(payout)
  BY <1>1, <1>2, AcceptKeeps DEF Undispatched
<1>3. CASE payout \in {"none", "failed"} /\ Advance("failed")
           /\ open' = open \ {"dispatch_outcome_unknown"} /\ UNCHANGED pjob
  <2>1. pjob["reconcile"] # "none" => payout \in Refused BY <1>3 DEF PayoutInv, Told, Refused
  <2>2. QED BY <1>1, <1>3, <2>1, RefuseKeeps DEF Undispatched, Refused
<1>4. QED BY <1>2, <1>3 DEF Attest

\* What happens at the provider.
LEMMA BankKeeps ==
  ASSUME PayoutInv, Arrive \/ Settle
  PROVE  Rest'
<1> USE DEF books, world, bank
<1>1. /\ UNCHANGED <<settlement, batch, open, attested, pjob, dead, teller>>
      /\ requests'.total = requests.total
      /\ payout' # "none"
      /\ payout' = payout \/ payout \in {"none", "processing"}
  BY Types DEF PayoutInv, Arrive, Settle
<1>2. Shapes' BY <1>1 DEF PayoutInv, Shapes
<1>3. Made' BY <1>1 DEF PayoutInv, Made, Batched, Expected
<1>4. OnePermit' BY <1>1 DEF PayoutInv, OnePermit
<1>5. Told' BY <1>1 DEF PayoutInv, Told
<1>6. Grounds' BY <1>1 DEF PayoutInv, Grounds, Case, Refused
<1>7. Held' BY <1>1 DEF PayoutInv, Held, Closed, Case, Active, Refused
<1>8. QED BY <1>2, <1>3, <1>4, <1>5, <1>6, <1>7 DEF Rest

\* Refunds and freezes change the deal, not the rail.
LEMMA WorldKeeps ==
  ASSUME PayoutInv,
         UNCHANGED <<settlement, batch, open, attested, pjob, dead, teller, payout, requests>>
  PROVE  Rest'
BY DEF PayoutInv, Rest, Shapes, Made, OnePermit, Told, Grounds, Held, Batched, Expected, Case, Closed, Active

\* The invariant is kept by every step.
LEMMA PayoutStep == PayoutInv /\ [PayoutNext]_payoutVars => PayoutInv'
<1> SUFFICES ASSUME PayoutInv, [PayoutNext]_payoutVars PROVE PayoutInv'
  OBVIOUS
<1> USE DEF books, world, bank
<1>1. ASSUME PayoutNext PROVE PayoutInv'
  <2>1. PayoutTypeOK' BY <1>1, TypeStep DEF PayoutInv
  <2>2. Rest'
    <3>1. ASSUME NEW p \in Payer, RefundPayer(p) PROVE Rest' BY <3>1, WorldKeeps DEF RefundPayer
    <3>2. ASSUME Freeze PROVE Rest' BY <3>2, WorldKeeps DEF Freeze
    <3>3. QED
      BY <1>1, <3>1, <3>2, TakeKeeps, EndKeeps, LapseKeeps, PrepareKeeps, Phase1Keeps, ReadersKeep,
         CreateKeeps, AnswerKeeps, BookKeeps, AttestKeeps, BankKeeps DEF PayoutNext
  <2>3. QED BY <2>1, <2>2 DEF Rest, PayoutInv
<1>2. ASSUME UNCHANGED payoutVars PROVE PayoutInv'
  <2>1. Rest' BY <1>2, WorldKeeps DEF payoutVars
  <2>2. PayoutTypeOK' BY <1>2 DEF payoutVars, PayoutInv, PayoutTypeOK
  <2>3. QED BY <2>1, <2>2 DEF Rest, PayoutInv
<1>3. QED BY <1>1, <1>2

\* It holds in the beginning.
LEMMA PayoutStart == PayoutInit => PayoutInv
<1> SUFFICES ASSUME PayoutInit PROVE PayoutInv
  OBVIOUS
<1>1. Cardinality(Payer) \in Nat BY PayoutAssumption, FS_CardinalityType
<1>2. PayoutTypeOK
  <2>1. teller \in [Teller -> RunRecord] BY <1>1 DEF PayoutInit, Idle, RunRecord, Points, Answer
  <2>2. pjob \in JobTable BY DEF PayoutInit, JobTable
  <2>3. settlement \in SettlementRecord /\ batch \in BatchRecord
    BY <1>1 DEF PayoutInit, SettlementRecord, BatchRecord
  <2>4. requests \in [wire : 0..1, total : 0..2] BY DEF PayoutInit
  <2>5. /\ refunded \subseteq Payer /\ open \subseteq CaseType /\ dead \subseteq PayoutJob
        /\ payout \in {"none", "processing", "paid", "failed", "returned"}
    BY DEF PayoutInit
  <2>6. frozen \in BOOLEAN /\ attested \in BOOLEAN BY DEF PayoutInit
  <2>7. lapses \in 0..MaxLapses BY PayoutAssumption DEF PayoutInit
  <2>8. QED BY <2>1, <2>2, <2>3, <2>4, <2>5, <2>6, <2>7
        DEF PayoutTypeOK, SettlementRecord, BatchRecord, JobTable, RunRecord, Points
<1>3. \A t \in Teller : teller[t].pc = "free" /\ teller[t].job = "none" /\ ~teller[t].live
  BY DEF PayoutInit, Idle
<1>4. pjob["dispatch"] = "none" /\ pjob["reconcile"] = "none" /\ pjob["prepare"] = "pending"
  BY DEF PayoutInit, PayoutJob
<1>5. batch.status = "absent" /\ settlement.status = "absent" /\ requests.total = 0 BY DEF PayoutInit
<1>6. Shapes BY <1>3 DEF Shapes, Dispatching, Reconciling
<1>7. Made BY <1>3, <1>4, <1>5 DEF Made, Batched, PreBatch
<1>8. OnePermit BY <1>3, <1>5 DEF OnePermit
<1>9. Told BY <1>3, <1>4 DEF Told
<1>10. Grounds BY <1>3, <1>5 DEF Grounds, Refused
<1>11. Held BY <1>3, <1>4, <1>5 DEF Held, PayoutJob
<1>12. QED BY <1>2, <1>6, <1>7, <1>8, <1>9, <1>10, <1>11 DEF PayoutInv

-----------------------------------------------------------------------------
(* What it gives.                                                            *)

\* The state of the payout rail has its types, for any number of payers and
\* workers and however many leases are lost.
THEOREM PayoutTypes == PayoutSpec => []PayoutTypeOK
<1>1. PayoutInv => PayoutTypeOK BY DEF PayoutInv
<1>2. QED BY <1>1, PayoutStart, PayoutStep, PTL DEF PayoutSpec

\* A batch is paid out once: createPayout is called at most once for it, with
\* any number of workers, whatever is retried, lost or answered late, since the
\* transaction that leads to the call moves the batch out of "batched", which
\* nothing ever moves it back to.
THEOREM PaidOnce == PayoutSpec => []PaidOutOnce
<1>1. PayoutInv => PaidOutOnce BY DEF PayoutInv, OnePermit, PaidOutOnce
<1>2. QED BY <1>1, PayoutStart, PayoutStep, PTL DEF PayoutSpec

\* No batch is forgotten: what is booked as failed while the money moves is in
\* front of an operator or on an operator's word, a batch whose jobs are done is
\* reconciled, refused, or before somebody, and its settlement never differs from it.
THEOREM NothingForgotten == PayoutSpec => []NoBatchForgotten
<1>1. ASSUME PayoutInv PROVE NoBatchForgotten
  <2>1. batch.status = "failed" /\ payout \in {"processing", "paid"} => open # {} \/ attested
    BY <1>1 DEF PayoutInv, Grounds, Case, Refused
  <2>2. Batched /\ Quiet => batch.status \in {"reconciled", "failed", "returned"} \/ open # {} \/ dead # {}
    <3>1. Quiet => ~Active("dispatch") /\ ~Active("reconcile") BY DEF Quiet, Active, PayoutJob
    <3>2. Batched => batch.status \in {"batched", "processing", "failed", "returned", "paid", "reconciled"}
      BY <1>1, Types DEF PayoutInv, Made, Batched, BatchRecord, PayoutStatus
    <3>3. QED BY <1>1, <3>1, <3>2 DEF PayoutInv, Held
  <2>3. QED BY <1>1, <2>1, <2>2 DEF NoBatchForgotten, PayoutInv, Made
<1>2. QED BY <1>1, PayoutStart, PayoutStep, PTL DEF PayoutSpec
=============================================================================
