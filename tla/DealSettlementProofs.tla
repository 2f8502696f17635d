------------------------ MODULE DealSettlementProofs ------------------------
(***************************************************************************)
(* Proofs about DealSettlement: a participant is paid back once unless a   *)
(* refund was misjudged, only out of a failed deal, and never forgotten.   *)
(***************************************************************************)
EXTENDS DealSettlement, FiniteSetTheorems, TLAPS

Refund == Joiner \X RefundId
IsMinted(i) == refund[i].result # "none"
Out == transit \cup paidBack
Settled == {"DealCompleted", "DealFailed"}
Decided == dealState # "CompletionWindow"

-----------------------------------------------------------------------------
(* The invariant.                                                            *)

\* The money of a participant: captured if he paid, until it was paid back.
Purses ==
  \A j \in Joiner :
    /\ j \in paid => purse[j] \in {"Captured", "Refunded"}
    /\ purse[j] = "Captured" => j \in paid
    /\ purse[j] = "Refunded" => PaidBack(j) # {}

\* The rows: minted in order for whoever paid and failed, armed before they are
\* sent, and a success only of a participant who was paid back.
Row(i) ==
  /\ refund[i].result = "none" => refund[i] = NoRefund
  /\ IsMinted(i) => dealState = "Failed" /\ i[1] \in paid
  /\ refund[i].result = "temporary_fail" => refund[i].owner = "null"
  /\ refund[i].result = "success" => PaidBack(i[1]) # {}
  /\ i \in Out => /\ refund[i].owner # "null" /\ IsMinted(i)
                  /\ refund[i].result = "permanent_fail" => i[1] \in misjudged
Rows ==
  /\ \A i \in Refund : Row(i)
  /\ \A j \in Joiner : \A m, n \in RefundId : m < n /\ IsMinted(<<j, n>>) => IsMinted(<<j, m>>)

\* What a run does at each of its steps, and the identity it needs.
FinalPc == {"decide", "list", "members"}
RefundPc == {"refunds", "resolve", "arm", "send", "await", "settle", "ingest", "reconcile"}
ProofPc == {"flight", "status", "conclude", "rearm"}
Place(h) ==
  /\ Doing(h, "free") <=> hand[h] = Free
  /\ Doing(h, "free") <=> hand[h].task = "none"
  /\ hand[h].pc \in FinalPc => hand[h].task = "finalize_deal"
  /\ hand[h].pc \in RefundPc => hand[h].task = "refund_issue"
  /\ hand[h].pc \in ProofPc => hand[h].task \in Joiner
  /\ hand[h].task = "refund_issue" => dealState = "Failed"
  /\ hand[h].task \in Joiner => task[hand[h].task] # "none"
Holds(h) ==
  /\ hand[h].pc \in (RefundPc \ {"refunds"}) => On(h) \in Refund /\ IsMinted(On(h))
  /\ hand[h].task \in Joiner /\ hand[h].pc \notin Over =>
       On(h) \in Refund /\ IsMinted(On(h)) /\ On(h)[1] = hand[h].task
\* The request of a run, from the arm to the answer.
Requests(h) ==
  /\ Doing(h, "send") =>
       /\ hand[h].live /\ refund[On(h)].owner = h /\ refund[On(h)].result \in {"unknown", "success"}
       /\ refund[On(h)].result = "unknown" => refund[On(h)].dispatch = "dispatching"
  /\ hand[h].pc \in {"await", "settle"} => refund[On(h)].owner # "null"
  /\ Doing(h, "settle") => hand[h].seen \in {"success", "permanent_fail", "unknown"}
  /\ (Doing(h, "settle") /\ hand[h].seen = "success") \/ Doing(h, "ingest") => On(h) \in paidBack
  /\ Doing(h, "settle") /\ hand[h].seen = "permanent_fail" /\ refund[On(h)].owner = h => On(h) \notin Out
Runs == \A h \in Hand : Place(h) /\ Holds(h) /\ Requests(h)

\* The jobs: refunds are due if and only if the deal failed, and a reconcile is
\* about an identity there is.
Tasks ==
  /\ task["refund_issue"] # "none" <=> dealState = "Failed"
  /\ \A j \in Joiner : task[j] # "none" => concerns[j] \in RefundId /\ IsMinted(<<j, concerns[j]>>)

\* Which identities of a participant are or may still come to be executed.
May(j) == {n \in RefundId : \/ refund[<<j, n>>].result = "unknown" \/ <<j, n>> \in Out
                            \/ \E h \in Hand : Doing(h, "send") /\ On(h) = <<j, n>>}
OneMay == \A j \in Joiner \ misjudged : \A m, n \in May(j) : m = n

\* Whoever is settled is settled by the decision, and a run that is through with
\* the list has settled everybody.
Listing(h) ==
  hand[h].task = "finalize_deal" =>
    /\ hand[h].pc \in {"list", "members", "ack"} => Decided
    /\ hand[h].pc = "members" => \A j \in Joiner \ hand[h].todo : joiner[j] \in Settled
    /\ hand[h].pc = "ack" /\ dealState = "Completed" => \A j \in Joiner : joiner[j] \in Settled
Outcomes ==
  /\ \A j \in Joiner : joiner[j] \in Settled => Decided /\ joiner[j] = Owed(j)
  /\ \A h \in Hand : Listing(h)
  /\ task["finalize_deal"] = "sent" => Decided
  /\ task["finalize_deal"] = "sent" /\ dealState = "Completed" => \A j \in Joiner : joiner[j] \in Settled

\* A refund is begun for whoever is owed one before refund_issue is done.
Handled(j) == Cared(j) \/ \E n \in RefundId : refund[<<j, n>>].result \in {"unknown", "permanent_fail"}
Serving(h) ==
  hand[h].task = "refund_issue" =>
    /\ hand[h].pc \in RefundPc => \A j \in paid : Handled(j) \/ j \in hand[h].todo
    /\ hand[h].pc = "ack" => \A j \in paid : Handled(j)
Custody ==
  /\ \A h \in Hand : Serving(h)
  /\ task["refund_issue"] = "sent" => \A j \in paid : Handled(j)

SettlementInv ==
  SettlementTypeOK /\ Purses /\ Rows /\ Runs /\ Tasks /\ OneMay /\ Outcomes /\ Custody

-----------------------------------------------------------------------------
(* Types.                                                                    *)

Pc == {"free", "start", "decide", "list", "members", "refunds", "resolve", "arm", "send", "await", "settle",
       "ingest", "reconcile", "flight", "status", "conclude", "rearm", "ack", "throw", "give_up"}
HandRecord == [task : Task \cup {"none"}, pc : Pc, live : BOOLEAN, todo : SUBSET Joiner,
               on : (Joiner \X (0..MaxRefunds)) \cup {Nobody},
               seen : {"none", "success", "permanent_fail", "unknown", "waiting"}]
RefundRecord == [result : {"none", "unknown", "success", "permanent_fail", "temporary_fail"},
                 dispatch : {"recorded", "dispatching", "responded"}, owner : Hand \cup {"null", "gone"}]
TaskState == {"none", "pending", "processing", "sent", "dlq"}

\* The types, by these names.
LEMMA TypesNamed ==
  SettlementTypeOK <=>
    /\ paid \subseteq Joiner /\ proves \in BOOLEAN /\ dealState \in {"CompletionWindow", "Completed", "Failed"}
    /\ joiner \in [Joiner -> {"Charged", "Uncharged", "DealCompleted", "DealFailed"}]
    /\ purse \in [Joiner -> {"Captured", "Held", "Refunded"}]
    /\ refund \in [Refund -> RefundRecord] /\ task \in [Task -> TaskState] /\ concerns \in [Joiner -> 0..MaxRefunds]
    /\ hand \in [Hand -> HandRecord] /\ flagged \subseteq Joiner /\ misjudged \subseteq Joiner
    /\ mishaps \in 0..MaxMishaps /\ transit \subseteq Refund /\ paidBack \subseteq Refund
BY DEF SettlementTypeOK, Refund, RefundRecord, TaskState, HandRecord, Pc

\* ... and after a step.
LEMMA TypesNext ==
  ASSUME paid' \subseteq Joiner, proves' \in BOOLEAN, dealState' \in {"CompletionWindow", "Completed", "Failed"},
         joiner' \in [Joiner -> {"Charged", "Uncharged", "DealCompleted", "DealFailed"}],
         purse' \in [Joiner -> {"Captured", "Held", "Refunded"}],
         refund' \in [Refund -> RefundRecord], task' \in [Task -> TaskState], concerns' \in [Joiner -> 0..MaxRefunds],
         hand' \in [Hand -> HandRecord], flagged' \subseteq Joiner, misjudged' \subseteq Joiner,
         mishaps' \in 0..MaxMishaps, transit' \subseteq Refund, paidBack' \subseteq Refund
  PROVE  SettlementTypeOK'
BY DEF SettlementTypeOK, Refund, RefundRecord, TaskState, HandRecord, Pc

\* What the invariant says of the types.
LEMMA SettlementNow ==
  ASSUME SettlementInv
  PROVE  /\ SettlementTypeOK
         /\ paid \subseteq Joiner /\ proves \in BOOLEAN /\ dealState \in {"CompletionWindow", "Completed", "Failed"}
         /\ joiner \in [Joiner -> {"Charged", "Uncharged", "DealCompleted", "DealFailed"}]
         /\ purse \in [Joiner -> {"Captured", "Held", "Refunded"}]
         /\ refund \in [Refund -> RefundRecord] /\ task \in [Task -> TaskState] /\ concerns \in [Joiner -> 0..MaxRefunds]
         /\ hand \in [Hand -> HandRecord] /\ flagged \subseteq Joiner /\ misjudged \subseteq Joiner
         /\ mishaps \in 0..MaxMishaps /\ transit \subseteq Refund /\ paidBack \subseteq Refund
         /\ Purses /\ Rows /\ Runs /\ Tasks /\ OneMay /\ Outcomes /\ Custody
BY TypesNamed DEF SettlementInv

\* Identities, jobs and participants are different things.
LEMMA Names ==
  /\ \A i \in Refund : i[1] \in Joiner /\ i[2] \in RefundId /\ i = <<i[1], i[2]>> /\ i # Nobody
  /\ \A j \in Joiner, n \in RefundId : <<j, n>> \in Refund
  /\ \A j \in Joiner : j # "finalize_deal" /\ j # "refund_issue" /\ j # "none" /\ j \in Task
  /\ "finalize_deal" \in Task /\ "refund_issue" \in Task /\ "none" \notin Task
  /\ \A h \in Hand : h # "null" /\ h # "gone"
  /\ RefundId \subseteq Nat /\ MaxRefunds \in Nat /\ MaxMishaps \in Nat
BY SettlementAssumption DEF Refund, RefundId, Nobody, Task

-----------------------------------------------------------------------------
(* What a step may do.                                                       *)

\* What happens to the row of i when run h takes a step.
Mints(i) == /\ refund[i].result = "none" /\ refund'[i] = [NoRefund EXCEPT !.result = "unknown"]
            /\ dealState = "Failed" /\ i[1] \in paid /\ Unresolved(i[1]) = {}
            /\ i[2] = Cardinality(Minted(i[1])) + 1
Arms(h, i) == /\ Doing(h, "arm") /\ On(h) = i /\ refund[i].result = "unknown" /\ ~InFlightRefund(i)
              /\ refund'[i] = [refund[i] EXCEPT !.dispatch = "dispatching", !.owner = h]
Retires(i) == /\ refund[i].result = "unknown" /\ refund[i].owner = "null" /\ purse[i[1]] # "Captured"
              /\ refund'[i] = [refund[i] EXCEPT !.result = "temporary_fail"]
Succeeds(i) == /\ IsMinted(i) /\ PaidBack(i[1]) # {}
               /\ refund'[i] = [refund[i] EXCEPT !.result = "success", !.dispatch = "responded"]
Answers(h, i) == /\ Doing(h, "settle") /\ refund[i].owner = h /\ refund[i].result = "unknown" /\ i \notin Out
                 /\ refund'[i] = [refund[i] EXCEPT !.dispatch = "responded", !.result = "permanent_fail"]
Responds(h, i) == /\ Doing(h, "settle") /\ refund[i].owner = h
                  /\ refund'[i] = [refund[i] EXCEPT !.dispatch = "responded"]
Closes(h, i) == /\ Doing(h, "conclude") /\ refund[i].result \in {"unknown", "temporary_fail"} /\ ~InFlightRefund(i)
                /\ refund'[i] = [refund[i] EXCEPT !.result = "permanent_fail", !.dispatch = "responded"]
                /\ i \in Out => i[1] \in misjudged'
Disowns(h, i) == refund[i].owner = h /\ refund'[i] = [refund[i] EXCEPT !.owner = "gone"] /\ hand'[h] = Free
RowStep(h, i) ==
  \/ refund'[i] = refund[i] \/ Mints(i) \/ Retires(i) \/ Succeeds(i)
  \/ h \in Hand /\ (Arms(h, i) \/ Answers(h, i) \/ Responds(h, i) \/ Closes(h, i) \/ Disowns(h, i))

\* The identity that run h has just armed, and sends.
Sent(h) == IF h \in Hand /\ Doing(h, "send") THEN {On(h)} ELSE {}

\* What every step keeps: only run h moves; nothing is forgotten.
Keeps(h) ==
  /\ \A g \in Hand \ {h} : hand'[g] = hand[g]
  /\ paid' = paid /\ misjudged \subseteq misjudged' /\ flagged \subseteq flagged' /\ paidBack \subseteq paidBack'
  /\ Decided => dealState' = dealState
  /\ dealState # "Failed" /\ dealState' = "Failed" => task'["refund_issue"] # "none"
  /\ \A j \in Joiner : \/ purse'[j] = purse[j]
                       \/ purse[j] = "Captured" /\ purse'[j] = "Refunded" /\ PaidBack(j) # {}
  /\ \A i \in Refund : RowStep(h, i)
  /\ \A i, k \in Refund : Mints(i) /\ Mints(k) => i = k
  /\ Out' \subseteq Out \cup Sent(h)
  /\ h \in Hand /\ hand'[h].pc = "send" => hand'[h].on \in Refund /\ refund'[hand'[h].on].result = "unknown"
  /\ \A t \in Task : task[t] # "none" => task'[t] # "none"
  /\ task'["refund_issue"] # "none" => dealState' = "Failed"
  /\ \A j \in Joiner : task'[j] # "none" => concerns'[j] \in RefundId /\ IsMinted(<<j, concerns'[j]>>)
  /\ \A j \in Joiner : joiner'[j] = joiner[j] \/ (Decided /\ joiner'[j] = Owed(j))
  /\ \A t \in {"finalize_deal", "refund_issue"} :
       task'[t] = "sent" => task[t] = "sent" \/ (h \in Hand /\ hand[h].task = t /\ Doing(h, "ack"))

\* A minted row stays, and a number is taken only after those below it.
LEMMA MintedKept ==
  ASSUME SettlementInv, NEW h, Keeps(h), NEW i \in Refund
  PROVE  /\ IsMinted(i) => IsMinted(i)'
         /\ IsMinted(i)' => IsMinted(i) \/ Mints(i)
<1>1. refund[i] \in RefundRecord BY SettlementNow
<1>2. RowStep(h, i) BY DEF Keeps
<1>3. QED BY <1>1, <1>2 DEF RowStep, IsMinted, Mints, Arms, Retires, Succeeds, Answers, Responds, Closes, Disowns, RefundRecord

\* What there is of the money that was paid back, and who is cared for, stays.
LEMMA MoneyKept ==
  ASSUME SettlementInv, NEW h, Keeps(h), NEW j \in Joiner
  PROVE  /\ PaidBack(j) # {} => PaidBack(j)' # {}
         /\ Cared(j) => Cared(j)'
<1>1. paidBack \subseteq paidBack' /\ flagged \subseteq flagged' BY DEF Keeps
<1>2. PaidBack(j) \subseteq PaidBack(j)' BY <1>1 DEF PaidBack
<1>3. Cared(j) => Cared(j)' BY <1>1 DEF Cared
<1>4. QED BY <1>2, <1>3

\* Money that was captured stays captured or was paid back.
LEMMA PursesKept ==
  ASSUME SettlementInv, NEW h, Keeps(h)
  PROVE  Purses'
<1>1. SUFFICES ASSUME NEW j \in Joiner
               PROVE  /\ j \in paid' => purse'[j] \in {"Captured", "Refunded"}
                      /\ purse'[j] = "Captured" => j \in paid'
                      /\ purse'[j] = "Refunded" => PaidBack(j)' # {}
      BY DEF Purses
<1>2. /\ j \in paid => purse[j] \in {"Captured", "Refunded"}
      /\ purse[j] = "Captured" => j \in paid
      /\ purse[j] = "Refunded" => PaidBack(j) # {}
      BY SettlementNow DEF Purses
<1>3. /\ paid' = paid
      /\ purse'[j] = purse[j] \/ (purse[j] = "Captured" /\ purse'[j] = "Refunded" /\ PaidBack(j) # {})
      BY DEF Keeps
<1>4. PaidBack(j) # {} => PaidBack(j)' # {} BY MoneyKept
<1>5. QED BY <1>2, <1>3, <1>4

\* What is known of a row.
LEMMA RowsOfRows ==
  ASSUME SettlementInv, NEW i \in Refund
  PROVE  refund[i] \in RefundRecord /\ Row(i)
BY SettlementNow DEF Rows

\* Each row stays true.
LEMMA RowKept ==
  ASSUME SettlementInv, NEW h, Keeps(h), NEW i \in Refund
  PROVE  Row(i)'
<1>1. refund[i] \in RefundRecord /\ Row(i) BY RowsOfRows
<1>2. RowStep(h, i) BY DEF Keeps
<1>3. /\ Out' \subseteq Out \cup Sent(h) /\ (Decided => dealState' = dealState) /\ paid' = paid
      /\ misjudged \subseteq misjudged'
      BY DEF Keeps
<1>4. i[1] \in Joiner BY Names
<1>5. PaidBack(i[1]) # {} => PaidBack(i[1])' # {} BY <1>4, MoneyKept
<1>6. i \in Sent(h) => h \in Hand /\ Doing(h, "send") /\ On(h) = i BY DEF Sent
<1>7. i \in Sent(h) => /\ refund[i].owner = h /\ refund[i].result \in {"unknown", "success"} /\ h # "null"
      BY <1>6, SettlementNow, Names DEF Runs, Requests
<1>8. IsMinted(i) => dealState = "Failed" /\ dealState' = "Failed" /\ i[1] \in paid'
      BY <1>1, <1>3 DEF Row, Decided
<1>9. CASE refund'[i] = refund[i]
      BY <1>1, <1>3, <1>5, <1>7, <1>8, <1>9 DEF Row, IsMinted
<1>10. CASE Mints(i)
  <2>1. refund[i].result = "none" /\ refund'[i] = [NoRefund EXCEPT !.result = "unknown"] /\ dealState = "Failed" /\ i[1] \in paid
        BY <1>10 DEF Mints
  <2>2. i \notin Out /\ i \notin Sent(h) BY <2>1, <1>1, <1>7 DEF Row, IsMinted
  <2>3. refund'[i].result = "unknown" /\ dealState' = "Failed" BY <2>1, <1>3 DEF NoRefund, Decided
  <2>4. i \notin Out' BY <2>2, <1>3
  <2>5. QED BY <2>1, <2>3, <2>4, <1>3 DEF Row, IsMinted
<1>11. CASE Retires(i)
  <2>1. refund[i].owner = "null" /\ refund[i].result = "unknown" /\ refund'[i] = [refund[i] EXCEPT !.result = "temporary_fail"]
        BY <1>11 DEF Retires
  <2>2. i \notin Out /\ i \notin Sent(h) BY <2>1, <1>1, <1>7 DEF Row
  <2>3. refund'[i].result = "temporary_fail" /\ refund'[i].owner = "null" /\ i \notin Out' BY <2>1, <2>2, <1>1, <1>3 DEF RefundRecord
  <2>4. IsMinted(i) BY <2>1 DEF IsMinted
  <2>5. QED BY <2>3, <2>4, <1>8 DEF Row, IsMinted
<1>12. CASE Succeeds(i)
  <2>1. IsMinted(i) /\ PaidBack(i[1]) # {} /\ refund'[i] = [refund[i] EXCEPT !.result = "success", !.dispatch = "responded"]
        BY <1>12 DEF Succeeds
  <2>2. refund'[i].result = "success" /\ refund'[i].owner = refund[i].owner BY <2>1, <1>1 DEF RefundRecord
  <2>3. i \in Out' => refund[i].owner # "null" BY <1>1, <1>3, <1>7 DEF Row
  <2>4. QED BY <2>1, <2>2, <2>3, <1>5, <1>8 DEF Row, IsMinted
<1>13. CASE h \in Hand /\ Arms(h, i)
  <2>1. refund[i].result = "unknown" /\ refund'[i] = [refund[i] EXCEPT !.dispatch = "dispatching", !.owner = h]
        BY <1>13 DEF Arms
  <2>2. refund'[i].result = "unknown" /\ refund'[i].owner = h /\ h # "null" BY <2>1, <1>1, <1>13, Names DEF RefundRecord
  <2>3. IsMinted(i) BY <2>1 DEF IsMinted
  <2>4. QED BY <2>2, <2>3, <1>8 DEF Row, IsMinted
<1>14. CASE h \in Hand /\ Answers(h, i)
  <2>1. /\ refund[i].result = "unknown" /\ i \notin Out /\ Doing(h, "settle")
        /\ refund'[i] = [refund[i] EXCEPT !.dispatch = "responded", !.result = "permanent_fail"]
        BY <1>14 DEF Answers
  <2>2. i \notin Out' BY <2>1, <1>3, <1>6 DEF Doing
  <2>3. refund'[i].result = "permanent_fail" /\ IsMinted(i) BY <2>1, <1>1 DEF RefundRecord, IsMinted
  <2>4. QED BY <2>2, <2>3, <1>8 DEF Row, IsMinted
<1>15. CASE h \in Hand /\ Responds(h, i)
  <2>1. refund[i].owner = h /\ refund'[i] = [refund[i] EXCEPT !.dispatch = "responded"] /\ Doing(h, "settle")
        BY <1>15 DEF Responds
  <2>2. refund'[i].result = refund[i].result /\ refund'[i].owner = h /\ h # "null" BY <2>1, <1>1, <1>15, Names DEF RefundRecord
  <2>3. i \in Out' => i \in Out BY <2>1, <1>3, <1>6 DEF Doing
  <2>4. IsMinted(i) BY <1>1, <1>15, <2>1, Names DEF Row, IsMinted, NoRefund
  <2>5. QED BY <2>1, <2>2, <2>3, <2>4, <1>1, <1>3, <1>5, <1>8 DEF Row, IsMinted
<1>16. CASE h \in Hand /\ Closes(h, i)
  <2>1. /\ Doing(h, "conclude") /\ refund[i].result \in {"unknown", "temporary_fail"} /\ (i \in Out => i[1] \in misjudged')
        /\ refund'[i] = [refund[i] EXCEPT !.result = "permanent_fail", !.dispatch = "responded"]
        BY <1>16 DEF Closes
  <2>2. i \in Out' => i \in Out BY <2>1, <1>3, <1>6 DEF Doing
  <2>3. refund'[i].result = "permanent_fail" /\ refund'[i].owner = refund[i].owner /\ IsMinted(i)
        BY <2>1, <1>1 DEF RefundRecord, IsMinted
  <2>4. QED BY <2>1, <2>2, <2>3, <1>1, <1>8 DEF Row, IsMinted
<1>17. CASE h \in Hand /\ Disowns(h, i)
  <2>1. refund[i].owner = h /\ refund'[i] = [refund[i] EXCEPT !.owner = "gone"] BY <1>17 DEF Disowns
  <2>2. refund'[i].result = refund[i].result /\ refund'[i].owner = "gone" /\ h # "null" BY <2>1, <1>1, <1>17, Names DEF RefundRecord
  <2>3. IsMinted(i) BY <1>1, <1>17, <2>1, Names DEF Row, IsMinted, NoRefund
  <2>4. refund[i].result # "temporary_fail" BY <1>1, <2>1, <2>2 DEF Row
  <2>5. i \in Out' => i \in Out \/ refund[i].result # "permanent_fail" BY <1>3, <1>7
  <2>6. QED BY <2>2, <2>3, <2>4, <2>5, <1>1, <1>3, <1>5, <1>8 DEF Row, IsMinted
<1>18. QED BY <1>2, <1>9, <1>10, <1>11, <1>12, <1>13, <1>14, <1>15, <1>16, <1>17 DEF RowStep

\* Numbers are minted one after the other.
LEMMA RowsKept ==
  ASSUME SettlementInv, NEW h, Keeps(h)
  PROVE  Rows'
<1>1. \A i \in Refund : Row(i)' BY RowKept
<1>2. ASSUME NEW j \in Joiner, NEW m \in RefundId, NEW n \in RefundId, m < n, IsMinted(<<j, n>>)'
      PROVE  IsMinted(<<j, m>>)'
  <2>1. <<j, m>> \in Refund /\ <<j, n>> \in Refund BY Names
  <2>2. \A k, l \in RefundId : k < l /\ IsMinted(<<j, l>>) => IsMinted(<<j, k>>) BY SettlementNow DEF Rows
  <2>3. IsMinted(<<j, m>>) => IsMinted(<<j, m>>)' BY <2>1, MintedKept
  <2>4. CASE IsMinted(<<j, n>>) BY <2>2, <2>3, <2>4, <1>2
  <2>5. CASE Mints(<<j, n>>)
    <3>1. n = Cardinality(Minted(j)) + 1 BY <2>5 DEF Mints
    <3>2. SUFFICES ASSUME ~IsMinted(<<j, m>>) PROVE FALSE BY <2>3
    <3>3. m \in Nat /\ n \in Nat /\ m >= 1 BY Names DEF RefundId
    <3>4. Minted(j) \subseteq 1..(m - 1)
      <4>1. SUFFICES ASSUME NEW k \in Minted(j) PROVE k \in 1..(m - 1) OBVIOUS
      <4>2. k \in RefundId /\ IsMinted(<<j, k>>) BY DEF Minted, IsMinted
      <4>3. k \in Nat /\ k >= 1 BY <4>2, Names DEF RefundId
      <4>4. ~(m < k) BY <4>2, <2>2, <3>2
      <4>5. k # m BY <4>2, <3>2
      <4>6. QED BY <4>3, <4>4, <4>5, <3>3
    <3>5. IsFiniteSet(1..(m - 1)) /\ Cardinality(1..(m - 1)) = m - 1 BY <3>3, FS_Interval
    <3>6. Cardinality(Minted(j)) <= m - 1 /\ Cardinality(Minted(j)) \in Nat BY <3>4, <3>5, FS_Subset, FS_CardinalityType
    <3>7. QED BY <3>1, <3>3, <3>6, <1>2
  <2>6. QED BY <2>1, <2>4, <2>5, MintedKept, <1>2
<1>3. QED BY <1>1, <1>2 DEF Rows

\* The run of a hand that does not step is not disturbed ...
LEMMA RunKept ==
  ASSUME SettlementInv, NEW h, Keeps(h), NEW g \in Hand, g # h
  PROVE  Place(g)' /\ Holds(g)' /\ Requests(g)'
<1>1. hand'[g] = hand[g] BY DEF Keeps
<1>2. Place(g) /\ Holds(g) /\ Requests(g) /\ hand[g] \in HandRecord BY SettlementNow DEF Runs
<1>3. Place(g)'
  <2>1. dealState = "Failed" => dealState' = "Failed" BY DEF Keeps, Decided
  <2>2. hand[g].task \in Joiner => task'[hand[g].task] # "none" BY <1>2, Names DEF Place, Keeps
  <2>3. QED BY <1>1, <1>2, <2>1, <2>2 DEF Place, Doing
<1>4. Holds(g)'
  <2> DEFINE i == hand[g].on
  <2>1. hand'[g].on = i BY <1>1
  <2>2. i \in Refund /\ refund[i].result # "none" => refund'[i].result # "none" BY MintedKept DEF IsMinted
  <2>3. QED BY <1>1, <1>2, <2>1, <2>2 DEF Holds, On, IsMinted
<1>5. Requests(g)'
  <2>1. SUFFICES ASSUME hand[g].pc \in {"send", "await", "settle", "ingest"} PROVE Requests(g)'
        BY <1>1 DEF Requests, Doing
  <2> DEFINE i == On(g)
  <2>2. i \in Refund /\ IsMinted(i) /\ hand'[g].on = i BY <1>1, <1>2, <2>1 DEF Holds, RefundPc, On
  <2>3. refund[i] \in RefundRecord /\ Row(i) BY <2>2, RowsOfRows
  <2>4. RowStep(h, i) BY <2>2 DEF Keeps
  <2>5. paidBack \subseteq paidBack' /\ Out' \subseteq Out \cup Sent(h) BY DEF Keeps
  <2>6. i \in Sent(h) => refund[i].owner = h
        BY SettlementNow DEF Runs, Requests, Sent, Doing
  <2>7. refund'[i].owner = g => refund[i].owner = g
        BY <2>2, <2>3, <2>4, Names
        DEF RowStep, Mints, Arms, Retires, Succeeds, Answers, Responds, Closes, Disowns, RefundRecord, IsMinted
  <2>8. refund[i].owner # "null" => refund'[i].owner # "null"
        BY <2>2, <2>3, <2>4, Names
        DEF RowStep, Mints, Arms, Retires, Succeeds, Answers, Responds, Closes, Disowns, RefundRecord, IsMinted
  <2>9. CASE Doing(g, "send")
    <3>1. hand[g].live /\ refund[i].owner = g /\ refund[i].result \in {"unknown", "success"}
          /\ (refund[i].result = "unknown" => refund[i].dispatch = "dispatching")
          BY <1>2, <2>9 DEF Requests
    <3>2. refund[i].result = "unknown" => InFlightRefund(i) BY <3>1 DEF InFlightRefund, LiveOwner
    <3>3. g # "null" /\ g # h BY Names
    <3>4. refund'[i] = refund[i] \/ Succeeds(i)
          BY <2>2, <2>4, <3>1, <3>2, <3>3 DEF RowStep, Mints, Arms, Retires, Answers, Responds, Closes, Disowns, IsMinted
    <3>5. /\ refund'[i].owner = g /\ refund'[i].result \in {"unknown", "success"}
          /\ refund'[i].result = "unknown" => refund'[i].dispatch = "dispatching"
          BY <3>1, <3>4, <2>3 DEF Succeeds, RefundRecord
    <3>6. QED BY <1>1, <2>2, <2>9, <3>1, <3>5 DEF Requests, Doing, On
  <2>10. CASE hand[g].pc \in {"await", "settle", "ingest"}
    <3>1. g # h BY Names
    <3>2. refund'[i].owner = g /\ i \notin Out => i \notin Out' BY <2>5, <2>6, <2>7, <3>1
    <3>3. i \in paidBack => i \in paidBack' BY <2>5
    <3>4. On(g)' = i BY <2>2 DEF On
    <3>5. QED BY <1>1, <1>2, <2>2, <2>7, <2>8, <2>10, <3>2, <3>3, <3>4 DEF Requests, Doing, On
  <2>11. QED BY <2>1, <2>9, <2>10 DEF Doing
<1>6. QED BY <1>3, <1>4, <1>5

\* Refunds stay due once the deal failed, and only then.
LEMMA TasksKept ==
  ASSUME SettlementInv, NEW h, Keeps(h)
  PROVE  Tasks'
<1>1. ASSUME NEW j \in Joiner, task'[j] # "none"
      PROVE  concerns'[j] \in RefundId /\ refund'[<<j, concerns'[j]>>].result # "none"
  <2> DEFINE i == <<j, concerns'[j]>>
  <2>1. concerns'[j] \in RefundId /\ refund[i].result # "none" BY <1>1 DEF Keeps, IsMinted
  <2>2. i \in Refund BY <2>1, Names
  <2>3. refund'[i].result # "none" BY <2>1, <2>2, MintedKept DEF IsMinted
  <2>4. QED BY <2>1, <2>3
<1>2. task'["refund_issue"] # "none" <=> dealState' = "Failed"
  <2>1. task["refund_issue"] # "none" <=> dealState = "Failed" BY SettlementNow DEF Tasks
  <2>2. task["refund_issue"] # "none" => task'["refund_issue"] # "none" BY Names DEF Keeps
  <2>3. /\ dealState # "Failed" /\ dealState' = "Failed" => task'["refund_issue"] # "none"
        /\ task'["refund_issue"] # "none" => dealState' = "Failed"
        BY DEF Keeps
  <2>4. QED BY <2>1, <2>2, <2>3
<1>3. QED BY <1>1, <1>2 DEF Tasks, IsMinted

\* No second identity may come to be executed beside the first.
LEMMA OneMayKept ==
  ASSUME SettlementInv, NEW h, Keeps(h), h \in Hand => Requests(h)'
  PROVE  OneMay'
<1>1. SUFFICES ASSUME NEW j \in Joiner \ misjudged', NEW m \in May(j)', NEW n \in May(j)' PROVE m = n
      BY DEF OneMay
<1>2. j \in Joiner \ misjudged BY DEF Keeps
<1>3. m \in RefundId /\ n \in RefundId BY DEF May
<1>4. \A k \in May(j)' : k \in May(j) \/ Mints(<<j, k>>)
  <2>1. SUFFICES ASSUME NEW k \in RefundId, k \in May(j)' PROVE k \in May(j) \/ Mints(<<j, k>>) BY DEF May
  <2> DEFINE i == <<j, k>>
  <2>2. i \in Refund BY <1>2, Names
  <2>3. refund[i] \in RefundRecord /\ Row(i) /\ RowStep(h, i) BY <2>2, RowsOfRows DEF Keeps
  <2>4. CASE refund'[i].result = "unknown"
    <3>1. refund[i].result = "unknown" \/ Mints(i)
          BY <2>3, <2>4 DEF RowStep, Arms, Retires, Succeeds, Answers, Responds, Closes, Disowns, RefundRecord
    <3>2. QED BY <3>1 DEF May
  <2>5. CASE i \in Out'
    <3>1. i \in Out \/ (h \in Hand /\ Doing(h, "send") /\ On(h) = i) BY <2>5 DEF Keeps, Sent
    <3>2. QED BY <3>1 DEF May
  <2>6. ASSUME NEW g \in Hand, Doing(g, "send")', On(g)' = i PROVE k \in May(j) \/ Mints(<<j, k>>)
    <3>1. CASE g = h
      <4>1. hand'[h].pc = "send" /\ hand'[h].on = i BY <2>6, <3>1 DEF Doing, On
      <4>2. refund'[i].result = "unknown" BY <4>1, <2>6, <3>1 DEF Keeps
      <4>3. QED BY <4>2, <2>4
    <3>2. CASE g # h
      <4>1. hand'[g] = hand[g] BY <3>2 DEF Keeps
      <4>2. Doing(g, "send") /\ On(g) = i BY <4>1, <2>6 DEF Doing, On
      <4>3. QED BY <4>2 DEF May
    <3>3. QED BY <3>1, <3>2
  <2>7. \/ refund'[i].result = "unknown" \/ i \in Out'
        \/ \E g \in Hand : Doing(g, "send")' /\ On(g)' = i
        BY <2>1 DEF May
  <2>8. QED BY <2>4, <2>5, <2>6, <2>7
<1>5. ASSUME NEW k \in RefundId, Mints(<<j, k>>) PROVE May(j) = {}
  <2>1. Unresolved(j) = {} BY <1>5 DEF Mints
  <2>2. SUFFICES ASSUME NEW l \in RefundId, l \in May(j) PROVE FALSE BY DEF May
  <2> DEFINE i == <<j, l>>
  <2>3. i \in Refund BY <1>2, Names
  <2>4. refund[i] \in RefundRecord /\ Row(i) BY <2>3, RowsOfRows
  <2>5. refund[i].result \notin {"unknown", "success"} BY <2>1, <2>2 DEF Unresolved, Minted
  <2>6. \A g \in Hand : Doing(g, "send") => On(g) # i BY <2>5, SettlementNow DEF Runs, Requests
  <2>7. i \in Out BY <2>2, <2>5, <2>6 DEF May
  <2>8. QED BY <2>4, <2>5, <2>7, <1>2 DEF Row, RefundRecord, IsMinted
<1>6. \A k, l \in RefundId : Mints(<<j, k>>) /\ Mints(<<j, l>>) => k = l
  <2>1. SUFFICES ASSUME NEW k \in RefundId, NEW l \in RefundId, Mints(<<j, k>>), Mints(<<j, l>>) PROVE k = l OBVIOUS
  <2>2. <<j, k>> \in Refund /\ <<j, l>> \in Refund BY <1>2, Names
  <2>3. <<j, k>> = <<j, l>> BY <2>1, <2>2 DEF Keeps
  <2>4. QED BY <2>3
<1>7. \A k, l \in May(j) : k = l BY <1>2, SettlementNow DEF OneMay
<1>8. QED BY <1>3, <1>4, <1>5, <1>6, <1>7

\* Who is settled stays as the decision has it.
LEMMA OutcomesKept ==
  ASSUME SettlementInv, NEW h, Keeps(h), h \in Hand => Listing(h)'
  PROVE  Outcomes'
<1>1. /\ \A j \in Joiner : joiner[j] \in Settled => Decided /\ joiner[j] = Owed(j)
      /\ \A g \in Hand : Listing(g)
      /\ task["finalize_deal"] = "sent" => Decided
      /\ task["finalize_deal"] = "sent" /\ dealState = "Completed" => \A j \in Joiner : joiner[j] \in Settled
      BY SettlementNow DEF Outcomes
<1>2. Decided => Decided' /\ dealState' = dealState BY DEF Keeps, Decided
<1>3. Decided => \A j \in Joiner : Owed(j)' = Owed(j) BY <1>2 DEF Owed, Keeps
<1>4. \A j \in Joiner : Owed(j) \in Settled BY DEF Owed, Settled
<1>5. \A j \in Joiner : joiner'[j] = joiner[j] \/ (Decided /\ joiner'[j] = Owed(j)) BY DEF Keeps
<1>6. \A j \in Joiner : joiner'[j] \in Settled => Decided' /\ joiner'[j] = Owed(j)' BY <1>1, <1>2, <1>3, <1>5
<1>7. \A j \in Joiner : joiner[j] \in Settled => joiner'[j] \in Settled BY <1>4, <1>5
<1>8. \A g \in Hand : Listing(g)'
  <2>1. SUFFICES ASSUME NEW g \in Hand, g # h PROVE Listing(g)' OBVIOUS
  <2>2. hand'[g] = hand[g] BY <2>1 DEF Keeps
  <2>3. Listing(g) BY <1>1
  <2>4. QED BY <2>2, <2>3, <1>2, <1>7 DEF Listing
<1>9. task'["finalize_deal"] = "sent" =>
        Decided /\ (dealState = "Completed" => \A j \in Joiner : joiner[j] \in Settled)
  <2>1. task'["finalize_deal"] = "sent" =>
          task["finalize_deal"] = "sent" \/ (h \in Hand /\ hand[h].task = "finalize_deal" /\ Doing(h, "ack"))
        BY DEF Keeps
  <2>2. h \in Hand /\ hand[h].task = "finalize_deal" /\ Doing(h, "ack") =>
          Decided /\ (dealState = "Completed" => \A j \in Joiner : joiner[j] \in Settled)
        BY <1>1 DEF Listing, Doing
  <2>3. QED BY <1>1, <2>1, <2>2
<1>10. QED BY <1>2, <1>6, <1>7, <1>8, <1>9 DEF Outcomes

\* Whoever was served stays served.
LEMMA HandledKept ==
  ASSUME SettlementInv, NEW h, Keeps(h), NEW j \in paid, Handled(j)
  PROVE  Handled(j)'
<1>1. j \in Joiner BY SettlementNow
<1>2. Cared(j) => Cared(j)' BY <1>1, MoneyKept
<1>3. PaidBack(j) # {} => Cared(j) BY DEF PaidBack, Cared
<1>4. ASSUME NEW n \in RefundId, refund[<<j, n>>].result \in {"unknown", "permanent_fail"}
      PROVE  PaidBack(j) # {} \/ refund'[<<j, n>>].result \in {"unknown", "permanent_fail"}
  <2> DEFINE i == <<j, n>>
  <2>1. i \in Refund /\ i[1] = j BY <1>1, Names
  <2>2. refund[i] \in RefundRecord /\ RowStep(h, i) BY <2>1, RowsOfRows DEF Keeps
  <2>3. Retires(i) => PaidBack(j) # {}
    <3>1. Retires(i) => purse[j] # "Captured" BY DEF Retires
    <3>2. purse[j] # "Captured" => PaidBack(j) # {} BY <1>1, SettlementNow DEF Purses
    <3>3. QED BY <3>1, <3>2
  <2>4. Succeeds(i) => PaidBack(j) # {} BY DEF Succeeds
  <2>5. QED BY <1>4, <2>2, <2>3, <2>4 DEF RowStep, Mints, Arms, Answers, Responds, Closes, Disowns, RefundRecord
<1>5. QED BY <1>2, <1>3, <1>4 DEF Handled

\* Nobody drops out of the list of refund_issue unserved.
LEMMA CustodyKept ==
  ASSUME SettlementInv, NEW h, Keeps(h), h \in Hand => Serving(h)'
  PROVE  Custody'
<1>1. (\A g \in Hand : Serving(g)) /\ (task["refund_issue"] = "sent" => \A j \in paid : Handled(j))
      BY SettlementNow DEF Custody
<1>2. paid' = paid /\ \A j \in paid : Handled(j) => Handled(j)' BY HandledKept DEF Keeps
<1>3. \A g \in Hand : Serving(g)'
  <2>1. SUFFICES ASSUME NEW g \in Hand, g # h PROVE Serving(g)' OBVIOUS
  <2>2. hand'[g] = hand[g] BY <2>1 DEF Keeps
  <2>3. Serving(g) BY <1>1
  <2>4. QED BY <2>2, <2>3, <1>2 DEF Serving
<1>4. task'["refund_issue"] = "sent" => \A j \in paid' : Handled(j)'
  <2>1. task'["refund_issue"] = "sent" =>
          task["refund_issue"] = "sent" \/ (h \in Hand /\ hand[h].task = "refund_issue" /\ Doing(h, "ack"))
        BY DEF Keeps
  <2>2. h \in Hand /\ hand[h].task = "refund_issue" /\ Doing(h, "ack") => \A j \in paid : Handled(j)
        BY <1>1 DEF Serving, Doing
  <2>3. QED BY <1>1, <1>2, <2>1, <2>2
<1>5. QED BY <1>3, <1>4 DEF Custody

\* A step is good if it keeps what must be kept and leaves its own run in order.
Ordered(h) == Place(h) /\ Holds(h) /\ Requests(h) /\ Listing(h) /\ Serving(h)

\* The invariant outlasts every good step.
LEMMA StepInv ==
  ASSUME SettlementInv, NEW h, Keeps(h), SettlementTypeOK', h \in Hand => Ordered(h)'
  PROVE  SettlementInv'
<1>1. h \in Hand => Place(h)' /\ Holds(h)' /\ Requests(h)' /\ Listing(h)' /\ Serving(h)' BY DEF Ordered
<1>2. Purses' /\ Rows' /\ Tasks' BY PursesKept, RowsKept, TasksKept
<1>3. OneMay' BY <1>1, OneMayKept
<1>4. Outcomes' BY <1>1, OutcomesKept
<1>5. Custody' BY <1>1, CustodyKept
<1>6. Runs'
  <2>1. \A g \in Hand : g # h => Place(g)' /\ Holds(g)' /\ Requests(g)' BY RunKept
  <2>2. QED BY <1>1, <2>1 DEF Runs
<1>7. QED BY <1>2, <1>3, <1>4, <1>5, <1>6 DEF SettlementInv

-----------------------------------------------------------------------------
(* What the steps have in common.                                            *)

Good(h) == SettlementTypeOK' /\ Keeps(h) /\ (h \in Hand => Ordered(h)')

\* Only the runs and the open cases change.
LEMMA Quiet ==
  ASSUME SettlementInv, NEW h \in Hand, hand' \in [Hand -> HandRecord], \A g \in Hand \ {h} : hand'[g] = hand[g],
         hand'[h].pc # "send", flagged \subseteq flagged', flagged' \subseteq Joiner,
         UNCHANGED <<premises, outcome, purse, refund, outbox, till>>
  PROVE  SettlementTypeOK' /\ Keeps(h)
<1>1. /\ paid' = paid /\ proves' = proves /\ misjudged' = misjudged /\ mishaps' = mishaps /\ dealState' = dealState
      /\ joiner' = joiner /\ purse' = purse /\ refund' = refund /\ task' = task /\ concerns' = concerns
      /\ transit' = transit /\ paidBack' = paidBack
      BY DEF premises, outcome, outbox, till
<1>2. SettlementTypeOK' BY <1>1, SettlementNow, TypesNext
<1>3. \A i \in Refund : RowStep(h, i) /\ ~Mints(i)
  <2>1. \A i \in Refund : RowStep(h, i) BY <1>1 DEF RowStep
  <2>2. SUFFICES ASSUME NEW i \in Refund, Mints(i) PROVE FALSE BY <2>1
  <2>3. refund[i].result = "none" /\ refund'[i] = [NoRefund EXCEPT !.result = "unknown"] BY <2>2 DEF Mints
  <2>4. refund'[i].result = "unknown" BY <2>3 DEF NoRefund
  <2>5. QED BY <1>1, <2>3, <2>4
<1>4. /\ task["refund_issue"] # "none" => dealState = "Failed"
      /\ \A j \in Joiner : task[j] # "none" => concerns[j] \in RefundId /\ IsMinted(<<j, concerns[j]>>)
      BY SettlementNow DEF Tasks
<1>5. Out' = Out BY <1>1 DEF Out
<1>6. QED BY <1>1, <1>2, <1>3, <1>4, <1>5 DEF Keeps

\* Only the runs, the open cases, the jobs and what concerns them change.
LEMMA Busy ==
  ASSUME SettlementInv, NEW h, hand' \in [Hand -> HandRecord], \A g \in Hand \ {h} : hand'[g] = hand[g],
         h \in Hand => hand'[h].pc # "send", flagged \subseteq flagged', flagged' \subseteq Joiner,
         mishaps' \in 0..MaxMishaps,
         UNCHANGED <<paid, proves, misjudged, outcome, purse, refund, till>>,
         task' \in [Task -> TaskState], concerns' \in [Joiner -> 0..MaxRefunds],
         \A t \in Task : task[t] # "none" => task'[t] # "none",
         task'["refund_issue"] # "none" => dealState = "Failed",
         \A j \in Joiner : task'[j] # "none" => concerns'[j] \in RefundId /\ IsMinted(<<j, concerns'[j]>>),
         \A t \in {"finalize_deal", "refund_issue"} :
           task'[t] = "sent" => task[t] = "sent" \/ (h \in Hand /\ hand[h].task = t /\ Doing(h, "ack"))
  PROVE  SettlementTypeOK' /\ Keeps(h)
<1>1. /\ paid' = paid /\ proves' = proves /\ misjudged' = misjudged /\ dealState' = dealState
      /\ joiner' = joiner /\ purse' = purse /\ refund' = refund
      /\ transit' = transit /\ paidBack' = paidBack
      BY DEF outcome, till
<1>2. SettlementTypeOK' BY <1>1, SettlementNow, TypesNext
<1>3. \A i \in Refund : RowStep(h, i) /\ ~Mints(i)
  <2>1. \A i \in Refund : RowStep(h, i) BY <1>1 DEF RowStep
  <2>2. SUFFICES ASSUME NEW i \in Refund, Mints(i) PROVE FALSE BY <2>1
  <2>3. refund[i].result = "none" /\ refund'[i] = [NoRefund EXCEPT !.result = "unknown"] BY <2>2 DEF Mints
  <2>4. refund'[i].result = "unknown" BY <2>3 DEF NoRefund
  <2>5. QED BY <1>1, <2>3, <2>4
<1>4. Out' = Out BY <1>1 DEF Out
<1>5. QED BY <1>1, <1>2, <1>3, <1>4 DEF Keeps

\* The jobs are left alone, and the rows change as rows may.
LEMMA Booked ==
  ASSUME SettlementInv, NEW h, hand' \in [Hand -> HandRecord], \A g \in Hand \ {h} : hand'[g] = hand[g],
         h \in Hand /\ hand'[h].pc = "send" => hand'[h].on \in Refund /\ refund'[hand'[h].on].result = "unknown",
         flagged \subseteq flagged', flagged' \subseteq Joiner, misjudged \subseteq misjudged', misjudged' \subseteq Joiner,
         UNCHANGED <<paid, proves, mishaps, outcome, outbox>>,
         purse' \in [Joiner -> {"Captured", "Held", "Refunded"}],
         \A j \in Joiner : \/ purse'[j] = purse[j]
                           \/ purse[j] = "Captured" /\ purse'[j] = "Refunded" /\ PaidBack(j) # {},
         refund' \in [Refund -> RefundRecord], \A i \in Refund : RowStep(h, i),
         \A i, k \in Refund : Mints(i) /\ Mints(k) => i = k,
         transit' \subseteq Refund, paidBack' \subseteq Refund, paidBack \subseteq paidBack', Out' \subseteq Out \cup Sent(h)
  PROVE  SettlementTypeOK' /\ Keeps(h)
<1>1. /\ paid' = paid /\ proves' = proves /\ mishaps' = mishaps /\ dealState' = dealState
      /\ joiner' = joiner /\ task' = task /\ concerns' = concerns
      BY DEF outcome, outbox
<1>2. SettlementTypeOK' BY <1>1, SettlementNow, TypesNext
<1>3. /\ task["refund_issue"] # "none" => dealState = "Failed"
      /\ \A j \in Joiner : task[j] # "none" => concerns[j] \in RefundId /\ IsMinted(<<j, concerns[j]>>)
      BY SettlementNow DEF Tasks
<1>4. QED BY <1>1, <1>2, <1>3 DEF Keeps

\* What Moves does to the run.
LEMMA MovesForm ==
  ASSUME SettlementInv, NEW h \in Hand, NEW pc \in Pc, Moves(h, pc)
  PROVE  /\ hand' \in [Hand -> HandRecord] /\ \A g \in Hand \ {h} : hand'[g] = hand[g]
         /\ hand'[h].pc = pc /\ hand'[h].task = hand[h].task /\ hand'[h].live = hand[h].live
         /\ hand'[h].todo = IF pc \in Over THEN {} ELSE hand[h].todo
         /\ hand'[h].on = IF pc \in Over \cup {"refunds"} THEN Nobody ELSE hand[h].on
         /\ hand'[h].seen = IF pc \in {"ingest", "conclude"} THEN hand[h].seen ELSE "none"
<1>1. hand \in [Hand -> HandRecord] BY SettlementNow
<1> DEFINE r == [hand[h] EXCEPT !.pc = pc,
                                !.seen = IF pc \in {"ingest", "conclude"} THEN @ ELSE "none",
                                !.todo = IF pc \in Over THEN {} ELSE @,
                                !.on = IF pc \in Over \cup {"refunds"} THEN Nobody ELSE @]
<1>2. hand' = [hand EXCEPT ![h] = r] BY <1>1 DEF Moves
<1>3. /\ r.pc = pc /\ r.task = hand[h].task /\ r.live = hand[h].live
      /\ r.todo = IF pc \in Over THEN {} ELSE hand[h].todo
      /\ r.on = IF pc \in Over \cup {"refunds"} THEN Nobody ELSE hand[h].on
      /\ r.seen = IF pc \in {"ingest", "conclude"} THEN hand[h].seen ELSE "none"
      /\ r \in HandRecord
      BY <1>1 DEF HandRecord
<1> HIDE DEF r
<1>4. hand'[h] = r /\ (\A g \in Hand \ {h} : hand'[g] = hand[g]) /\ hand' \in [Hand -> HandRecord] BY <1>1, <1>2, <1>3
<1>5. QED BY <1>3, <1>4

\* A run of finalize_deal is in order by what it has settled ...
LEMMA FinalRun ==
  ASSUME SettlementInv, NEW h \in Hand, Keeps(h), hand'[h].task = "finalize_deal",
         hand'[h].pc \in {"start"} \cup FinalPc \cup Over, Listing(h)'
  PROVE  Ordered(h)'
<1>1. Place(h)' BY Names DEF Place, Doing, FinalPc, RefundPc, ProofPc, Over, Free
<1>2. Holds(h)' BY Names DEF Holds, FinalPc, RefundPc, Over
<1>3. Requests(h)' BY DEF Requests, Doing, FinalPc, Over
<1>4. Serving(h)' BY DEF Serving
<1>5. QED BY <1>1, <1>2, <1>3, <1>4 DEF Ordered

\* ... one of refund_issue by its request and whom it has served ...
LEMMA RefundRun ==
  ASSUME SettlementInv, NEW h \in Hand, Keeps(h), hand[h].task = "refund_issue", hand'[h].task = "refund_issue",
         hand'[h].pc \in {"start"} \cup RefundPc \cup Over,
         hand'[h].pc \in RefundPc \ {"refunds"} => hand'[h].on \in Refund /\ refund'[hand'[h].on].result # "none",
         Requests(h)', Serving(h)'
  PROVE  Ordered(h)'
<1>1. dealState' = "Failed" BY SettlementNow DEF Runs, Place, Keeps, Decided
<1>2. Place(h)' BY <1>1, Names DEF Place, Doing, FinalPc, RefundPc, ProofPc, Over, Free
<1>3. Holds(h)' BY Names DEF Holds, On, IsMinted
<1>4. Listing(h)' BY DEF Listing
<1>5. QED BY <1>2, <1>3, <1>4 DEF Ordered

\* ... and one of payment_reconcile by the identity it is about.
LEMMA ReconcileRun ==
  ASSUME SettlementInv, NEW h \in Hand, Keeps(h), hand[h].task \in Joiner, hand'[h].task = hand[h].task,
         hand'[h].pc \in {"start"} \cup ProofPc \cup Over,
         hand'[h].pc \in Over \/ (hand'[h].on = hand[h].on /\ hand[h].pc \notin Over)
  PROVE  Ordered(h)'
<1>1. Place(h) /\ Holds(h) BY SettlementNow DEF Runs
<1>2. task'[hand[h].task] # "none" BY <1>1, Names DEF Place, Keeps
<1>3. Place(h)' BY <1>2, Names DEF Place, Doing, FinalPc, RefundPc, ProofPc, Over, Free
<1>4. Holds(h)'
  <2> DEFINE i == hand[h].on
  <2>1. i \in Refund /\ refund[i].result # "none" => refund'[i].result # "none" BY MintedKept DEF IsMinted
  <2>2. hand[h].pc \notin Over => i \in Refund /\ refund[i].result # "none" /\ i[1] = hand[h].task
        BY <1>1 DEF Holds, On, IsMinted
  <2>3. hand'[h].pc \notin RefundPc BY DEF RefundPc, ProofPc, Over
  <2>4. QED BY <2>1, <2>2, <2>3 DEF Holds, On, IsMinted
<1>5. Requests(h)' BY DEF Requests, Doing, ProofPc, Over
<1>6. Listing(h)' /\ Serving(h)' BY Names DEF Listing, Serving
<1>7. QED BY <1>3, <1>4, <1>5, <1>6 DEF Ordered

\* A run of refund_issue leaves nobody out of its list who is not served.
LEMMA ServingOn ==
  ASSUME SettlementInv, NEW h \in Hand, Keeps(h), hand[h].task = "refund_issue", hand[h].pc \in RefundPc,
         \A j \in paid : j \in hand[h].todo => j \in hand'[h].todo \/ Handled(j)' \/ hand'[h].pc \in {"throw", "give_up"},
         hand'[h].pc = "ack" => hand'[h].todo = {}
  PROVE  Serving(h)'
<1>1. \A j \in paid : Handled(j) \/ j \in hand[h].todo BY SettlementNow DEF Custody, Serving
<1>2. paid' = paid /\ \A j \in paid : Handled(j) => Handled(j)' BY HandledKept DEF Keeps
<1>3. QED BY <1>1, <1>2 DEF Serving, RefundPc

-----------------------------------------------------------------------------
(* The jobs and the runs.                                                    *)

\* A run that begins knows what its job was about.
LEMMA StepTakeTask ==
  ASSUME SettlementInv, NEW h \in Hand, NEW t \in Task, TakeTask(h, t)
  PROVE  Good(h)
<1>1. /\ Doing(h, "free") /\ task[t] = "pending" /\ task' = [task EXCEPT ![t] = "processing"]
      /\ hand' = [hand EXCEPT ![h] = [Free EXCEPT !.task = t, !.pc = "start", !.live = TRUE,
                                                  !.on = IF t \in Joiner THEN <<t, concerns[t]>> ELSE @]]
      /\ UNCHANGED <<premises, outcome, purse, refund, concerns, flagged, till>>
      BY DEF TakeTask
<1> DEFINE r == [Free EXCEPT !.task = t, !.pc = "start", !.live = TRUE,
                             !.on = IF t \in Joiner THEN <<t, concerns[t]>> ELSE @]
<1>2. /\ r.task = t /\ r.pc = "start" /\ r.live = TRUE /\ r.todo = {} /\ r.seen = "none"
      /\ r.on = IF t \in Joiner THEN <<t, concerns[t]>> ELSE Nobody
      /\ r \in HandRecord
  <2>1. t \in Joiner => concerns[t] \in 0..MaxRefunds BY SettlementNow
  <2>2. QED BY <2>1 DEF Free, HandRecord, Pc
<1> HIDE DEF r
<1>3. hand' = [hand EXCEPT ![h] = r] BY <1>1 DEF r
<1>4. hand' \in [Hand -> HandRecord] /\ hand'[h] = r /\ \A g \in Hand \ {h} : hand'[g] = hand[g]
      BY <1>2, <1>3, SettlementNow
<1>5. /\ task["refund_issue"] # "none" => dealState = "Failed"
      /\ \A j \in Joiner : task[j] # "none" => concerns[j] \in RefundId /\ IsMinted(<<j, concerns[j]>>)
      BY SettlementNow DEF Tasks
<1>6. task' \in [Task -> TaskState] /\ (\A s \in Task : task'[s] # "none" <=> task[s] # "none")
      /\ task'[t] = "processing" /\ \A s \in Task : task'[s] = "sent" => task[s] = "sent"
      BY <1>1, SettlementNow DEF TaskState
<1>7. SettlementTypeOK' /\ Keeps(h)
  <2>1. /\ concerns' = concerns /\ flagged' = flagged /\ mishaps' = mishaps
        /\ UNCHANGED <<paid, proves, misjudged, outcome, purse, refund, till>>
        BY <1>1 DEF premises
  <2>2. concerns' \in [Joiner -> 0..MaxRefunds] /\ flagged' \subseteq Joiner /\ mishaps' \in 0..MaxMishaps
        BY <2>1, SettlementNow
  <2>3. \A j \in Joiner : task'[j] # "none" => concerns'[j] \in RefundId /\ IsMinted(<<j, concerns'[j]>>)
        BY <1>5, <1>6, <2>1, Names
  <2>4. task'["refund_issue"] # "none" => dealState = "Failed" BY <1>5, <1>6, Names
  <2>5. \A s \in {"finalize_deal", "refund_issue"} : task'[s] = "sent" => task[s] = "sent" BY <1>6, Names
  <2>6. hand'[h].pc # "send" BY <1>2, <1>4
  <2>7. QED BY <1>4, <1>6, <2>1, <2>2, <2>3, <2>4, <2>5, <2>6, Busy
<1>8. Ordered(h)'
  <2>1. dealState' = dealState /\ refund' = refund BY <1>1 DEF outcome
  <2>2. Place(h)'
        BY <1>1, <1>2, <1>4, <1>5, <1>6, <2>1, Names DEF Place, Doing, Free, FinalPc, RefundPc, ProofPc
  <2>3. Holds(h)'
    <3>1. t \in Joiner => <<t, concerns[t]>> \in Refund /\ refund[<<t, concerns[t]>>].result # "none"
          BY <1>1, <1>5, Names DEF IsMinted
    <3>2. QED BY <1>2, <1>4, <2>1, <3>1 DEF Holds, RefundPc, On, IsMinted
  <2>4. Requests(h)' /\ Listing(h)' /\ Serving(h)' BY <1>2, <1>4 DEF Requests, Listing, Serving, Doing, RefundPc
  <2>5. QED BY <2>2, <2>3, <2>4 DEF Ordered
<1>9. QED BY <1>7, <1>8 DEF Good

\* The end of a run, whatever its job is left as.
LEMMA StepEnds ==
  ASSUME SettlementInv, NEW h \in Hand, NEW status \in TaskState, EndsWith(h, status), ~Doing(h, "free"),
         flagged' = flagged, mishaps' \in 0..MaxMishaps,
         status = "none" => ~hand[h].live, status = "sent" => Doing(h, "ack")
  PROVE  Good(h)
<1>1. /\ task' = IF hand[h].live THEN [task EXCEPT ![hand[h].task] = status] ELSE task
      /\ hand' = [hand EXCEPT ![h] = Free] /\ Disown(h)
      /\ UNCHANGED <<paid, proves, misjudged, outcome, purse, concerns, till>>
      BY DEF EndsWith
<1>2. Free \in HandRecord BY DEF Free, HandRecord, Pc
<1>3. hand' \in [Hand -> HandRecord] /\ hand'[h] = Free /\ (\A g \in Hand \ {h} : hand'[g] = hand[g])
      BY <1>1, <1>2, SettlementNow
<1>4. Place(h) /\ hand[h] \in HandRecord BY SettlementNow DEF Runs
<1>5. hand[h].task \in Task /\ hand[h].task # "none" BY <1>4 DEF Place, HandRecord
<1>6. /\ task' \in [Task -> TaskState] /\ \A s \in Task : task'[s] = task[s] \/ (s = hand[h].task /\ hand[h].live /\ task'[s] = status)
      BY <1>1, <1>5, SettlementNow
<1>7. /\ task["refund_issue"] # "none" <=> dealState = "Failed"
      /\ \A j \in Joiner : task[j] # "none" => concerns[j] \in RefundId /\ IsMinted(<<j, concerns[j]>>)
      BY SettlementNow DEF Tasks
<1>8. \A s \in Task : task[s] # "none" => task'[s] # "none" BY <1>6
<1>9. \A s \in Task \cap (Joiner \cup {"refund_issue"}) : task'[s] # "none" => task[s] # "none"
  <2>1. hand[h].task = "refund_issue" => task["refund_issue"] # "none" BY <1>4, <1>7 DEF Place
  <2>2. hand[h].task \in Joiner => task[hand[h].task] # "none" BY <1>4 DEF Place
  <2>3. QED BY <1>6, <2>1, <2>2
<1>10. refund' \in [Refund -> RefundRecord] /\ \A i \in Refund : refund'[i] = refund[i] \/ Disowns(h, i)
  <2>1. DOMAIN refund = Refund /\ \A i \in Refund : refund[i] \in RefundRecord BY SettlementNow
  <2>2. refund' = [i \in Refund |-> IF refund[i].owner = h THEN [refund[i] EXCEPT !.owner = "gone"] ELSE refund[i]]
        BY <1>1, <2>1 DEF Disown
  <2>3. \A i \in Refund : refund'[i] = refund[i] \/ (refund[i].owner = h /\ refund'[i] = [refund[i] EXCEPT !.owner = "gone"])
        BY <2>2
  <2>4. \A i \in Refund : [refund[i] EXCEPT !.owner = "gone"] \in RefundRecord BY <2>1 DEF RefundRecord
  <2>5. \A i \in Refund : refund'[i] \in RefundRecord BY <2>1, <2>3, <2>4
  <2>6. QED BY <2>2, <2>3, <2>5, <1>3 DEF Disowns
<1>11. /\ paid' = paid /\ proves' = proves /\ misjudged' = misjudged /\ dealState' = dealState /\ joiner' = joiner
       /\ purse' = purse /\ concerns' = concerns /\ transit' = transit /\ paidBack' = paidBack
       BY <1>1 DEF outcome, till
<1>12. SettlementTypeOK' BY <1>3, <1>6, <1>10, <1>11, SettlementNow, TypesNext
<1>13. Keeps(h)
  <2>1. \A i \in Refund : RowStep(h, i) /\ ~Mints(i)
    <3>1. SUFFICES ASSUME NEW i \in Refund PROVE RowStep(h, i) /\ ~Mints(i) OBVIOUS
    <3>2. RowStep(h, i) BY <1>10 DEF RowStep
    <3>3. refund[i] \in RefundRecord BY SettlementNow
    <3>4. refund'[i].result = refund[i].result BY <1>10, <3>3 DEF Disowns, RefundRecord
    <3>5. Mints(i) => refund'[i].result = "unknown" /\ refund[i].result = "none" BY DEF Mints, NoRefund
    <3>6. QED BY <3>2, <3>4, <3>5
  <2>2. Out' = Out BY <1>11 DEF Out
  <2>3. hand'[h].pc # "send" BY <1>3 DEF Free
  <2>4. task'["refund_issue"] # "none" => dealState' = "Failed" BY <1>7, <1>9, <1>11, Names
  <2>5. \A j \in Joiner : task'[j] # "none" => concerns'[j] \in RefundId /\ IsMinted(<<j, concerns'[j]>>)
        BY <1>7, <1>9, <1>11, Names
  <2>6. \A s \in {"finalize_deal", "refund_issue"} :
          task'[s] = "sent" => task[s] = "sent" \/ (h \in Hand /\ hand[h].task = s /\ Doing(h, "ack"))
        BY <1>6, Names
  <2>7. QED BY <1>3, <1>8, <1>11, <2>1, <2>2, <2>3, <2>4, <2>5, <2>6 DEF Keeps
<1>14. Ordered(h)'
  <2>1. Place(h)' BY <1>3, Names DEF Place, Doing, Free, FinalPc, RefundPc, ProofPc
  <2>2. Holds(h)' /\ Requests(h)' /\ Listing(h)' /\ Serving(h)'
        BY <1>3, Names DEF Holds, Requests, Listing, Serving, Doing, Free, RefundPc
  <2>3. QED BY <2>1, <2>2 DEF Ordered
<1>15. QED BY <1>12, <1>13, <1>14 DEF Good

\* There is room for another mishap while fewer are spent than may be.
LEMMA SpentBound ==
  ASSUME SettlementInv, Spent < MaxMishaps, mishaps' = mishaps + 1
  PROVE  mishaps' \in 0..MaxMishaps
<1> DEFINE more == {i \in DOMAIN refund : i[2] > 1 /\ refund[i].result # "none"}
<1>1. IsFiniteSet(Joiner) /\ MaxRefunds \in Nat BY SettlementAssumption
<1>2. IsFiniteSet(1..MaxRefunds) BY <1>1, FS_Interval
<1>3. IsFiniteSet(Joiner \X (1..MaxRefunds)) BY <1>1, <1>2, FS_Product
<1>4. DOMAIN refund = Joiner \X (1..MaxRefunds) BY SettlementNow DEF Refund, RefundId
<1>5. more \subseteq Joiner \X (1..MaxRefunds) BY <1>4
<1>6. IsFiniteSet(more) /\ Cardinality(more) \in Nat BY <1>3, <1>5, FS_Subset, FS_CardinalityType
<1>7. Spent = mishaps + Cardinality(more) BY DEF Spent
<1> HIDE DEF more
<1>8. QED BY <1>6, <1>7, SettlementNow, Names

\* However the run ends.
LEMMA StepHandEnds ==
  ASSUME SettlementInv, NEW h \in Hand, HandAcks(h) \/ HandRetries(h) \/ HandGivesUp(h) \/ Exhausted(h) \/ HandDies(h)
  PROVE  Good(h)
<1>1. mishaps \in 0..MaxMishaps /\ MaxMishaps \in Nat BY SettlementNow, Names
<1>2. CASE HandAcks(h)
  <2>1. EndsWith(h, "sent") /\ Doing(h, "ack") /\ flagged' = flagged /\ mishaps' = mishaps BY <1>2 DEF HandAcks
  <2>2. QED BY <2>1, <1>1, StepEnds DEF TaskState, Doing
<1>3. CASE HandRetries(h)
  <2>1. EndsWith(h, "pending") /\ Doing(h, "throw") /\ flagged' = flagged /\ mishaps' = mishaps BY <1>3 DEF HandRetries
  <2>2. QED BY <2>1, <1>1, StepEnds DEF TaskState, Doing
<1>4. CASE HandGivesUp(h)
  <2>1. EndsWith(h, "dlq") /\ Doing(h, "give_up") /\ flagged' = flagged /\ mishaps' = mishaps BY <1>4 DEF HandGivesUp
  <2>2. QED BY <2>1, <1>1, StepEnds DEF TaskState, Doing
<1>5. CASE Exhausted(h)
  <2>1. EndsWith(h, "dlq") /\ Doing(h, "throw") /\ flagged' = flagged /\ mishaps' = mishaps + 1 /\ Spent < MaxMishaps
        BY <1>5 DEF Exhausted
  <2>2. mishaps' \in 0..MaxMishaps BY <2>1, SpentBound
  <2>3. QED BY <2>1, <2>2, StepEnds DEF TaskState, Doing
<1>6. CASE HandDies(h)
  <2>1. EndsWith(h, "none") /\ ~Doing(h, "free") /\ ~hand[h].live /\ flagged' = flagged /\ mishaps' = mishaps
        BY <1>6 DEF HandDies
  <2>2. QED BY <2>1, <1>1, StepEnds DEF TaskState, Doing
<1>7. QED BY <1>2, <1>3, <1>4, <1>5, <1>6

\* A run that fails forgets what it was at.
LEMMA StepHandThrows ==
  ASSUME SettlementInv, NEW h \in Hand, HandThrows(h)
  PROVE  Good(h)
<1>1. /\ hand[h].pc \notin {"free", "ack", "throw", "give_up", "send"} /\ Moves(h, "throw")
      /\ UNCHANGED <<premises, outcome, purse, refund, outbox, flagged, till>>
      BY DEF HandThrows
<1>2. /\ hand' \in [Hand -> HandRecord] /\ (\A g \in Hand \ {h} : hand'[g] = hand[g])
      /\ hand'[h].pc = "throw" /\ hand'[h].task = hand[h].task
      BY <1>1, MovesForm DEF Pc
<1>3. SettlementTypeOK' /\ Keeps(h) BY <1>1, <1>2, Quiet, SettlementNow
<1>4. Place(h) /\ hand[h] \in HandRecord BY SettlementNow DEF Runs
<1>5. hand[h].task \in Task BY <1>1, <1>4 DEF Place, Doing, HandRecord
<1>6. Requests(h)' /\ Serving(h)' /\ Listing(h)' BY <1>2 DEF Requests, Serving, Listing, Doing, RefundPc
<1>7. CASE hand[h].task = "finalize_deal" BY <1>2, <1>3, <1>6, <1>7, FinalRun DEF Over, Good
<1>8. CASE hand[h].task = "refund_issue"
  <2>1. "throw" \in Over /\ "throw" \notin RefundPc BY DEF Over, RefundPc
  <2>2. QED BY <1>2, <1>3, <1>6, <1>8, <2>1, RefundRun DEF Good
<1>9. CASE hand[h].task \in Joiner BY <1>2, <1>3, <1>9, ReconcileRun DEF Over, Good
<1>10. QED BY <1>5, <1>7, <1>8, <1>9 DEF Task

\* A lease may lapse, but not under a request.
LEMMA StepLeaseLapses ==
  ASSUME SettlementInv, NEW h \in Hand, LeaseLapses(h)
  PROVE  Good(h)
<1>1. /\ hand[h].live /\ ~Doing(h, "send") /\ Spent < MaxMishaps /\ mishaps' = mishaps + 1
      /\ hand' = [hand EXCEPT ![h].live = FALSE]
      /\ \E s \in {"pending", "dlq"} : task' = [task EXCEPT ![hand[h].task] = s]
      /\ UNCHANGED <<paid, proves, misjudged, outcome, purse, refund, concerns, flagged, till>>
      BY DEF LeaseLapses
<1>2. Place(h) /\ Holds(h) /\ Requests(h) /\ Listing(h) /\ Serving(h) /\ hand[h] \in HandRecord
      BY SettlementNow DEF Runs, Outcomes, Custody
<1>3. hand[h].task \in Task /\ hand[h].task # "none" BY <1>1, <1>2 DEF Place, HandRecord, Free
<1> DEFINE r == [hand[h] EXCEPT !.live = FALSE]
<1>4. /\ r.pc = hand[h].pc /\ r.task = hand[h].task /\ r.todo = hand[h].todo /\ r.on = hand[h].on /\ r.seen = hand[h].seen
      /\ r \in HandRecord
      BY <1>2 DEF HandRecord
<1> HIDE DEF r
<1>5. hand' = [hand EXCEPT ![h] = r] BY <1>1 DEF r
<1>6. hand' \in [Hand -> HandRecord] /\ hand'[h] = r /\ (\A g \in Hand \ {h} : hand'[g] = hand[g])
      BY <1>4, <1>5, SettlementNow
<1>7. /\ task["refund_issue"] # "none" <=> dealState = "Failed"
      /\ \A j \in Joiner : task[j] # "none" => concerns[j] \in RefundId /\ IsMinted(<<j, concerns[j]>>)
      BY SettlementNow DEF Tasks
<1>8. PICK s \in {"pending", "dlq"} : task' = [task EXCEPT ![hand[h].task] = s] BY <1>1
<1>9. /\ task' \in [Task -> TaskState] /\ task'[hand[h].task] = s /\ \A t \in Task : t # hand[h].task => task'[t] = task[t]
      BY <1>3, <1>8, SettlementNow DEF TaskState
<1>10. SettlementTypeOK' /\ Keeps(h)
  <2>1. mishaps' \in 0..MaxMishaps BY <1>1, SpentBound
  <2>2. \A t \in Task : task[t] # "none" => task'[t] # "none" BY <1>9
  <2>3. task'["refund_issue"] # "none" => dealState = "Failed" BY <1>2, <1>7, <1>9, Names DEF Place
  <2>4. concerns' = concerns /\ flagged' = flagged BY <1>1
  <2>5. \A j \in Joiner : task'[j] # "none" => concerns'[j] \in RefundId /\ IsMinted(<<j, concerns'[j]>>)
    <3>1. \A j \in Joiner : task'[j] # "none" => task[j] # "none" BY <1>2, <1>9, Names DEF Place
    <3>2. QED BY <1>7, <2>4, <3>1
  <2>6. \A t \in {"finalize_deal", "refund_issue"} : task'[t] = "sent" => task[t] = "sent" BY <1>9, Names
  <2>7. hand'[h].pc # "send" BY <1>1, <1>4, <1>6 DEF Doing
  <2>8. /\ concerns' \in [Joiner -> 0..MaxRefunds] /\ flagged' \subseteq Joiner
        /\ UNCHANGED <<paid, proves, misjudged, outcome, purse, refund, till>>
        BY <1>1, <2>4, SettlementNow
  <2>9. QED BY <1>6, <1>9, <2>1, <2>2, <2>3, <2>4, <2>5, <2>6, <2>7, <2>8, Busy
<1>11. Ordered(h)'
  <2>1. /\ refund' = refund /\ dealState' = dealState /\ joiner' = joiner /\ paid' = paid
        /\ transit' = transit /\ paidBack' = paidBack /\ flagged' = flagged
        BY <1>1 DEF outcome, till
  <2>2. hand'[h].pc # "free" /\ hand[h].pc # "free" BY <1>2, <1>3, <1>4, <1>6 DEF Place, Doing
  <2>3. hand'[h] # Free BY <2>2 DEF Free
  <2>4. Place(h)' BY <1>2, <1>3, <1>4, <1>6, <1>9, <2>1, <2>2, <2>3 DEF Place, Doing
  <2>5. Holds(h)' BY <1>2, <1>4, <1>6, <2>1 DEF Holds, On, IsMinted
  <2>6. Requests(h)' BY <1>1, <1>2, <1>4, <1>6, <2>1 DEF Requests, Doing, On, Out
  <2>7. Listing(h)' BY <1>2, <1>4, <1>6, <2>1 DEF Listing, Decided
  <2>8. Serving(h)'
    <3>1. \A j \in paid : Handled(j) => Handled(j)' BY <1>10, HandledKept
    <3>2. QED BY <1>2, <1>4, <1>6, <2>1, <3>1 DEF Serving
  <2>9. QED BY <2>4, <2>5, <2>6, <2>7, <2>8 DEF Ordered
<1>12. QED BY <1>10, <1>11 DEF Good

-----------------------------------------------------------------------------
(* finalize_deal.                                                            *)

\* A job that is to run: alive it is left alone.
LEMMA EnqueuedForm ==
  ASSUME SettlementInv, NEW t \in Task
  PROVE  /\ Enqueued(t) \in [Task -> TaskState] /\ Enqueued(t)[t] \in {"pending", "processing"}
         /\ \A s \in Task : s # t => Enqueued(t)[s] = task[s]
<1>1. task \in [Task -> TaskState] BY SettlementNow
<1>2. CASE Alive(t) BY <1>1, <1>2 DEF Enqueued, Alive
<1>3. CASE ~Alive(t) BY <1>1, <1>3 DEF Enqueued, TaskState
<1>4. QED BY <1>2, <1>3

\* A decided deal is settled again, or left.
LEMMA StepFinalizeBegins ==
  ASSUME SettlementInv, NEW h \in Hand, FinalizeBegins(h)
  PROVE  Good(h)
<1> DEFINE pc == Resumes(dealState)
<1>1. /\ hand[h].task = "finalize_deal" /\ Moves(h, pc)
      /\ UNCHANGED <<premises, outcome, purse, refund, outbox, flagged, till>>
      BY DEF FinalizeBegins
<1>2. pc \in {"decide", "list", "ack"} /\ (pc # "decide" => Decided) /\ (pc = "ack" => dealState = "Failed")
      BY SettlementNow DEF Resumes, Decided
<1> HIDE DEF pc
<1>3. pc \in Pc BY <1>2 DEF Pc
<1>4. /\ hand' \in [Hand -> HandRecord] /\ (\A g \in Hand \ {h} : hand'[g] = hand[g])
      /\ hand'[h].pc = pc /\ hand'[h].task = hand[h].task
      BY <1>1, <1>3, MovesForm
<1>5. hand'[h].pc # "send" /\ hand'[h].pc \in {"start"} \cup FinalPc \cup Over BY <1>2, <1>4 DEF FinalPc, Over
<1>6. SettlementTypeOK' /\ Keeps(h) BY <1>1, <1>4, <1>5, Quiet, SettlementNow
<1>7. dealState' = dealState BY <1>1 DEF outcome
<1>8. Listing(h)' BY <1>2, <1>4, <1>7 DEF Listing, Decided
<1>9. QED BY <1>1, <1>4, <1>5, <1>6, <1>8, FinalRun DEF Good

\* The decision and the job that refunds are one transaction.
LEMMA StepDecideOutcome ==
  ASSUME SettlementInv, NEW h \in Hand, DecideOutcome(h)
  PROVE  Good(h)
<1>1. /\ Doing(h, "decide") /\ Moves(h, "list")
      /\ paid' = paid /\ proves' = proves /\ misjudged' = misjudged /\ mishaps' = mishaps /\ joiner' = joiner
      /\ purse' = purse /\ refund' = refund /\ concerns' = concerns /\ flagged' = flagged
      /\ transit' = transit /\ paidBack' = paidBack
      BY DEF DecideOutcome, premises, till
<1>2. \/ dealState # "CompletionWindow" /\ dealState' = dealState /\ task' = task
      \/ dealState = "CompletionWindow" /\ dealState' = "Completed" /\ task' = task
      \/ dealState = "CompletionWindow" /\ dealState' = "Failed" /\ task' = Enqueued("refund_issue")
      BY DEF DecideOutcome
<1>3. /\ hand' \in [Hand -> HandRecord] /\ (\A g \in Hand \ {h} : hand'[g] = hand[g])
      /\ hand'[h].pc = "list" /\ hand'[h].task = hand[h].task
      BY <1>1, MovesForm DEF Pc
<1>4. hand[h].task = "finalize_deal" BY <1>1, SettlementNow DEF Runs, Place, Doing, FinalPc
<1>5. /\ Enqueued("refund_issue") \in [Task -> TaskState] /\ Enqueued("refund_issue")["refund_issue"] \in {"pending", "processing"}
      /\ \A s \in Task : s # "refund_issue" => Enqueued("refund_issue")[s] = task[s]
      BY EnqueuedForm, Names
<1>6. /\ task["refund_issue"] # "none" <=> dealState = "Failed"
      /\ \A j \in Joiner : task[j] # "none" => concerns[j] \in RefundId /\ IsMinted(<<j, concerns[j]>>)
      BY SettlementNow DEF Tasks
<1>7. /\ task' \in [Task -> TaskState] /\ dealState' \in {"CompletionWindow", "Completed", "Failed"}
      /\ \A s \in Task : s # "refund_issue" => task'[s] = task[s]
      /\ task'["refund_issue"] = task["refund_issue"] \/ task'["refund_issue"] \in {"pending", "processing"}
      /\ task'["refund_issue"] # "none" <=> dealState' = "Failed"
      /\ dealState' # "CompletionWindow" /\ (dealState # "CompletionWindow" => dealState' = dealState)
      BY <1>2, <1>5, <1>6, SettlementNow, Names
<1>8. SettlementTypeOK' BY <1>1, <1>3, <1>7, SettlementNow, TypesNext
<1>9. Keeps(h)
  <2>1. \A i \in Refund : RowStep(h, i) /\ ~Mints(i)
    <3>1. SUFFICES ASSUME NEW i \in Refund PROVE RowStep(h, i) /\ ~Mints(i) OBVIOUS
    <3>2. RowStep(h, i) BY <1>1 DEF RowStep
    <3>3. Mints(i) => refund'[i].result = "unknown" /\ refund[i].result = "none" BY DEF Mints, NoRefund
    <3>4. QED BY <1>1, <3>2, <3>3
  <2>2. Out' = Out BY <1>1 DEF Out
  <2>3. \A j \in Joiner : task'[j] # "none" => concerns'[j] \in RefundId /\ IsMinted(<<j, concerns'[j]>>)
        BY <1>1, <1>6, <1>7, Names
  <2>4. \A s \in {"finalize_deal", "refund_issue"} : task'[s] = "sent" => task[s] = "sent" BY <1>7, Names
  <2>5. \A s \in Task : task[s] # "none" => task'[s] # "none" BY <1>7
  <2>6. Decided => dealState' = dealState BY <1>7 DEF Decided
  <2>7. QED BY <1>1, <1>3, <1>7, <2>1, <2>2, <2>3, <2>4, <2>5, <2>6 DEF Keeps
<1>10. Listing(h)' BY <1>3, <1>7 DEF Listing, Decided
<1>11. QED BY <1>3, <1>4, <1>8, <1>9, <1>10, FinalRun DEF Good, FinalPc

\* Whoever is not listed is settled already.
LEMMA StepListMembers ==
  ASSUME SettlementInv, NEW h \in Hand, ListMembers(h)
  PROVE  Good(h)
<1> DEFINE left == {j \in Joiner : joiner[j] \notin {"DealCompleted", "DealFailed"}}
           r == [hand[h] EXCEPT !.pc = "members", !.todo = left]
<1>1. /\ Doing(h, "list") /\ hand' = [hand EXCEPT ![h].pc = "members", ![h].todo = left]
      /\ UNCHANGED <<premises, outcome, purse, refund, outbox, flagged, till>>
      BY DEF ListMembers
<1>2. hand[h] \in HandRecord /\ hand \in [Hand -> HandRecord] BY SettlementNow
<1>3. r \in HandRecord /\ r.pc = "members" /\ r.todo = left /\ r.task = hand[h].task BY <1>2 DEF HandRecord, Pc
<1>4. hand' = [hand EXCEPT ![h] = r] BY <1>1
<1> HIDE DEF r
<1>5. hand' \in [Hand -> HandRecord] /\ hand'[h] = r /\ (\A g \in Hand \ {h} : hand'[g] = hand[g]) BY <1>2, <1>3, <1>4
<1>6. SettlementTypeOK' /\ Keeps(h) BY <1>1, <1>3, <1>5, Quiet, SettlementNow
<1>7. hand[h].task = "finalize_deal" BY <1>1, SettlementNow DEF Runs, Place, Doing, FinalPc
<1>8. Listing(h) BY SettlementNow DEF Outcomes
<1>9. dealState' = dealState /\ joiner' = joiner BY <1>1 DEF outcome
<1>10. Listing(h)' BY <1>1, <1>3, <1>5, <1>7, <1>8, <1>9 DEF Listing, Decided, Settled, Doing
<1>11. QED BY <1>3, <1>5, <1>6, <1>7, <1>10, FinalRun DEF Good, FinalPc

\* One participant is settled as decided.
LEMMA StepSettleMember ==
  ASSUME SettlementInv, NEW h \in Hand, NEW j \in Joiner, SettleMember(h, j)
  PROVE  Good(h)
<1>1. /\ Doing(h, "members") /\ joiner' = [joiner EXCEPT ![j] = Owed(j)]
      /\ hand' = [hand EXCEPT ![h].todo = @ \ {j}]
      /\ paid' = paid /\ proves' = proves /\ misjudged' = misjudged /\ mishaps' = mishaps /\ dealState' = dealState
      /\ purse' = purse /\ refund' = refund /\ task' = task /\ concerns' = concerns /\ flagged' = flagged
      /\ transit' = transit /\ paidBack' = paidBack
      BY DEF SettleMember, premises, outbox, till
<1>2. hand[h] \in HandRecord /\ hand \in [Hand -> HandRecord] BY SettlementNow
<1> DEFINE r == [hand[h] EXCEPT !.todo = @ \ {j}]
<1>3. r \in HandRecord /\ r.pc = hand[h].pc /\ r.todo = hand[h].todo \ {j} /\ r.task = hand[h].task BY <1>2 DEF HandRecord
<1>4. hand' = [hand EXCEPT ![h] = r] BY <1>1
<1> HIDE DEF r
<1>5. hand' \in [Hand -> HandRecord] /\ hand'[h] = r /\ (\A g \in Hand \ {h} : hand'[g] = hand[g]) BY <1>2, <1>3, <1>4
<1>6. hand[h].task = "finalize_deal" BY <1>1, SettlementNow DEF Runs, Place, Doing, FinalPc
<1>7. Decided /\ \A k \in Joiner \ hand[h].todo : joiner[k] \in Settled
      BY <1>1, <1>6, SettlementNow DEF Outcomes, Listing, Doing
<1>8. Owed(j) \in {"DealCompleted", "DealFailed"} BY DEF Owed
<1>9. /\ joiner' \in [Joiner -> {"Charged", "Uncharged", "DealCompleted", "DealFailed"}]
      /\ joiner'[j] = Owed(j) /\ \A k \in Joiner : k # j => joiner'[k] = joiner[k]
      BY <1>1, <1>8, SettlementNow
<1>10. SettlementTypeOK' BY <1>1, <1>5, <1>9, SettlementNow, TypesNext
<1>11. \A k \in Joiner : Owed(k)' = Owed(k) BY <1>1 DEF Owed
<1>12. Keeps(h)
  <2>1. \A i \in Refund : RowStep(h, i) /\ ~Mints(i)
    <3>1. SUFFICES ASSUME NEW i \in Refund PROVE RowStep(h, i) /\ ~Mints(i) OBVIOUS
    <3>2. RowStep(h, i) BY <1>1 DEF RowStep
    <3>3. Mints(i) => refund'[i].result = "unknown" /\ refund[i].result = "none" BY DEF Mints, NoRefund
    <3>4. QED BY <1>1, <3>2, <3>3
  <2>2. Out' = Out BY <1>1 DEF Out
  <2>3. /\ task["refund_issue"] # "none" => dealState = "Failed"
        /\ \A k \in Joiner : task[k] # "none" => concerns[k] \in RefundId /\ IsMinted(<<k, concerns[k]>>)
        BY SettlementNow DEF Tasks
  <2>4. \A k \in Joiner : joiner'[k] = joiner[k] \/ (Decided /\ joiner'[k] = Owed(k)) BY <1>7, <1>9
  <2>5. hand'[h].pc # "send" BY <1>1, <1>3, <1>5 DEF Doing
  <2>6. QED BY <1>1, <1>5, <2>1, <2>2, <2>3, <2>4, <2>5 DEF Keeps
<1>13. Listing(h)'
  <2>1. hand'[h].pc = "members" /\ hand'[h].todo = hand[h].todo \ {j} BY <1>1, <1>3, <1>5 DEF Doing
  <2>2. \A k \in Joiner \ hand'[h].todo : joiner'[k] \in Settled BY <1>7, <1>8, <1>9, <2>1 DEF Settled
  <2>3. QED BY <1>1, <1>7, <2>1, <2>2 DEF Listing, Decided
<1>14. QED BY <1>1, <1>3, <1>5, <1>6, <1>10, <1>12, <1>13, FinalRun DEF Good, FinalPc, Doing

\* The list is empty: everybody is settled.
LEMMA StepMembersSettled ==
  ASSUME SettlementInv, NEW h \in Hand, MembersSettled(h)
  PROVE  Good(h)
<1>1. /\ Doing(h, "members") /\ hand[h].todo = {} /\ Moves(h, "ack")
      /\ UNCHANGED <<premises, outcome, purse, refund, outbox, flagged, till>>
      BY DEF MembersSettled
<1>2. /\ hand' \in [Hand -> HandRecord] /\ (\A g \in Hand \ {h} : hand'[g] = hand[g])
      /\ hand'[h].pc = "ack" /\ hand'[h].task = hand[h].task
      BY <1>1, MovesForm DEF Pc
<1>3. SettlementTypeOK' /\ Keeps(h) BY <1>1, <1>2, Quiet, SettlementNow
<1>4. hand[h].task = "finalize_deal" BY <1>1, SettlementNow DEF Runs, Place, Doing, FinalPc
<1>5. Decided /\ \A k \in Joiner : joiner[k] \in Settled
      BY <1>1, <1>4, SettlementNow DEF Outcomes, Listing, Doing
<1>6. dealState' = dealState /\ joiner' = joiner BY <1>1 DEF outcome
<1>7. Listing(h)' BY <1>2, <1>5, <1>6 DEF Listing, Decided
<1>8. QED BY <1>2, <1>3, <1>4, <1>7, FinalRun DEF Good, Over

-----------------------------------------------------------------------------
(* refund_issue.                                                             *)

\* What a run of refund_issue knows of its deal and its participants.
LEMMA ServingNow ==
  ASSUME SettlementInv, NEW h \in Hand, hand[h].pc \in RefundPc
  PROVE  /\ hand[h].task = "refund_issue" /\ dealState = "Failed" /\ hand[h] \in HandRecord
         /\ Requests(h) /\ \A j \in paid : Handled(j) \/ j \in hand[h].todo
         /\ hand[h].pc # "refunds" => /\ On(h) \in Refund /\ IsMinted(On(h)) /\ On(h)[1] \in Joiner
                                      /\ refund[On(h)] \in RefundRecord /\ Row(On(h))
<1>1. Place(h) /\ Holds(h) /\ Requests(h) /\ Serving(h) /\ hand[h] \in HandRecord
      BY SettlementNow DEF Runs, Custody
<1>2. hand[h].task = "refund_issue" BY <1>1 DEF Place
<1>3. hand[h].pc # "refunds" => On(h) \in Refund /\ IsMinted(On(h)) BY <1>1 DEF Holds
<1>4. On(h) \in Refund => refund[On(h)] \in RefundRecord /\ Row(On(h)) /\ On(h)[1] \in Joiner BY RowsOfRows, Names
<1>5. QED BY <1>1, <1>2, <1>3, <1>4 DEF Place, Serving

\* Whoever paid and is not captured any more was paid back.
LEMMA NoLongerCaptured ==
  ASSUME SettlementInv, NEW j \in paid, purse[j] # "Captured"
  PROVE  PaidBack(j) # {} /\ Handled(j)
<1>1. PaidBack(j) # {} BY SettlementNow DEF Purses
<1>2. QED BY <1>1 DEF PaidBack, Handled, Cared

\* Whoever is not listed has been paid back.
LEMMA StepRefundBegins ==
  ASSUME SettlementInv, NEW h \in Hand, RefundBegins(h)
  PROVE  Good(h)
<1> DEFINE owed == {j \in Joiner : purse[j] = "Captured"}
           r == [hand[h] EXCEPT !.pc = "refunds", !.todo = owed]
<1>1. /\ hand[h].task = "refund_issue" /\ hand' = [hand EXCEPT ![h].pc = "refunds", ![h].todo = owed]
      /\ UNCHANGED <<premises, outcome, purse, refund, outbox, flagged, till>>
      BY DEF RefundBegins
<1>2. hand[h] \in HandRecord /\ hand \in [Hand -> HandRecord] BY SettlementNow
<1>3. r \in HandRecord /\ r.pc = "refunds" /\ r.todo = owed /\ r.task = hand[h].task BY <1>2 DEF HandRecord, Pc
<1>4. hand' = [hand EXCEPT ![h] = r] BY <1>1
<1> HIDE DEF r
<1>5. hand' \in [Hand -> HandRecord] /\ hand'[h] = r /\ (\A g \in Hand \ {h} : hand'[g] = hand[g]) BY <1>2, <1>3, <1>4
<1>6. SettlementTypeOK' /\ Keeps(h) BY <1>1, <1>3, <1>5, Quiet, SettlementNow
<1>7. \A j \in paid : Handled(j) \/ j \in owed BY NoLongerCaptured, SettlementNow
<1>8. paid' = paid /\ \A j \in paid : Handled(j) => Handled(j)' BY <1>6, HandledKept DEF Keeps
<1>9. Serving(h)' BY <1>3, <1>5, <1>7, <1>8 DEF Serving
<1>10. Requests(h)' BY <1>3, <1>5 DEF Requests, Doing
<1>11. QED BY <1>1, <1>3, <1>5, <1>6, <1>9, <1>10, RefundRun DEF Good, RefundPc

\* The list is empty: everybody is served.
LEMMA StepRefundsThrough ==
  ASSUME SettlementInv, NEW h \in Hand, RefundsThrough(h)
  PROVE  Good(h)
<1>1. /\ Doing(h, "refunds") /\ hand[h].todo = {} /\ Moves(h, "ack")
      /\ UNCHANGED <<premises, outcome, purse, refund, outbox, flagged, till>>
      BY DEF RefundsThrough
<1>2. /\ hand' \in [Hand -> HandRecord] /\ (\A g \in Hand \ {h} : hand'[g] = hand[g])
      /\ hand'[h].pc = "ack" /\ hand'[h].task = hand[h].task /\ hand'[h].todo = {}
      BY <1>1, MovesForm DEF Pc, Over
<1>3. SettlementTypeOK' /\ Keeps(h) BY <1>1, <1>2, Quiet, SettlementNow
<1>4. hand[h].pc \in RefundPc /\ hand[h].task = "refund_issue" BY <1>1, ServingNow DEF RefundPc, Doing
<1>5. Serving(h)' BY <1>1, <1>2, <1>3, <1>4, ServingOn
<1>6. Requests(h)' BY <1>2 DEF Requests, Doing
<1>7. "ack" \in Over /\ "ack" \notin RefundPc BY DEF Over, RefundPc
<1>8. QED BY <1>2, <1>3, <1>4, <1>5, <1>6, <1>7, RefundRun DEF Good

\* No longer captured: what was never sent is retired.
LEMMA StepRefundNotAdmitted ==
  ASSUME SettlementInv, NEW h \in Hand, NEW j \in Joiner, RefundNotAdmitted(h, j)
  PROVE  Good(h)
<1> DEFINE void(i) == i[1] = j /\ refund[i].result = "unknown" /\ refund[i].dispatch = "recorded" /\ refund[i].owner = "null"
           r == [hand[h] EXCEPT !.todo = @ \ {j}]
<1>1. /\ Doing(h, "refunds") /\ purse[j] # "Captured"
      /\ refund' = [i \in DOMAIN refund |-> IF void(i) THEN [refund[i] EXCEPT !.result = "temporary_fail"] ELSE refund[i]]
      /\ hand' = [hand EXCEPT ![h].todo = @ \ {j}]
      /\ UNCHANGED <<premises, outcome, purse, outbox, flagged, till>>
      BY DEF RefundNotAdmitted
<1>2. /\ paid' = paid /\ proves' = proves /\ misjudged' = misjudged /\ mishaps' = mishaps /\ purse' = purse
      /\ flagged' = flagged /\ transit' = transit /\ paidBack' = paidBack
      BY <1>1 DEF premises, till
<1>3. hand[h] \in HandRecord /\ hand \in [Hand -> HandRecord] BY SettlementNow
<1>4. r \in HandRecord /\ r.pc = hand[h].pc /\ r.todo = hand[h].todo \ {j} /\ r.task = hand[h].task BY <1>3 DEF HandRecord
<1>5. hand' = [hand EXCEPT ![h] = r] BY <1>1
<1> HIDE DEF r
<1>6. hand' \in [Hand -> HandRecord] /\ hand'[h] = r /\ (\A g \in Hand \ {h} : hand'[g] = hand[g]) BY <1>3, <1>4, <1>5
<1>7. hand[h].pc = "refunds" /\ hand[h].pc \in RefundPc BY <1>1 DEF Doing, RefundPc
<1>8. DOMAIN refund = Refund /\ \A i \in Refund : refund[i] \in RefundRecord BY SettlementNow
<1>9. \A i \in Refund : refund'[i] = IF void(i) THEN [refund[i] EXCEPT !.result = "temporary_fail"] ELSE refund[i]
      BY <1>1, <1>8
<1>10. \A i \in Refund : refund'[i] = refund[i] \/ Retires(i)
  <2>1. SUFFICES ASSUME NEW i \in Refund, void(i) PROVE Retires(i) BY <1>9
  <2>2. refund'[i] = [refund[i] EXCEPT !.result = "temporary_fail"] BY <1>9, <2>1
  <2>3. QED BY <1>1, <2>1, <2>2 DEF Retires
<1>11. \A i \in Refund : refund'[i] \in RefundRecord /\ ~Mints(i)
  <2>1. SUFFICES ASSUME NEW i \in Refund PROVE refund'[i] \in RefundRecord /\ ~Mints(i) OBVIOUS
  <2>2. refund[i] \in RefundRecord BY <1>8
  <2>3. Mints(i) => refund'[i].result = "unknown" /\ refund[i].result = "none" BY DEF Mints, NoRefund
  <2>4. QED BY <1>10, <2>2, <2>3 DEF Retires, RefundRecord
<1>12. refund' \in [Refund -> RefundRecord]
  <2>1. DOMAIN refund' = Refund /\ refund' = [i \in DOMAIN refund' |-> refund'[i]] BY <1>1, <1>8
  <2>2. QED BY <2>1, <1>11
<1>13. SettlementTypeOK' /\ Keeps(h)
  <2>1. \A i \in Refund : RowStep(h, i) BY <1>10 DEF RowStep
  <2>2. Out' = Out BY <1>2 DEF Out
  <2>3. hand'[h].pc # "send" BY <1>4, <1>6, <1>7
  <2>4. QED BY <1>1, <1>2, <1>6, <1>11, <1>12, <2>1, <2>2, <2>3, SettlementNow, Booked
<1>14. hand[h].task = "refund_issue" BY <1>7, ServingNow
<1>15. Serving(h)'
  <2>1. j \in paid => Handled(j) BY <1>1, NoLongerCaptured
  <2>2. j \in paid => Handled(j)' BY <2>1, <1>13, HandledKept
  <2>3. hand'[h].todo = hand[h].todo \ {j} /\ hand'[h].pc = "refunds" BY <1>4, <1>6, <1>7
  <2>4. QED BY <1>7, <1>13, <1>14, <2>2, <2>3, ServingOn
<1>16. hand'[h].pc = "refunds" /\ hand'[h].task = "refund_issue" BY <1>4, <1>6, <1>7, <1>14
<1>17. Requests(h)' BY <1>16 DEF Requests, Doing
<1>18. QED BY <1>13, <1>14, <1>15, <1>16, <1>17, RefundRun DEF Good, RefundPc

\* What Works does to the run.
LEMMA WorksForm ==
  ASSUME SettlementInv, NEW h \in Hand, NEW pc \in Pc, NEW j \in Joiner, NEW n \in RefundId, Works(h, pc, <<j, n>>)
  PROVE  /\ hand' \in [Hand -> HandRecord] /\ \A g \in Hand \ {h} : hand'[g] = hand[g]
         /\ hand'[h].pc = pc /\ hand'[h].task = hand[h].task /\ hand'[h].live = hand[h].live
         /\ hand'[h].todo = hand[h].todo \ {j}
         /\ hand'[h].on = IF pc = "refunds" THEN Nobody ELSE <<j, n>>
<1>1. hand \in [Hand -> HandRecord] /\ hand[h] \in HandRecord BY SettlementNow
<1> DEFINE r == [hand[h] EXCEPT !.pc = pc, !.on = IF pc = "refunds" THEN Nobody ELSE <<j, n>>, !.todo = @ \ {j}]
<1>2. hand' = [hand EXCEPT ![h] = r] BY <1>1 DEF Works
<1>3. n \in 0..MaxRefunds BY Names DEF RefundId
<1>4. /\ r.pc = pc /\ r.task = hand[h].task /\ r.live = hand[h].live /\ r.todo = hand[h].todo \ {j}
      /\ r.on = IF pc = "refunds" THEN Nobody ELSE <<j, n>>
      /\ r \in HandRecord
      BY <1>1, <1>3 DEF HandRecord
<1> HIDE DEF r
<1>5. hand'[h] = r /\ (\A g \in Hand \ {h} : hand'[g] = hand[g]) /\ hand' \in [Hand -> HandRecord] BY <1>1, <1>2, <1>4
<1>6. QED BY <1>4, <1>5

\* An earlier identity is taken up, or left to its run.
LEMMA StepRefundAgain ==
  ASSUME SettlementInv, NEW h \in Hand, NEW j \in Joiner, RefundAgain(h, j)
  PROVE  Good(h)
<1>1. /\ Doing(h, "refunds")
      /\ UNCHANGED <<premises, outcome, purse, refund, outbox, flagged, till>>
      BY DEF RefundAgain
<1>2. PICK n \in Unresolved(j) :
        Works(h, IF InFlightRefund(<<j, n>>) THEN "refunds"
                 ELSE IF refund[<<j, n>>].result = "unknown" /\ refund[<<j, n>>].dispatch = "recorded" THEN "arm"
                 ELSE "resolve", <<j, n>>)
      BY DEF RefundAgain
<1> DEFINE pc == IF InFlightRefund(<<j, n>>) THEN "refunds"
                 ELSE IF refund[<<j, n>>].result = "unknown" /\ refund[<<j, n>>].dispatch = "recorded" THEN "arm"
                 ELSE "resolve"
<1>3. pc \in {"refunds", "arm", "resolve"} /\ Works(h, pc, <<j, n>>) BY <1>2
<1> HIDE DEF pc
<1>4. pc \in Pc BY <1>3 DEF Pc
<1>5. n \in RefundId /\ refund[<<j, n>>].result \in {"unknown", "success"} BY DEF Unresolved, Minted
<1>6. /\ hand' \in [Hand -> HandRecord] /\ \A g \in Hand \ {h} : hand'[g] = hand[g]
      /\ hand'[h].pc = pc /\ hand'[h].task = hand[h].task /\ hand'[h].todo = hand[h].todo \ {j}
      /\ hand'[h].on = IF pc = "refunds" THEN Nobody ELSE <<j, n>>
      BY <1>3, <1>4, <1>5, WorksForm
<1>7. hand'[h].pc # "send" /\ hand'[h].pc \in RefundPc /\ hand'[h].pc # "ack" BY <1>3, <1>6 DEF RefundPc
<1>8. SettlementTypeOK' /\ Keeps(h) BY <1>1, <1>6, <1>7, Quiet, SettlementNow
<1>9. hand[h].pc \in RefundPc /\ hand[h].task = "refund_issue" BY <1>1, ServingNow DEF RefundPc, Doing
<1>10. <<j, n>> \in Refund BY <1>5, Names
<1>11. refund' = refund BY <1>1
<1>12. j \in paid => Handled(j)
  <2>1. Row(<<j, n>>) BY <1>10, RowsOfRows
  <2>2. refund[<<j, n>>].result = "success" => Cared(j) BY <2>1 DEF Row, PaidBack, Cared
  <2>3. QED BY <1>5, <2>2 DEF Handled
<1>13. Serving(h)'
  <2>1. j \in paid => Handled(j)' BY <1>8, <1>12, HandledKept
  <2>2. QED BY <1>6, <1>7, <1>8, <1>9, <2>1, ServingOn
<1>14. Requests(h)' BY <1>3, <1>6 DEF Requests, Doing
<1>15. hand'[h].pc \in RefundPc \ {"refunds"} => hand'[h].on \in Refund /\ refund'[hand'[h].on].result # "none"
       BY <1>5, <1>6, <1>10, <1>11
<1>16. QED BY <1>6, <1>7, <1>8, <1>9, <1>13, <1>14, <1>15, RefundRun DEF Good

\* The next number of a participant is free.
LEMMA NextIsFree ==
  ASSUME SettlementInv, NEW j \in Joiner, Cardinality(Minted(j)) + 1 \in RefundId
  PROVE  refund[<<j, Cardinality(Minted(j)) + 1>>].result = "none"
<1> DEFINE k == Cardinality(Minted(j))
<1>1. SUFFICES ASSUME IsMinted(<<j, k + 1>>) PROVE FALSE BY DEF IsMinted
<1>2. MaxRefunds \in Nat /\ RefundId = 1..MaxRefunds BY Names DEF RefundId
<1>3. IsFiniteSet(Minted(j)) /\ k \in Nat
  <2>1. IsFiniteSet(1..MaxRefunds) BY <1>2, FS_Interval
  <2>2. Minted(j) \subseteq 1..MaxRefunds BY <1>2 DEF Minted
  <2>3. QED BY <2>1, <2>2, FS_Subset, FS_CardinalityType
<1> HIDE DEF k
<1>4. k + 1 \in RefundId BY DEF k
<1>5. \A m, n \in RefundId : m < n /\ IsMinted(<<j, n>>) => IsMinted(<<j, m>>) BY SettlementNow DEF Rows
<1>6. 1..(k + 1) \subseteq Minted(j)
  <2>1. SUFFICES ASSUME NEW m \in 1..(k + 1) PROVE m \in Minted(j) OBVIOUS
  <2>2. m \in RefundId /\ m \in Nat /\ (m < k + 1 \/ m = k + 1) BY <1>2, <1>3, <1>4
  <2>3. IsMinted(<<j, m>>) BY <1>1, <1>4, <1>5, <2>2 DEF k
  <2>4. QED BY <2>2, <2>3 DEF Minted, IsMinted
<1>7. Cardinality(1..(k + 1)) = k + 1 BY <1>3, FS_Interval
<1>8. k + 1 <= k BY <1>3, <1>6, <1>7, FS_Subset DEF k
<1>9. QED BY <1>3, <1>8

\* A new identity is minted beside none that is unresolved.
LEMMA StepRefundFresh ==
  ASSUME SettlementInv, NEW h \in Hand, NEW j \in Joiner, RefundFresh(h, j)
  PROVE  Good(h)
<1> DEFINE n == Cardinality(Minted(j)) + 1
           i == <<j, n>>
<1>1. /\ Doing(h, "refunds") /\ purse[j] = "Captured" /\ Unresolved(j) = {} /\ n \in RefundId
      /\ refund' = [refund EXCEPT ![i].result = "unknown"] /\ Works(h, "arm", i)
      /\ UNCHANGED <<premises, outcome, purse, outbox, flagged, till>>
      BY DEF RefundFresh
<1>2. /\ paid' = paid /\ proves' = proves /\ misjudged' = misjudged /\ mishaps' = mishaps /\ purse' = purse
      /\ flagged' = flagged /\ transit' = transit /\ paidBack' = paidBack
      BY <1>1 DEF premises, till
<1>3. refund[i].result = "none" BY <1>1, NextIsFree
<1>4. i \in Refund /\ refund \in [Refund -> RefundRecord] BY <1>1, Names, SettlementNow
<1>5. refund[i] = NoRefund BY <1>3, <1>4, RowsOfRows DEF Row
<1>6. n = Cardinality(Minted(j)) + 1 OBVIOUS
<1>7. i[1] = j /\ i[2] = n OBVIOUS
<1> HIDE DEF n
<1>8. /\ hand' \in [Hand -> HandRecord] /\ \A g \in Hand \ {h} : hand'[g] = hand[g]
      /\ hand'[h].pc = "arm" /\ hand'[h].task = hand[h].task /\ hand'[h].todo = hand[h].todo \ {j}
      /\ hand'[h].on = i
      BY <1>1, WorksForm DEF Pc
<1>9. hand[h].pc \in RefundPc /\ hand[h].task = "refund_issue" /\ dealState = "Failed"
      BY <1>1, ServingNow DEF RefundPc, Doing
<1> HIDE DEF i
<1>10. /\ refund' \in [Refund -> RefundRecord] /\ refund'[i] = [NoRefund EXCEPT !.result = "unknown"]
       /\ \A k \in Refund : k # i => refund'[k] = refund[k]
  <2>1. [refund[i] EXCEPT !.result = "unknown"] \in RefundRecord BY <1>4 DEF RefundRecord
  <2>2. QED BY <1>1, <1>4, <1>5, <2>1
<1>11. refund'[i].result = "unknown" BY <1>10 DEF NoRefund
<1>12. j \in paid BY <1>1, SettlementNow DEF Purses
<1>13. Mints(i) BY <1>1, <1>3, <1>6, <1>7, <1>9, <1>10, <1>12 DEF Mints
<1>14. \A k \in Refund : Mints(k) => k = i
  <2>1. \A k \in Refund : Mints(k) => refund'[k].result = "unknown" /\ refund[k].result = "none" BY DEF Mints, NoRefund
  <2>2. QED BY <1>10, <2>1
<1>15. SettlementTypeOK' /\ Keeps(h)
  <2>1. \A k \in Refund : RowStep(h, k) BY <1>10, <1>13 DEF RowStep
  <2>2. Out' = Out BY <1>2 DEF Out
  <2>3. hand'[h].pc # "send" BY <1>8
  <2>4. \A k, l \in Refund : Mints(k) /\ Mints(l) => k = l BY <1>14
  <2>5. QED BY <1>1, <1>2, <1>8, <1>10, <2>1, <2>2, <2>3, <2>4, SettlementNow, Booked
<1>16. Serving(h)'
  <2>1. Handled(j)' BY <1>1, <1>11 DEF Handled, i
  <2>2. QED BY <1>8, <1>9, <1>15, <2>1, ServingOn
<1>17. Requests(h)' BY <1>8 DEF Requests, Doing
<1>18. hand'[h].on \in Refund /\ refund'[hand'[h].on].result # "none" /\ hand'[h].pc \in RefundPc
       BY <1>4, <1>8, <1>11 DEF RefundPc
<1>19. QED BY <1>8, <1>9, <1>15, <1>16, <1>17, <1>18, RefundRun DEF Good

\* Hearing that a participant was paid back books it.
LEMMA RefundedForm ==
  ASSUME SettlementInv, NEW i \in Refund, IsMinted(i), PaidBack(i[1]) # {}, Refunded(i)
  PROVE  /\ purse' \in [Joiner -> {"Captured", "Held", "Refunded"}]
         /\ \A j \in Joiner : \/ purse'[j] = purse[j]
                              \/ purse[j] = "Captured" /\ purse'[j] = "Refunded" /\ PaidBack(j) # {}
         /\ refund' \in [Refund -> RefundRecord] /\ refund'[i].result = "success"
         /\ \A k \in Refund : refund'[k] = refund[k] \/ Succeeds(k)
         /\ \A k \in Refund : ~Mints(k)
<1>1. /\ purse' = [purse EXCEPT ![i[1]] = IF @ = "Captured" THEN "Refunded" ELSE @]
      /\ refund' = [refund EXCEPT ![i].result = "success", ![i].dispatch = "responded"]
      BY DEF Refunded
<1>2. i[1] \in Joiner BY Names
<1>3. purse \in [Joiner -> {"Captured", "Held", "Refunded"}] /\ refund \in [Refund -> RefundRecord] BY SettlementNow
<1>4. /\ purse' \in [Joiner -> {"Captured", "Held", "Refunded"}]
      /\ \A j \in Joiner : j # i[1] => purse'[j] = purse[j]
      /\ purse'[i[1]] = IF purse[i[1]] = "Captured" THEN "Refunded" ELSE purse[i[1]]
      BY <1>1, <1>2, <1>3
<1> DEFINE r == [refund[i] EXCEPT !.result = "success", !.dispatch = "responded"]
<1>5. r \in RefundRecord /\ r.result = "success" BY <1>3 DEF RefundRecord
<1>6. refund' = [refund EXCEPT ![i] = r] BY <1>1, <1>3
<1>7. r = [refund[i] EXCEPT !.result = "success", !.dispatch = "responded"] OBVIOUS
<1> HIDE DEF r
<1>8. refund' \in [Refund -> RefundRecord] /\ refund'[i] = r /\ \A k \in Refund : k # i => refund'[k] = refund[k]
      BY <1>3, <1>5, <1>6
<1>9. Succeeds(i) BY <1>7, <1>8 DEF Succeeds
<1>10. \A k \in Refund : ~Mints(k)
  <2>1. \A k \in Refund : Mints(k) => refund'[k].result = "unknown" /\ refund[k].result = "none" BY DEF Mints, NoRefund
  <2>2. QED BY <1>5, <1>8, <2>1
<1>11. QED BY <1>4, <1>5, <1>8, <1>9, <1>10

\* A run that hears of it goes on.
LEMMA RefundHeard ==
  ASSUME SettlementInv, NEW h \in Hand, NEW pc \in Pc \ {"send"}, Moves(h, pc), Refunded(On(h)), On(h) \in Refund,
         IsMinted(On(h)), PaidBack(On(h)[1]) # {}, UNCHANGED <<premises, outcome, outbox, flagged, till>>
  PROVE  /\ SettlementTypeOK' /\ Keeps(h) /\ hand'[h].pc = pc /\ hand'[h].task = hand[h].task
         /\ hand'[h].todo = IF pc \in Over THEN {} ELSE hand[h].todo
<1>1. /\ hand' \in [Hand -> HandRecord] /\ \A g \in Hand \ {h} : hand'[g] = hand[g]
      /\ hand'[h].pc = pc /\ hand'[h].task = hand[h].task
      /\ hand'[h].todo = IF pc \in Over THEN {} ELSE hand[h].todo
      BY MovesForm
<1>2. /\ paid' = paid /\ proves' = proves /\ misjudged' = misjudged /\ mishaps' = mishaps
      /\ flagged' = flagged /\ transit' = transit /\ paidBack' = paidBack
      BY DEF premises, till
<1>3. /\ purse' \in [Joiner -> {"Captured", "Held", "Refunded"}]
      /\ \A j \in Joiner : \/ purse'[j] = purse[j]
                           \/ purse[j] = "Captured" /\ purse'[j] = "Refunded" /\ PaidBack(j) # {}
      /\ refund' \in [Refund -> RefundRecord]
      /\ \A k \in Refund : refund'[k] = refund[k] \/ Succeeds(k)
      /\ \A k \in Refund : ~Mints(k)
      BY RefundedForm
<1>4. \A k \in Refund : RowStep(h, k) BY <1>3 DEF RowStep
<1>5. Out' = Out BY <1>2 DEF Out
<1>6. SettlementTypeOK' /\ Keeps(h) BY <1>1, <1>2, <1>3, <1>4, <1>5, SettlementNow, Booked
<1>7. QED BY <1>1, <1>6

\* A run of refund_issue that moves on, with nobody struck from its list.
LEMMA RefundMoves ==
  ASSUME SettlementInv, NEW h \in Hand, NEW pc \in (RefundPc \cup {"throw", "give_up"}) \ {"send", "settle", "ingest"},
         Moves(h, pc), Keeps(h), SettlementTypeOK', hand[h].pc \in RefundPc,
         pc \notin {"refunds", "throw", "give_up"} => hand[h].pc # "refunds",
         pc = "await" => refund'[On(h)].owner # "null"
  PROVE  Good(h)
<1>1. pc \in Pc BY DEF Pc, RefundPc
<1>2. /\ hand'[h].pc = pc /\ hand'[h].task = hand[h].task
      /\ hand'[h].todo = IF pc \in Over THEN {} ELSE hand[h].todo
      /\ hand'[h].on = IF pc \in Over \cup {"refunds"} THEN Nobody ELSE hand[h].on
      BY <1>1, MovesForm
<1>3. hand[h].task = "refund_issue" BY ServingNow
<1>4. pc # "ack" BY DEF RefundPc
<1>5. pc \in Over => pc \in {"throw", "give_up"} BY <1>4 DEF Over
<1>6. Serving(h)' BY <1>2, <1>3, <1>4, <1>5, ServingOn
<1>7. pc \in RefundPc \ {"refunds"} => pc \notin Over /\ hand'[h].on = On(h) BY <1>2 DEF RefundPc, Over, On
<1>8. Requests(h)'
  <2>1. pc = "await" => hand'[h].on = On(h) BY <1>2 DEF Over, On
  <2>2. QED BY <1>2, <2>1 DEF Requests, Doing, On
<1>9. pc \in RefundPc \ {"refunds"} => On(h) \in Refund /\ refund'[On(h)].result # "none"
  <2>1. pc \in RefundPc \ {"refunds"} => On(h) \in Refund /\ refund[On(h)].result # "none"
        BY ServingNow DEF IsMinted, RefundPc
  <2>2. On(h) \in Refund /\ refund[On(h)].result # "none" => refund'[On(h)].result # "none" BY MintedKept DEF IsMinted
  <2>3. QED BY <2>1, <2>2
<1>10. hand'[h].pc \in {"start"} \cup RefundPc \cup Over BY <1>2 DEF Over
<1>11. QED BY <1>2, <1>3, <1>6, <1>7, <1>8, <1>9, <1>10, RefundRun DEF Good

\* The provider shows the refund: it is booked.
LEMMA StepResolveRefunded ==
  ASSUME SettlementInv, NEW h \in Hand, ResolveRefunded(h)
  PROVE  Good(h)
<1>1. /\ Doing(h, "resolve") /\ "refunded" \in StatusOf(On(h)[1]) /\ Refunded(On(h)) /\ Moves(h, "refunds")
      /\ UNCHANGED <<premises, outcome, outbox, flagged, till>>
      BY DEF ResolveRefunded
<1>2. hand[h].pc \in RefundPc /\ On(h) \in Refund /\ IsMinted(On(h)) BY <1>1, ServingNow DEF Doing, RefundPc
<1>3. PaidBack(On(h)[1]) # {} BY <1>1 DEF StatusOf, PaidBack
<1>4. SettlementTypeOK' /\ Keeps(h) BY <1>1, <1>2, <1>3, RefundHeard DEF Pc
<1>5. QED BY <1>1, <1>2, <1>4, RefundMoves DEF RefundPc

\* The provider does not: armed again, put off, or a case.
LEMMA StepResolveOpen ==
  ASSUME SettlementInv, NEW h \in Hand, ResolveOpen(h)
  PROVE  Good(h)
<1>1. /\ Doing(h, "resolve") /\ UNCHANGED <<premises, outcome, purse, refund, outbox, till>>
      BY DEF ResolveOpen
<1>2. hand[h].pc = "resolve" /\ hand[h].pc \in RefundPc /\ On(h)[1] \in Joiner BY <1>1, ServingNow DEF Doing, RefundPc
<1>3. flagged' \in {flagged, flagged \cup {On(h)[1]}} BY DEF ResolveOpen
<1>4. PICK pc \in {"arm", "refunds", "reconcile"} : Moves(h, pc) BY DEF ResolveOpen
<1>5. flagged \subseteq flagged' /\ flagged' \subseteq Joiner BY <1>2, <1>3, SettlementNow
<1>6. pc \in Pc BY DEF Pc
<1>7. /\ hand' \in [Hand -> HandRecord] /\ (\A g \in Hand \ {h} : hand'[g] = hand[g]) /\ hand'[h].pc = pc
      BY <1>4, <1>6, MovesForm
<1>8. SettlementTypeOK' /\ Keeps(h) BY <1>1, <1>5, <1>7, Quiet
<1>9. pc \in (RefundPc \cup {"throw", "give_up"}) \ {"send", "settle", "ingest"} /\ pc # "await" BY DEF RefundPc
<1>10. QED BY <1>2, <1>4, <1>8, <1>9, RefundMoves

\* The arm takes the row, so that nobody else takes it.
LEMMA StepArmRefund ==
  ASSUME SettlementInv, NEW h \in Hand, ArmRefund(h)
  PROVE  Good(h)
<1> DEFINE i == On(h)
<1>1. /\ Doing(h, "arm") /\ UNCHANGED <<premises, outcome, purse, outbox, flagged, till>>
      BY DEF ArmRefund
<1>2. /\ hand[h].pc = "arm" /\ hand[h].pc \in RefundPc /\ i \in Refund /\ IsMinted(i) /\ refund[i] \in RefundRecord
      /\ hand[h].task = "refund_issue"
      BY <1>1, ServingNow DEF Doing, RefundPc
<1>3. ASSUME NEW pc \in {"throw", "refunds"}, Moves(h, pc), refund' = refund PROVE Good(h)
  <2>1. pc \in Pc BY DEF Pc
  <2>2. /\ hand' \in [Hand -> HandRecord] /\ (\A g \in Hand \ {h} : hand'[g] = hand[g]) /\ hand'[h].pc = pc
        BY <1>3, <2>1, MovesForm
  <2>3. SettlementTypeOK' /\ Keeps(h) BY <1>1, <1>3, <2>2, SettlementNow, Quiet
  <2>4. pc \in (RefundPc \cup {"throw", "give_up"}) \ {"send", "settle", "ingest"} /\ pc # "await" BY DEF RefundPc
  <2>5. QED BY <1>2, <1>3, <2>3, <2>4, RefundMoves
<1>4. ASSUME hand[h].live, purse[i[1]] = "Captured", refund[i].result = "unknown", ~InFlightRefund(i), Moves(h, "send"),
             refund' = [refund EXCEPT ![i].dispatch = "dispatching", ![i].owner = h]
      PROVE  Good(h)
  <2>1. /\ hand' \in [Hand -> HandRecord] /\ (\A g \in Hand \ {h} : hand'[g] = hand[g])
        /\ hand'[h].pc = "send" /\ hand'[h].task = hand[h].task /\ hand'[h].live = hand[h].live
        /\ hand'[h].todo = hand[h].todo /\ hand'[h].on = i
        BY <1>4, MovesForm DEF Pc, Over, On
  <2> DEFINE r == [refund[i] EXCEPT !.dispatch = "dispatching", !.owner = h]
  <2>2. r \in RefundRecord /\ r.result = "unknown" /\ r.dispatch = "dispatching" /\ r.owner = h
        BY <1>2, <1>4 DEF RefundRecord
  <2>3. refund' = [refund EXCEPT ![i] = r] BY <1>4, <1>2, SettlementNow
  <2>4. r = [refund[i] EXCEPT !.dispatch = "dispatching", !.owner = h] OBVIOUS
  <2> HIDE DEF r
  <2> HIDE DEF i
  <2>5. refund' \in [Refund -> RefundRecord] /\ refund'[i] = r /\ \A k \in Refund : k # i => refund'[k] = refund[k]
        BY <1>2, <2>2, <2>3, SettlementNow
  <2>6. Arms(h, i) BY <1>1, <1>4, <2>4, <2>5 DEF Arms, i
  <2>7. \A k \in Refund : RowStep(h, k) BY <2>5, <2>6 DEF RowStep
  <2>8. \A k \in Refund : ~Mints(k)
    <3>1. \A k \in Refund : Mints(k) => refund'[k].result = "unknown" /\ refund[k].result = "none" BY DEF Mints, NoRefund
    <3>2. QED BY <1>4, <2>5, <3>1
  <2>9. /\ paid' = paid /\ proves' = proves /\ misjudged' = misjudged /\ mishaps' = mishaps /\ purse' = purse
        /\ flagged' = flagged /\ transit' = transit /\ paidBack' = paidBack
        BY <1>1 DEF premises, till
  <2>10. Out' = Out BY <2>9 DEF Out
  <2>11. SettlementTypeOK' /\ Keeps(h)
         BY <1>1, <1>2, <2>1, <2>2, <2>5, <2>7, <2>8, <2>9, <2>10, SettlementNow, Booked
  <2>12. Serving(h)' BY <1>2, <2>1, <2>11, ServingOn
  <2>13. Requests(h)' BY <1>4, <2>1, <2>2, <2>5 DEF Requests, Doing, On
  <2>14. hand'[h].pc \in RefundPc /\ hand'[h].on \in Refund /\ refund'[hand'[h].on].result # "none"
         BY <1>2, <2>1, <2>2, <2>5 DEF RefundPc
  <2>15. QED BY <1>2, <2>1, <2>11, <2>12, <2>13, <2>14, RefundRun DEF Good
<1>5. \/ Moves(h, "throw") /\ refund' = refund
      \/ Moves(h, "refunds") /\ refund' = refund
      \/ /\ hand[h].live /\ purse[i[1]] = "Captured" /\ refund[i].result = "unknown" /\ ~InFlightRefund(i) /\ Moves(h, "send")
         /\ refund' = [refund EXCEPT ![i].dispatch = "dispatching", ![i].owner = h]
      BY DEF ArmRefund
<1>6. QED BY <1>3, <1>4, <1>5

\* Only what is armed is sent.
LEMMA StepSendRefund ==
  ASSUME SettlementInv, NEW h \in Hand, SendRefund(h)
  PROVE  Good(h)
<1> DEFINE i == On(h)
<1>1. /\ Doing(h, "send") /\ transit' = transit \cup ({i} \ paidBack) /\ Moves(h, "await")
      /\ UNCHANGED <<premises, outcome, purse, refund, outbox, flagged, paidBack>>
      BY DEF SendRefund
<1>2. /\ hand[h].pc = "send" /\ hand[h].pc \in RefundPc /\ i \in Refund /\ Requests(h)
      BY <1>1, ServingNow DEF Doing, RefundPc
<1>3. refund[i].owner = h /\ h # "null" BY <1>1, <1>2, Names DEF Requests
<1>4. /\ paid' = paid /\ proves' = proves /\ misjudged' = misjudged /\ mishaps' = mishaps /\ purse' = purse
      /\ refund' = refund /\ flagged' = flagged /\ paidBack' = paidBack
      BY <1>1 DEF premises
<1>5. /\ hand' \in [Hand -> HandRecord] /\ (\A g \in Hand \ {h} : hand'[g] = hand[g]) /\ hand'[h].pc = "await"
      BY <1>1, MovesForm DEF Pc
<1>6. transit' \subseteq Refund /\ paidBack' \subseteq Refund BY <1>1, <1>2, <1>4, SettlementNow
<1>7. Out' \subseteq Out \cup Sent(h) BY <1>1, <1>4 DEF Out, Sent
<1>8. \A k \in Refund : RowStep(h, k) /\ ~Mints(k)
  <2>1. SUFFICES ASSUME NEW k \in Refund PROVE RowStep(h, k) /\ ~Mints(k) OBVIOUS
  <2>2. RowStep(h, k) BY <1>4 DEF RowStep
  <2>3. Mints(k) => refund'[k].result = "unknown" /\ refund[k].result = "none" BY DEF Mints, NoRefund
  <2>4. QED BY <1>4, <2>2, <2>3
<1>9. SettlementTypeOK' /\ Keeps(h) BY <1>1, <1>4, <1>5, <1>6, <1>7, <1>8, SettlementNow, Booked
<1>10. QED BY <1>1, <1>2, <1>3, <1>4, <1>9, RefundMoves DEF RefundPc

\* The answer is kept, and true if it is an answer.
LEMMA StepRefundAnswered ==
  ASSUME SettlementInv, NEW h \in Hand, RefundAnswered(h)
  PROVE  Good(h)
<1> DEFINE i == On(h)
<1>1. /\ Doing(h, "await") /\ i \notin transit
      /\ UNCHANGED <<premises, outcome, purse, refund, outbox, flagged, till>>
      BY DEF RefundAnswered
<1>2. PICK a \in {"unknown"} \cup (IF i \in paidBack THEN {"success"} ELSE {"permanent_fail"}) :
        hand' = [hand EXCEPT ![h].pc = "settle", ![h].seen = a]
      BY DEF RefundAnswered
<1>3. /\ hand[h].pc \in RefundPc /\ i \in Refund /\ IsMinted(i) /\ Requests(h) /\ hand[h] \in HandRecord
      /\ hand[h].task = "refund_issue"
      BY <1>1, ServingNow DEF Doing, RefundPc
<1> DEFINE r == [hand[h] EXCEPT !.pc = "settle", !.seen = a]
<1>4. /\ r \in HandRecord /\ r.pc = "settle" /\ r.seen = a /\ r.task = hand[h].task /\ r.todo = hand[h].todo /\ r.on = i
      BY <1>3 DEF HandRecord, Pc, On
<1>5. hand' = [hand EXCEPT ![h] = r] /\ hand \in [Hand -> HandRecord] BY <1>2, SettlementNow
<1> HIDE DEF r
<1>6. hand' \in [Hand -> HandRecord] /\ hand'[h] = r /\ (\A g \in Hand \ {h} : hand'[g] = hand[g]) BY <1>4, <1>5
<1>7. SettlementTypeOK' /\ Keeps(h) BY <1>1, <1>4, <1>6, SettlementNow, Quiet
<1>8. refund' = refund /\ transit' = transit /\ paidBack' = paidBack BY <1>1 DEF till
<1>9. refund[i].owner # "null" BY <1>1, <1>3 DEF Requests, Doing
<1>10. a \in {"success", "permanent_fail", "unknown"} /\ (a = "success" => i \in paidBack)
       /\ (a = "permanent_fail" => i \notin Out)
       BY <1>1 DEF Out
<1>11. Out' = Out BY <1>8 DEF Out
<1> HIDE DEF i
<1>12. Requests(h)' BY <1>4, <1>6, <1>8, <1>9, <1>10, <1>11 DEF Requests, Doing, On
<1>13. Serving(h)' BY <1>3, <1>4, <1>6, <1>7, ServingOn
<1>14. hand'[h].pc \in RefundPc /\ hand'[h].on \in Refund /\ refund'[hand'[h].on].result # "none"
       BY <1>3, <1>4, <1>6, <1>8 DEF RefundPc, IsMinted
<1>15. QED BY <1>3, <1>4, <1>6, <1>7, <1>12, <1>13, <1>14, RefundRun DEF Good

\* One row changes, by a step rows may take, and a run moves on.
LEMMA RowMoves ==
  ASSUME SettlementInv, NEW h \in Hand, NEW pc \in Pc \ {"send"}, Moves(h, pc), NEW i \in Refund, NEW r \in RefundRecord,
         refund' = [refund EXCEPT ![i] = r], RowStep(h, i), refund[i].result # "none",
         misjudged \subseteq misjudged', misjudged' \subseteq Joiner,
         UNCHANGED <<paid, proves, mishaps, outcome, purse, outbox, flagged, till>>
  PROVE  SettlementTypeOK' /\ Keeps(h)
<1>1. /\ hand' \in [Hand -> HandRecord] /\ (\A g \in Hand \ {h} : hand'[g] = hand[g]) /\ hand'[h].pc = pc
      BY MovesForm
<1>2. refund' \in [Refund -> RefundRecord] /\ refund'[i] = r /\ \A k \in Refund : k # i => refund'[k] = refund[k]
      BY SettlementNow
<1>3. \A k \in Refund : RowStep(h, k) BY <1>2 DEF RowStep
<1>4. \A k \in Refund : ~Mints(k)
  <2>1. \A k \in Refund : Mints(k) => refund'[k].result = "unknown" /\ refund[k].result = "none" BY DEF Mints, NoRefund
  <2>2. QED BY <1>2, <2>1
<1>5. Out' = Out /\ transit' = transit /\ paidBack' = paidBack BY DEF Out, till
<1>6. QED BY <1>1, <1>2, <1>3, <1>4, <1>5, SettlementNow, Booked

\* The answer is written if the row is still the run's.
LEMMA StepSettleRefund ==
  ASSUME SettlementInv, NEW h \in Hand, SettleRefund(h)
  PROVE  Good(h)
<1> DEFINE i == On(h)
<1>1. /\ Doing(h, "settle") /\ UNCHANGED <<premises, outcome, purse, outbox, flagged, till>>
      BY DEF SettleRefund
<1>2. /\ hand[h].pc = "settle" /\ hand[h].pc \in RefundPc /\ i \in Refund /\ IsMinted(i) /\ refund[i] \in RefundRecord
      /\ Row(i) /\ hand[h].task = "refund_issue" /\ Requests(h)
      BY <1>1, ServingNow DEF Doing, RefundPc
<1>3. /\ refund[i].owner # "null" /\ hand[h].seen \in {"success", "permanent_fail", "unknown"}
      /\ hand[h].seen = "success" => i \in paidBack
      /\ hand[h].seen = "permanent_fail" /\ refund[i].owner = h => i \notin Out
      BY <1>1, <1>2 DEF Requests, Doing
<1>4. /\ paid' = paid /\ proves' = proves /\ misjudged' = misjudged /\ mishaps' = mishaps /\ paidBack' = paidBack
      /\ misjudged \subseteq Joiner
      BY <1>1, SettlementNow DEF premises, till
<1>5. ASSUME hand[h].seen = "success", Moves(h, "ingest"),
             refund' = [refund EXCEPT ![i].result = "success", ![i].dispatch = "responded"]
      PROVE  Good(h)
  <2> DEFINE r == [refund[i] EXCEPT !.result = "success", !.dispatch = "responded"]
  <2>1. r \in RefundRecord /\ refund' = [refund EXCEPT ![i] = r] BY <1>2, <1>5, SettlementNow DEF RefundRecord
  <2>2. r.result # "none" BY <1>2 DEF RefundRecord
  <2>3. refund'[i] = r BY <1>2, <2>1, SettlementNow
  <2>4. PaidBack(i[1]) # {} BY <1>2, <1>3, <1>5, Names DEF PaidBack
  <2>5. RowStep(h, i) BY <1>2, <2>3, <2>4 DEF RowStep, Succeeds
  <2> HIDE DEF r
  <2>6. refund[i].result # "none" BY <1>2 DEF IsMinted
  <2>7. SettlementTypeOK' /\ Keeps(h) BY <1>1, <1>2, <1>4, <1>5, <2>1, <2>5, <2>6, RowMoves DEF Pc
  <2>8. /\ hand'[h].pc = "ingest" /\ hand'[h].task = hand[h].task /\ hand'[h].todo = hand[h].todo /\ hand'[h].on = i
        BY <1>5, MovesForm DEF Pc, Over, On
  <2>9. Serving(h)' BY <1>2, <2>7, <2>8, ServingOn
  <2>10. Requests(h)' BY <1>3, <1>4, <1>5, <2>8 DEF Requests, Doing, On
  <2>11. hand'[h].pc \in RefundPc /\ hand'[h].on \in Refund /\ refund'[hand'[h].on].result # "none"
         BY <1>2, <2>2, <2>3, <2>8 DEF RefundPc
  <2>12. QED BY <1>2, <2>7, <2>8, <2>9, <2>10, <2>11, RefundRun DEF Good
<1>6. ASSUME NEW pc \in {"throw", "reconcile", "give_up"}, Moves(h, pc), SettlementTypeOK', Keeps(h) PROVE Good(h)
  <2>1. pc \in (RefundPc \cup {"throw", "give_up"}) \ {"send", "settle", "ingest"} /\ pc # "await" BY DEF RefundPc
  <2>2. QED BY <1>2, <1>6, <2>1, RefundMoves
<1>7. ASSUME refund' = refund, NEW pc \in {"throw", "reconcile", "give_up"}, Moves(h, pc) PROVE Good(h)
  <2>1. pc \in Pc /\ pc # "send" BY DEF Pc
  <2>2. /\ hand' \in [Hand -> HandRecord] /\ (\A g \in Hand \ {h} : hand'[g] = hand[g]) /\ hand'[h].pc = pc
        BY <1>7, <2>1, MovesForm
  <2>3. SettlementTypeOK' /\ Keeps(h) BY <1>1, <1>7, <2>1, <2>2, SettlementNow, Quiet
  <2>4. QED BY <1>6, <1>7, <2>3
<1>8. ASSUME hand[h].seen # "success", OwnsRefund(h), NEW pc \in {"reconcile", "give_up"}, Moves(h, pc),
             refund' = [refund EXCEPT ![i].dispatch = "responded",
                                      ![i].result = IF ClosedRefund(i) THEN @ ELSE hand[h].seen]
      PROVE  Good(h)
  <2> DEFINE result == IF ClosedRefund(i) THEN refund[i].result ELSE hand[h].seen
             r == [refund[i] EXCEPT !.dispatch = "responded", !.result = result]
  <2>1. refund[i].owner = h BY <1>3, <1>8 DEF OwnsRefund
  <2>2. refund[i].result \in {"unknown", "success", "permanent_fail"}
        BY <1>2, <1>3 DEF Row, IsMinted, RefundRecord
  <2>3. r \in RefundRecord /\ refund' = [refund EXCEPT ![i] = r]
        BY <1>2, <1>3, <1>8, <2>2, SettlementNow DEF RefundRecord
  <2>4. refund'[i] = r BY <1>2, <2>3, SettlementNow
  <2>5. CASE result = refund[i].result
    <3>1. r = [refund[i] EXCEPT !.dispatch = "responded"] BY <1>2, <2>5 DEF RefundRecord
    <3>2. Responds(h, i) BY <1>1, <2>1, <2>4, <3>1 DEF Responds
    <3>3. RowStep(h, i) BY <3>2 DEF RowStep
    <3>4. refund[i].result # "none" BY <1>2 DEF IsMinted
    <3>5. pc \in Pc \ {"send"} BY DEF Pc
    <3> HIDE DEF r
    <3>6. SettlementTypeOK' /\ Keeps(h) BY <1>1, <1>2, <1>4, <1>8, <2>3, <3>3, <3>4, <3>5, RowMoves
    <3>7. QED BY <1>6, <1>8, <3>6
  <2>6. CASE result # refund[i].result
    <3>1. refund[i].result = "unknown" /\ hand[h].seen = "permanent_fail"
          BY <1>3, <1>8, <2>2, <2>6 DEF ClosedRefund
    <3>2. result = "permanent_fail" BY <3>1 DEF ClosedRefund
    <3>3. r = [refund[i] EXCEPT !.dispatch = "responded", !.result = "permanent_fail"] BY <3>2
    <3>4. Answers(h, i) BY <1>1, <1>3, <2>1, <2>4, <3>1, <3>3 DEF Answers
    <3>5. RowStep(h, i) BY <3>4 DEF RowStep
    <3>6. refund[i].result # "none" BY <1>2 DEF IsMinted
    <3>7. pc \in Pc \ {"send"} BY DEF Pc
    <3> HIDE DEF r
    <3>8. SettlementTypeOK' /\ Keeps(h) BY <1>1, <1>2, <1>4, <1>8, <2>3, <3>5, <3>6, <3>7, RowMoves
    <3>9. QED BY <1>6, <1>8, <3>8
  <2>7. QED BY <2>5, <2>6
<1>9. \/ /\ hand[h].seen = "success" /\ Moves(h, "ingest")
         /\ refund' = [refund EXCEPT ![i].result = "success", ![i].dispatch = "responded"]
      \/ refund' = refund /\ \E pc \in {"throw", "reconcile", "give_up"} : Moves(h, pc)
      \/ /\ hand[h].seen # "success" /\ OwnsRefund(h) /\ \E pc \in {"reconcile", "give_up"} : Moves(h, pc)
         /\ refund' = [refund EXCEPT ![i].dispatch = "responded",
                                     ![i].result = IF ClosedRefund(i) THEN @ ELSE hand[h].seen]
      BY DEF SettleRefund
<1>10. QED BY <1>5, <1>7, <1>8, <1>9

\* The event that the refund was issued.
LEMMA StepIngestRefund ==
  ASSUME SettlementInv, NEW h \in Hand, IngestRefund(h)
  PROVE  Good(h)
<1>1. /\ Doing(h, "ingest") /\ Refunded(On(h)) /\ Moves(h, "refunds")
      /\ UNCHANGED <<premises, outcome, outbox, flagged, till>>
      BY DEF IngestRefund
<1>2. hand[h].pc \in RefundPc /\ On(h) \in Refund /\ IsMinted(On(h)) /\ Requests(h) BY <1>1, ServingNow DEF Doing, RefundPc
<1>3. On(h) \in paidBack BY <1>1, <1>2 DEF Requests
<1>4. PaidBack(On(h)[1]) # {} BY <1>2, <1>3, Names DEF PaidBack
<1>5. SettlementTypeOK' /\ Keeps(h) BY <1>1, <1>2, <1>4, RefundHeard DEF Pc
<1>6. QED BY <1>1, <1>2, <1>5, RefundMoves DEF RefundPc

\* A reconcile that is scheduled is about an identity there is.
LEMMA ScheduledForm ==
  ASSUME SettlementInv, NEW i \in Refund, IsMinted(i), Scheduled(i)
  PROVE  /\ task' \in [Task -> TaskState] /\ concerns' \in [Joiner -> 0..MaxRefunds]
         /\ flagged \subseteq flagged' /\ flagged' \subseteq Joiner
         /\ \A t \in Task : task[t] # "none" => task'[t] # "none"
         /\ task'["refund_issue"] = task["refund_issue"] /\ task'["finalize_deal"] = task["finalize_deal"]
         /\ \A j \in Joiner : task'[j] # "none" => concerns'[j] \in RefundId /\ IsMinted(<<j, concerns'[j]>>)
<1>1. /\ task' = Enqueued(i[1])
      /\ concerns' = IF Alive(i[1]) THEN concerns ELSE [concerns EXCEPT ![i[1]] = i[2]]
      /\ flagged' = IF Alive(i[1]) /\ concerns[i[1]] # i[2] THEN flagged \cup {i[1]} ELSE flagged
      BY DEF Scheduled
<1>2. /\ i[1] \in Joiner /\ i[2] \in RefundId /\ i = <<i[1], i[2]>> /\ i[1] \in Task
      /\ i[1] # "refund_issue" /\ i[1] # "finalize_deal" /\ "refund_issue" \in Task /\ "finalize_deal" \in Task
      BY Names
<1>3. /\ Enqueued(i[1]) \in [Task -> TaskState] /\ Enqueued(i[1])[i[1]] \in {"pending", "processing"}
      /\ \A s \in Task : s # i[1] => Enqueued(i[1])[s] = task[s]
      BY <1>2, EnqueuedForm
<1>4. i[2] \in 0..MaxRefunds BY <1>2, Names DEF RefundId
<1>5. /\ concerns' \in [Joiner -> 0..MaxRefunds] /\ \A j \in Joiner : j # i[1] => concerns'[j] = concerns[j]
      /\ concerns'[i[1]] = IF Alive(i[1]) THEN concerns[i[1]] ELSE i[2]
      BY <1>1, <1>2, <1>4, SettlementNow
<1>6. \A j \in Joiner : task[j] # "none" => concerns[j] \in RefundId /\ IsMinted(<<j, concerns[j]>>)
      BY SettlementNow DEF Tasks
<1>7. Alive(i[1]) => task[i[1]] # "none" BY DEF Alive
<1>8. ASSUME NEW j \in Joiner, task'[j] # "none" PROVE concerns'[j] \in RefundId /\ IsMinted(<<j, concerns'[j]>>)
  <2>1. CASE j = i[1] BY <1>2, <1>5, <1>6, <1>7, <2>1
  <2>2. CASE j # i[1]
    <3>1. task'[j] = task[j] BY <1>1, <1>3, <2>2, Names
    <3>2. QED BY <1>5, <1>6, <1>8, <2>2, <3>1
  <2>3. QED BY <2>1, <2>2
<1>9. flagged \subseteq flagged' /\ flagged' \subseteq Joiner BY <1>1, <1>2, SettlementNow
<1>10. \A t \in Task : task[t] # "none" => task'[t] # "none" BY <1>1, <1>3
<1>11. QED BY <1>1, <1>2, <1>3, <1>5, <1>8, <1>9, <1>10

\* An unknown outcome is left to a reconcile.
LEMMA StepScheduleRefundReconcile ==
  ASSUME SettlementInv, NEW h \in Hand, ScheduleRefundReconcile(h)
  PROVE  Good(h)
<1>1. /\ Doing(h, "reconcile") /\ Scheduled(On(h)) /\ Moves(h, "refunds")
      /\ UNCHANGED <<premises, outcome, purse, refund, till>>
      BY DEF ScheduleRefundReconcile
<1>2. hand[h].pc \in RefundPc /\ On(h) \in Refund /\ IsMinted(On(h)) BY <1>1, ServingNow DEF Doing, RefundPc
<1>3. /\ task' \in [Task -> TaskState] /\ concerns' \in [Joiner -> 0..MaxRefunds]
      /\ flagged \subseteq flagged' /\ flagged' \subseteq Joiner
      /\ \A t \in Task : task[t] # "none" => task'[t] # "none"
      /\ task'["refund_issue"] = task["refund_issue"] /\ task'["finalize_deal"] = task["finalize_deal"]
      /\ \A j \in Joiner : task'[j] # "none" => concerns'[j] \in RefundId /\ IsMinted(<<j, concerns'[j]>>)
      BY <1>1, <1>2, ScheduledForm
<1>4. /\ hand' \in [Hand -> HandRecord] /\ (\A g \in Hand \ {h} : hand'[g] = hand[g]) /\ hand'[h].pc = "refunds"
      BY <1>1, MovesForm DEF Pc
<1>5. task["refund_issue"] # "none" => dealState = "Failed" BY SettlementNow DEF Tasks
<1>6. /\ UNCHANGED <<paid, proves, misjudged, outcome, purse, refund, till>> /\ mishaps' \in 0..MaxMishaps
      BY <1>1, SettlementNow DEF premises
<1>7. SettlementTypeOK' /\ Keeps(h) BY <1>3, <1>4, <1>5, <1>6, Busy
<1>8. QED BY <1>1, <1>2, <1>7, RefundMoves DEF RefundPc

-----------------------------------------------------------------------------
(* payment_reconcile of a refund.                                            *)

\* What a run of payment_reconcile knows of its identity.
LEMMA ProofNow ==
  ASSUME SettlementInv, NEW h \in Hand, hand[h].task \in Joiner, hand[h].pc \notin Over
  PROVE  /\ On(h) \in Refund /\ IsMinted(On(h)) /\ On(h)[1] \in Joiner /\ refund[On(h)] \in RefundRecord /\ Row(On(h))
         /\ hand[h] \in HandRecord
<1>1. On(h) \in Refund /\ IsMinted(On(h)) /\ hand[h] \in HandRecord BY SettlementNow DEF Runs, Holds
<1>2. QED BY <1>1, RowsOfRows, Names

\* The steps of the proof are steps of a payment_reconcile.
LEMMA ProofRun ==
  ASSUME SettlementInv, NEW h \in Hand, hand[h].pc \in ProofPc
  PROVE  hand[h].task \in Joiner /\ hand[h].pc \notin Over
BY SettlementNow DEF Runs, Place, ProofPc, Over

\* A run of payment_reconcile that moves on.
LEMMA ProofMoves ==
  ASSUME SettlementInv, NEW h \in Hand, NEW pc \in ProofPc \cup Over, Moves(h, pc), Keeps(h), SettlementTypeOK',
         hand[h].task \in Joiner, hand[h].pc \notin Over
  PROVE  Good(h)
<1>1. pc \in Pc BY DEF Pc, ProofPc, Over
<1>2. pc \notin Over => pc # "refunds" BY DEF ProofPc, Over
<1>3. /\ hand'[h].pc = pc /\ hand'[h].task = hand[h].task /\ (pc \notin Over => hand'[h].on = hand[h].on)
      BY <1>1, <1>2, MovesForm
<1>4. QED BY <1>3, ReconcileRun DEF Good

\* ... and leaves everything else but the open cases alone.
LEMMA ProofTurns ==
  ASSUME SettlementInv, NEW h \in Hand, NEW pc \in ProofPc \cup Over, Moves(h, pc), flagged \subseteq flagged',
         flagged' \subseteq Joiner, UNCHANGED <<premises, outcome, purse, refund, outbox, till>>,
         hand[h].task \in Joiner, hand[h].pc \notin Over
  PROVE  Good(h)
<1>1. pc \in Pc /\ pc # "send" BY DEF Pc, ProofPc, Over
<1>2. /\ hand' \in [Hand -> HandRecord] /\ (\A g \in Hand \ {h} : hand'[g] = hand[g]) /\ hand'[h].pc = pc
      BY <1>1, MovesForm
<1>3. SettlementTypeOK' /\ Keeps(h) BY <1>1, <1>2, Quiet
<1>4. QED BY <1>3, ProofMoves

\* A reconcile that goes on from one look to the next.
LEMMA ProofGoesOn ==
  ASSUME SettlementInv, NEW h \in Hand, NEW r \in HandRecord, hand' = [hand EXCEPT ![h] = r], r.task = hand[h].task,
         r.pc \in ProofPc, r.on = hand[h].on, UNCHANGED <<premises, outcome, purse, refund, outbox, flagged, till>>,
         hand[h].task \in Joiner, hand[h].pc \notin Over
  PROVE  Good(h)
<1>1. hand' \in [Hand -> HandRecord] /\ hand'[h] = r /\ (\A g \in Hand \ {h} : hand'[g] = hand[g]) BY SettlementNow
<1>2. r.pc # "send" BY DEF ProofPc
<1>3. SettlementTypeOK' /\ Keeps(h) BY <1>1, <1>2, SettlementNow, Quiet
<1>4. QED BY <1>1, <1>3, ReconcileRun DEF Good

\* The reconcile begins, ends, or retires what was never sent.
LEMMA StepRefundReconcileBegins ==
  ASSUME SettlementInv, NEW h \in Hand, RefundReconcileBegins(h)
  PROVE  Good(h)
<1> DEFINE i == On(h)
           waiting == purse[i[1]] = "Captured"
           unsent == refund[i].result = "unknown" /\ refund[i].dispatch = "recorded"
           voids == ~Alive("refund_issue") /\ ~waiting /\ refund[i].owner = "null"
<1>1. /\ hand[h].task \in Joiner /\ Doing(h, "start") /\ UNCHANGED <<premises, outcome, purse, outbox, till>>
      BY DEF RefundReconcileBegins
<1>2. hand[h].pc = "start" /\ hand[h].pc \notin Over BY <1>1 DEF Doing, Over
<1>3. i \in Refund /\ IsMinted(i) /\ i[1] \in Joiner /\ refund[i] \in RefundRecord /\ hand[h] \in HandRecord
      BY <1>1, <1>2, ProofNow
<1>4. \/ /\ hand' = [hand EXCEPT ![h].pc = "flight", ![h].seen = IF waiting THEN "waiting" ELSE "none"]
         /\ refund' = refund /\ flagged' = flagged
      \/ Moves(h, "ack") /\ refund' = refund /\ flagged' = flagged
      \/ /\ unsent /\ Moves(h, "ack")
         /\ flagged' = (IF ~Alive("refund_issue") /\ waiting THEN flagged \cup {i[1]} ELSE flagged)
         /\ refund' = (IF voids THEN [refund EXCEPT ![i].result = "temporary_fail"] ELSE refund)
      BY DEF RefundReconcileBegins
<1>5. ASSUME hand' = [hand EXCEPT ![h].pc = "flight", ![h].seen = IF waiting THEN "waiting" ELSE "none"],
             refund' = refund, flagged' = flagged
      PROVE  Good(h)
  <2> DEFINE seen == IF waiting THEN "waiting" ELSE "none"
             r == [hand[h] EXCEPT !.pc = "flight", !.seen = seen]
  <2>1. r \in HandRecord /\ r.pc = "flight" /\ r.task = hand[h].task /\ r.on = hand[h].on BY <1>3 DEF HandRecord, Pc
  <2>2. hand' = [hand EXCEPT ![h] = r] BY <1>5
  <2> HIDE DEF r
  <2>3. "flight" \in ProofPc BY DEF ProofPc
  <2>4. QED BY <1>1, <1>2, <1>5, <2>1, <2>2, <2>3, ProofGoesOn
<1>6. "ack" \in Over BY DEF Over
<1>7. flagged \subseteq flagged' /\ flagged' \subseteq Joiner BY <1>3, <1>4, SettlementNow
<1>8. ASSUME Moves(h, "ack"), refund' = refund PROVE Good(h)
      BY <1>1, <1>2, <1>6, <1>7, <1>8, ProofTurns
<1>9. ASSUME unsent, Moves(h, "ack"), voids, flagged' = (IF ~Alive("refund_issue") /\ waiting THEN flagged \cup {i[1]} ELSE flagged),
             refund' = [refund EXCEPT ![i].result = "temporary_fail"]
      PROVE  Good(h)
  <2> DEFINE r == [refund[i] EXCEPT !.result = "temporary_fail"]
  <2>1. r \in RefundRecord /\ refund' = [refund EXCEPT ![i] = r] BY <1>3, <1>9, SettlementNow DEF RefundRecord
  <2>2. refund'[i] = r BY <1>3, <2>1, SettlementNow
  <2>3. Retires(i) BY <1>9, <2>2 DEF Retires
  <2>4. RowStep(h, i) BY <2>3 DEF RowStep
  <2>5. refund[i].result # "none" BY <1>3 DEF IsMinted
  <2>6. "ack" \in Pc \ {"send"} BY DEF Pc
  <2>7. flagged' = flagged BY <1>9
  <2>8. misjudged' = misjudged /\ misjudged \subseteq Joiner BY <1>1, SettlementNow DEF premises
  <2>9. UNCHANGED <<paid, proves, mishaps, outcome, purse, outbox, flagged, till>> BY <1>1, <2>7 DEF premises
  <2> HIDE DEF r
  <2>10. SettlementTypeOK' /\ Keeps(h) BY <1>3, <1>9, <2>1, <2>4, <2>5, <2>6, <2>8, <2>9, RowMoves
  <2>11. QED BY <1>1, <1>2, <1>6, <1>9, <2>10, ProofMoves
<1>10. CASE unsent /\ voids BY <1>4, <1>5, <1>8, <1>9, <1>10
<1>11. CASE ~(unsent /\ voids) BY <1>4, <1>5, <1>8, <1>11
<1>12. QED BY <1>10, <1>11

\* It goes on unless a request is in flight.
LEMMA StepRefundReconcileLooks ==
  ASSUME SettlementInv, NEW h \in Hand, RefundReconcileLooks(h)
  PROVE  Good(h)
<1>1. Doing(h, "flight") /\ UNCHANGED <<premises, outcome, purse, refund, outbox, flagged, till>>
      BY DEF RefundReconcileLooks
<1>2. hand[h].task \in Joiner /\ hand[h].pc \notin Over BY <1>1, ProofRun DEF Doing, ProofPc
<1>3. hand[h] \in HandRecord /\ flagged \subseteq Joiner BY SettlementNow
<1>4. CASE Moves(h, "throw")
  <2>1. "throw" \in Over BY DEF Over
  <2>2. QED BY <1>1, <1>2, <1>3, <1>4, <2>1, ProofTurns
<1>5. CASE hand' = [hand EXCEPT ![h].pc = "status"]
  <2> DEFINE r == [hand[h] EXCEPT !.pc = "status"]
  <2>1. r \in HandRecord /\ r.pc = "status" /\ r.task = hand[h].task /\ r.on = hand[h].on BY <1>3 DEF HandRecord, Pc
  <2>2. hand' = [hand EXCEPT ![h] = r] BY <1>5
  <2> HIDE DEF r
  <2>3. "status" \in ProofPc BY DEF ProofPc
  <2>4. QED BY <1>1, <1>2, <2>1, <2>2, <2>3, ProofGoesOn
<1>6. QED BY <1>4, <1>5 DEF RefundReconcileLooks

\* It asks the provider.
LEMMA StepRefundReconcileReads ==
  ASSUME SettlementInv, NEW h \in Hand, RefundReconcileReads(h)
  PROVE  Good(h)
<1>1. Doing(h, "status") /\ UNCHANGED <<premises, outcome, outbox, till>> BY DEF RefundReconcileReads
<1>2. hand[h].task \in Joiner /\ hand[h].pc \notin Over BY <1>1, ProofRun DEF Doing, ProofPc
<1>3. On(h) \in Refund /\ IsMinted(On(h)) /\ On(h)[1] \in Joiner BY <1>2, ProofNow
<1>4. \/ "refunded" \in StatusOf(On(h)[1]) /\ Refunded(On(h)) /\ Moves(h, "ack") /\ flagged' = flagged
      \/ /\ \E pc \in {"conclude", "give_up", "throw"} : Moves(h, pc)
         /\ purse' = purse /\ refund' = refund /\ flagged' \in {flagged, flagged \cup {On(h)[1]}}
      BY DEF RefundReconcileReads
<1>5. CASE "refunded" \in StatusOf(On(h)[1]) /\ Refunded(On(h)) /\ Moves(h, "ack") /\ flagged' = flagged
  <2>1. PaidBack(On(h)[1]) # {} BY <1>5 DEF StatusOf, PaidBack
  <2>2. SettlementTypeOK' /\ Keeps(h) BY <1>1, <1>3, <1>5, <2>1, RefundHeard DEF Pc
  <2>3. "ack" \in Over BY DEF Over
  <2>4. QED BY <1>2, <1>5, <2>2, <2>3, ProofMoves
<1>6. ASSUME NEW pc \in {"conclude", "give_up", "throw"}, Moves(h, pc), purse' = purse, refund' = refund,
             flagged' \in {flagged, flagged \cup {On(h)[1]}}
      PROVE  Good(h)
  <2>1. pc \in ProofPc \cup Over BY DEF ProofPc, Over
  <2>2. flagged \subseteq flagged' /\ flagged' \subseteq Joiner BY <1>3, <1>6, SettlementNow
  <2>3. QED BY <1>1, <1>2, <1>6, <2>1, <2>2, ProofTurns
<1>7. QED BY <1>4, <1>5, <1>6

\* It closes the identity, wrongly only if it is then misjudged.
LEMMA StepRefundNeverExecuted ==
  ASSUME SettlementInv, NEW h \in Hand, RefundNeverExecuted(h)
  PROVE  Good(h)
<1> DEFINE i == On(h)
           busy == \E n \in RefundId : InFlightRefund(<<i[1], n>>)
           closes == ~busy /\ ~ClosedRefund(i)
<1>1. /\ Doing(h, "conclude")
      /\ refund' = IF closes THEN [refund EXCEPT ![i].result = "permanent_fail", ![i].dispatch = "responded"] ELSE refund
      /\ misjudged' = IF closes /\ i \in paidBack \cup transit THEN misjudged \cup {i[1]} ELSE misjudged
      /\ UNCHANGED <<paid, proves, mishaps, outcome, purse, outbox, flagged, till>>
      BY DEF RefundNeverExecuted
<1>2. hand[h].task \in Joiner /\ hand[h].pc \notin Over BY <1>1, ProofRun DEF Doing, ProofPc
<1>3. i \in Refund /\ IsMinted(i) /\ i[1] \in Joiner /\ refund[i] \in RefundRecord BY <1>2, ProofNow
<1>4. PICK pc \in {"throw", "rearm", "ack"} : Moves(h, pc) BY DEF RefundNeverExecuted
<1>5. pc \in ProofPc \cup Over /\ pc \in Pc \ {"send"} BY DEF ProofPc, Over, Pc
<1>6. CASE closes
  <2> DEFINE r == [refund[i] EXCEPT !.result = "permanent_fail", !.dispatch = "responded"]
  <2>1. r \in RefundRecord /\ refund' = [refund EXCEPT ![i] = r] BY <1>1, <1>3, <1>6, SettlementNow DEF RefundRecord
  <2>2. refund'[i] = r BY <1>3, <2>1, SettlementNow
  <2>3. refund[i].result \in {"unknown", "temporary_fail"} BY <1>3, <1>6 DEF IsMinted, ClosedRefund, RefundRecord
  <2>4. ~InFlightRefund(i)
    <3>1. i[2] \in RefundId /\ i = <<i[1], i[2]>> BY <1>3, Names
    <3>2. ~InFlightRefund(<<i[1], i[2]>>) BY <1>6, <3>1
    <3>3. QED BY <3>1, <3>2
  <2>5. (i \in Out => i[1] \in misjudged') /\ misjudged \subseteq misjudged' /\ misjudged' \subseteq Joiner
        BY <1>1, <1>3, <1>6, SettlementNow DEF Out
  <2>6. Closes(h, i) BY <1>1, <2>2, <2>3, <2>4, <2>5 DEF Closes
  <2>7. RowStep(h, i) BY <2>6 DEF RowStep
  <2>8. refund[i].result # "none" BY <1>3 DEF IsMinted
  <2> HIDE DEF r
  <2>9. SettlementTypeOK' /\ Keeps(h) BY <1>1, <1>3, <1>4, <1>5, <2>1, <2>5, <2>7, <2>8, RowMoves
  <2>10. QED BY <1>2, <1>4, <1>5, <2>9, ProofMoves
<1>7. CASE ~closes
  <2>1. refund' = refund /\ misjudged' = misjudged BY <1>1, <1>7
  <2>2. UNCHANGED <<premises, outcome, purse, refund, outbox, till>> BY <1>1, <2>1 DEF premises
  <2>3. flagged' = flagged /\ flagged \subseteq Joiner BY <1>1, SettlementNow
  <2>4. QED BY <1>2, <1>4, <1>5, <2>2, <2>3, ProofTurns
<1>8. QED BY <1>6, <1>7

\* Refunds are armed again in a deal that failed.
LEMMA StepRearmRefundIssue ==
  ASSUME SettlementInv, NEW h \in Hand, RearmRefundIssue(h)
  PROVE  Good(h)
<1>1. /\ Doing(h, "rearm") /\ task' = Enqueued("refund_issue") /\ Moves(h, "ack")
      /\ UNCHANGED <<premises, outcome, purse, refund, concerns, flagged, till>>
      BY DEF RearmRefundIssue
<1>2. hand[h].task \in Joiner /\ hand[h].pc \notin Over BY <1>1, ProofRun DEF Doing, ProofPc
<1>3. IsMinted(On(h)) /\ Row(On(h)) BY <1>2, ProofNow
<1>4. dealState = "Failed" BY <1>3 DEF Row
<1>5. /\ task' \in [Task -> TaskState] /\ task'["refund_issue"] \in {"pending", "processing"}
      /\ \A s \in Task : s # "refund_issue" => task'[s] = task[s]
      BY <1>1, EnqueuedForm, Names
<1>6. \A j \in Joiner : task[j] # "none" => concerns[j] \in RefundId /\ IsMinted(<<j, concerns[j]>>)
      BY SettlementNow DEF Tasks
<1>7. /\ hand' \in [Hand -> HandRecord] /\ (\A g \in Hand \ {h} : hand'[g] = hand[g]) /\ hand'[h].pc = "ack"
      BY <1>1, MovesForm DEF Pc
<1>8. /\ UNCHANGED <<paid, proves, misjudged, outcome, purse, refund, till>> /\ mishaps' \in 0..MaxMishaps
      /\ concerns' = concerns /\ flagged' = flagged /\ flagged \subseteq Joiner /\ concerns \in [Joiner -> 0..MaxRefunds]
      BY <1>1, SettlementNow DEF premises
<1>9. SettlementTypeOK' /\ Keeps(h)
  <2>1. \A t \in Task : task[t] # "none" => task'[t] # "none" BY <1>5
  <2>2. \A j \in Joiner : task'[j] # "none" => concerns'[j] \in RefundId /\ IsMinted(<<j, concerns'[j]>>)
        BY <1>5, <1>6, <1>8, Names
  <2>3. \A t \in {"finalize_deal", "refund_issue"} : task'[t] = "sent" => task[t] = "sent" BY <1>5, Names
  <2>4. QED BY <1>4, <1>5, <1>7, <1>8, <2>1, <2>2, <2>3, Busy
<1>10. "ack" \in Over BY DEF Over
<1>11. QED BY <1>1, <1>2, <1>9, <1>10, ProofMoves

-----------------------------------------------------------------------------
(* The worker's maintenance and the provider: nobody's run moves.            *)

\* An undecided deal is decided by a new job.
LEMMA StepRescheduleStalled ==
  ASSUME SettlementInv, RescheduleStalled
  PROVE  Good("null")
<1>1. /\ task' = Enqueued("finalize_deal")
      /\ UNCHANGED <<premises, outcome, purse, refund, concerns, hand, flagged, till>>
      BY DEF RescheduleStalled
<1>2. "null" \notin Hand BY Names
<1>3. /\ task' \in [Task -> TaskState] /\ task'["finalize_deal"] \in {"pending", "processing"}
      /\ \A s \in Task : s # "finalize_deal" => task'[s] = task[s]
      BY <1>1, EnqueuedForm, Names
<1>4. /\ task["refund_issue"] # "none" => dealState = "Failed"
      /\ \A j \in Joiner : task[j] # "none" => concerns[j] \in RefundId /\ IsMinted(<<j, concerns[j]>>)
      BY SettlementNow DEF Tasks
<1>5. /\ UNCHANGED <<paid, proves, misjudged, outcome, purse, refund, till>> /\ mishaps' \in 0..MaxMishaps
      /\ concerns' = concerns /\ flagged' = flagged /\ flagged \subseteq Joiner /\ concerns \in [Joiner -> 0..MaxRefunds]
      /\ hand' = hand /\ hand \in [Hand -> HandRecord]
      BY <1>1, SettlementNow DEF premises
<1>6. \A t \in Task : task[t] # "none" => task'[t] # "none" BY <1>3
<1>7. /\ task'["refund_issue"] # "none" => dealState = "Failed"
      /\ \A j \in Joiner : task'[j] # "none" => concerns'[j] \in RefundId /\ IsMinted(<<j, concerns'[j]>>)
      BY <1>3, <1>4, <1>5, Names
<1>8. \A t \in {"finalize_deal", "refund_issue"} : task'[t] = "sent" => task[t] = "sent" BY <1>3, Names
<1>9. QED BY <1>2, <1>3, <1>5, <1>6, <1>7, <1>8, Busy DEF Good

\* A refund nobody works on gets a reconcile.
LEMMA StepReconcileOrphanedRefund ==
  ASSUME SettlementInv, NEW i \in Refund, ReconcileOrphanedRefund(i)
  PROVE  Good("null")
<1>1. /\ refund[i].result = "unknown" /\ Scheduled(i) /\ UNCHANGED <<premises, outcome, purse, refund, hand, till>>
      BY DEF ReconcileOrphanedRefund
<1>2. IsMinted(i) BY <1>1 DEF IsMinted
<1>3. /\ task' \in [Task -> TaskState] /\ concerns' \in [Joiner -> 0..MaxRefunds]
      /\ flagged \subseteq flagged' /\ flagged' \subseteq Joiner
      /\ \A t \in Task : task[t] # "none" => task'[t] # "none"
      /\ task'["refund_issue"] = task["refund_issue"] /\ task'["finalize_deal"] = task["finalize_deal"]
      /\ \A j \in Joiner : task'[j] # "none" => concerns'[j] \in RefundId /\ IsMinted(<<j, concerns'[j]>>)
      BY <1>1, <1>2, ScheduledForm
<1>4. task["refund_issue"] # "none" => dealState = "Failed" BY SettlementNow DEF Tasks
<1>5. /\ UNCHANGED <<paid, proves, misjudged, outcome, purse, refund, till>> /\ mishaps' \in 0..MaxMishaps
      /\ hand' = hand /\ hand \in [Hand -> HandRecord]
      BY <1>1, SettlementNow DEF premises
<1>6. "null" \notin Hand BY Names
<1>7. QED BY <1>3, <1>4, <1>5, <1>6, Busy DEF Good

\* What is under way is executed or lost.
LEMMA StepProvider ==
  ASSUME SettlementInv, NEW i \in Refund, ExecuteRefund(i) \/ LoseRefund(i)
  PROVE  Good("null")
<1>1. /\ i \in transit /\ transit' = transit \ {i} /\ paidBack' \in {paidBack, paidBack \cup {i}}
      /\ UNCHANGED <<premises, outcome, purse, refund, outbox, hand, flagged>>
      BY DEF ExecuteRefund, LoseRefund
<1>2. /\ paid' = paid /\ proves' = proves /\ misjudged' = misjudged /\ mishaps' = mishaps /\ purse' = purse
      /\ refund' = refund /\ flagged' = flagged /\ hand' = hand
      BY <1>1 DEF premises
<1>3. transit' \subseteq Refund /\ paidBack' \subseteq Refund /\ paidBack \subseteq paidBack' /\ Out' \subseteq Out
      BY <1>1, SettlementNow DEF Out
<1>4. \A k \in Refund : RowStep("null", k) /\ ~Mints(k)
  <2>1. SUFFICES ASSUME NEW k \in Refund PROVE RowStep("null", k) /\ ~Mints(k) OBVIOUS
  <2>2. RowStep("null", k) BY <1>2 DEF RowStep
  <2>3. Mints(k) => refund'[k].result = "unknown" /\ refund[k].result = "none" BY DEF Mints, NoRefund
  <2>4. QED BY <1>2, <2>2, <2>3
<1>5. "null" \notin Hand BY Names
<1>6. SettlementTypeOK' /\ Keeps("null") BY <1>1, <1>2, <1>3, <1>4, <1>5, SettlementNow, Booked
<1>7. QED BY <1>5, <1>6 DEF Good

\* The provider tells of a refund it executed.
LEMMA StepRefundCallback ==
  ASSUME SettlementInv, NEW i \in Refund, RefundCallback(i)
  PROVE  Good("null")
<1>1. i \in paidBack /\ Refunded(i) /\ UNCHANGED <<premises, outcome, outbox, hand, flagged, till>> BY DEF RefundCallback
<1>2. IsMinted(i) BY <1>1, RowsOfRows DEF Row, Out
<1>3. PaidBack(i[1]) # {} BY <1>1, Names DEF PaidBack
<1>4. /\ purse' \in [Joiner -> {"Captured", "Held", "Refunded"}]
      /\ \A j \in Joiner : \/ purse'[j] = purse[j]
                           \/ purse[j] = "Captured" /\ purse'[j] = "Refunded" /\ PaidBack(j) # {}
      /\ refund' \in [Refund -> RefundRecord]
      /\ \A k \in Refund : refund'[k] = refund[k] \/ Succeeds(k)
      /\ \A k \in Refund : ~Mints(k)
      BY <1>1, <1>2, <1>3, RefundedForm
<1>5. /\ paid' = paid /\ proves' = proves /\ misjudged' = misjudged /\ mishaps' = mishaps
      /\ flagged' = flagged /\ hand' = hand /\ transit' = transit /\ paidBack' = paidBack
      BY <1>1 DEF premises, till
<1>6. Out' = Out BY <1>5 DEF Out
<1>7. \A k \in Refund : RowStep("null", k) BY <1>4 DEF RowStep
<1>8. "null" \notin Hand BY Names
<1>9. SettlementTypeOK' /\ Keeps("null") BY <1>1, <1>4, <1>5, <1>6, <1>7, <1>8, SettlementNow, Booked
<1>10. QED BY <1>8, <1>9 DEF Good

-----------------------------------------------------------------------------
(* The invariant, and what it says.                                          *)

\* A deal that is about to be decided owes nothing yet.
LEMMA SettlementStarts == SettlementInit => SettlementInv
<1>1. SUFFICES ASSUME SettlementInit PROVE SettlementInv OBVIOUS
<1>2. /\ paid \subseteq Joiner /\ proves \in BOOLEAN /\ dealState = "CompletionWindow"
      /\ joiner = [j \in Joiner |-> IF j \in paid THEN "Charged" ELSE "Uncharged"]
      /\ purse = [j \in Joiner |-> IF j \in paid THEN "Captured" ELSE "Held"]
      /\ refund = [i \in Refund |-> NoRefund]
      /\ task = [t \in Task |-> IF t = "finalize_deal" THEN "pending" ELSE "none"]
      /\ concerns = [j \in Joiner |-> 0] /\ hand = [h \in Hand |-> Free]
      /\ flagged = {} /\ misjudged = {} /\ mishaps = 0 /\ transit = {} /\ paidBack = {}
      BY <1>1 DEF SettlementInit, Refund
<1>3. NoRefund \in RefundRecord /\ Free \in HandRecord BY DEF NoRefund, RefundRecord, Free, HandRecord, Pc
<1>4. \A i \in Refund : refund[i] = NoRefund /\ ~IsMinted(i) BY <1>2 DEF NoRefund, IsMinted
<1>5. \A h \in Hand : hand[h] = Free BY <1>2
<1>6. /\ task \in [Task -> TaskState] /\ (\A t \in Task : t # "finalize_deal" => task[t] = "none")
      /\ task["finalize_deal"] = "pending"
      BY <1>2, Names DEF TaskState
<1>7. SettlementTypeOK
  <2>1. refund \in [Refund -> RefundRecord] BY <1>2, <1>3
  <2>2. hand \in [Hand -> HandRecord] BY <1>2, <1>3
  <2>3. /\ joiner \in [Joiner -> {"Charged", "Uncharged", "DealCompleted", "DealFailed"}]
        /\ purse \in [Joiner -> {"Captured", "Held", "Refunded"}]
        BY <1>2
  <2>4. concerns \in [Joiner -> 0..MaxRefunds] /\ mishaps \in 0..MaxMishaps BY <1>2, Names
  <2>5. QED BY <1>2, <1>6, <2>1, <2>2, <2>3, <2>4, TypesNamed
<1>8. Purses BY <1>2 DEF Purses
<1>9. Rows
  <2>1. \A i \in Refund : Row(i)
    <3>1. SUFFICES ASSUME NEW i \in Refund PROVE Row(i) OBVIOUS
    <3>2. refund[i] = NoRefund /\ ~IsMinted(i) BY <1>4
    <3>3. QED BY <1>2, <3>2 DEF Row, Out, NoRefund
  <2>2. \A j \in Joiner : \A n \in RefundId : ~IsMinted(<<j, n>>) BY <1>4, Names
  <2>3. QED BY <2>1, <2>2 DEF Rows
<1>10. Runs
  <2>1. SUFFICES ASSUME NEW h \in Hand PROVE Place(h) /\ Holds(h) /\ Requests(h) BY DEF Runs
  <2>2. hand[h] = Free BY <1>5
  <2>3. Place(h) BY <2>2, Names DEF Place, Doing, Free, FinalPc, RefundPc, ProofPc
  <2>4. Holds(h) BY <2>2, Names DEF Holds, Free, RefundPc
  <2>5. Requests(h) BY <2>2 DEF Requests, Doing, Free
  <2>6. QED BY <2>3, <2>4, <2>5
<1>11. Tasks BY <1>2, <1>6, Names DEF Tasks
<1>12. OneMay
  <2>1. \A j \in Joiner : May(j) = {}
    <3>1. SUFFICES ASSUME NEW j \in Joiner, NEW n \in RefundId, n \in May(j) PROVE FALSE BY DEF May
    <3>2. refund[<<j, n>>] = NoRefund BY <1>4, Names
    <3>3. <<j, n>> \notin Out BY <1>2 DEF Out
    <3>4. \A h \in Hand : ~Doing(h, "send") BY <1>5 DEF Doing, Free
    <3>5. QED BY <3>1, <3>2, <3>3, <3>4 DEF May, NoRefund
  <2>2. QED BY <2>1 DEF OneMay
<1>13. Outcomes
  <2>1. \A j \in Joiner : joiner[j] \notin Settled BY <1>2 DEF Settled
  <2>2. \A h \in Hand : Listing(h) BY <1>5 DEF Listing, Free
  <2>3. QED BY <1>6, <2>1, <2>2 DEF Outcomes
<1>14. Custody
  <2>1. \A h \in Hand : Serving(h) BY <1>5 DEF Serving, Free
  <2>2. task["refund_issue"] = "none" BY <1>6, Names
  <2>3. QED BY <2>1, <2>2 DEF Custody
<1>15. QED BY <1>7, <1>8, <1>9, <1>10, <1>11, <1>12, <1>13, <1>14 DEF SettlementInv

\* Every step of the settlement is good.
LEMMA StepIsGood ==
  ASSUME SettlementInv, SettlementNext
  PROVE  \E h : Good(h)
<1>1. ASSUME NEW h \in Hand, HandSteps(h) PROVE Good(h)
  <2>1. CASE \E t \in Task : TakeTask(h, t) BY <2>1, StepTakeTask
  <2>2. CASE HandAcks(h) \/ HandRetries(h) \/ HandGivesUp(h) \/ Exhausted(h) \/ HandDies(h) BY <2>2, StepHandEnds
  <2>3. CASE HandThrows(h) \/ LeaseLapses(h) BY <2>3, StepHandThrows, StepLeaseLapses
  <2>4. CASE FinalizeBegins(h) \/ DecideOutcome(h) \/ ListMembers(h)
        BY <2>4, StepFinalizeBegins, StepDecideOutcome, StepListMembers
  <2>5. CASE (\E j \in Joiner : SettleMember(h, j)) \/ MembersSettled(h) BY <2>5, StepSettleMember, StepMembersSettled
  <2>6. CASE RefundBegins(h) \/ RefundsThrough(h) BY <2>6, StepRefundBegins, StepRefundsThrough
  <2>7. CASE \E j \in Joiner : RefundNotAdmitted(h, j) \/ RefundAgain(h, j) \/ RefundFresh(h, j)
        BY <2>7, StepRefundNotAdmitted, StepRefundAgain, StepRefundFresh
  <2>8. CASE ResolveRefunded(h) \/ ResolveOpen(h) \/ ArmRefund(h) \/ SendRefund(h)
        BY <2>8, StepResolveRefunded, StepResolveOpen, StepArmRefund, StepSendRefund
  <2>9. CASE RefundAnswered(h) \/ SettleRefund(h) \/ IngestRefund(h) \/ ScheduleRefundReconcile(h)
        BY <2>9, StepRefundAnswered, StepSettleRefund, StepIngestRefund, StepScheduleRefundReconcile
  <2>10. CASE RefundReconcileBegins(h) \/ RefundReconcileLooks(h) \/ RefundReconcileReads(h)
         BY <2>10, StepRefundReconcileBegins, StepRefundReconcileLooks, StepRefundReconcileReads
  <2>11. CASE RefundNeverExecuted(h) \/ RearmRefundIssue(h) BY <2>11, StepRefundNeverExecuted, StepRearmRefundIssue
  <2>12. QED BY <1>1, <2>1, <2>2, <2>3, <2>4, <2>5, <2>6, <2>7, <2>8, <2>9, <2>10, <2>11 DEF HandSteps
<1>2. CASE RescheduleStalled BY <1>2, StepRescheduleStalled
<1>3. ASSUME NEW i \in Refund, ReconcileOrphanedRefund(i) \/ ExecuteRefund(i) \/ LoseRefund(i) \/ RefundCallback(i)
      PROVE  Good("null")
      BY <1>3, StepReconcileOrphanedRefund, StepProvider, StepRefundCallback
<1>4. QED BY <1>1, <1>2, <1>3 DEF SettlementNext, Refund

\* The invariant outlasts every step.
LEMMA SettlementStep == SettlementInv /\ [SettlementNext]_settlementVars => SettlementInv'
<1>1. SUFFICES ASSUME SettlementInv, [SettlementNext]_settlementVars PROVE SettlementInv' OBVIOUS
<1>2. CASE SettlementNext
  <2>1. PICK h : Good(h) BY <1>1, <1>2, StepIsGood
  <2>2. Keeps(h) /\ SettlementTypeOK' /\ (h \in Hand => Ordered(h)') BY <2>1 DEF Good
  <2>3. QED BY <1>1, <2>2, StepInv
<1>3. CASE UNCHANGED settlementVars
  <2>1. /\ paid' = paid /\ proves' = proves /\ dealState' = dealState /\ joiner' = joiner /\ purse' = purse
        /\ refund' = refund /\ task' = task /\ concerns' = concerns /\ hand' = hand /\ flagged' = flagged
        /\ misjudged' = misjudged /\ mishaps' = mishaps /\ transit' = transit /\ paidBack' = paidBack
        BY <1>3 DEF settlementVars
  <2>2. SettlementTypeOK' BY <1>1, <2>1, SettlementNow, TypesNext
  <2>3. Purses' BY <1>1, <2>1, SettlementNow DEF Purses, PaidBack
  <2>4. Rows' BY <1>1, <2>1, SettlementNow DEF Rows, Row, IsMinted, PaidBack, Out
  <2>5. Runs' BY <1>1, <2>1, SettlementNow DEF Runs, Place, Holds, Requests, IsMinted, Doing, On, Out
  <2>6. Tasks' BY <1>1, <2>1, SettlementNow DEF Tasks, IsMinted
  <2>7. OneMay' BY <1>1, <2>1, SettlementNow DEF OneMay, May, Doing, On, Out
  <2>8. Outcomes' BY <1>1, <2>1, SettlementNow DEF Outcomes, Listing, Decided, Owed
  <2>9. Custody' BY <1>1, <2>1, SettlementNow DEF Custody, Serving, Handled, Cared
  <2>10. QED BY <2>2, <2>3, <2>4, <2>5, <2>6, <2>7, <2>8, <2>9 DEF SettlementInv
<1>4. QED BY <1>1, <1>2, <1>3

\* The invariant holds throughout.
THEOREM SettlementHolds == SettlementSpec => []SettlementInv
BY SettlementStarts, SettlementStep, PTL DEF SettlementSpec

\* The types of the settlement.
THEOREM SettlementTypes == SettlementSpec => []SettlementTypeOK
<1>1. SettlementInv => SettlementTypeOK BY DEF SettlementInv
<1>2. QED BY <1>1, SettlementHolds, PTL

\* A refund goes out once per participant unless a reconcile misjudged one, only
\* out of a failed deal to somebody who paid, and nobody is booked as refunded
\* who was not: whatever timed out, raced, crashed or was repeated (handleRefundEvent,
\* resolvePriorProviderAttempt, armMoneyOperation and the reconcile of refunds).
THEOREM RefundedOnce == SettlementSpec => []PaidBackTwiceOnlyIfMisjudged
<1>1. SettlementInv => PaidBackTwiceOnlyIfMisjudged
  <2>1. SUFFICES ASSUME SettlementInv, NEW j \in Joiner
                 PROVE  /\ j \notin misjudged => Cardinality(PaidBack(j)) <= 1
                        /\ PaidBack(j) # {} => dealState = "Failed" /\ j \in paid
                        /\ purse[j] = "Refunded" => PaidBack(j) # {}
        BY DEF PaidBackTwiceOnlyIfMisjudged
  <2>2. ASSUME j \notin misjudged PROVE Cardinality(PaidBack(j)) <= 1
    <3>1. \A m, n \in May(j) : m = n BY <2>1, <2>2, SettlementNow DEF OneMay
    <3>2. PaidBack(j) \subseteq May(j) BY DEF PaidBack, May, Out
    <3>3. CASE PaidBack(j) = {} BY <3>3, FS_EmptySet
    <3>4. CASE PaidBack(j) # {}
      <4>1. PICK n \in PaidBack(j) : TRUE BY <3>4
      <4>2. PaidBack(j) = {n} BY <3>1, <3>2
      <4>3. QED BY <4>2, FS_Singleton
    <3>5. QED BY <3>3, <3>4
  <2>3. ASSUME PaidBack(j) # {} PROVE dealState = "Failed" /\ j \in paid
    <3>1. PICK n \in RefundId : <<j, n>> \in paidBack BY <2>3 DEF PaidBack
    <3>2. <<j, n>> \in Refund BY Names
    <3>3. Row(<<j, n>>) BY <2>1, <3>2, RowsOfRows
    <3>4. QED BY <3>1, <3>3 DEF Row, Out
  <2>4. purse[j] = "Refunded" => PaidBack(j) # {} BY <2>1, SettlementNow DEF Purses
  <2>5. QED BY <2>2, <2>3, <2>4
<1>2. QED BY <1>1, SettlementHolds, PTL

\* When finalize_deal of a completed deal is done, every participant stands as the
\* decision has it; when a failed deal is at rest, whoever it charged is paid back
\* or before an operator, unless his refund was concluded not to have run.
THEOREM SettledAll == SettlementSpec => []NobodyForgotten
<1>1. SettlementInv => NobodyForgotten
  <2>1. SUFFICES ASSUME SettlementInv PROVE NobodyForgotten OBVIOUS
  <2>2. ASSUME dealState = "Completed", task["finalize_deal"] = "sent", NEW j \in Joiner
        PROVE  joiner[j] = IF j \in paid THEN "DealCompleted" ELSE "DealFailed"
    <3>1. joiner[j] \in Settled /\ joiner[j] = Owed(j) BY <2>1, <2>2, SettlementNow DEF Outcomes
    <3>2. QED BY <2>2, <3>1 DEF Owed
  <2>3. ASSUME dealState = "Failed", NEW j \in paid, AtRest(j)
        PROVE  Cared(j) \/ \E n \in RefundId : refund[<<j, n>>].result = "permanent_fail"
    <3>1. task["refund_issue"] # "none" BY <2>1, <2>3, SettlementNow DEF Tasks
    <3>2. task["refund_issue"] = "sent" BY <2>3, <3>1 DEF AtRest
    <3>3. Handled(j) BY <2>1, <3>2, SettlementNow DEF Custody
    <3>4. QED BY <2>3, <3>3 DEF AtRest, Handled
  <2>4. QED BY <2>2, <2>3 DEF NobodyForgotten
<1>2. QED BY <1>1, SettlementHolds, PTL
=============================================================================
