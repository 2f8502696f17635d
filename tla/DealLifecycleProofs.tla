------------------------ MODULE DealLifecycleProofs ------------------------
(***************************************************************************)
(* Proofs about DealLifecycle, for any buyers, quantities, target,         *)
(* capacity, requests, handler runs and retry budget; and about its calm   *)
(* behaviours, those with one request and one run at a time.               *)
(***************************************************************************)
EXTENDS CalmDealLifecycle, FiniteSetTheorems, TLAPS

-----------------------------------------------------------------------------
(* The inductive invariant *)

\* A pending deadline_check has an attempt left.
AttemptLeft == check.status = "pending" => check.attempts < MaxAttempts

\* A Join has the row lock only while the deal is open: nobody moves it meanwhile.
LockedOpen == lock # NoBuyer => state \in Open

\* What a request remembers of the deal is a state it may move it from.
CallsRemember ==
  \A c \in Call :
    /\ call[c].op = "close" => call[c].from \in Open
    /\ call[c].op = "reopen" => call[c].from = "ClosedForJoining" /\ call[c].to \in Open

\* Only a run that knows that the deal failed unwinds it.
UnwindsFailed ==
  \A i \in Run : run[i].pc \in {"list", "participants", "releases"} => state = "Failed"

\* A draft has no inventory row.
FreshInventory == state = "Draft" => inventory.status = "none"

\* Before charging every participant is a joined one with a live hold.
HeldTogether ==
  state \in {"Draft", "ClosedForJoining"} \cup Open =>
    \A b \in Joined : buyer[b] = "JoinedAuthorized" /\ money[b] = "AuthHeld"

TypeInv == TypeOK /\ AttemptLeft

\* What requests and runs know of the deal ...
Knowledge == LockedOpen /\ CallsRemember /\ UnwindsFailed

\* ... and what its state says of its participants and its inventory.
Consistency ==
  HeldTogether /\ ChargedTogether /\ NeverBoth /\ FreshInventory /\ OpenDealAcceptsJoins

DealInv == TypeInv /\ Knowledge /\ Consistency

-----------------------------------------------------------------------------
(* Types *)

\* A deal without participants has the types.
LEMMA TypeInit == Init => TypeInv
<1> SUFFICES ASSUME Init PROVE TypeInv
  OBVIOUS
<1>1. check \in CheckForm /\ check.attempts < MaxAttempts
  BY DealAssumption DEF Init, CheckForm
<1>2. call \in [Call -> CallForm] /\ run \in [Run -> RunForm]
  BY DEF Init, NoCall, CallForm, Idle, RunForm, DealState
<1>3. buyer \in [Buyer -> BuyerState] /\ money \in [Buyer -> MoneyState]
  BY DEF Init, BuyerState, MoneyState
<1> QED
  BY <1>1, <1>2, <1>3 DEF Init, TypeInv, TypeOK, AttemptLeft, DealState

\* Retried and Rearmed keep the form of the job and the attempt of a pending one.
LEMMA CheckKept ==
  ASSUME TypeInv, NEW early \in BOOLEAN
  PROVE  /\ Retried(early) \in CheckForm
         /\ Rearmed \in CheckForm
         /\ Retried(early).status = "pending" => Retried(early).attempts < MaxAttempts
         /\ Rearmed.status = "pending" => Rearmed.attempts < MaxAttempts
<1>1. /\ check.attempts \in 0 .. MaxAttempts /\ MaxAttempts \in Nat \ {0}
      /\ check.status \in {"none", "pending", "processing", "sent", "dlq"}
      /\ check.early \in BOOLEAN /\ check \in CheckForm
  BY DealAssumption DEF TypeInv, TypeOK, CheckForm
<1>2. Retried(early) \in CheckForm
  BY <1>1 DEF CheckForm, Retried
<1>3. Rearmed \in CheckForm
  BY <1>1 DEF CheckForm, Rearmed
<1>4. Retried(early).status = "pending" => Retried(early).attempts < MaxAttempts
  BY <1>1 DEF CheckForm, Retried
<1>5. Rearmed.status = "pending" => Rearmed.attempts < MaxAttempts
  BY <1>1 DEF TypeInv, AttemptLeft, Rearmed
<1> QED
  BY <1>2, <1>3, <1>4, <1>5

\* Every step preserves them.
LEMMA TypeStep == TypeInv /\ [Next]_vars => TypeInv'
<1> SUFFICES ASSUME TypeInv, [Next]_vars PROVE TypeInv'
  OBVIOUS
<1> USE DEF TypeInv, TypeOK, AttemptLeft
<1>1. CASE SellerStep
  <2>1. CASE Publish
    BY <2>1, DealAssumption DEF Publish, DealState, CheckForm
  <2>2. CASE Cancel
    BY <2>2 DEF Cancel, DealState
  <2>3. CASE DeleteDeal
    BY <2>3 DEF DeleteDeal, DealState, CheckForm
  <2>4. CASE PrepareCharging
    BY <2>4 DEF PrepareCharging, DealState, BuyerState, MoneyState
  <2>5. CASE ChargingStart
    BY <2>5 DEF ChargingStart, DealState, BuyerState, MoneyState
  <2> QED
    BY <1>1, <2>1, <2>2, <2>3, <2>4, <2>5 DEF SellerStep
<1>2. ASSUME NEW b \in Buyer, JoinLock(b) \/ JoinEnds(b) PROVE TypeInv'
  <2>1. CASE JoinLock(b)
    BY <2>1 DEF JoinLock
  <2>2. CASE JoinCommit(b)
    <3>1. inventory' \in [status : {"none", "open", "closed"}, committed : Nat,
                          reached : BOOLEAN, synced : BOOLEAN]
      <4>1. JoinSynced(inventory) \in [status : {"none", "open", "closed"}, committed : Nat,
                                       reached : BOOLEAN, synced : BOOLEAN]
        BY DEF JoinSynced, Synced
      <4>2. Qty[b] \in Nat
        BY DealAssumption
      <4>3. /\ JoinSynced(inventory).status \in {"none", "open", "closed"}
            /\ JoinSynced(inventory).synced \in BOOLEAN
            /\ JoinSynced(inventory).committed + Qty[b] \in Nat
        BY <4>1, <4>2
      <4>4. (JoinSynced(inventory).reached
               \/ JoinSynced(inventory).committed + Qty[b] >= Threshold) \in BOOLEAN
        BY Zenon
      <4>5. inventory' = Committed(JoinSynced(inventory), Qty[b])
        BY <2>2 DEF JoinCommit
      <4> QED
        BY <4>3, <4>4, <4>5, Zenon DEF Committed
    <3>2. buyer' \in [Buyer -> BuyerState] /\ money' \in [Buyer -> MoneyState]
      BY <2>2 DEF JoinCommit, BuyerState, MoneyState
    <3> QED
      BY <2>2, <3>1, <3>2 DEF JoinCommit, DealState
  <2>3. CASE JoinRollback(b)
    BY <2>3 DEF JoinRollback
  <2> QED
    BY <1>2, <2>1, <2>2, <2>3 DEF JoinEnds
<1>3. ASSUME NEW c \in Call, CallStep(c) PROVE TypeInv'
  <2>1. CASE CloseReads(c)
    BY <2>1 DEF CloseReads, CallForm, DealState, Open, dealVars, jobVars
  <2>2. CASE CloseJoining(c)
    BY <2>2 DEF CloseJoining, Closed, Synced, Answered, NoCall, CallForm, DealState, jobVars
  <2>3. CASE ReopenReads(c)
    BY <2>3 DEF ReopenReads, CallForm, DealState, dealVars, jobVars
  <2>4. CASE ReopenJoining(c)
    <3>1. check' = Rearmed /\ state' \in DealState
      BY <2>4 DEF ReopenJoining, CallForm
    <3>2. inventory' \in [status : {"none", "open", "closed"}, committed : Nat,
                          reached : BOOLEAN, synced : BOOLEAN]
      BY <2>4 DEF ReopenJoining, Synced
    <3>3. call' \in [Call -> CallForm]
      BY <2>4 DEF ReopenJoining, Answered, NoCall, CallForm, DealState
    <3> QED
      BY <2>4, <3>1, <3>2, <3>3, CheckKept DEF ReopenJoining
  <2>5. CASE CallEnds(c)
    BY <2>5 DEF CallEnds, Answered, NoCall, CallForm, DealState, dealVars, jobVars
  <2> QED
    BY <1>3, <2>1, <2>2, <2>3, <2>4, <2>5 DEF CallStep
<1>4. ASSUME NEW i \in Run, ClaimCheck(i) \/ HandlerStep(i) \/ RunDies(i) PROVE TypeInv'
  <2> USE DEF dealVars
  <2>1. CASE ClaimCheck(i)
    <3>1. check.attempts \in 0 .. MaxAttempts /\ check.attempts < MaxAttempts
      BY <2>1 DEF ClaimCheck, CheckForm
    <3>2. check.attempts + 1 \in 0 .. MaxAttempts
      BY <3>1, DealAssumption
    <3>3. check' \in CheckForm /\ check'.status = "processing"
      BY <2>1, <3>2 DEF ClaimCheck, CheckForm
    <3>4. run' \in [Run -> RunForm]
      BY <2>1 DEF ClaimCheck, RunForm
    <3> QED
      BY <2>1, <3>3, <3>4 DEF ClaimCheck
  <2>2. CASE RunDies(i)
    BY <2>2 DEF RunDies, RunForm, Idle, DealState
  <2>3. CASE RunFails(i)
    <3>1. check.early \in BOOLEAN
      BY DEF CheckForm
    <3> QED
      BY <2>3, <3>1, CheckKept DEF RunFails, RunForm, Idle, DealState
  <2>4. CASE ReadDeal(i)
    BY <2>4 DEF ReadDeal, RunForm
  <2>5. CASE SumUnits(i)
    BY <2>5 DEF SumUnits, RunForm
  <2>6. CASE FailDeal(i)
    BY <2>6 DEF FailDeal, RunForm, DealState
  <2>7. CASE ListParticipants(i)
    BY ZenonT(60), <2>7 DEF ListParticipants, RunForm, Joined
  <2>8. CASE FailParticipant(i)
    BY <2>8 DEF FailParticipant, RunForm, BuyerState
  <2>9. CASE ListHeld(i)
    BY ZenonT(60), <2>9 DEF ListHeld, RunForm
  <2>10. CASE ScheduleRelease(i)
    BY <2>10 DEF ScheduleRelease, RunForm
  <2>11. CASE CleanupChecks(i)
    BY SMTT(40), <2>11 DEF CleanupChecks, RunForm, CheckForm
  <2>12. CASE RunEnds(i)
    <3>1. check' = check \/ check' = Retried(FALSE)
            \/ check' = [check EXCEPT !.status = "sent", !.holder = NoRun]
      BY <2>12 DEF RunEnds
    <3>2. check' \in CheckForm /\ AttemptLeft'
      BY <3>1, CheckKept DEF CheckForm
    <3> QED
      BY <2>12, <3>2 DEF RunEnds, RunForm, Idle, DealState
  <2> QED
    BY <1>4, <2>1, <2>2, <2>3, <2>4, <2>5, <2>6, <2>7, <2>8, <2>9, <2>10, <2>11, <2>12
    DEF HandlerStep
<1>5. CASE ReclaimCheck
  <2>1. check.early \in BOOLEAN
    BY DEF CheckForm
  <2> QED
    BY <1>5, <2>1, CheckKept DEF ReclaimCheck, dealVars
<1>6. CASE DeadlinePasses
  BY <1>6 DEF DeadlinePasses, jobVars
<1>7. CASE UNCHANGED vars
  BY <1>7 DEF vars
<1> QED
  BY <1>1, <1>2, <1>3, <1>4, <1>5, <1>6, <1>7 DEF Next

\* The deal, its participants, its inventory, the requests and the runs are
\* always of the declared form; no deadline_check uses more attempts than it has.
THEOREM DealTypes == Spec => []TypeOK
<1>1. TypeInv => TypeOK
  BY DEF TypeInv
<1> QED
  BY TypeInit, TypeStep, <1>1, PTL DEF Spec

-----------------------------------------------------------------------------
(* Safety *)

\* Nothing was joined, charged or decided in the beginning.
LEMMA DealInit == Init => DealInv
<1> SUFFICES ASSUME Init PROVE DealInv
  OBVIOUS
<1>1. Joined = {}
  BY DEF Init, Joined
<1>2. Knowledge
  BY DEF Init, Knowledge, LockedOpen, CallsRemember, UnwindsFailed, NoCall, Idle
<1>3. Consistency
  BY <1>1 DEF Init, Consistency, HeldTogether, ChargedTogether, NeverBoth, FreshInventory,
     OpenDealAcceptsJoins, Open
<1> QED
  BY <1>2, <1>3, TypeInit DEF DealInv

\* A step that leaves the deal, its participants and its inventory alone.
LEMMA DealUntouched ==
  Consistency /\ UNCHANGED <<state, buyer, money, inventory, releases>> => Consistency'
  BY DEF Consistency, HeldTogether, ChargedTogether, NeverBoth, FreshInventory,
     OpenDealAcceptsJoins, Joined

\* Every transition of the deal needs the row lock, waits for a Join that has it,
\* and is made by who knows the state it starts from.
LEMMA KnowledgeStep == DealInv /\ [Next]_vars => Knowledge'
<1> SUFFICES ASSUME DealInv, [Next]_vars PROVE Knowledge'
  OBVIOUS
<1> USE DEF DealInv, Knowledge, LockedOpen, CallsRemember, UnwindsFailed
<1>t. call \in [Call -> CallForm] /\ run \in [Run -> RunForm]
  BY DEF TypeInv, TypeOK
<1>1. CASE SellerStep
  BY <1>1 DEF SellerStep, Publish, Cancel, DeleteDeal, PrepareCharging, ChargingStart, Unlocked, Open
<1>2. ASSUME NEW b \in Buyer, JoinLock(b) \/ JoinEnds(b) PROVE Knowledge'
  BY <1>2 DEF JoinLock, JoinEnds, JoinCommit, JoinRollback, Open
<1>3. ASSUME NEW c \in Call, CallStep(c) PROVE Knowledge'
  <2>1. CASE CloseReads(c)
    BY <1>t, <2>1 DEF CloseReads, CallForm, dealVars, jobVars
  <2>2. CASE CloseJoining(c)
    BY <1>t, <2>2 DEF CloseJoining, Answered, NoCall, Unlocked, jobVars, Open
  <2>3. CASE ReopenReads(c)
    BY <1>t, <2>3 DEF ReopenReads, CallForm, dealVars, jobVars, Open
  <2>4. CASE ReopenJoining(c)
    BY <1>t, <2>4 DEF ReopenJoining, Answered, NoCall, Unlocked, jobVars, Open
  <2>5. CASE CallEnds(c)
    BY <1>t, <2>5 DEF CallEnds, Answered, NoCall, dealVars, jobVars
  <2> QED
    BY <1>3, <2>1, <2>2, <2>3, <2>4, <2>5 DEF CallStep
<1>4. ASSUME NEW i \in Run, ClaimCheck(i) \/ HandlerStep(i) \/ RunDies(i) PROVE Knowledge'
  <2> USE <1>t DEF dealVars
  <2>1. CASE ClaimCheck(i)
    BY <2>1 DEF ClaimCheck, RunForm
  <2>2. CASE RunDies(i)
    BY <2>2 DEF RunDies, Idle
  <2>3. CASE RunFails(i)
    BY <2>3 DEF RunFails, Idle
  <2>4. CASE ReadDeal(i)
    BY <2>4 DEF ReadDeal, RunForm
  <2>5. CASE SumUnits(i)
    BY <2>5 DEF SumUnits, RunForm
  <2>6. CASE FailDeal(i)
    BY <2>6 DEF FailDeal, RunForm, Unlocked
  <2>7. CASE ListParticipants(i)
    BY <2>7 DEF ListParticipants, RunForm
  <2>8. CASE FailParticipant(i)
    BY <2>8 DEF FailParticipant, RunForm
  <2>9. CASE ListHeld(i)
    BY <2>9 DEF ListHeld, RunForm
  <2>10. CASE ScheduleRelease(i)
    BY <2>10 DEF ScheduleRelease, RunForm
  <2>11. CASE CleanupChecks(i)
    BY <2>11 DEF CleanupChecks, RunForm
  <2>12. CASE RunEnds(i)
    BY <2>12 DEF RunEnds, Idle
  <2> QED
    BY <1>4, <2>1, <2>2, <2>3, <2>4, <2>5, <2>6, <2>7, <2>8, <2>9, <2>10, <2>11, <2>12
    DEF HandlerStep
<1>5. CASE ReclaimCheck
  BY <1>5 DEF ReclaimCheck, dealVars
<1>6. CASE DeadlinePasses
  BY <1>6 DEF DeadlinePasses, jobVars
<1>7. CASE UNCHANGED vars
  BY <1>7 DEF vars
<1> QED
  BY <1>1, <1>2, <1>3, <1>4, <1>5, <1>6, <1>7 DEF Next

\* Every step leaves deal and participants consistent.
LEMMA ConsistencyStep == DealInv /\ [Next]_vars => Consistency'
<1> SUFFICES ASSUME DealInv, [Next]_vars PROVE Consistency'
  OBVIOUS
<1> USE DEF DealInv
<1>t. buyer \in [Buyer -> BuyerState] /\ money \in [Buyer -> MoneyState]
  BY DEF TypeInv, TypeOK
<1>1. CASE SellerStep
  <2> USE DEF Consistency, HeldTogether, ChargedTogether, NeverBoth, FreshInventory,
              OpenDealAcceptsJoins, Open
  <2>1. CASE Publish
    BY <2>1 DEF Publish, Joined
  <2>2. CASE Cancel
    BY <2>2 DEF Cancel, Joined
  <2>3. CASE DeleteDeal
    BY <2>3 DEF DeleteDeal, Joined
  <2>4. CASE PrepareCharging
    <3>1. \A b \in Joined : buyer[b] = "JoinedAuthorized" /\ money[b] = "AuthHeld"
      BY <2>4 DEF PrepareCharging
    <3>2. {b \in Buyer : buyer[b] = "JoinedAuthorized" /\ money[b] = "AuthHeld"} = Joined
      BY <3>1 DEF Joined
    <3>3. Joined' = Joined
      BY <1>t, <2>4 DEF PrepareCharging, Joined
    <3>4. Units(Joined') >= Threshold
      BY <2>4, <3>2, <3>3 DEF PrepareCharging
    <3>5. \A b \in Joined' : buyer'[b] = "LockedIn" /\ money'[b] = "AuthLocked"
      BY <2>4, <3>1, <3>3 DEF PrepareCharging, Joined
    <3>6. \A b \in Buyer : buyer'[b] = "DealFailed" => buyer[b] = "DealFailed"
      BY <2>4 DEF PrepareCharging
    <3> QED
      BY <2>4, <3>4, <3>5, <3>6 DEF PrepareCharging
  <2>5. CASE ChargingStart
    <3>1. \A b \in Joined : buyer[b] = "LockedIn" /\ money[b] = "AuthLocked"
      BY <2>5 DEF ChargingStart
    <3>2. Joined' = Joined
      BY <1>t, <2>5 DEF ChargingStart, Joined
    <3>3. Units(Joined') >= Threshold
      BY <2>5, <3>2 DEF ChargingStart
    <3>4. \A b \in Joined' : buyer'[b] = "ChargingAttempt" /\ money'[b] = "ChargeAttempt"
      BY <2>5, <3>1, <3>2 DEF ChargingStart, Joined
    <3>5. \A b \in Buyer : buyer'[b] = "DealFailed" => buyer[b] = "DealFailed"
      BY <2>5 DEF ChargingStart
    <3> QED
      BY <2>5, <3>3, <3>4, <3>5 DEF ChargingStart
  <2> QED
    BY <1>1, <2>1, <2>2, <2>3, <2>4, <2>5 DEF SellerStep
<1>2. ASSUME NEW b \in Buyer, JoinLock(b) \/ JoinEnds(b) PROVE Consistency'
  <2>1. CASE JoinLock(b)
    BY <2>1, DealUntouched DEF JoinLock
  <2>2. CASE JoinCommit(b)
    <3>1. state \in Open /\ state' \in Open
      BY <2>2, DealAssumption DEF JoinCommit, Knowledge, LockedOpen, Open
    <3>2. Joined' \subseteq Joined \cup {b}
      BY <1>t, <2>2 DEF JoinCommit, Joined
    <3>3. HeldTogether'
      BY <1>t, <2>2, <3>1, <3>2 DEF JoinCommit, Consistency, HeldTogether
    <3>4. releases = {} /\ \A p \in Buyer : buyer[p] # "DealFailed"
      BY <3>1 DEF Consistency, NeverBoth, Open
    <3>5. NeverBoth'
      BY <1>t, <2>2, <3>4 DEF JoinCommit, NeverBoth
    <3>6. inventory'.status = "open"
      BY <2>2 DEF JoinCommit, Committed
    <3> QED
      BY <3>1, <3>3, <3>5, <3>6 DEF Consistency, ChargedTogether, FreshInventory,
         OpenDealAcceptsJoins, Open
  <2>3. CASE JoinRollback(b)
    BY <2>3, DealUntouched DEF JoinRollback
  <2> QED
    BY <1>2, <2>1, <2>2, <2>3 DEF JoinEnds
<1>3. ASSUME NEW c \in Call, CallStep(c) PROVE Consistency'
  <2>1. CASE CloseReads(c) \/ ReopenReads(c) \/ CallEnds(c)
    BY <2>1, DealUntouched DEF CloseReads, ReopenReads, CallEnds, dealVars, jobVars
  <2>2. CASE CloseJoining(c)
    <3>1. state \in Open /\ state' = "ClosedForJoining"
      BY <2>2 DEF CloseJoining, Knowledge, CallsRemember
    <3> QED
      BY <2>2, <3>1 DEF CloseJoining, Consistency, HeldTogether, ChargedTogether, NeverBoth,
         FreshInventory, OpenDealAcceptsJoins, Open, Joined, jobVars
  <2>3. CASE ReopenJoining(c)
    <3>1. state = "ClosedForJoining" /\ state' \in Open
      BY <2>3 DEF ReopenJoining, Knowledge, CallsRemember
    <3>2. inventory'.status = "open"
      BY <2>3 DEF ReopenJoining, Synced, TypeInv, TypeOK
    <3> QED
      BY <2>3, <3>1, <3>2 DEF ReopenJoining, Consistency, HeldTogether, ChargedTogether, NeverBoth,
         FreshInventory, OpenDealAcceptsJoins, Open, Joined
  <2> QED
    BY <1>3, <2>1, <2>2, <2>3 DEF CallStep
<1>4. ASSUME NEW i \in Run, ClaimCheck(i) \/ HandlerStep(i) \/ RunDies(i) PROVE Consistency'
  <2> USE DEF dealVars
  <2>1. CASE \/ ClaimCheck(i) \/ RunDies(i) \/ RunFails(i) \/ ReadDeal(i) \/ SumUnits(i)
             \/ ListParticipants(i) \/ ListHeld(i) \/ CleanupChecks(i) \/ RunEnds(i)
    BY <2>1, DealUntouched DEF ClaimCheck, RunDies, RunFails, ReadDeal, SumUnits,
       ListParticipants, ListHeld, CleanupChecks, RunEnds
  <2>2. CASE FailDeal(i)
    BY <2>2 DEF FailDeal, Consistency, HeldTogether, ChargedTogether, NeverBoth,
       FreshInventory, OpenDealAcceptsJoins, Open
  <2>3. CASE FailParticipant(i)
    <3>1. state = "Failed" /\ state' = "Failed"
      BY <2>3 DEF FailParticipant, Knowledge, UnwindsFailed
    <3> QED
      BY <3>1 DEF Consistency, HeldTogether, ChargedTogether, NeverBoth,
         FreshInventory, OpenDealAcceptsJoins, Open
  <2>4. CASE ScheduleRelease(i)
    <3>1. state = "Failed" /\ state' = "Failed"
      BY <2>4 DEF ScheduleRelease, Knowledge, UnwindsFailed
    <3> QED
      BY <3>1 DEF Consistency, HeldTogether, ChargedTogether, NeverBoth,
         FreshInventory, OpenDealAcceptsJoins, Open
  <2> QED
    BY <1>4, <2>1, <2>2, <2>3, <2>4 DEF HandlerStep
<1>5. CASE ReclaimCheck
  BY <1>5, DealUntouched DEF ReclaimCheck, dealVars
<1>6. CASE DeadlinePasses
  BY <1>6, DealUntouched DEF DeadlinePasses, jobVars
<1>7. CASE UNCHANGED vars
  BY <1>7, DealUntouched DEF vars
<1> QED
  BY <1>1, <1>2, <1>3, <1>4, <1>5, <1>6, <1>7 DEF Next

\* The invariant holds in every reachable state.
LEMMA DealInvariant == Spec => []DealInv
<1>1. DealInv /\ [Next]_vars => DealInv'
  BY TypeStep, KnowledgeStep, ConsistencyStep DEF DealInv
<1> QED
  BY DealInit, <1>1, PTL DEF Spec

\* A participant is failed, and a hold released, only in a failed deal: the
\* deadline run and the seller's charging never both win.
THEOREM NeverChargedAndFailed == Spec => []NeverBoth
<1>1. DealInv => NeverBoth
  BY DEF DealInv, Consistency
<1> QED
  BY DealInvariant, <1>1, PTL

\* A deal that is ready for charging, or charging, met its target with
\* participants that all moved with it.
THEOREM AllChargedTogether == Spec => []ChargedTogether
<1>1. DealInv => ChargedTogether
  BY DEF DealInv, Consistency
<1> QED
  BY DealInvariant, <1>1, PTL

\* An open deal never has a closed inventory.
THEOREM InventoryFollowsDeal == Spec => []OpenDealAcceptsJoins
<1>1. DealInv => OpenDealAcceptsJoins
  BY DEF DealInv, Consistency
<1> QED
  BY DealInvariant, <1>1, PTL

-----------------------------------------------------------------------------
(* Capacity *)

\* A Join that has the row lock has not joined yet, and a run fails only who joined.
LockedNew == lock # NoBuyer => buyer[lock] = "NotJoined"
FailsJoined == \A i \in Run : run[i].pc = "participants" => run[i].left \subseteq Joined

\* The inventory counts the units of those who joined.
Counted ==
  /\ IsFiniteSet(UnitsOf(Joined)) /\ inventory.committed = Units(Joined)
  /\ inventory.committed <= MaxUnits
  /\ inventory.reached <=> inventory.committed >= Threshold

CountInv == LockedNew /\ FailsJoined /\ Counted

\* Nobody asks for nothing.
LEMMA UnitsNone == UnitsOf({}) = {} /\ IsFiniteSet(UnitsOf({})) /\ Units({}) = 0
<1>1. UnitsOf({}) = {}
  BY DEF UnitsOf
<1> QED
  BY <1>1, FS_EmptySet DEF Units

\* One more Join adds its quantity.
LEMMA UnitsGrow ==
  ASSUME NEW S \in SUBSET Buyer, IsFiniteSet(UnitsOf(S)), NEW b \in Buyer, b \notin S
  PROVE  /\ IsFiniteSet(UnitsOf(S \cup {b})) /\ Units(S) \in Nat
         /\ Units(S \cup {b}) = Units(S) + Qty[b]
<1> DEFINE New == {b} \X (1 .. Qty[b])
<1>1. Qty[b] \in Nat /\ Qty[b] >= 1
  BY DealAssumption
<1>2. IsFiniteSet(1 .. Qty[b]) /\ Cardinality(1 .. Qty[b]) = Qty[b]
  BY <1>1, FS_Interval
<1>3. IsFiniteSet({b}) /\ Cardinality({b}) = 1
  BY FS_Singleton
<1>4. IsFiniteSet(New) /\ Cardinality(New) = Qty[b]
  <2>1. IsFiniteSet(New) /\ Cardinality(New) = Cardinality({b}) * Cardinality(1 .. Qty[b])
    BY <1>2, <1>3, FS_Product
  <2> QED
    BY <1>1, <1>2, <1>3, <2>1
<1>5. UnitsOf(S \cup {b}) = UnitsOf(S) \cup New
  BY DEF UnitsOf
<1>6. UnitsOf(S) \cap New = {}
  <2>1. \A u \in UnitsOf(S) : u[1] \in S
    BY DEF UnitsOf
  <2>2. \A u \in New : u[1] = b
    OBVIOUS
  <2> QED
    BY <2>1, <2>2
<1>7. Cardinality(UnitsOf(S)) \in Nat
  BY FS_CardinalityType
<1> HIDE DEF New
<1>8. /\ IsFiniteSet(UnitsOf(S) \cup New)
      /\ Cardinality(UnitsOf(S) \cup New)
           = Cardinality(UnitsOf(S)) + Cardinality(New) - Cardinality(UnitsOf(S) \cap New)
  BY <1>4, FS_Union
<1>9. Cardinality(UnitsOf(S) \cap New) = 0
  BY <1>6, FS_EmptySet
<1>10. Cardinality(UnitsOf(S) \cup New) = Cardinality(UnitsOf(S)) + Qty[b]
  BY <1>1, <1>4, <1>7, <1>8, <1>9
<1> QED
  BY <1>5, <1>7, <1>8, <1>10, Zenon DEF Units

\* The target is at least one unit.
LEMMA SomeTarget == Threshold \in Nat /\ Threshold >= 1
<1>1. MinUnits \in Nat /\ MinUnits >= 1
  BY DealAssumption
<1>2. (9 * MinUnits + 9) \div 10 \in Nat /\ (9 * MinUnits + 9) \div 10 >= 1
  BY <1>1
<1> QED
  BY <1>2 DEF Threshold

\* A Join that commits adds one who had not joined; nothing else changes who joined
\* and what the inventory gave out.
LEMMA JoinedMoves ==
  ASSUME DealInv, FailsJoined, [Next]_vars
  PROVE  \/ \E b \in Buyer : JoinCommit(b) /\ Joined' = Joined \cup {b}
         \/ /\ Joined' = Joined
            /\ inventory'.committed = inventory.committed /\ inventory'.reached = inventory.reached
<1>t. buyer \in [Buyer -> BuyerState] /\ run \in [Run -> RunForm]
  BY DEF DealInv, TypeInv, TypeOK
<1>i. inventory \in [status : {"none", "open", "closed"}, committed : Nat,
                     reached : BOOLEAN, synced : BOOLEAN]
  BY DEF DealInv, TypeInv, TypeOK
<1>1. ASSUME UNCHANGED <<buyer, inventory>> PROVE Joined' = Joined /\ UNCHANGED inventory
  BY <1>1 DEF Joined
<1>2. CASE SellerStep
  <2>1. CASE Publish \/ Cancel \/ DeleteDeal
    BY <1>1, <2>1 DEF Publish, Cancel, DeleteDeal
  <2>2. CASE PrepareCharging
    BY <1>t, <2>2 DEF PrepareCharging, Joined
  <2>3. CASE ChargingStart
    BY <1>t, <2>3 DEF ChargingStart, Joined
  <2> QED
    BY <1>2, <2>1, <2>2, <2>3 DEF SellerStep
<1>3. ASSUME NEW b \in Buyer, JoinCommit(b) PROVE Joined' = Joined \cup {b}
  BY <1>t, <1>3 DEF JoinCommit, Joined
<1>4. ASSUME NEW b \in Buyer, JoinLock(b) \/ JoinRollback(b) PROVE UNCHANGED <<buyer, inventory>>
  BY <1>4 DEF JoinLock, JoinRollback
<1>5. ASSUME NEW c \in Call, CallStep(c)
      PROVE  UNCHANGED buyer /\ inventory'.committed = inventory.committed
               /\ inventory'.reached = inventory.reached
  BY <1>i, <1>5 DEF CallStep, CloseReads, CloseJoining, ReopenReads, ReopenJoining, CallEnds,
     dealVars, Closed, Synced
<1>6. ASSUME NEW i \in Run, ClaimCheck(i) \/ HandlerStep(i) \/ RunDies(i), ~FailParticipant(i)
      PROVE  UNCHANGED <<buyer, inventory>>
  BY <1>6 DEF ClaimCheck, HandlerStep, RunDies, ReadDeal, SumUnits, FailDeal, ListParticipants,
     ListHeld, ScheduleRelease, CleanupChecks, RunEnds, RunFails, dealVars
<1>7. ASSUME NEW i \in Run, FailParticipant(i) PROVE Joined' = Joined /\ UNCHANGED inventory
  BY <1>t, <1>7 DEF FailParticipant, FailsJoined, Joined
<1>8. CASE ReclaimCheck \/ DeadlinePasses \/ UNCHANGED vars
  BY <1>1, <1>8 DEF ReclaimCheck, DeadlinePasses, dealVars, vars
<1>9. ASSUME UNCHANGED buyer PROVE Joined' = Joined
  BY <1>9 DEF Joined
<1> QED
  BY <1>1, <1>2, <1>3, <1>4, <1>5, <1>6, <1>7, <1>8, <1>9 DEF Next, JoinEnds

\* A Join keeps within the units there are, and every Join is counted once.
LEMMA CountedStep ==
  ASSUME DealInv, CountInv, [Next]_vars
  PROVE  Counted'
<1> USE DEF CountInv, Counted
<1>i. inventory \in [status : {"none", "open", "closed"}, committed : Nat,
                     reached : BOOLEAN, synced : BOOLEAN]
  BY DEF DealInv, TypeInv, TypeOK
<1>1. ASSUME NEW b \in Buyer, JoinCommit(b), Joined' = Joined \cup {b} PROVE Counted'
  <2>1. b \notin Joined
    BY <1>1, DealAssumption DEF JoinCommit, LockedNew, Joined
  <2>2. /\ IsFiniteSet(UnitsOf(Joined')) /\ Units(Joined) \in Nat
        /\ Units(Joined') = Units(Joined) + Qty[b]
    BY <1>1, <2>1, UnitsGrow DEF Joined
  <2>3. /\ JoinSynced(inventory).committed = inventory.committed
        /\ JoinSynced(inventory).reached = inventory.reached
    BY <1>i DEF JoinSynced, Synced
  <2>4. /\ inventory'.committed = inventory.committed + Qty[b]
        /\ inventory'.reached = (inventory.reached \/ inventory.committed + Qty[b] >= Threshold)
        /\ Qty[b] <= MaxUnits - inventory.committed
    BY <1>1, <2>3 DEF JoinCommit, Committed, Available
  <2>5. Qty[b] \in Nat /\ MaxUnits \in Nat /\ Threshold \in Nat
    BY DealAssumption, SomeTarget
  <2>6. inventory.committed + Qty[b] <= MaxUnits
    BY <2>2, <2>4, <2>5
  <2>7. inventory.committed >= Threshold => inventory.committed + Qty[b] >= Threshold
    BY <2>2, <2>5
  <2>8. inventory'.reached <=> inventory'.committed >= Threshold
    <3>1. inventory.reached <=> inventory.committed >= Threshold
      BY Zenon
    <3>2. inventory'.reached <=> inventory.committed + Qty[b] >= Threshold
      BY <2>4, <2>7, <3>1, Zenon
    <3> QED
      BY <2>4, <3>2, Zenon
  <2>9. (Threshold' = Threshold) /\ MaxUnits' = MaxUnits /\ (UnitsOf(Joined))' = UnitsOf(Joined')
        /\ (Units(Joined))' = Units(Joined')
    BY DEF Threshold, UnitsOf, Units
  <2> QED
    BY <2>2, <2>4, <2>6, <2>8, <2>9
<1>2. CASE Joined' = Joined /\ inventory'.committed = inventory.committed
             /\ inventory'.reached = inventory.reached
  BY <1>2 DEF UnitsOf, Units, Threshold
<1> QED
  BY <1>1, <1>2, JoinedMoves

\* Who has the lock is taken in once; who is listed to be failed joined.
LEMMA CountedKept == DealInv /\ CountInv /\ [Next]_vars => CountInv'
<1> SUFFICES ASSUME DealInv, CountInv, [Next]_vars PROVE CountInv'
  OBVIOUS
<1>t. buyer \in [Buyer -> BuyerState] /\ run \in [Run -> RunForm]
  BY DEF DealInv, TypeInv, TypeOK
<1>0. LockedNew /\ FailsJoined /\ (lock # NoBuyer => lock \in Buyer)
  BY DEF CountInv, DealInv, TypeInv, TypeOK
<1>1. LockedNew'
  <2> USE <1>0 DEF LockedNew
  <2>1. CASE SellerStep
    BY <2>1, DealAssumption DEF SellerStep, Publish, Cancel, DeleteDeal, PrepareCharging, ChargingStart, Unlocked
  <2>2. ASSUME NEW b \in Buyer, JoinLock(b) \/ JoinEnds(b) PROVE LockedNew'
    BY <2>2 DEF JoinLock, JoinEnds, JoinCommit, JoinRollback
  <2>3. ASSUME NEW c \in Call, CallStep(c) PROVE UNCHANGED <<lock, buyer>>
    BY <2>3 DEF CallStep, CloseReads, CloseJoining, ReopenReads, ReopenJoining, CallEnds, dealVars
  <2>4. ASSUME NEW i \in Run, ClaimCheck(i) \/ HandlerStep(i) \/ RunDies(i), ~FailParticipant(i)
        PROVE  UNCHANGED <<lock, buyer>>
    BY <2>4 DEF ClaimCheck, HandlerStep, RunDies, ReadDeal, SumUnits, FailDeal, ListParticipants,
       ListHeld, ScheduleRelease, CleanupChecks, RunEnds, RunFails, dealVars
  <2>5. ASSUME NEW i \in Run, FailParticipant(i) PROVE LockedNew'
    BY <1>t, <2>5 DEF FailParticipant, FailsJoined, Joined
  <2>6. CASE ReclaimCheck \/ DeadlinePasses \/ UNCHANGED vars
    BY <2>6 DEF ReclaimCheck, DeadlinePasses, dealVars, vars
  <2> QED
    BY <2>1, <2>2, <2>3, <2>4, <2>5, <2>6 DEF Next
<1>2. FailsJoined'
  <2>1. Joined \subseteq Joined'
    BY <1>0, JoinedMoves
  <2>2. SUFFICES ASSUME NEW i \in Run, run'[i].pc = "participants" PROVE run'[i].left \subseteq Joined
    BY <2>1 DEF FailsJoined
  <2>3. run[i].pc = "participants" => run[i].left \subseteq Joined
    BY <1>0 DEF FailsJoined
  <2>4. CASE UNCHANGED run
    BY <2>2, <2>3, <2>4
  <2>5. ASSUME NEW j \in Run, ClaimCheck(j) \/ HandlerStep(j) \/ RunDies(j)
        PROVE  run'[i].left \subseteq Joined
    <3>1. CASE ListParticipants(j)
      BY <1>t, <2>2, <2>3, <3>1 DEF ListParticipants
    <3>2. CASE FailParticipant(j)
      <4>1. PICK b \in run[j].left : run' = [run EXCEPT ![j].left = @ \ {b}]
        BY <3>2 DEF FailParticipant
      <4>2. run'[i].left \subseteq run[i].left /\ run'[i].pc = run[i].pc
        BY <1>t, <4>1 DEF RunForm
      <4> QED
        BY <2>2, <2>3, <4>2
    <3>3. CASE ScheduleRelease(j)
      <4>1. \E b : run' = [run EXCEPT ![j].left = @ \ {b}]
        BY <3>3 DEF ScheduleRelease
      <4>2. run'[i].left \subseteq run[i].left /\ run'[i].pc = run[i].pc
        BY <1>t, <4>1 DEF RunForm
      <4> QED
        BY <2>2, <2>3, <4>2
    <3>4. CASE ~ListParticipants(j) /\ ~FailParticipant(j) /\ ~ScheduleRelease(j)
      <4> USE <1>t DEF RunForm
      <4>1. CASE ClaimCheck(j) \/ RunDies(j) \/ RunFails(j) \/ RunEnds(j)
        <5>1. run' = [run EXCEPT ![j].pc = "read"] \/ run' = [run EXCEPT ![j] = Idle]
          BY <4>1 DEF ClaimCheck, RunDies, RunFails, RunEnds
        <5> QED
          BY <2>2, <2>3, <5>1 DEF Idle
      <4>2. CASE ReadDeal(j)
        BY <2>2, <2>3, <4>2 DEF ReadDeal
      <4>3. CASE SumUnits(j)
        BY <2>2, <2>3, <4>3 DEF SumUnits
      <4>4. CASE FailDeal(j) \/ ListHeld(j) \/ CleanupChecks(j)
        <5>1. run'[i] = run[i] \/ run'[i].pc \in {"list", "releases", "done"}
          BY <4>4 DEF FailDeal, ListHeld, CleanupChecks
        <5> QED
          BY <2>2, <2>3, <5>1
      <4> QED
        BY <2>5, <3>4, <4>1, <4>2, <4>3, <4>4 DEF HandlerStep
    <3> QED
      BY <3>1, <3>2, <3>3, <3>4
  <2>6. UNCHANGED run \/ \E j \in Run : ClaimCheck(j) \/ HandlerStep(j) \/ RunDies(j)
    BY DEF Next, SellerStep, Publish, Cancel, DeleteDeal, PrepareCharging, ChargingStart,
       JoinLock, JoinEnds, JoinCommit, JoinRollback, CallStep, CloseReads, CloseJoining, ReopenReads,
       ReopenJoining, CallEnds, ReclaimCheck, DeadlinePasses, jobVars, vars
  <2> QED
    BY <2>4, <2>5, <2>6
<1> QED
  BY <1>1, <1>2, CountedStep DEF CountInv

\* Nobody joined in the beginning.
LEMMA CountInit == Init => CountInv
<1> SUFFICES ASSUME Init PROVE CountInv
  OBVIOUS
<1>1. Joined = {}
  BY DEF Init, Joined
<1>2. 0 <= MaxUnits /\ ~(0 >= Threshold)
  BY DealAssumption, SomeTarget
<1>3. inventory.committed = 0 /\ inventory.reached = FALSE
  BY DEF Init
<1>4. inventory.reached <=> inventory.committed >= Threshold
  BY <1>2, <1>3, Zenon
<1>5. LockedNew /\ FailsJoined
  BY DEF Init, LockedNew, FailsJoined, Idle
<1> QED
  BY <1>1, <1>2, <1>3, <1>4, <1>5, UnitsNone DEF CountInv, Counted

\* The inventory never gives out more units than there are, and those it gave out
\* are those of the participants, however joins, closes and reopenings interleave.
THEOREM NothingOversold == Spec => []CapacityHeld
<1>1. DealInv /\ CountInv => CapacityHeld
  BY DEF CountInv, Counted, CapacityHeld
<1>2. Spec => []DealInv
  BY DealInvariant
<1>3. DealInv /\ CountInv /\ [Next]_vars => CountInv'
  BY CountedKept
<1> QED
  BY <1>1, <1>2, <1>3, CountInit, PTL DEF Spec

-----------------------------------------------------------------------------
(* Calm behaviours *)

\* Nobody joined a draft.
DraftEmpty == state = "Draft" => Joined = {}

\* A run that decides about a paused deal does so when nobody can join any more.
DecidesLate ==
  \A i \in Run : run[i].pc \in {"sum", "fail"} =>
    /\ late /\ run[i].from \in {"PendingTarget", "ClosedForJoining"}
    /\ run[i].from = "ClosedForJoining" => lock = NoBuyer

\* What it counted is still so, and what the one request read is still so.
CountHolds ==
  \A i \in Run : run[i].pc = "fail" /\ run[i].from = "ClosedForJoining" => Units(Joined) < Threshold
ReadHolds ==
  \A c \in Call : call[c].op = "reopen" /\ state = "ClosedForJoining" =>
    (call[c].to = "TargetReached" <=> Units(Joined) >= Threshold)
OneCall == \A c \in Call : c # CalmCall => call[c].op = "none"

DecideInv == DraftEmpty /\ DecidesLate
CalmInv == OneCall /\ StateFollowsUnits /\ CountHolds /\ ReadHolds

Here == DealInv /\ CountInv /\ DecideInv

\* What a step does to who joined and to the lock: who joins has had the lock.
LEMMA JoinsNeedLock ==
  ASSUME DealInv, FailsJoined, [Next]_vars, lock = NoBuyer
  PROVE  Joined' = Joined /\ (late => lock' = NoBuyer /\ late')
<1>1. ASSUME NEW b \in Buyer, JoinCommit(b) PROVE FALSE
  BY <1>1, DealAssumption DEF JoinCommit
<1>2. Joined' = Joined
  BY <1>1, JoinedMoves
<1>3. late => lock' = NoBuyer /\ late'
  <2>1. CASE SellerStep
    BY <2>1 DEF SellerStep, Publish, Cancel, DeleteDeal, PrepareCharging, ChargingStart
  <2>2. ASSUME NEW b \in Buyer, JoinLock(b) \/ JoinEnds(b) PROVE late => lock' = NoBuyer /\ late'
    BY <2>2 DEF JoinLock, JoinEnds, JoinCommit, JoinRollback
  <2>3. ASSUME NEW c \in Call, CallStep(c) PROVE UNCHANGED <<lock, late>>
    BY <2>3 DEF CallStep, CloseReads, CloseJoining, ReopenReads, ReopenJoining, CallEnds, dealVars
  <2>4. ASSUME NEW i \in Run, ClaimCheck(i) \/ HandlerStep(i) \/ RunDies(i) PROVE UNCHANGED <<lock, late>>
    BY <2>4 DEF ClaimCheck, HandlerStep, RunDies, ReadDeal, SumUnits, FailDeal, ListParticipants,
       FailParticipant, ListHeld, ScheduleRelease, CleanupChecks, RunEnds, RunFails, dealVars
  <2>5. CASE ReclaimCheck \/ DeadlinePasses \/ UNCHANGED vars
    BY <2>5 DEF ReclaimCheck, DeadlinePasses, dealVars, vars
  <2> QED
    BY <2>1, <2>2, <2>3, <2>4, <2>5 DEF Next
<1> QED
  BY <1>2, <1>3

\* The deadline that passed stays passed.
LEMMA LateStays == [Next]_vars /\ late => late'
  BY DEF Next, SellerStep, Publish, Cancel, DeleteDeal, PrepareCharging, ChargingStart,
     JoinLock, JoinEnds, JoinCommit, JoinRollback, CallStep, CloseReads, CloseJoining, ReopenReads,
     ReopenJoining, CallEnds, ReclaimCheck, DeadlinePasses, ClaimCheck, HandlerStep, RunDies,
     ReadDeal, SumUnits, FailDeal, ListParticipants, FailParticipant, ListHeld, ScheduleRelease,
     CleanupChecks, RunEnds, RunFails, dealVars, jobVars, vars

\* How a run comes to count and to decide.
LEMMA ComesToDecide ==
  ASSUME TypeOK, [Next]_vars, NEW i \in Run, run'[i].pc \in {"sum", "fail"}
  PROVE  \/ run'[i] = run[i]
         \/ ReadDeal(i) /\ late /\ state \in {"PendingTarget", "ClosedForJoining"}
              /\ run'[i].from = state /\ run'[i].pc = "sum"
         \/ SumUnits(i) /\ ~(JoinedUnits >= Threshold) /\ run'[i].from = run[i].from
<1>t. run \in [Run -> RunForm] /\ run[i].from \in DealState /\ run[i].pc # "none"
  BY DEF TypeOK, RunForm
<1>1. UNCHANGED run \/ \E j \in Run : ClaimCheck(j) \/ HandlerStep(j) \/ RunDies(j)
  BY DEF Next, SellerStep, Publish, Cancel, DeleteDeal, PrepareCharging, ChargingStart,
     JoinLock, JoinEnds, JoinCommit, JoinRollback, CallStep, CloseReads, CloseJoining, ReopenReads,
     ReopenJoining, CallEnds, ReclaimCheck, DeadlinePasses, jobVars, vars
<1>2. ASSUME NEW j \in Run, ClaimCheck(j) \/ RunDies(j) \/ RunFails(j) \/ RunEnds(j) PROVE run'[i] = run[i]
  <2>1. run' = [run EXCEPT ![j].pc = "read"] \/ run' = [run EXCEPT ![j] = Idle]
    BY <1>2 DEF ClaimCheck, RunDies, RunFails, RunEnds
  <2> QED
    BY <1>t, <2>1 DEF Idle, RunForm
<1>3. ASSUME NEW j \in Run, ReadDeal(j)
      PROVE  run'[i] = run[i] \/ (ReadDeal(i) /\ late /\ state \in {"PendingTarget", "ClosedForJoining"}
                /\ run'[i].from = state /\ run'[i].pc = "sum")
  BY <1>t, <1>3 DEF ReadDeal, RunForm
<1>4. ASSUME NEW j \in Run, SumUnits(j)
      PROVE  run'[i] = run[i] \/ (SumUnits(i) /\ ~(JoinedUnits >= Threshold) /\ run'[i].from = run[i].from)
  <2>1. run' = [run EXCEPT ![j].pc = IF JoinedUnits >= Threshold THEN "done" ELSE "fail"]
    BY <1>4 DEF SumUnits
  <2>2. CASE i = j
    <3>1. run'[i].pc = (IF JoinedUnits >= Threshold THEN "done" ELSE "fail") /\ run'[i].from = run[i].from
      BY <1>t, <2>1, <2>2 DEF RunForm
    <3>2. ~(JoinedUnits >= Threshold)
      BY <3>1
    <3> QED
      BY <1>4, <2>2, <3>1, <3>2
  <2>3. CASE i # j
    BY <1>t, <2>1, <2>3
  <2> QED
    BY <2>2, <2>3
<1>5. ASSUME NEW j \in Run, FailDeal(j) \/ ListHeld(j) \/ CleanupChecks(j) \/ ListParticipants(j)
      PROVE  run'[i] = run[i]
  BY <1>t, <1>5 DEF FailDeal, ListHeld, CleanupChecks, ListParticipants, RunForm
<1>6. ASSUME NEW j \in Run, FailParticipant(j) \/ ScheduleRelease(j) PROVE run'[i] = run[i]
  BY <1>t, <1>6 DEF FailParticipant, ScheduleRelease, RunForm
<1> QED
  BY <1>1, <1>2, <1>3, <1>4, <1>5, <1>6 DEF HandlerStep

\* What they decide about is settled: nobody joins a paused deal that is late.
LEMMA DecideStep ==
  ASSUME DealInv, CountInv, DecideInv, [Next]_vars
  PROVE  DecideInv'
<1>0. FailsJoined /\ TypeOK
  BY DEF CountInv, DealInv, TypeInv
<1>1. DraftEmpty'
  <2> SUFFICES ASSUME state' = "Draft" PROVE Joined' = {}
    BY DEF DraftEmpty
  <2>1. state = "Draft"
    <3>1. CASE SellerStep
      BY <3>1 DEF SellerStep, Publish, Cancel, DeleteDeal, PrepareCharging, ChargingStart
    <3>2. ASSUME NEW b \in Buyer, JoinLock(b) \/ JoinEnds(b) PROVE state = "Draft"
      BY <3>2 DEF JoinLock, JoinEnds, JoinCommit, JoinRollback
    <3>3. ASSUME NEW c \in Call, CallStep(c) PROVE state = "Draft"
      BY <3>3 DEF CallStep, CloseReads, CloseJoining, ReopenReads, ReopenJoining, CallEnds, dealVars,
         DealInv, Knowledge, CallsRemember, Open
    <3>4. ASSUME NEW i \in Run, ClaimCheck(i) \/ HandlerStep(i) \/ RunDies(i) PROVE state = "Draft"
      BY <3>4 DEF ClaimCheck, HandlerStep, RunDies, ReadDeal, SumUnits, FailDeal, ListParticipants,
         FailParticipant, ListHeld, ScheduleRelease, CleanupChecks, RunEnds, RunFails, dealVars
    <3>5. CASE ReclaimCheck \/ DeadlinePasses \/ UNCHANGED vars
      BY <3>5 DEF ReclaimCheck, DeadlinePasses, dealVars, vars
    <3> QED
      BY <3>1, <3>2, <3>3, <3>4, <3>5 DEF Next
  <2>2. lock = NoBuyer /\ Joined = {}
    BY <2>1 DEF DealInv, Knowledge, LockedOpen, Open, DecideInv, DraftEmpty
  <2> QED
    BY <1>0, <2>2, JoinsNeedLock
<1>2. DecidesLate'
  <2> SUFFICES ASSUME NEW i \in Run, run'[i].pc \in {"sum", "fail"}
               PROVE  /\ late' /\ run'[i].from \in {"PendingTarget", "ClosedForJoining"}
                      /\ run'[i].from = "ClosedForJoining" => lock' = NoBuyer
    BY DEF DecidesLate
  <2>1. /\ late /\ run'[i].from \in {"PendingTarget", "ClosedForJoining"}
        /\ run'[i].from = "ClosedForJoining" => lock = NoBuyer
    <3>1. CASE run'[i] = run[i] \/ (SumUnits(i) /\ run'[i].from = run[i].from)
      BY <3>1 DEF SumUnits, DecideInv, DecidesLate
    <3>2. CASE late /\ state \in {"PendingTarget", "ClosedForJoining"} /\ run'[i].from = state
      BY <3>2 DEF DealInv, Knowledge, LockedOpen, Open
    <3> QED
      BY <1>0, <3>1, <3>2, ComesToDecide
  <2> QED
    BY <1>0, <2>1, LateStays, JoinsNeedLock
<1> QED
  BY <1>1, <1>2 DEF DecideInv

\* Before the deal failed nobody is failed: the handler counts everybody.
LEMMA CountsAll == DealInv /\ state # "Failed" => JoinedUnits = Units(Joined)
<1> SUFFICES ASSUME DealInv, state # "Failed" PROVE JoinedUnits = Units(Joined)
  OBVIOUS
<1>1. {b \in Joined : buyer[b] # "DealFailed"} = Joined
  BY DEF DealInv, Consistency, NeverBoth, Joined
<1> QED
  BY <1>1 DEF JoinedUnits

\* The units of a deal are a number, and a run never counts what is not.
LEMMA UnitsNumber == DealInv /\ CountInv => Units(Joined) \in Nat
  BY DEF DealInv, TypeInv, TypeOK, CountInv, Counted

\* The counts of the runs still hold.
LEMMA CountHoldsStep ==
  ASSUME DealInv, CountInv, DecideInv, StateFollowsUnits, CountHolds, [Next]_vars
  PROVE  CountHolds'
<1>0. FailsJoined /\ TypeOK /\ Units(Joined) \in Nat /\ Threshold \in Nat
  BY UnitsNumber, SomeTarget DEF CountInv, DealInv, TypeInv
<1> SUFFICES ASSUME NEW i \in Run, run'[i].pc = "fail", run'[i].from = "ClosedForJoining"
             PROVE  Units(Joined)' < Threshold
  BY DEF CountHolds, Threshold
<1>1. Units(Joined) < Threshold /\ lock = NoBuyer
  <2>1. CASE run'[i] = run[i]
    BY <2>1 DEF CountHolds, DecideInv, DecidesLate
  <2>2. CASE SumUnits(i) /\ ~(JoinedUnits >= Threshold) /\ run'[i].from = run[i].from
    <3>1. lock = NoBuyer
      BY <2>2 DEF SumUnits, DecideInv, DecidesLate
    <3>2. CASE state = "Failed"
      BY <3>1, <3>2 DEF StateFollowsUnits
    <3>3. CASE state # "Failed"
      BY <1>0, <2>2, <3>1, <3>3, CountsAll
    <3> QED
      BY <3>2, <3>3
  <2> QED
    BY <1>0, <2>1, <2>2, ComesToDecide
<1>2. Joined' = Joined
  BY <1>0, <1>1, JoinsNeedLock
<1> QED
  BY <1>1, <1>2 DEF Units, UnitsOf

\* How the state of the deal moves: to places that say nothing of the units, or by
\* the step of a seller, a Join, the request that reopens, or a run that fails it.
LEMMA StateMoves ==
  ASSUME DealInv, [Next]_vars
  PROVE  \/ UNCHANGED state
         \/ state' \in {"Cancelled", "Deleted", "ReadyForCharging", "Charging", "ClosedForJoining"}
         \/ Publish
         \/ \E b \in Buyer : JoinCommit(b)
         \/ \E c \in Call : ReopenJoining(c)
         \/ \E i \in Run : FailDeal(i)
<1>1. CASE SellerStep
  BY <1>1 DEF SellerStep, Cancel, DeleteDeal, PrepareCharging, ChargingStart
<1>2. ASSUME NEW b \in Buyer, JoinLock(b) \/ JoinRollback(b) PROVE UNCHANGED state
  BY <1>2 DEF JoinLock, JoinRollback
<1>3. ASSUME NEW c \in Call, CallStep(c), ~ReopenJoining(c)
      PROVE  UNCHANGED state \/ state' = "ClosedForJoining"
  BY <1>3 DEF CallStep, CloseReads, CloseJoining, ReopenReads, CallEnds, dealVars
<1>4. ASSUME NEW i \in Run, ClaimCheck(i) \/ HandlerStep(i) \/ RunDies(i), ~FailDeal(i)
      PROVE  UNCHANGED state
  BY <1>4 DEF ClaimCheck, HandlerStep, RunDies, ReadDeal, SumUnits, ListParticipants,
     FailParticipant, ListHeld, ScheduleRelease, CleanupChecks, RunEnds, RunFails, dealVars
<1>5. CASE ReclaimCheck \/ DeadlinePasses \/ UNCHANGED vars
  BY <1>5 DEF ReclaimCheck, DeadlinePasses, dealVars, vars
<1> QED
  BY <1>1, <1>2, <1>3, <1>4, <1>5 DEF Next, JoinEnds

\* Who joined, and how many units, after a step that is no Join.
LEMMA UnitsStay ==
  ASSUME DealInv, FailsJoined, [Next]_vars, \A b \in Buyer : ~JoinCommit(b)
  PROVE  Units(Joined)' = Units(Joined)
<1>1. Joined' = Joined
  BY JoinedMoves
<1> QED
  BY <1>1 DEF Units, UnitsOf

\* The state follows the units.
LEMMA StateStep ==
  ASSUME DealInv, CountInv, DecideInv, CalmInv, [Next]_vars
  PROVE  StateFollowsUnits'
<1>0. FailsJoined /\ TypeOK /\ Units(Joined) \in Nat /\ Threshold \in Nat /\ Threshold >= 1
  BY UnitsNumber, SomeTarget DEF CountInv, DealInv, TypeInv
<1>t. Threshold' = Threshold
  BY DEF Threshold
<1>1. ASSUME NEW b \in Buyer, JoinCommit(b) PROVE StateFollowsUnits'
  <2>1. CountInv'
    BY CountedKept
  <2>2. Units(Joined)' = inventory'.committed /\ inventory.committed = Units(Joined)
    BY <2>1 DEF CountInv, Counted
  <2>3. inventory \in [status : {"none", "open", "closed"}, committed : Nat,
                       reached : BOOLEAN, synced : BOOLEAN]
    BY <1>0 DEF TypeOK
  <2>4. /\ JoinSynced(inventory).committed = inventory.committed
        /\ JoinSynced(inventory).reached = inventory.reached
    BY <2>3 DEF JoinSynced, Synced
  <2>5. inventory'.committed = inventory.committed + Qty[b] /\ Qty[b] \in Nat
    BY <1>1, <2>4, DealAssumption DEF JoinCommit, Committed
  <2>6. state \in Open
    BY <1>1, DealAssumption DEF JoinCommit, DealInv, Knowledge, LockedOpen
  <2>7. CASE state = "TargetReached"
    <3>1. state' = "TargetReached" /\ Units(Joined) >= Threshold
      BY <1>1, <2>7 DEF JoinCommit, CalmInv, StateFollowsUnits
    <3>2. inventory'.committed >= Threshold
      BY <1>0, <2>2, <2>5, <3>1
    <3> QED
      BY <1>t, <2>2, <3>1, <3>2 DEF StateFollowsUnits
  <2>8. CASE state = "PendingTarget"
    <3>1. Units(Joined) < Threshold
      BY <2>8 DEF CalmInv, StateFollowsUnits
    <3>2. ~(inventory.committed >= Threshold)
      BY <1>0, <2>2, <3>1
    <3>3. ~inventory.reached
      BY <3>2, Zenon DEF CountInv, Counted
    <3>4. TargetTransitioned(JoinSynced(inventory), Qty[b]) <=> inventory.committed + Qty[b] >= Threshold
      BY <2>4, <3>3, Zenon DEF TargetTransitioned
    <3>5. state' = IF inventory.committed + Qty[b] >= Threshold THEN "TargetReached" ELSE state
      BY <1>1, <2>8, <3>4 DEF JoinCommit
    <3>6. CASE inventory.committed + Qty[b] >= Threshold
      BY <1>t, <2>2, <2>5, <3>5, <3>6 DEF StateFollowsUnits
    <3>7. CASE ~(inventory.committed + Qty[b] >= Threshold)
      <4>1. inventory'.committed < Threshold
        BY <1>0, <2>2, <2>5, <3>7
      <4> QED
        BY <1>t, <2>2, <2>8, <3>5, <3>7, <4>1 DEF StateFollowsUnits
    <3> QED
      BY <3>6, <3>7
  <2> QED
    BY <2>6, <2>7, <2>8 DEF Open
<1>2. ASSUME \A b \in Buyer : ~JoinCommit(b) PROVE StateFollowsUnits'
  <2>1. Units(Joined)' = Units(Joined)
    BY <1>0, <1>2, UnitsStay
  <2>2. StateFollowsUnits
    BY DEF CalmInv
  <2>3. CASE UNCHANGED state
    BY <1>t, <2>1, <2>2, <2>3 DEF StateFollowsUnits
  <2>4. CASE state' \in {"Cancelled", "Deleted", "ReadyForCharging", "Charging", "ClosedForJoining"}
    BY <2>4 DEF StateFollowsUnits
  <2>5. CASE Publish
    <3>1. state' = "PendingTarget" /\ Units(Joined) = 0
      BY <2>5, UnitsNone DEF Publish, DecideInv, DraftEmpty
    <3> QED
      BY <1>0, <1>t, <2>1, <3>1 DEF StateFollowsUnits
  <2>6. ASSUME NEW c \in Call, ReopenJoining(c) PROVE StateFollowsUnits'
    <3>1. state = "ClosedForJoining" /\ state' = call[c].to /\ call[c].to \in Open
      BY <2>6 DEF ReopenJoining, DealInv, Knowledge, CallsRemember
    <3>2. call[c].to = "TargetReached" <=> Units(Joined) >= Threshold
      BY <2>6, <3>1 DEF ReopenJoining, CalmInv, ReadHolds
    <3>3. CASE state' = "TargetReached"
      BY <1>t, <2>1, <3>1, <3>2, <3>3 DEF StateFollowsUnits
    <3>4. CASE state' = "PendingTarget"
      <4>1. Units(Joined) < Threshold
        BY <1>0, <3>1, <3>2, <3>4
      <4> QED
        BY <1>t, <2>1, <3>4, <4>1 DEF StateFollowsUnits
    <3> QED
      BY <3>1, <3>3, <3>4 DEF Open
  <2>7. ASSUME NEW i \in Run, FailDeal(i) PROVE StateFollowsUnits'
    <3>1. state' = "Failed" /\ (state = "Failed" \/ state \in {"PendingTarget", "ClosedForJoining"})
          /\ (state = "ClosedForJoining" => run[i].from = "ClosedForJoining" /\ run[i].pc = "fail")
      BY <2>7 DEF FailDeal, DecideInv, DecidesLate
    <3>2. Units(Joined) < Threshold
      BY <2>2, <3>1 DEF StateFollowsUnits, CalmInv, CountHolds
    <3> QED
      BY <1>t, <2>1, <3>1, <3>2 DEF StateFollowsUnits
  <2> QED
    BY <1>2, <2>3, <2>4, <2>5, <2>6, <2>7, StateMoves
<1> QED
  BY <1>1, <1>2

\* With one request at a time what it read is so until it reopens the deal: only
\* a request takes a paused deal to the open ones, and only then anybody joins.
LEMMA ReadHoldsStep ==
  ASSUME DealInv, CountInv, CalmInv, [Next]_vars, \A c \in Call \ {CalmCall} : call'[c] = NoCall
  PROVE  OneCall' /\ ReadHolds'
<1>0. FailsJoined /\ TypeOK /\ call \in [Call -> CallForm]
  BY DEF CountInv, DealInv, TypeInv, TypeOK
<1>1. OneCall'
  BY DEF OneCall, NoCall
<1> SUFFICES ASSUME NEW c \in Call, call'[c].op = "reopen", state' = "ClosedForJoining"
             PROVE  call'[c].to = "TargetReached" <=> Units(Joined)' >= Threshold
  BY <1>1 DEF ReadHolds, Threshold
<1>2. c = CalmCall
  BY DEF NoCall
<1>3. \A b \in Buyer : ~JoinCommit(b)
  <2> SUFFICES ASSUME NEW b \in Buyer, JoinCommit(b) PROVE FALSE
    OBVIOUS
  <2>1. state \in Open
    BY DealAssumption DEF JoinCommit, DealInv, Knowledge, LockedOpen
  <2> QED
    BY <2>1 DEF JoinCommit, Open
<1>4. Units(Joined)' = Units(Joined)
  BY <1>0, <1>3, UnitsStay
<1>5. CASE ReopenReads(c)
  <2>1. call'[c].to = IF JoinedUnits >= Threshold THEN "TargetReached" ELSE "PendingTarget"
    BY <1>0, <1>5 DEF ReopenReads
  <2>2. JoinedUnits = Units(Joined)
    BY <1>5, CountsAll DEF ReopenReads
  <2> QED
    BY <1>4, <2>1, <2>2
<1>6. CASE call'[c] = call[c] /\ state = "ClosedForJoining"
  BY <1>4, <1>6 DEF CalmInv, ReadHolds
<1>7. CASE ~ReopenReads(c)
  <2>1. call'[c] = call[c]
    <3>1. ASSUME NEW d \in Call, CallStep(d) PROVE call'[c] = call[c]
      <4>1. CASE d = c
        BY <1>0, <1>7, <3>1, <4>1 DEF CallStep, CloseReads, CloseJoining, ReopenReads, ReopenJoining,
           CallEnds, Answered, NoCall
      <4>2. CASE d # c
        BY <1>0, <3>1, <4>2 DEF CallStep, CloseReads, CloseJoining, ReopenReads, ReopenJoining,
           CallEnds, Answered
      <4> QED
        BY <4>1, <4>2
    <3>2. CASE SellerStep
      BY <3>2 DEF SellerStep, Publish, Cancel, DeleteDeal, PrepareCharging, ChargingStart
    <3>3. ASSUME NEW b \in Buyer, JoinLock(b) \/ JoinEnds(b) PROVE UNCHANGED call
      BY <3>3 DEF JoinLock, JoinEnds, JoinCommit, JoinRollback
    <3>4. ASSUME NEW i \in Run, ClaimCheck(i) \/ HandlerStep(i) \/ RunDies(i) PROVE UNCHANGED call
      BY <3>4 DEF ClaimCheck, HandlerStep, RunDies, ReadDeal, SumUnits, FailDeal, ListParticipants,
         FailParticipant, ListHeld, ScheduleRelease, CleanupChecks, RunEnds, RunFails
    <3>5. CASE ReclaimCheck \/ DeadlinePasses \/ UNCHANGED vars
      BY <3>5 DEF ReclaimCheck, DeadlinePasses, vars
    <3> QED
      BY <3>1, <3>2, <3>3, <3>4, <3>5 DEF Next
  <2>2. call[c].op = "reopen"
    BY <2>1
  <2>3. state = "ClosedForJoining"
    <3> SUFFICES ASSUME state # "ClosedForJoining" PROVE FALSE
      OBVIOUS
    <3>1. ASSUME NEW d \in Call, CloseJoining(d) PROVE FALSE
      <4>1. d = CalmCall
        BY <3>1 DEF CloseJoining, CalmInv, OneCall
      <4> QED
        BY <1>2, <2>2, <3>1, <4>1 DEF CloseJoining
    <3>2. CASE SellerStep
      BY <3>2 DEF SellerStep, Publish, Cancel, DeleteDeal, PrepareCharging, ChargingStart
    <3>3. ASSUME NEW b \in Buyer, JoinLock(b) \/ JoinRollback(b) PROVE FALSE
      BY <3>3 DEF JoinLock, JoinRollback
    <3>4. ASSUME NEW i \in Run, ClaimCheck(i) \/ HandlerStep(i) \/ RunDies(i) PROVE FALSE
      BY <3>4 DEF ClaimCheck, HandlerStep, RunDies, ReadDeal, SumUnits, FailDeal, ListParticipants,
         FailParticipant, ListHeld, ScheduleRelease, CleanupChecks, RunEnds, RunFails, dealVars
    <3>5. CASE ReclaimCheck \/ DeadlinePasses \/ UNCHANGED vars
      BY <3>5 DEF ReclaimCheck, DeadlinePasses, dealVars, vars
    <3>6. ASSUME NEW d \in Call, CallStep(d), ~CloseJoining(d) PROVE FALSE
      BY <3>6 DEF CallStep, CloseReads, ReopenReads, ReopenJoining, CallEnds, dealVars,
         DealInv, Knowledge, CallsRemember, Open
    <3> QED
      BY <1>3, <3>1, <3>2, <3>3, <3>4, <3>5, <3>6 DEF Next, JoinEnds
  <2> QED
    BY <1>6, <2>1, <2>3
<1> QED
  BY <1>5, <1>7

\* What a calm deal knows is kept.
LEMMA CalmStep ==
  ASSUME DealInv, CountInv, DecideInv, calm => CalmInv, [OneOrMoreNext]_<<vars, calm>>
  PROVE  (calm => CalmInv)'
<1> SUFFICES ASSUME calm' PROVE CalmInv'
  OBVIOUS
<1>1. calm /\ CalmInv /\ [Next]_vars
  BY DEF OneOrMoreNext
<1>2. StateFollowsUnits' /\ CountHolds'
  BY <1>1, StateStep, CountHoldsStep DEF CalmInv
<1>3. CASE OneOrMoreNext
  <2>1. \A c \in Call \ {CalmCall} : call'[c] = NoCall
    BY <1>1, <1>3 DEF OneOrMoreNext
  <2> QED
    BY <1>1, <1>2, <2>1, ReadHoldsStep DEF CalmInv
<1>4. CASE UNCHANGED <<vars, calm>>
  BY <1>1, <1>2, <1>4 DEF vars, CalmInv, OneCall, ReadHolds, Units, UnitsOf, Joined, Threshold
<1> QED
  BY <1>3, <1>4

\* Nothing was read or decided in the beginning.
LEMMA CalmStart == Init => DecideInv /\ CalmInv
<1> SUFFICES ASSUME Init PROVE DecideInv /\ CalmInv
  OBVIOUS
<1>1. Joined = {}
  BY DEF Init, Joined
<1> QED
  BY <1>1 DEF Init, DecideInv, DraftEmpty, DecidesLate, CalmInv, OneCall, StateFollowsUnits,
     CountHolds, ReadHolds, Idle, NoCall

CalmDealInv == DealInv /\ CountInv /\ DecideInv /\ (calm => CalmInv)

\* The invariant of the calm deals holds in every reachable state.
LEMMA CalmInvariant == OneOrMoreInit /\ [][OneOrMoreNext]_<<vars, calm>> => []CalmDealInv
<1>1. OneOrMoreInit => CalmDealInv
  BY DealInit, CountInit, CalmStart DEF OneOrMoreInit, CalmDealInv
<1>2. CalmDealInv /\ [OneOrMoreNext]_<<vars, calm>> => CalmDealInv'
  <2> SUFFICES ASSUME CalmDealInv, [OneOrMoreNext]_<<vars, calm>> PROVE CalmDealInv'
    OBVIOUS
  <2>1. [Next]_vars
    BY DEF OneOrMoreNext
  <2>2. DealInv'
    BY <2>1, TypeStep, KnowledgeStep, ConsistencyStep DEF CalmDealInv, DealInv
  <2>3. CountInv' /\ DecideInv'
    BY <2>1, CountedKept, DecideStep DEF CalmDealInv
  <2>4. (calm => CalmInv)'
    BY CalmStep DEF CalmDealInv
  <2> QED
    BY <2>2, <2>3, <2>4 DEF CalmDealInv
<1> QED
  BY <1>1, <1>2, PTL

\* With one request and one run at a time the state of a deal tells whether its
\* target is met, and a deal fails only when it is not.
THEOREM CalmStateTells == OneOrMoreSpec => []CalmStateFollowsUnits
<1>1. CalmDealInv => CalmStateFollowsUnits
  BY DEF CalmDealInv, CalmInv, CalmStateFollowsUnits
<1> QED
  BY <1>1, CalmInvariant, PTL DEF OneOrMoreSpec

\* The phase of a calm deal and who joined it.
CalmPhase == IF calm THEN Phase ELSE "draft"
CalmMembers == IF calm THEN Joined ELSE {}

\* Every step of a calm deal is a step of the group deal or none of it.
LEMMA GroupStep ==
  ASSUME CalmDealInv, [OneOrMoreNext]_<<vars, calm>>
  PROVE  [CalmDeal!Next]_(CalmDeal!dealVars)
<1> SUFFICES ASSUME ~UNCHANGED CalmDeal!dealVars PROVE CalmDeal!Next
  OBVIOUS
<1>d. ~UNCHANGED <<CalmPhase, CalmMembers>>
  BY DEF CalmDeal!dealVars, CalmPhase, CalmMembers
<1>1. calm /\ calm' /\ [Next]_vars /\ ~UNCHANGED <<Phase, Joined>>
  <2>1. calm' = calm /\ [Next]_vars
    BY DEF OneOrMoreNext
  <2>2. calm
    BY <1>d, <2>1 DEF CalmPhase, CalmMembers
  <2> QED
    BY <1>d, <2>1, <2>2 DEF CalmPhase, CalmMembers
<1>0. DealInv /\ CountInv /\ DecideInv /\ CalmInv /\ FailsJoined
  BY <1>1 DEF CalmDealInv, CountInv
<1>t. ASSUME NEW S PROVE CalmDeal!Total(S) = Units(S)
  BY Zenon DEF CalmDeal!Total, Units, UnitsOf, CalmDeal!Cardinality, Cardinality
<1>2. ASSUME NEW b \in Buyer, JoinCommit(b) PROVE CalmDeal!Next
  <2>1. Joined' = Joined \cup {b} /\ b \notin Joined
    <3>1. b \notin Joined
      BY <1>2, DealAssumption DEF JoinCommit, CountInv, LockedNew, Joined, CalmDealInv
    <3> QED
      BY <1>0, <1>2, <3>1 DEF JoinCommit, Joined, DealInv, TypeInv, TypeOK
  <2>2. Phase = "open" /\ Phase' = "open"
    BY <1>0, <1>2, DealAssumption DEF JoinCommit, DealInv, Knowledge, LockedOpen, Open, Phase
  <2>3. CountInv'
    BY <1>0, <1>1, CountedKept
  <2>4. Units(Joined') <= MaxUnits
    BY <2>3 DEF CountInv, Counted, Units, UnitsOf
  <2> QED
    BY <1>1, <1>t, <2>1, <2>2, <2>4 DEF CalmDeal!Next, CalmDeal!Join
<1>3. ASSUME \A b \in Buyer : ~JoinCommit(b) PROVE CalmDeal!Next
  <2>1. Joined' = Joined /\ Phase' # Phase
    BY <1>0, <1>1, <1>3, JoinedMoves
  <2>2. state' # state
    BY <2>1 DEF Phase, Open
  <2>3. CASE SellerStep
    <3>1. CASE Publish
      BY <1>1, <2>1, <3>1 DEF Publish, Phase, Open, CalmDeal!Next, CalmDeal!Publish
    <3>2. CASE Cancel
      BY <1>0, <1>1, <2>1, <3>2 DEF Cancel, Phase, Open, CalmDeal!Next, CalmDeal!Withdraw, DecideInv, DraftEmpty
    <3>3. CASE DeleteDeal
      BY <1>1, <2>1, <3>3 DEF DeleteDeal, Phase, Open, CalmDeal!Next, CalmDeal!Withdraw
    <3>4. CASE PrepareCharging
      <4>1. {b \in Buyer : buyer[b] = "JoinedAuthorized" /\ money[b] = "AuthHeld"} = Joined
        BY <1>0, <3>4 DEF PrepareCharging, DealInv, Consistency, HeldTogether, Joined
      <4> QED
        BY <1>1, <1>t, <2>1, <3>4, <4>1 DEF PrepareCharging, Phase, Open, CalmDeal!Next, CalmDeal!Charge
    <3>5. CASE ChargingStart
      BY <2>1, <3>5 DEF ChargingStart, Phase, Open
    <3> QED
      BY <2>3, <3>1, <3>2, <3>3, <3>4, <3>5 DEF SellerStep
  <2>4. ASSUME NEW c \in Call, CallStep(c) PROVE CalmDeal!Next
    <3>1. CASE CloseJoining(c)
      BY <1>0, <1>1, <2>1, <3>1 DEF CloseJoining, DealInv, Knowledge, CallsRemember, Phase, Open,
         CalmDeal!Next, CalmDeal!Pause
    <3>2. CASE ReopenJoining(c)
      BY <1>0, <1>1, <2>1, <3>2 DEF ReopenJoining, DealInv, Knowledge, CallsRemember, Phase, Open,
         CalmDeal!Next, CalmDeal!Resume
    <3> QED
      BY <2>2, <2>4, <3>1, <3>2 DEF CallStep, CloseReads, ReopenReads, CallEnds, dealVars
  <2>5. ASSUME NEW i \in Run, FailDeal(i) PROVE CalmDeal!Next
    <3>1. state' = "Failed" /\ state \in {"PendingTarget", "ClosedForJoining"}
          /\ (state = "ClosedForJoining" => run[i].from = "ClosedForJoining" /\ run[i].pc = "fail")
      BY <1>0, <2>2, <2>5 DEF FailDeal, DecideInv, DecidesLate
    <3>2. Units(Joined) < Threshold
      BY <1>0, <3>1 DEF StateFollowsUnits, CalmInv, CountHolds
    <3> QED
      BY <1>1, <1>t, <2>1, <3>1, <3>2 DEF Phase, Open, CalmDeal!Next, CalmDeal!Fail
  <2>6. ASSUME NEW i \in Run, ClaimCheck(i) \/ HandlerStep(i) \/ RunDies(i), ~FailDeal(i) PROVE FALSE
    BY <2>2, <2>6 DEF ClaimCheck, HandlerStep, RunDies, ReadDeal, SumUnits, ListParticipants,
       FailParticipant, ListHeld, ScheduleRelease, CleanupChecks, RunEnds, RunFails, dealVars
  <2>7. ASSUME NEW b \in Buyer, JoinLock(b) \/ JoinRollback(b) PROVE FALSE
    BY <2>2, <2>7 DEF JoinLock, JoinRollback
  <2>8. CASE ReclaimCheck \/ DeadlinePasses \/ UNCHANGED vars
    BY <2>2, <2>8 DEF ReclaimCheck, DeadlinePasses, dealVars, vars
  <2> QED
    BY <1>1, <1>3, <2>3, <2>4, <2>5, <2>6, <2>7, <2>8 DEF Next, JoinEnds
<1> QED
  BY <1>2, <1>3

\* To its buyers a deal with one request and one run at a time is a group deal:
\* open up to its capacity, charged only above its target, failed only below it.
THEOREM CalmDealIsGroupDeal == OneOrMoreSpec => CalmImplementsGroupDeal
<1>1. OneOrMoreInit => CalmDeal!Init
  <2> SUFFICES ASSUME Init PROVE CalmDeal!Init
    BY DEF OneOrMoreInit
  <2>1. Joined = {} /\ state = "Draft"
    BY DEF Init, Joined
  <2>2. Phase = "draft"
    BY <2>1 DEF Phase, Open
  <2> QED
    BY <2>1, <2>2 DEF CalmDeal!Init
<1>2. OneOrMoreSpec => []CalmDealInv
  BY CalmInvariant, PTL DEF OneOrMoreSpec
<1> QED
  BY <1>1, <1>2, GroupStep, PTL DEF OneOrMoreSpec, CalmImplementsGroupDeal, CalmDeal!Spec
=============================================================================
