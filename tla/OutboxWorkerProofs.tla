------------------------- MODULE OutboxWorkerProofs -------------------------
(* Proofs of the safety properties of OutboxWorker, for any numbers of events, *)
(* workers and attempts and any lease, margin and delays.                      *)
EXTENDS OutboxWorker, TLAPS

\* A lease generation is handed to one run only, and never from the future.
UniqueGenerations ==
  \A r, s \in runs : r.event = s.event /\ r.gen = s.gen => r = s

GenerationsIssued == \A r \in runs : r.gen <= row[r.event].gen

\* The inductive invariant of the fence.
FenceInv == TypeOK /\ UniqueGenerations /\ GenerationsIssued /\ ProviderIoFenced

-----------------------------------------------------------------------------

\* What the statements of the rail write is a row again.
LEMMA RowForms ==
  ASSUME TypeOK, NEW e \in Event
  PROVE  /\ row[e] \in Row
         /\ \A w \in Worker : Claimed(e, w) \in Row
         /\ \A s \in Status, d \in 0 .. MaxDelay : Released(e, s, d) \in Row
         /\ Archived(e) \in Row
         /\ Swept(e) \in Row
<1>1. row[e] \in Row
  BY DEF TypeOK
<1>2. \A w \in Worker : Claimed(e, w) \in Row
  BY <1>1, ConstantsAssumption DEF Row, Claimed, Status
<1>3. \A s \in Status, d \in 0 .. MaxDelay : Released(e, s, d) \in Row
  BY <1>1, ConstantsAssumption DEF Row, Released, Status
<1>4. Archived(e) \in Row
  BY <1>1 DEF Row, Archived, Status
<1>5. Swept(e) \in Row
  BY <1>1, <1>3, <1>4 DEF Swept, Row, Status
<1>. QED
  BY <1>1, <1>2, <1>3, <1>4, <1>5

\* Every delay a verdict may ask for can be waited for.
LEMMA DelayRange == \A d \in 1 .. MaxDelay : d \in 0 .. MaxDelay
  BY ConstantsAssumption

\* A lease that is taken, extended or run down stays within its length.
LEMMA LeaseSet ==
  ASSUME NEW x \in Row
  PROVE  /\ [x EXCEPT !.lease = Lease] \in Row
         /\ [x EXCEPT !.lease = IF @ > Margin THEN @ ELSE Lease] \in Row
         /\ [x EXCEPT !.lease = Less(@)] \in Row
         /\ [x EXCEPT !.wait = Less(@)] \in Row
<1>1. Lease \in 0 .. Lease /\ x.lease \in 0 .. Lease
  BY ConstantsAssumption DEF Row
<1>2. Less(x.lease) \in 0 .. Lease /\ Less(x.wait) \in 0 .. MaxDelay
  BY ConstantsAssumption DEF Row, Less
<1>. QED
  BY <1>1, <1>2 DEF Row

\* The empty outbox has the types.
LEMMA TypeInit == Init => TypeOK
  BY ConstantsAssumption DEF Init, TypeOK, Row, Status

\* What one step of one run makes of the set of runs.
LEMMA RunUpdate ==
  ASSUME TypeOK, NEW r \in runs
  PROVE  /\ r \in Run
         /\ \A st \in Stage : [r EXCEPT !.stage = st] \in Run
         /\ [r EXCEPT !.lost = TRUE] \in Run
         /\ r.io < MaxIo => [r EXCEPT !.fence = Margin, !.io = @ + 1] \in Run
<1>1. r \in Run
  BY DEF TypeOK
<1>2. \A st \in Stage : [r EXCEPT !.stage = st] \in Run
  BY <1>1 DEF Run
<1>3. [r EXCEPT !.lost = TRUE] \in Run
  BY <1>1 DEF Run
<1>4. r.io < MaxIo => [r EXCEPT !.fence = Margin, !.io = @ + 1] \in Run
  <2>1. Margin \in 0 .. Margin
    BY ConstantsAssumption
  <2>2. r.io \in 0 .. MaxIo /\ (r.io < MaxIo => r.io + 1 \in 0 .. MaxIo)
    BY <1>1, ConstantsAssumption DEF Run
  <2>. QED
    BY <1>1, <2>1, <2>2 DEF Run
<1>. QED
  BY <1>1, <1>2, <1>3, <1>4

\* Every step preserves them.
LEMMA TypeNext == TypeOK /\ [Next]_vars => TypeOK'
<1> SUFFICES ASSUME TypeOK, [Next]_vars PROVE TypeOK'
  OBVIOUS
<1>1. ASSUME NEW w \in Worker, ClaimOutboxBatch(w) PROVE TypeOK'
  <2>1. PICK batch \in SUBSET {e \in Event : Due(e) /\ ~Exhausted(e)} :
          /\ row' = [e \in Event |->
                       IF e \in {f \in Event : Due(f) /\ Exhausted(f)} THEN Swept(e)
                       ELSE IF e \in batch \ ClaimConflict THEN Claimed(e, w)
                       ELSE IF e \in batch THEN Released(e, "failed", row[e].wait)
                       ELSE row[e]]
          /\ runs' = runs \cup {NewRun(e, w) : e \in batch \ ClaimConflict}
    BY <1>1 DEF ClaimOutboxBatch
  <2>2. row' \in [Event -> Row]
    <3>1. \A e \in Event : Released(e, "failed", row[e].wait) \in Row
      BY RowForms DEF Row, Status
    <3>. QED
      BY <2>1, <3>1, RowForms
  <2>3. ASSUME NEW e \in Event PROVE NewRun(e, w) \in Run
    <3>0. row[e] \in Row
      BY DEF TypeOK
    <3>1. row[e].gen + 1 \in Nat
      BY <3>0 DEF Row
    <3>2. 0 \in 0 .. Margin /\ 0 \in 0 .. MaxIo
      BY ConstantsAssumption
    <3>. QED
      BY <3>1, <3>2 DEF NewRun, Run, Stage
  <2>4. runs' \subseteq Run
    BY <2>1, <2>3 DEF TypeOK
  <2>. QED
    BY <1>1, <2>2, <2>4 DEF ClaimOutboxBatch, TypeOK
<1>2. ASSUME NEW w \in Worker, ReclaimStuckProcessing(w) PROVE TypeOK'
  <2>1. row' \in [Event -> Row]
    BY <1>2, RowForms, ConstantsAssumption DEF ReclaimStuckProcessing, Status
  <2>. QED
    BY <1>2, <2>1 DEF ReclaimStuckProcessing, TypeOK
<1>3. ASSUME NEW w \in Worker, Crash(w) PROVE TypeOK'
  BY <1>3 DEF Crash, TypeOK
<1>4. ASSUME NEW r \in runs, RunStep(r) PROVE TypeOK'
  <2> USE RunUpdate
  <2>e. r.event \in Event /\ row[r.event] \in Row /\ r.worker \in Worker
    BY RowForms DEF Run
  <2>1. CASE StartRun(r) \/ DeadlineExceeded(r) \/ HeartbeatRefused(r) \/ HandlerReturns(r)
    <3>1. runs' \subseteq Run
      BY ZenonT(60), <2>1 DEF StartRun, DeadlineExceeded, HeartbeatRefused, HandlerReturns, Becomes, TypeOK, Stage
    <3>2. gaveUp' \subseteq Event
      BY <2>1, <2>e DEF StartRun, DeadlineExceeded, HeartbeatRefused, HandlerReturns, TypeOK
    <3>. QED
      BY <2>1, <3>1, <3>2 DEF StartRun, DeadlineExceeded, HeartbeatRefused, HandlerReturns, TypeOK
  <2>2. CASE Heartbeat(r)
    <3>1. row' \in [Event -> Row]
      BY <2>2, <2>e, LeaseSet DEF Heartbeat, TypeOK
    <3>. QED
      BY <2>2, <3>1 DEF Heartbeat, TypeOK
  <2>3. CASE AssertLeaseForProviderIo(r)
    <3>1. row' \in [Event -> Row]
      BY <2>3, <2>e, LeaseSet DEF AssertLeaseForProviderIo, TypeOK
    <3>2. runs' \subseteq Run
      BY <2>3 DEF AssertLeaseForProviderIo, Becomes, TypeOK
    <3>. QED
      BY <2>3, <3>1, <3>2 DEF AssertLeaseForProviderIo, TypeOK
  <2>4. CASE AssertLeaseLost(r) \/ AbandonedRunEnds(r) \/ AckLeaseLost(r) \/ MarkDeferredTooLate(r)
    BY <2>4 DEF AssertLeaseLost, AbandonedRunEnds, AckLeaseLost, MarkDeferredTooLate, Ends, TypeOK
  <2>5. CASE MarkOutboxSent(r) \/ MarkFailedTerminal(r) \/ MarkFailedRetry(r)
    <3>1. row' \in [Event -> Row]
      <4>1. Released(r.event, "sent", row[r.event].wait) \in Row
        BY <2>e, RowForms DEF Row, Status
      <4>2. \A d \in 1 .. MaxDelay : Released(r.event, "pending", d) \in Row
        BY DelayRange, <2>e, RowForms DEF Status
      <4>3. Archived(r.event) \in Row
        BY <2>e, RowForms
      <4>. QED
        BY <2>5, <4>1, <4>2, <4>3 DEF MarkOutboxSent, MarkFailedTerminal, MarkFailedRetry, TypeOK
    <3>. QED
      BY <2>5, <3>1 DEF MarkOutboxSent, MarkFailedTerminal, MarkFailedRetry, Ends, TypeOK
  <2>. QED
    BY <1>4, <2>1, <2>2, <2>3, <2>4, <2>5 DEF RunStep, Acknowledge
<1>5. ASSUME NEW e \in Event, CleanupObsolete(e) PROVE TypeOK'
  <2>1. row' \in [Event -> Row]
    BY SMTT(40), <1>5, RowForms DEF CleanupObsolete, TypeOK, Row, Status
  <2>. QED
    BY <1>5, <2>1 DEF CleanupObsolete, TypeOK
<1>6. ASSUME NEW e \in Event, AdminRequeue(e) PROVE TypeOK'
  <2>1. [Released(e, "pending", 0) EXCEPT !.gen = @ + 1] \in Row
    <3>1. Released(e, "pending", 0) \in Row
      BY RowForms, ConstantsAssumption DEF Status
    <3>. QED
      BY <3>1 DEF Row
  <2>2. row' \in [Event -> Row]
    BY <1>6, <2>1 DEF AdminRequeue, TypeOK
  <2>. QED
    BY <1>6, <2>2, ConstantsAssumption DEF AdminRequeue, TypeOK
<1>7. CASE Tick
  <2>1. row' \in [Event -> Row]
    BY <1>7, RowForms, LeaseSet DEF Tick
  <2>2. runs' \subseteq Run
    BY <1>7, ConstantsAssumption DEF Tick, TypeOK, Run, Less
  <2>. QED
    BY <1>7, <2>1, <2>2 DEF Tick, TypeOK
<1>8. CASE UNCHANGED vars
  BY <1>8 DEF vars, TypeOK
<1>. QED
  BY <1>1, <1>2, <1>3, <1>4, <1>5, <1>6, <1>7, <1>8 DEF Next

\* The types of the rows and of the runs, for every value of the constants.
THEOREM TypeCorrect == Spec => []TypeOK
  BY TypeInit, TypeNext, PTL DEF Spec

-----------------------------------------------------------------------------
(* The fence *)

\* In the beginning no run was promised anything.
LEMMA FenceInit == Init => FenceInv
  BY TypeInit DEF Init, FenceInv, UniqueGenerations, GenerationsIssued, ProviderIoFenced

\* Two runs that own the same event carry the same generation, hence are one.
LEMMA OwnersAgree ==
  ASSUME UniqueGenerations
  PROVE  AtMostOneOwner
  BY DEF UniqueGenerations, AtMostOneOwner, Owns

\* A run step ends its run, keeps it, or replaces it by one with the same
\* identity, and never by one with a longer fence than the run had unless it is
\* the lease assertion.
SameIdentity(q, r) == q.event = r.event /\ q.gen = r.gen /\ q.worker = r.worker

\* A step of a run ends it or goes on with it, and only the assertion renews its fence.
LEMMA RunStepShape ==
  ASSUME TypeOK, NEW r \in runs, RunStep(r)
  PROVE  \/ runs' = runs
         \/ runs' = runs \ {r}
         \/ \E q \in Run : /\ runs' = (runs \ {r}) \cup {q} /\ SameIdentity(q, r)
                           /\ q.fence = r.fence \/ AssertLeaseForProviderIo(r)
<1> USE RunUpdate DEF SameIdentity, Becomes, Ends
<1>1. r \in Run
  OBVIOUS
<1>2. CASE \/ Heartbeat(r) \/ AssertLeaseLost(r) \/ AbandonedRunEnds(r) \/ Acknowledge(r)
  BY <1>2 DEF Heartbeat, AssertLeaseLost, AbandonedRunEnds, Acknowledge, AckLeaseLost,
    MarkOutboxSent, MarkFailedTerminal, MarkFailedRetry, MarkDeferredTooLate
<1>3. CASE StartRun(r) \/ DeadlineExceeded(r) \/ HandlerReturns(r)
  <2>1. PICK st \in Stage : runs' = (runs \ {r}) \cup {[r EXCEPT !.stage = st]}
    BY <1>3 DEF StartRun, DeadlineExceeded, HandlerReturns, Stage
  <2>2. SameIdentity([r EXCEPT !.stage = st], r) /\ [r EXCEPT !.stage = st].fence = r.fence
    BY <1>1 DEF Run
  <2>. QED
    BY <2>1, <2>2
<1>4. CASE HeartbeatRefused(r)
  <2>1. SameIdentity([r EXCEPT !.lost = TRUE], r) /\ [r EXCEPT !.lost = TRUE].fence = r.fence
    BY <1>1 DEF Run
  <2>. QED
    BY <1>4, <2>1 DEF HeartbeatRefused
<1>5. CASE AssertLeaseForProviderIo(r)
  <2>1. SameIdentity([r EXCEPT !.fence = Margin, !.io = @ + 1], r)
    BY <1>1 DEF Run
  <2>. QED
    BY <1>5, <2>1 DEF AssertLeaseForProviderIo
<1>. QED
  BY <1>2, <1>3, <1>4, <1>5 DEF RunStep

\* Apart from a claim and an administrator's requeue, which raise it, no step
\* touches the generation of a row; a run step changes the row of its run only,
\* and only when the run owns it.
LEMMA RunStepRow ==
  ASSUME TypeOK, NEW r \in runs, RunStep(r), NEW e \in Event
  PROVE  /\ row'[e].gen = row[e].gen
         /\ row'[e] # row[e] => e = r.event /\ Owns(r)
<1>1. r.event \in Event /\ row[r.event] \in Row /\ row[e] \in Row
  BY ZenonT(60), RunUpdate DEF TypeOK, Run
<1>2. CASE \/ StartRun(r) \/ HeartbeatRefused(r) \/ AssertLeaseLost(r) \/ HandlerReturns(r)
           \/ DeadlineExceeded(r) \/ AbandonedRunEnds(r) \/ AckLeaseLost(r) \/ MarkDeferredTooLate(r)
  <2>1. row' = row
    BY <1>2 DEF StartRun, HeartbeatRefused, AssertLeaseLost, HandlerReturns, DeadlineExceeded,
      AbandonedRunEnds, AckLeaseLost, MarkDeferredTooLate
  <2>. QED
    BY <2>1
<1>3. CASE Heartbeat(r) \/ AssertLeaseForProviderIo(r)
  BY <1>1, <1>3 DEF Heartbeat, AssertLeaseForProviderIo, TypeOK, Row
<1>4. CASE MarkOutboxSent(r) \/ MarkFailedTerminal(r) \/ MarkFailedRetry(r)
  <2>2. Archived(r.event).gen = row[r.event].gen
    BY <1>1 DEF Archived, Row
  <2>3. CASE MarkOutboxSent(r)
    <3>1. Released(r.event, "sent", row[r.event].wait).gen = row[r.event].gen
      BY DEF Released
    <3>. QED
      BY <1>1, <2>3, <3>1 DEF MarkOutboxSent, TypeOK
  <2>4. CASE MarkFailedRetry(r)
    <3>1. PICK d \in 1 .. MaxDelay :
            row' = [row EXCEPT ![r.event] = Released(r.event, "pending", d)]
      BY <2>4 DEF MarkFailedRetry
    <3>2. Released(r.event, "pending", d).gen = row[r.event].gen
      BY DEF Released
    <3>. QED
      BY <1>1, <2>4, <3>1, <3>2 DEF MarkFailedRetry, TypeOK
  <2>5. CASE MarkFailedTerminal(r)
    BY <1>1, <2>2, <2>5 DEF MarkFailedTerminal, TypeOK
  <2>. QED
    BY <1>4, <2>3, <2>4, <2>5
<1>. QED
  BY <1>2, <1>3, <1>4 DEF RunStep, Acknowledge

-----------------------------------------------------------------------------
(* No step breaks the fence *)

\* A step of a run replaces at most this run, by one that carries the same lease.
LEMMA FenceRunStep ==
  ASSUME FenceInv, NEW r \in runs, RunStep(r)
  PROVE  UniqueGenerations' /\ GenerationsIssued'
<1>1. TypeOK /\ UniqueGenerations /\ GenerationsIssued
  BY DEF FenceInv
<1>2. \A p \in runs : p.event \in Event
  BY <1>1 DEF TypeOK, Run
<1>3. \A p \in runs : row'[p.event].gen = row[p.event].gen
  BY <1>1, <1>2, RunStepRow
<1>4. \/ runs' = runs
      \/ runs' = runs \ {r}
      \/ \E q \in Run : /\ runs' = (runs \ {r}) \cup {q} /\ SameIdentity(q, r)
                        /\ q.fence = r.fence \/ AssertLeaseForProviderIo(r)
  BY <1>1, RunStepShape
<1>5. CASE runs' \subseteq runs
  BY <1>1, <1>3, <1>5 DEF UniqueGenerations, GenerationsIssued
<1>6. ASSUME NEW q \in Run, runs' = (runs \ {r}) \cup {q}, SameIdentity(q, r)
      PROVE  UniqueGenerations' /\ GenerationsIssued'
  <2>1. UniqueGenerations'
    BY <1>1, <1>6 DEF UniqueGenerations, SameIdentity
  <2>2. GenerationsIssued'
    BY <1>1, <1>3, <1>6 DEF GenerationsIssued, SameIdentity
  <2>. QED
    BY <2>1, <2>2
<1>7. CASE ~(runs' \subseteq runs)
  <2>0. runs' # runs /\ runs' # runs \ {r}
    BY <1>7
  <2>1. PICK q \in Run : /\ runs' = (runs \ {r}) \cup {q} /\ SameIdentity(q, r)
                         /\ q.fence = r.fence \/ AssertLeaseForProviderIo(r)
    BY <1>4, <2>0
  <2>. QED
    BY <1>6, <2>1
<1>. QED
  BY <1>5, <1>7

\* A claim hands out generations that no run has.
LEMMA FenceClaim ==
  ASSUME FenceInv, NEW w \in Worker, ClaimOutboxBatch(w)
  PROVE  UniqueGenerations' /\ GenerationsIssued'
<1>1. TypeOK /\ UniqueGenerations /\ GenerationsIssued
  BY DEF FenceInv
<1>2. PICK batch \in SUBSET {e \in Event : Due(e) /\ ~Exhausted(e)} :
        /\ row' = [e \in Event |->
                     IF e \in {f \in Event : Due(f) /\ Exhausted(f)} THEN Swept(e)
                     ELSE IF e \in batch \ ClaimConflict THEN Claimed(e, w)
                     ELSE IF e \in batch THEN Released(e, "failed", row[e].wait)
                     ELSE row[e]]
        /\ runs' = runs \cup {NewRun(e, w) : e \in batch \ ClaimConflict}
  BY DEF ClaimOutboxBatch
<1>3. \A e \in Event : row[e] \in Row /\ row[e].gen \in Nat
  BY <1>1 DEF TypeOK, Row
<1>4. \A e \in Event : /\ Claimed(e, w).gen = row[e].gen + 1
                       /\ Released(e, "failed", row[e].wait).gen = row[e].gen
                       /\ Swept(e).gen = row[e].gen
  BY <1>3 DEF Claimed, Released, Swept, Archived, Row
<1>5. \A e \in Event : row'[e].gen = IF e \in batch \ ClaimConflict THEN row[e].gen + 1 ELSE row[e].gen
  BY <1>2, <1>4
<1>6. \A e : NewRun(e, w).event = e /\ NewRun(e, w).gen = row[e].gen + 1
  BY DEF NewRun
<1>7. \A p \in runs : p.event \in Event /\ p.gen \in Nat /\ p.gen <= row[p.event].gen
  BY <1>1 DEF TypeOK, Run, GenerationsIssued
<1>8. GenerationsIssued'
  BY <1>2, <1>3, <1>5, <1>6, <1>7 DEF GenerationsIssued
<1>9. UniqueGenerations'
  <2> SUFFICES ASSUME NEW p \in runs', NEW q \in runs', p.event = q.event, p.gen = q.gen
               PROVE  p = q
    BY DEF UniqueGenerations
  <2>1. CASE p \in runs /\ q \in runs
    BY <1>1, <2>1 DEF UniqueGenerations
  <2>2. ASSUME NEW x \in runs, NEW e \in batch \ ClaimConflict, x.event = e,
               x.gen = NewRun(e, w).gen
        PROVE  FALSE
    BY <1>3, <1>6, <1>7, <2>2
  <2>3. CASE p \notin runs /\ q \in runs
    BY <1>2, <1>6, <2>2, <2>3
  <2>4. CASE p \in runs /\ q \notin runs
    BY <1>2, <1>6, <2>2, <2>4
  <2>5. CASE p \notin runs /\ q \notin runs
    BY <1>2, <1>6, <2>5
  <2>. QED
    BY <2>1, <2>3, <2>4, <2>5
<1>. QED
  BY <1>8, <1>9

\* A clock that runs down stops at zero.
LEMMA Countdown == \A n \in Nat : Less(n) \in Nat /\ Less(n) <= n /\ (n > 0 => Less(n) = n - 1)
  BY DEF Less

\* The fence of a run holds through every step: whoever moves, the row of an
\* event whose lease a run was promised is still the one it was promised on.
LEMMA FenceKept ==
  ASSUME FenceInv, [Next]_vars
  PROVE  ProviderIoFenced'
<1>1. TypeOK /\ UniqueGenerations /\ GenerationsIssued /\ ProviderIoFenced
  BY DEF FenceInv
<1>2. \A e \in Event : row[e] \in Row /\ row[e].lease \in Nat
  BY <1>1, ConstantsAssumption DEF TypeOK, Row
<1>3. \A p \in runs : p \in Run /\ p.event \in Event /\ p.fence \in Nat /\ p.gen \in Nat
  BY <1>1, ConstantsAssumption DEF TypeOK, Run
<1>4. ASSUME NEW p \in runs, p.fence > 0
      PROVE  /\ row[p.event].status = "processing" /\ row[p.event].worker = p.worker
             /\ row[p.event].gen = p.gen
             /\ row[p.event].lease > 0 /\ row[p.event].lease >= p.fence
  BY <1>1, <1>4 DEF ProviderIoFenced, Owns
<1>a. ASSUME runs' \subseteq runs,
             \A p \in runs' : p.fence > 0 => row'[p.event] = row[p.event]
      PROVE  ProviderIoFenced'
  BY <1>4, <1>a DEF ProviderIoFenced, Owns
<1>5. ASSUME NEW w \in Worker, ClaimOutboxBatch(w) PROVE ProviderIoFenced'
  <2>1. PICK batch \in SUBSET {e \in Event : Due(e) /\ ~Exhausted(e)} :
          /\ row' = [e \in Event |->
                       IF e \in {f \in Event : Due(f) /\ Exhausted(f)} THEN Swept(e)
                       ELSE IF e \in batch \ ClaimConflict THEN Claimed(e, w)
                       ELSE IF e \in batch THEN Released(e, "failed", row[e].wait)
                       ELSE row[e]]
          /\ runs' = runs \cup {NewRun(e, w) : e \in batch \ ClaimConflict}
    BY <1>5 DEF ClaimOutboxBatch
  <2>2. \A e \in Event : row[e].status = "processing" => row'[e] = row[e]
    BY <2>1 DEF Due
  <2>3. \A e : NewRun(e, w).fence = 0
    BY DEF NewRun
  <2>. QED
    BY <1>3, <1>4, <2>1, <2>2, <2>3 DEF ProviderIoFenced, Owns
<1>6. ASSUME NEW w \in Worker, ReclaimStuckProcessing(w) PROVE ProviderIoFenced'
  <2>1. \A e \in Event : row[e].lease > 0 => row'[e] = row[e]
    BY <1>2, <1>6 DEF ReclaimStuckProcessing, LeaseLapsed
  <2>. QED
    BY <1>3, <1>4, <1>6, <1>a, <2>1 DEF ReclaimStuckProcessing
<1>7. ASSUME NEW w \in Worker, Crash(w) PROVE ProviderIoFenced'
  BY <1>7, <1>a DEF Crash
<1>8. ASSUME NEW r \in runs, RunStep(r) PROVE ProviderIoFenced'
  <2>1. \A p \in runs : p.fence > 0 /\ p # r => row'[p.event] = row[p.event]
    <3>1. SUFFICES ASSUME NEW p \in runs, p.fence > 0, p # r, row'[p.event] # row[p.event]
                   PROVE  FALSE
      OBVIOUS
    <3>2. p.event = r.event /\ Owns(r)
      BY <1>1, <1>3, <1>8, <3>1, RunStepRow
    <3>. QED
      BY <1>1, <1>4, <3>1, <3>2 DEF UniqueGenerations, Owns
  <2>b. \A p \in runs : p.fence > 0 /\ p # r => Owns(p)' /\ row'[p.event].lease >= p.fence
    BY <1>4, <2>1 DEF Owns
  <2>2. Margin \in Nat /\ Lease \in Nat /\ Lease > 0 /\ Margin <= Lease /\ r.fence <= Margin
    BY <1>3, ConstantsAssumption DEF Run
  <2>3. CASE Heartbeat(r)
    <3>1. runs' = runs /\ Owns(r) /\ row' = [row EXCEPT ![r.event].lease = Lease]
      BY <2>3 DEF Heartbeat
    <3>2. row'[r.event] = [row[r.event] EXCEPT !.lease = Lease]
      BY <1>1, <1>3, <3>1 DEF TypeOK
    <3>3. Owns(r)' /\ row'[r.event].lease = Lease
      BY <1>2, <1>3, <2>2, <3>1, <3>2 DEF Owns, Row
    <3>4. row'[r.event].lease >= r.fence
      BY <1>3, <2>2, <3>3
    <3>. QED
      BY <2>b, <3>1, <3>3, <3>4 DEF ProviderIoFenced
  <2>4. CASE AssertLeaseForProviderIo(r)
    <3> DEFINE q == [r EXCEPT !.fence = Margin, !.io = @ + 1]
    <3>1. /\ runs' = (runs \ {r}) \cup {q} /\ Owns(r)
          /\ row' = [row EXCEPT ![r.event].lease = IF @ > Margin THEN @ ELSE Lease]
      BY <2>4 DEF AssertLeaseForProviderIo, Becomes
    <3>2. row'[r.event] = [row[r.event] EXCEPT !.lease = IF @ > Margin THEN @ ELSE Lease]
      BY <1>1, <1>3, <3>1 DEF TypeOK
    <3>3. SameIdentity(q, r) /\ q.fence = Margin
      BY <1>3 DEF SameIdentity, Run
    <3>4. Owns(q)' /\ row'[q.event].lease >= q.fence
      BY <1>2, <1>3, <2>2, <3>1, <3>2, <3>3 DEF Owns, Row, SameIdentity
    <3>. HIDE DEF q
    <3>5. SUFFICES ASSUME NEW p \in runs', p.fence > 0
                   PROVE  Owns(p)' /\ row'[p.event].lease >= p.fence
      BY DEF ProviderIoFenced
    <3>6. p = q \/ (p \in runs /\ p # r)
      BY <3>1
    <3>7. CASE p = q
      BY <3>4, <3>7 DEF Owns
    <3>. QED
      BY <2>b, <3>5, <3>6, <3>7
  <2>5. CASE runs' \subseteq runs \ {r}
    <3>1. runs' \subseteq runs /\ \A p \in runs' : p.fence > 0 => row'[p.event] = row[p.event]
      BY <2>1, <2>5
    <3>. QED
      BY <1>a, <3>1
  <2>6. CASE StartRun(r) \/ DeadlineExceeded(r) \/ HandlerReturns(r) \/ HeartbeatRefused(r)
    <3>1. row' = row
      BY <2>6 DEF StartRun, DeadlineExceeded, HandlerReturns, HeartbeatRefused
    <3>2. PICK q : runs' = (runs \ {r}) \cup {q} /\ SameIdentity(q, r) /\ q.fence = r.fence
      <4>1. CASE HeartbeatRefused(r)
        <5>1. /\ SameIdentity([r EXCEPT !.lost = TRUE], r)
              /\ [r EXCEPT !.lost = TRUE].fence = r.fence
          BY <1>3 DEF SameIdentity, Run
        <5>. QED
          BY <4>1, <5>1 DEF HeartbeatRefused, Becomes
      <4>2. CASE StartRun(r) \/ DeadlineExceeded(r) \/ HandlerReturns(r)
        <5>1. PICK st \in Stage : runs' = (runs \ {r}) \cup {[r EXCEPT !.stage = st]}
          BY <4>2 DEF StartRun, DeadlineExceeded, HandlerReturns, Becomes, Stage
        <5>2. /\ SameIdentity([r EXCEPT !.stage = st], r)
              /\ [r EXCEPT !.stage = st].fence = r.fence
          BY <1>3 DEF SameIdentity, Run
        <5>. QED
          BY <5>1, <5>2
      <4>. QED
        BY <2>6, <4>1, <4>2
    <3>. QED
      BY <1>1, <3>1, <3>2 DEF ProviderIoFenced, Owns, SameIdentity
  <2>7. CASE \/ AssertLeaseLost(r) \/ AbandonedRunEnds(r) \/ Acknowledge(r)
    BY <2>5, <2>7 DEF AssertLeaseLost, AbandonedRunEnds, Acknowledge, AckLeaseLost, MarkOutboxSent,
      MarkFailedTerminal, MarkFailedRetry, MarkDeferredTooLate, Ends
  <2>. QED
    BY <1>8, <2>3, <2>4, <2>6, <2>7 DEF RunStep
<1>9. ASSUME NEW e \in Event, CleanupObsolete(e) PROVE ProviderIoFenced'
  BY <1>1, <1>3, <1>4, <1>9, <1>a DEF CleanupObsolete, TypeOK
<1>10. ASSUME NEW e \in Event, AdminRequeue(e) PROVE ProviderIoFenced'
  BY <1>1, <1>3, <1>4, <1>10, <1>a DEF AdminRequeue, TypeOK
<1>11. CASE Tick
  <2> SUFFICES ASSUME NEW q \in runs', q.fence > 0
               PROVE  Owns(q)' /\ row'[q.event].lease >= q.fence
    BY DEF ProviderIoFenced
  <2>1. PICK p \in runs : q = [p EXCEPT !.fence = Less(@)]
    BY <1>11 DEF Tick
  <2>2. SameIdentity(q, p) /\ q.fence = Less(p.fence)
    BY <1>3, <2>1 DEF SameIdentity, Run
  <2>3. p.fence > 0 /\ q.fence = p.fence - 1
    BY <1>3, <2>2, Countdown
  <2>4. row[p.event].status = "processing" /\ row'[p.event] = [row[p.event] EXCEPT !.lease = Less(@)]
    BY <1>3, <1>4, <1>11, <2>3 DEF Tick
  <2>5. /\ row'[p.event].status = "processing" /\ row'[p.event].worker = row[p.event].worker
        /\ row'[p.event].gen = row[p.event].gen
        /\ row'[p.event].lease = row[p.event].lease - 1
    BY <1>2, <1>3, <1>4, <2>3, <2>4, Countdown DEF Row
  <2>. QED
    BY <1>2, <1>3, <1>4, <2>2, <2>3, <2>5 DEF Owns, SameIdentity
<1>12. CASE UNCHANGED vars
  BY <1>12, <1>a DEF vars
<1>. QED
  BY <1>5, <1>6, <1>7, <1>8, <1>9, <1>10, <1>11, <1>12 DEF Next

\* Every step preserves the fences.
LEMMA FenceNext == FenceInv /\ [Next]_vars => FenceInv'
<1> SUFFICES ASSUME FenceInv, [Next]_vars PROVE FenceInv'
  OBVIOUS
<1>1. TypeOK /\ UniqueGenerations /\ GenerationsIssued
  BY DEF FenceInv
<1>2. TypeOK' /\ ProviderIoFenced'
  BY <1>1, TypeNext, FenceKept
<1>3. \A e \in Event : row[e] \in Row /\ row[e].gen \in Nat
  BY <1>1 DEF TypeOK, Row
<1>4. \A p \in runs : p \in Run /\ p.event \in Event /\ p.gen \in Nat
  BY <1>1 DEF TypeOK, Run
<1>5. ASSUME runs' \subseteq runs, \A e \in Event : row'[e].gen \in Nat /\ row'[e].gen >= row[e].gen
      PROVE  UniqueGenerations' /\ GenerationsIssued'
  BY <1>1, <1>3, <1>4, <1>5 DEF UniqueGenerations, GenerationsIssued
<1>6. ASSUME NEW w \in Worker, ReclaimStuckProcessing(w)
      PROVE  UniqueGenerations' /\ GenerationsIssued'
  <2>1. \A e \in Event : Released(e, "pending", 0).gen = row[e].gen /\ Archived(e).gen = row[e].gen
    BY <1>3 DEF Released, Archived, Row
  <2>2. \A e \in Event : row'[e].gen = row[e].gen
    BY <1>6, <2>1 DEF ReclaimStuckProcessing
  <2>. QED
    BY <1>3, <1>5, <1>6, <2>2 DEF ReclaimStuckProcessing
<1>7. ASSUME NEW e \in Event, CleanupObsolete(e) PROVE UniqueGenerations' /\ GenerationsIssued'
  <2>1. \A f \in Event : row'[f].gen = row[f].gen
    BY <1>1, <1>3, <1>7 DEF CleanupObsolete, TypeOK, Row
  <2>. QED
    BY <1>3, <1>5, <1>7, <2>1 DEF CleanupObsolete
<1>8. ASSUME NEW e \in Event, AdminRequeue(e) PROVE UniqueGenerations' /\ GenerationsIssued'
  <2>1. [Released(e, "pending", 0) EXCEPT !.gen = @ + 1].gen = row[e].gen + 1
    BY DEF Released
  <2>2. row' = [row EXCEPT ![e] = [Released(e, "pending", 0) EXCEPT !.gen = @ + 1]]
    BY <1>8 DEF AdminRequeue
  <2>3. row'[e].gen = row[e].gen + 1 /\ \A f \in Event \ {e} : row'[f] = row[f]
    BY <1>1, <2>1, <2>2 DEF TypeOK
  <2>. QED
    BY <1>3, <1>5, <1>8, <2>3 DEF AdminRequeue
<1>9. ASSUME Tick PROVE UniqueGenerations' /\ GenerationsIssued'
  <2>1. \A e \in Event : row'[e].gen = row[e].gen
    BY <1>3, <1>9 DEF Tick, Row
  <2>2. ASSUME NEW q \in runs'
        PROVE  \E p \in runs : q = [p EXCEPT !.fence = Less(@)] /\ SameIdentity(q, p)
    BY <1>4, <1>9 DEF Tick, SameIdentity, Run
  <2>3. GenerationsIssued'
    BY <1>1, <1>4, <2>1, <2>2 DEF GenerationsIssued, SameIdentity
  <2>4. UniqueGenerations'
    <3>1. SUFFICES ASSUME NEW p \in runs', NEW q \in runs', p.event = q.event, p.gen = q.gen
                   PROVE  p = q
      BY DEF UniqueGenerations
    <3>2. PICK x \in runs : p = [x EXCEPT !.fence = Less(@)] /\ SameIdentity(p, x)
      BY <2>2
    <3>3. PICK y \in runs : q = [y EXCEPT !.fence = Less(@)] /\ SameIdentity(q, y)
      BY <2>2
    <3>4. x = y
      BY <1>1, <3>1, <3>2, <3>3 DEF UniqueGenerations, SameIdentity
    <3>. QED
      BY <3>2, <3>3, <3>4
  <2>. QED
    BY <2>3, <2>4
<1>10. ASSUME UNCHANGED vars PROVE UniqueGenerations' /\ GenerationsIssued'
  BY <1>1, <1>10 DEF vars, UniqueGenerations, GenerationsIssued
<1>11. ASSUME NEW w \in Worker, Crash(w) PROVE UniqueGenerations' /\ GenerationsIssued'
  BY <1>3, <1>5, <1>11 DEF Crash
<1>12. UniqueGenerations' /\ GenerationsIssued'
  BY <1>6, <1>7, <1>8, <1>9, <1>10, <1>11, FenceClaim, FenceRunStep DEF Next
<1>. QED
  BY <1>2, <1>12 DEF FenceInv

\* At most one run owns an event, for any numbers of workers, events, attempts,
\* restarts and abandoned handlers.
THEOREM Fencing == Spec => []AtMostOneOwner
<1>1. FenceInv => AtMostOneOwner
  BY OwnersAgree DEF FenceInv
<1>. QED
  BY <1>1, FenceInit, FenceNext, PTL DEF Spec

\* A passed lease assertion keeps every other run out for the whole margin, for
\* any lease that is at least as long as the margin.
THEOREM ProviderIo == Spec => []ProviderIoFenced
<1>1. FenceInv => ProviderIoFenced
  BY DEF FenceInv
<1>. QED
  BY <1>1, FenceInit, FenceNext, PTL DEF Spec

-----------------------------------------------------------------------------
(* Attempts, and how a lease ends *)

PermanentRecorded == \A r \in runs : r.stage = "permanent" => r.event \in gaveUp

BudgetInv == TypeOK /\ PermanentRecorded /\ AttemptBudget

\* The bookkeeping of one row in one step: it is handed out and an attempt is
\* counted, or the count stands, and then it is archived only for a reason.
Counted(e) ==
  /\ ~Exhausted(e)
  /\ row'[e].attempts = row[e].attempts + 1
  /\ row'[e].status = "processing"

Standing(e) ==
  /\ row'[e].attempts = row[e].attempts
  /\ row'[e].status = "dlq" =>
       \/ row[e].status = "dlq" \/ Exhausted(e)
       \/ \E r \in runs : r.event = e /\ r.stage = "permanent"

\* Ended by its own run: what the property says of a lease that is still good.
EndedByVerdict(e) ==
  row[e].status = "processing" /\ row[e].lease > 0 /\ row'[e].status # "processing"
    => \E r \in runs : /\ r.event = e /\ Owns(r) /\ r \notin runs'
                      /\ r.stage \in Verdict
                      /\ (row'[e].status = "sent") = (r.stage = "ok")

\* What one step may do to one row: count an attempt or none, and end it only by a verdict.
LEMMA RowStep ==
  ASSUME TypeOK, [Next]_vars, NEW e \in Event
  PROVE  (Counted(e) \/ Standing(e)) /\ EndedByVerdict(e)
<1>1. row[e] \in Row /\ row[e].lease \in Nat /\ \A r \in runs : r.event \in Event
  BY ConstantsAssumption DEF TypeOK, Row, Run
<1>2. ASSUME row'[e] = row[e] PROVE Standing(e) /\ EndedByVerdict(e)
  BY <1>2 DEF Standing, EndedByVerdict
<1>3. ASSUME row'[e] = Archived(e), Exhausted(e), row[e].status # "processing" \/ row[e].lease = 0
      PROVE  Standing(e) /\ EndedByVerdict(e)
  <2>1. Archived(e).attempts = row[e].attempts
    BY <1>1 DEF Archived, Row
  <2>. QED
    BY <1>1, <1>3, <2>1 DEF Standing, EndedByVerdict
<1>4. ASSUME NEW st \in {"pending", "failed"}, NEW d, row'[e] = Released(e, st, d),
             row[e].status # "processing" \/ row[e].lease = 0
      PROVE  Standing(e) /\ EndedByVerdict(e)
  <2>1. Released(e, st, d).attempts = row[e].attempts /\ Released(e, st, d).status = st
    BY DEF Released
  <2>. QED
    BY <1>1, <1>4, <2>1 DEF Standing, EndedByVerdict
<1>5. ASSUME NEW w \in Worker, ClaimOutboxBatch(w)
      PROVE  (Counted(e) \/ Standing(e)) /\ EndedByVerdict(e)
  <2>1. PICK batch \in SUBSET {f \in Event : Due(f) /\ ~Exhausted(f)} :
          row' = [f \in Event |->
                    IF f \in {g \in Event : Due(g) /\ Exhausted(g)} THEN Swept(f)
                    ELSE IF f \in batch \ ClaimConflict THEN Claimed(f, w)
                    ELSE IF f \in batch THEN Released(f, "failed", row[f].wait)
                    ELSE row[f]]
    BY <1>5 DEF ClaimOutboxBatch
  <2>2. CASE e \in batch \ ClaimConflict
    <3>1. row'[e] = Claimed(e, w) /\ ~Exhausted(e) /\ Due(e)
      BY <2>1, <2>2
    <3>2. Claimed(e, w).attempts = row[e].attempts + 1 /\ Claimed(e, w).status = "processing"
      BY DEF Claimed
    <3>. QED
      BY <3>1, <3>2 DEF Counted, EndedByVerdict
  <2>3. CASE e \in batch /\ e \in ClaimConflict
    <3>1. row'[e] = Released(e, "failed", row[e].wait) /\ row[e].status # "processing"
      BY <2>1, <2>3 DEF Due
    <3>. QED
      BY <1>4, <3>1
  <2>4. CASE Due(e) /\ Exhausted(e)
    <3>1. row'[e] = Swept(e) /\ row[e].status # "processing"
      BY <2>1, <2>4 DEF Due
    <3>2. Swept(e) = Released(e, "failed", row[e].wait) \/ Swept(e) = Archived(e)
      BY DEF Swept
    <3>. QED
      BY <1>3, <1>4, <2>4, <3>1, <3>2
  <2>5. CASE e \notin batch /\ ~(Due(e) /\ Exhausted(e))
    BY <1>2, <2>1, <2>5
  <2>. QED
    BY <2>2, <2>3, <2>4, <2>5
<1>6. ASSUME NEW w \in Worker, ReclaimStuckProcessing(w)
      PROVE  Standing(e) /\ EndedByVerdict(e)
  <2>1. row'[e] = IF ~LeaseLapsed(e) THEN row[e]
                  ELSE IF ~Exhausted(e) THEN Released(e, "pending", 0)
                  ELSE IF e \in ArchiveConflict THEN row[e]
                  ELSE Archived(e)
    BY <1>6 DEF ReclaimStuckProcessing
  <2>2. CASE row'[e] = row[e]
    BY <2>2 DEF Standing, EndedByVerdict
  <2>3. CASE LeaseLapsed(e) /\ ~Exhausted(e)
    BY <1>4, <2>1, <2>3 DEF LeaseLapsed
  <2>4. CASE LeaseLapsed(e) /\ Exhausted(e) /\ e \notin ArchiveConflict
    BY <1>3, <2>1, <2>4 DEF LeaseLapsed
  <2>. QED
    BY <2>1, <2>2, <2>3, <2>4
<1>7. ASSUME NEW r \in runs, RunStep(r) PROVE Standing(e) /\ EndedByVerdict(e)
  <2>1. row'[e] # row[e] => e = r.event /\ Owns(r)
    BY <1>7, RunStepRow
  <2>2. CASE row'[e] = row[e]
    BY <2>2 DEF Standing, EndedByVerdict
  <2>3. CASE row'[e] # row[e] /\ (Heartbeat(r) \/ AssertLeaseForProviderIo(r))
    <3>1. row'[e].attempts = row[e].attempts /\ row'[e].status = row[e].status
      BY <1>1, <2>3 DEF Heartbeat, AssertLeaseForProviderIo, TypeOK, Row
    <3>. QED
      BY <3>1 DEF Standing, EndedByVerdict
  <2>4. CASE row'[e] # row[e] /\ MarkOutboxSent(r)
    <3>1. row'[e] = Released(e, "sent", row[e].wait) /\ r \notin runs' /\ r.stage = "ok"
      BY <1>1, <2>1, <2>4 DEF MarkOutboxSent, Ends, TypeOK
    <3>2. /\ Released(e, "sent", row[e].wait).attempts = row[e].attempts
          /\ Released(e, "sent", row[e].wait).status = "sent"
      BY DEF Released
    <3>. QED
      BY <2>1, <2>4, <3>1, <3>2 DEF Standing, EndedByVerdict, Verdict
  <2>5. CASE row'[e] # row[e] /\ MarkFailedRetry(r)
    <3>1. PICK d : /\ row'[e] = Released(e, "pending", d) /\ r \notin runs'
                   /\ r.stage \in {"retry", "defer"}
      BY <1>1, <2>1, <2>5 DEF MarkFailedRetry, Ends, TypeOK
    <3>2. Released(e, "pending", d).attempts = row[e].attempts /\ Released(e, "pending", d).status = "pending"
      BY DEF Released
    <3>. QED
      BY <2>1, <2>5, <3>1, <3>2 DEF Standing, EndedByVerdict, Verdict
  <2>6. CASE row'[e] # row[e] /\ MarkFailedTerminal(r)
    <3>1. /\ row'[e] = Archived(e) /\ r \notin runs'
          /\ r.stage = "permanent" \/ (r.stage \in {"retry", "defer"} /\ Exhausted(e))
      BY <1>1, <2>1, <2>6 DEF MarkFailedTerminal, Ends, TypeOK
    <3>2. Archived(e).attempts = row[e].attempts /\ Archived(e).status = "dlq"
      BY <1>1 DEF Archived, Row
    <3>. QED
      BY <2>1, <2>6, <3>1, <3>2 DEF Standing, EndedByVerdict, Verdict
  <2>7. ASSUME \/ StartRun(r) \/ HeartbeatRefused(r) \/ AssertLeaseLost(r) \/ HandlerReturns(r)
               \/ DeadlineExceeded(r) \/ AbandonedRunEnds(r) \/ AckLeaseLost(r)
               \/ MarkDeferredTooLate(r)
        PROVE  row' = row
    BY <2>7 DEF StartRun, HeartbeatRefused, AssertLeaseLost, HandlerReturns, DeadlineExceeded,
      AbandonedRunEnds, AckLeaseLost, MarkDeferredTooLate
  <2>. QED
    BY <1>7, <2>2, <2>3, <2>4, <2>5, <2>6, <2>7 DEF RunStep, Acknowledge
<1>8. ASSUME NEW f \in Event, CleanupObsolete(f) PROVE Standing(e) /\ EndedByVerdict(e)
  BY <1>1, <1>8 DEF CleanupObsolete, Standing, EndedByVerdict, TypeOK, Row
<1>9. ASSUME NEW f \in Event, AdminRequeue(f) PROVE Standing(e) /\ EndedByVerdict(e)
  <2>1. /\ [Released(f, "pending", 0) EXCEPT !.gen = @ + 1].attempts = row[f].attempts
        /\ [Released(f, "pending", 0) EXCEPT !.gen = @ + 1].status = "pending"
    BY DEF Released
  <2>2. /\ row' = [row EXCEPT ![f] = [Released(f, "pending", 0) EXCEPT !.gen = @ + 1]]
        /\ row[f].status # "processing"
    BY <1>9 DEF AdminRequeue
  <2>3. CASE e = f
    BY <2>1, <2>2, <2>3 DEF TypeOK, Standing, EndedByVerdict
  <2>4. CASE e # f
    BY <2>2, <2>4 DEF TypeOK, Standing, EndedByVerdict
  <2>. QED
    BY <2>3, <2>4
<1>10. ASSUME Tick PROVE Standing(e) /\ EndedByVerdict(e)
  BY <1>1, <1>10 DEF Tick, Standing, EndedByVerdict, Row
<1>11. ASSUME row' = row PROVE Standing(e) /\ EndedByVerdict(e)
  BY <1>11 DEF Standing, EndedByVerdict
<1>. QED
  BY <1>5, <1>6, <1>7, <1>8, <1>9, <1>10, <1>11 DEF Next, Crash, vars

\* What a step does to the record of permanent failures.
LEMMA PermanentStep ==
  ASSUME TypeOK, PermanentRecorded, [Next]_vars
  PROVE  PermanentRecorded' /\ gaveUp \subseteq gaveUp'
<1>1. \A r \in runs : r \in Run
  BY DEF TypeOK
<1>2. ASSUME gaveUp \subseteq gaveUp', \A q \in runs' : q \notin runs => q.stage # "permanent"
      PROVE  PermanentRecorded' /\ gaveUp \subseteq gaveUp'
  BY <1>2 DEF PermanentRecorded
<1>3. ASSUME NEW w \in Worker, ClaimOutboxBatch(w) PROVE PermanentRecorded' /\ gaveUp \subseteq gaveUp'
  <2>1. gaveUp' = gaveUp /\ \A q \in runs' : q \notin runs => \E e : q = NewRun(e, w)
    BY <1>3 DEF ClaimOutboxBatch
  <2>2. \A e : NewRun(e, w).stage = "queued"
    BY DEF NewRun
  <2>. QED
    BY <1>2, <2>1, <2>2
<1>4. ASSUME NEW r \in runs, RunStep(r) PROVE PermanentRecorded' /\ gaveUp \subseteq gaveUp'
  <2>1. CASE HandlerReturns(r)
    <3>1. PICK v \in Verdict :
            /\ runs' = (runs \ {r}) \cup {[r EXCEPT !.stage = v]}
            /\ gaveUp' = IF v = "permanent" THEN gaveUp \cup {r.event} ELSE gaveUp
      BY <2>1 DEF HandlerReturns, Becomes
    <3>2. [r EXCEPT !.stage = v].stage = v /\ [r EXCEPT !.stage = v].event = r.event
      BY <1>1 DEF Run
    <3>. QED
      BY <3>1, <3>2 DEF PermanentRecorded
  <2>2. CASE HeartbeatRefused(r)
    <3>1. [r EXCEPT !.lost = TRUE].stage = r.stage /\ [r EXCEPT !.lost = TRUE].event = r.event
      BY <1>1 DEF Run
    <3>. QED
      BY <2>2, <3>1 DEF HeartbeatRefused, Becomes, PermanentRecorded
  <2>3. CASE StartRun(r) \/ DeadlineExceeded(r)
    <3>1. [r EXCEPT !.stage = "running"].stage = "running" /\ [r EXCEPT !.stage = "abandoned"].stage = "abandoned"
      BY <1>1 DEF Run
    <3>. QED
      BY <2>3, <3>1 DEF StartRun, DeadlineExceeded, Becomes, PermanentRecorded
  <2>4. CASE AssertLeaseForProviderIo(r)
    <3>1. /\ [r EXCEPT !.fence = Margin, !.io = @ + 1].stage = r.stage
          /\ r.stage # "permanent"
      BY <1>1, <2>4 DEF Run, AssertLeaseForProviderIo
    <3>. QED
      BY <2>4, <3>1 DEF AssertLeaseForProviderIo, Becomes, PermanentRecorded
  <2>5. CASE Heartbeat(r) \/ AssertLeaseLost(r) \/ AbandonedRunEnds(r) \/ Acknowledge(r)
    <3>1. runs' \subseteq runs /\ gaveUp' = gaveUp
      BY <2>5 DEF Heartbeat, AssertLeaseLost, AbandonedRunEnds, Acknowledge, AckLeaseLost,
        MarkOutboxSent, MarkFailedTerminal, MarkFailedRetry, MarkDeferredTooLate, Ends
    <3>. QED
      BY <1>2, <3>1
  <2>. QED
    BY <1>4, <2>1, <2>2, <2>3, <2>4, <2>5 DEF RunStep
<1>5. ASSUME Tick PROVE PermanentRecorded' /\ gaveUp \subseteq gaveUp'
  <2>1. \A r \in runs : /\ [r EXCEPT !.fence = Less(@)].stage = r.stage
                        /\ [r EXCEPT !.fence = Less(@)].event = r.event
    BY <1>1 DEF Run
  <2>. QED
    BY ZenonT(60), <1>5, <2>1 DEF Tick, PermanentRecorded
<1>6. ASSUME runs' \subseteq runs, gaveUp' = gaveUp PROVE PermanentRecorded' /\ gaveUp \subseteq gaveUp'
  BY <1>2, <1>6
<1>. QED
  BY <1>3, <1>4, <1>5, <1>6 DEF Next, Crash, ReclaimStuckProcessing, CleanupObsolete, AdminRequeue, vars

\* In the beginning no attempt was made.
LEMMA BudgetInit == Init => BudgetInv
  BY TypeInit, ConstantsAssumption DEF Init, BudgetInv, PermanentRecorded, AttemptBudget

\* Every step preserves the budget.
LEMMA BudgetNext == BudgetInv /\ [Next]_vars => BudgetInv'
<1> SUFFICES ASSUME BudgetInv, [Next]_vars PROVE BudgetInv'
  OBVIOUS
<1>1. TypeOK /\ PermanentRecorded /\ AttemptBudget
  BY DEF BudgetInv
<1>2. TypeOK'
  BY <1>1, TypeNext
<1>3. PermanentRecorded' /\ gaveUp \subseteq gaveUp'
  BY <1>1, PermanentStep
<1>4. AttemptBudget'
  <2> SUFFICES ASSUME NEW e \in Event
               PROVE  /\ row'[e].attempts > FirstAttempts[e] => row'[e].attempts <= MaxAttempts[e]
                      /\ row'[e].status = "dlq" => row'[e].attempts >= MaxAttempts[e] \/ e \in gaveUp'
    BY DEF AttemptBudget
  <2>1. MaxAttempts[e] \in Nat /\ FirstAttempts[e] \in Nat /\ row[e].attempts \in Nat
    BY <1>1, ConstantsAssumption DEF TypeOK, Row
  <2>2. CASE Counted(e)
    BY <2>1, <2>2 DEF Counted, Exhausted
  <2>3. CASE Standing(e)
    BY <1>1, <1>3, <2>1, <2>3 DEF Standing, Exhausted, AttemptBudget, PermanentRecorded
  <2>. QED
    BY <1>1, <2>2, <2>3, RowStep
<1>. QED
  BY <1>2, <1>3, <1>4 DEF BudgetInv

\* The attempt budget, for every budget and every number of attempts a row was
\* met with.
THEOREM Budget == Spec => []AttemptBudget
<1>1. BudgetInv => AttemptBudget
  BY DEF BudgetInv
<1>. QED
  BY <1>1, BudgetInit, BudgetNext, PTL DEF Spec

\* A lease that is still good is ended by the verdict of its own run only.
THEOREM LeaseEnds == Spec => LiveLeaseEndsByVerdict
<1>1. TypeOK /\ [Next]_vars
        => [\A e \in Event :
              row[e].status = "processing" /\ row[e].lease > 0 /\ row'[e].status # "processing"
                => \E r \in runs : /\ r.event = e /\ Owns(r) /\ r \notin runs'
                                  /\ r.stage \in Verdict
                                  /\ (row'[e].status = "sent") = (r.stage = "ok")]_vars
  BY RowStep DEF EndedByVerdict
<1>. QED
  BY <1>1, TypeCorrect, PTL DEF Spec, LiveLeaseEndsByVerdict

-----------------------------------------------------------------------------
(* The rail implements the queue.                                            *)

\* What the queue sees of a row in one step: nothing, or one of its moves.
QueueStays(e) == row'[e].status = row[e].status /\ row'[e].attempts = row[e].attempts

QueueTaken(e) ==
  /\ row[e].status = "pending" /\ ~Exhausted(e)
  /\ row'[e].status = "processing" /\ row'[e].attempts = row[e].attempts + 1

QueueMoves(e) ==
  /\ row'[e].attempts = row[e].attempts
  /\ \/ row[e].status = "processing" /\ ~Exhausted(e) /\ row'[e].status = "pending"
     \/ row[e].status = "processing" /\ row'[e].status \in {"sent", "dlq"}
     \/ row[e].status = "pending" /\ row'[e].status \in {"sent", "failed"}
     \/ row[e].status = "pending" /\ Exhausted(e) /\ row'[e].status = "dlq"
     \/ row[e].status = "failed" /\ ~Exhausted(e) /\ row'[e].status = "pending"

\* The status and the attempts of the rows that a transaction writes.
LEMMA RowFields ==
  ASSUME TypeOK, NEW e \in Event
  PROVE  /\ \A w : Claimed(e, w).status = "processing" /\ Claimed(e, w).attempts = row[e].attempts + 1
         /\ \A s, d : Released(e, s, d).status = s /\ Released(e, s, d).attempts = row[e].attempts
         /\ Archived(e).status = "dlq" /\ Archived(e).attempts = row[e].attempts
<1>1. row[e] \in Row BY DEF TypeOK
<1>2. Archived(e).status = "dlq" /\ Archived(e).attempts = row[e].attempts BY <1>1 DEF Archived, Row
<1>. QED BY <1>2 DEF Claimed, Released

\* A batch takes its rows, parks those it cannot claim and buries the exhausted.
LEMMA QueueClaim ==
  ASSUME TypeOK, NEW w \in Worker, ClaimOutboxBatch(w), NEW e \in Event
  PROVE  QueueStays(e) \/ QueueTaken(e) \/ QueueMoves(e)
<1>1. PICK batch \in SUBSET {f \in Event : Due(f) /\ ~Exhausted(f)} :
        row' = [f \in Event |->
                  IF f \in {g \in Event : Due(g) /\ Exhausted(g)} THEN Swept(f)
                  ELSE IF f \in batch \ ClaimConflict THEN Claimed(f, w)
                  ELSE IF f \in batch THEN Released(f, "failed", row[f].wait)
                  ELSE row[f]]
  BY DEF ClaimOutboxBatch
<1>2. CASE e \in batch \ ClaimConflict
  <2>1. row'[e] = Claimed(e, w) /\ ~Exhausted(e) /\ row[e].status = "pending" BY <1>1, <1>2 DEF Due
  <2>. QED BY <2>1, RowFields DEF QueueTaken
<1>3. CASE e \in batch /\ e \in ClaimConflict
  <2>1. row'[e] = Released(e, "failed", row[e].wait) /\ row[e].status = "pending" BY <1>1, <1>3 DEF Due
  <2>. QED BY <2>1, RowFields DEF QueueMoves
<1>4. CASE Due(e) /\ Exhausted(e)
  <2>1. row'[e] = Swept(e) /\ row[e].status = "pending" BY <1>1, <1>4 DEF Due
  <2>2. Swept(e) = Released(e, "failed", row[e].wait) \/ Swept(e) = Archived(e) BY DEF Swept
  <2>. QED BY <1>4, <2>1, <2>2, RowFields DEF QueueMoves
<1>5. CASE e \notin batch /\ ~(Due(e) /\ Exhausted(e))
  BY <1>1, <1>5 DEF QueueStays
<1>. QED BY <1>2, <1>3, <1>4, <1>5

\* The reclaimer gives a lapsed row back, or settles it as dead.
LEMMA QueueReclaim ==
  ASSUME TypeOK, NEW w \in Worker, ReclaimStuckProcessing(w), NEW e \in Event
  PROVE  QueueStays(e) \/ QueueMoves(e)
<1>1. row'[e] = IF ~LeaseLapsed(e) THEN row[e]
                ELSE IF ~Exhausted(e) THEN Released(e, "pending", 0)
                ELSE IF e \in ArchiveConflict THEN row[e]
                ELSE Archived(e)
  BY DEF ReclaimStuckProcessing
<1>2. CASE row'[e] = row[e] BY <1>2 DEF QueueStays
<1>3. CASE LeaseLapsed(e) /\ ~Exhausted(e)
  <2>1. row'[e] = Released(e, "pending", 0) /\ row[e].status = "processing" BY <1>1, <1>3 DEF LeaseLapsed
  <2>. QED BY <1>3, <2>1, RowFields DEF QueueMoves
<1>4. CASE LeaseLapsed(e) /\ Exhausted(e) /\ e \notin ArchiveConflict
  <2>1. row'[e] = Archived(e) /\ row[e].status = "processing" BY <1>1, <1>4 DEF LeaseLapsed
  <2>. QED BY <2>1, RowFields DEF QueueMoves
<1>. QED BY <1>1, <1>2, <1>3, <1>4

\* A run renews its lease, settles its row or gives it back.
LEMMA QueueRun ==
  ASSUME TypeOK, NEW r \in runs, RunStep(r), NEW e \in Event
  PROVE  QueueStays(e) \/ QueueMoves(e)
<1>1. row[e] \in Row /\ r.event \in Event BY DEF TypeOK, Run
<1>2. row'[e] # row[e] => e = r.event /\ Owns(r) BY RunStepRow
<1>3. CASE row'[e] = row[e] BY <1>3 DEF QueueStays
<1>4. CASE row'[e] # row[e] /\ (Heartbeat(r) \/ AssertLeaseForProviderIo(r))
  BY <1>1, <1>4 DEF Heartbeat, AssertLeaseForProviderIo, TypeOK, Row, QueueStays
<1>5. ASSUME row'[e] # row[e] PROVE e = r.event /\ row[e].status = "processing" BY <1>2, <1>5 DEF Owns
<1>6. CASE row'[e] # row[e] /\ MarkOutboxSent(r)
  <2>1. row'[e] = Released(e, "sent", row[e].wait) BY <1>1, <1>5, <1>6 DEF MarkOutboxSent, TypeOK
  <2>. QED BY <1>5, <1>6, <2>1, RowFields DEF QueueMoves
<1>7. CASE row'[e] # row[e] /\ MarkFailedRetry(r)
  <2>1. PICK d : row'[e] = Released(e, "pending", d) /\ ~Exhausted(e)
    BY <1>1, <1>5, <1>7 DEF MarkFailedRetry, TypeOK
  <2>. QED BY <1>5, <1>7, <2>1, RowFields DEF QueueMoves
<1>8. CASE row'[e] # row[e] /\ MarkFailedTerminal(r)
  <2>1. row'[e] = Archived(e) BY <1>1, <1>5, <1>8 DEF MarkFailedTerminal, TypeOK
  <2>. QED BY <1>5, <1>8, <2>1, RowFields DEF QueueMoves
<1>9. ASSUME \/ StartRun(r) \/ HeartbeatRefused(r) \/ AssertLeaseLost(r) \/ HandlerReturns(r)
             \/ DeadlineExceeded(r) \/ AbandonedRunEnds(r) \/ AckLeaseLost(r)
             \/ MarkDeferredTooLate(r)
      PROVE  row' = row
  BY <1>9 DEF StartRun, HeartbeatRefused, AssertLeaseLost, HandlerReturns, DeadlineExceeded,
    AbandonedRunEnds, AckLeaseLost, MarkDeferredTooLate
<1>. QED
  BY <1>3, <1>4, <1>6, <1>7, <1>8, <1>9 DEF RunStep, Acknowledge

\* Whatever happens in the rail, the queue sees a move of its own or none.
LEMMA QueueStep ==
  ASSUME TypeOK, [Next]_vars, NEW e \in Event
  PROVE  QueueStays(e) \/ QueueTaken(e) \/ QueueMoves(e)
<1>1. row[e] \in Row BY DEF TypeOK
<1>2. ASSUME NEW f \in Event, CleanupObsolete(f) PROVE QueueStays(e) \/ QueueMoves(e)
  BY <1>1, <1>2 DEF CleanupObsolete, TypeOK, Row, QueueStays, QueueMoves
<1>3. ASSUME NEW f \in Event, AdminRequeue(f) PROVE QueueStays(e) \/ QueueMoves(e)
  <2>1. /\ row' = [row EXCEPT ![f] = [Released(f, "pending", 0) EXCEPT !.gen = @ + 1]]
        /\ row[f].status \in {"pending", "failed"} /\ ~Exhausted(f)
    BY <1>3 DEF AdminRequeue
  <2>2. /\ [Released(f, "pending", 0) EXCEPT !.gen = @ + 1].attempts = row[f].attempts
        /\ [Released(f, "pending", 0) EXCEPT !.gen = @ + 1].status = "pending"
    BY DEF Released
  <2>3. CASE e = f BY <2>1, <2>2, <2>3 DEF TypeOK, QueueStays, QueueMoves
  <2>4. CASE e # f BY <2>1, <2>4 DEF TypeOK, QueueStays
  <2>. QED BY <2>3, <2>4
<1>4. ASSUME Tick PROVE QueueStays(e) BY <1>1, <1>4 DEF Tick, Row, QueueStays
<1>5. ASSUME row' = row PROVE QueueStays(e) BY <1>5 DEF QueueStays
<1>. QED
  BY QueueClaim, QueueReclaim, QueueRun, <1>2, <1>3, <1>4, <1>5 DEF Next, Crash, vars

\* The phases of the queue are the states of a row.
LEMMA Phases ==
  /\ Phase("pending") = "open" /\ Phase("processing") = "held" /\ Phase("sent") = "done"
  /\ Phase("dlq") = "dead" /\ Phase("failed") = "parked"
<1>1. Phase("pending") = "open" BY DEF Phase
<1>2. Phase("processing") = "held" BY DEF Phase
<1>3. Phase("sent") = "done" BY DEF Phase
<1>4. Phase("dlq") = "dead" BY DEF Phase
<1>5. Phase("failed") = "parked" BY DEF Phase
<1>. QED BY <1>1, <1>2, <1>3, <1>4, <1>5

\* A step of the rail is a step of the queue.
LEMMA QueueNext == TypeOK /\ [Next]_vars => [Queue!Next]_Queue!jobVars
<1> SUFFICES ASSUME TypeOK, [Next]_vars PROVE Queue!Next
  OBVIOUS
<1>1. SUFFICES ASSUME NEW e \in Event PROVE Queue!Moves(e) \/ Queue!Stays(e)
  BY DEF Queue!Next
<1>2. CASE QueueStays(e)
  BY <1>2 DEF QueueStays, Queue!Stays
<1>3. CASE QueueTaken(e)
  BY <1>3, Phases DEF QueueTaken, Exhausted, Queue!Moves, Queue!Taken, Queue!Spent
<1>4. CASE QueueMoves(e)
  <2>1. row'[e].attempts = row[e].attempts BY <1>4 DEF QueueMoves
  <2>2. CASE row[e].status = "processing" /\ ~Exhausted(e) /\ row'[e].status = "pending"
    BY <2>1, <2>2, Phases DEF Exhausted, Queue!Moves, Queue!GivenBack, Queue!Spent
  <2>3. CASE row[e].status = "processing" /\ row'[e].status \in {"sent", "dlq"}
    BY <2>1, <2>3, Phases DEF Queue!Moves, Queue!Finished
  <2>4. CASE row[e].status = "pending" /\ row'[e].status \in {"sent", "failed"}
    BY <2>1, <2>4, Phases DEF Queue!Moves, Queue!Superseded, Queue!Parked
  <2>5. CASE row[e].status = "pending" /\ Exhausted(e) /\ row'[e].status = "dlq"
    BY <2>1, <2>5, Phases DEF Exhausted, Queue!Moves, Queue!Buried, Queue!Spent
  <2>6. CASE row[e].status = "failed" /\ ~Exhausted(e) /\ row'[e].status = "pending"
    BY <2>1, <2>6, Phases DEF Exhausted, Queue!Moves, Queue!Reopened, Queue!Spent
  <2>. QED BY <1>4, <2>2, <2>3, <2>4, <2>5, <2>6 DEF QueueMoves
<1>. QED BY <1>2, <1>3, <1>4, QueueStep

\* The rail is the queue that the code which enqueues relies on: every job is
\* handed out at most Budget times, to one holder at a time, settled once and
\* never reopened.
THEOREM RailIsQueue == Spec => ImplementsJobQueue
<1>1. Init => Queue!Init
  <2>1. SUFFICES ASSUME Init PROVE Queue!Init OBVIOUS
  <2>2. [e \in Event |-> Phase(row[e].status)] = [e \in Event |-> "open"] BY <2>1, Phases DEF Init
  <2>3. [e \in Event |-> row[e].attempts] = FirstAttempts BY <2>1, ConstantsAssumption DEF Init
  <2>. QED BY <2>2, <2>3 DEF Queue!Init
<1>. QED
  BY <1>1, QueueNext, TypeCorrect, PTL DEF Spec, ImplementsJobQueue, Queue!Spec
=============================================================================
