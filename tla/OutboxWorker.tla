---------------------------- MODULE OutboxWorker ----------------------------
(***************************************************************************)
(* The outbox rail: rows of siton.outbox_events, the workers that claim    *)
(* them under a lease, and the runs of the event handlers.                 *)
(*                                                                         *)
(* Every transaction of src/outbox_worker_helpers.ts is one action.  What  *)
(* processClaimedOutboxEvent does between two transactions - start the     *)
(* handler, renew the lease from a timer, give up at the per-job deadline, *)
(* acknowledge - is one action per step, so that a lease may expire, a row *)
(* be reclaimed or a worker die between any two of them.                   *)
(*                                                                         *)
(* Time is counted in ticks left: lease is the time to lease_expires_at,   *)
(* wait the time to available_at, fence the time for which a successful    *)
(* assertLeaseForProviderIo promised the lease.  A job archived to         *)
(* siton.outbox_dlq has status "dlq" (its row is gone from outbox_events). *)
(***************************************************************************)
EXTENDS Naturals, FiniteSets

CONSTANTS
  Event,            \* the outbox rows (event_uuid)
  Worker,           \* the worker processes (workerId)
  NoWorker,         \* worker_id IS NULL
  MaxAttempts,      \* effectiveMaxAttempts of each event
  FirstAttempts,    \* attempt_count of each row when the workers start
  Lease,            \* leaseMs
  Margin,           \* PROVIDER_IO_LEASE_MARGIN_MS
  MaxDelay,         \* longest retry delay (backoff or deferral)
  BatchLimit,       \* rows claimed by one claimOutboxBatch
  Concurrency,      \* handlers one worker runs at a time
  MaxIo,            \* bound: lease assertions one handler run makes
  MaxRequeue,       \* bound: admin requeues over a whole behaviour
  Obsoletable,      \* deadline_check rows, which a terminal deal closes
  ClaimConflict,    \* rows whose claim audit the database refuses
  ArchiveConflict   \* rows whose copy to the DLQ the database refuses

ASSUME ConstantsAssumption ==
  /\ NoWorker \notin Worker
  /\ MaxAttempts \in [Event -> Nat \ {0}]
  /\ FirstAttempts \in [Event -> Nat]
  /\ Lease \in Nat \ {0}
  /\ Margin \in 0 .. Lease
  /\ MaxDelay \in Nat \ {0}
  /\ BatchLimit \in Nat \ {0}
  /\ Concurrency \in Nat \ {0}
  /\ MaxIo \in Nat
  /\ MaxRequeue \in Nat
  /\ Obsoletable \subseteq Event
  /\ ClaimConflict \subseteq Event
  /\ ArchiveConflict \subseteq Event

VARIABLES
  row,        \* outbox_events and outbox_dlq, by event
  runs,       \* handler runs inside live worker processes
  requeues,   \* admin requeues made so far
  gaveUp      \* history: events whose handler threw a permanent failure

vars == <<row, runs, requeues, gaveUp>>

-----------------------------------------------------------------------------
(* Types *)

Status == {"pending", "processing", "sent", "failed", "dlq"}

Row == [status : Status, attempts : Nat, gen : Nat,
        worker : Worker \cup {NoWorker}, lease : 0 .. Lease, wait : 0 .. MaxDelay]

\* queued: claimed, waiting for a lane; running: in the handler; ok, retry,
\* defer and permanent: the handler ended so and the verdict is to be written;
\* abandoned: past the per-job deadline, the worker no longer waits for it.
Verdict == {"ok", "retry", "defer", "permanent"}
Stage == {"queued", "running", "abandoned"} \cup Verdict

Run == [event : Event, worker : Worker, gen : Nat, stage : Stage,
        lost : BOOLEAN, fence : 0 .. Margin, io : 0 .. MaxIo]

TypeOK ==
  /\ row \in [Event -> Row]
  /\ runs \subseteq Run
  /\ requeues \in 0 .. MaxRequeue
  /\ gaveUp \subseteq Event

-----------------------------------------------------------------------------
(* What a transaction makes of a row *)

\* Mutant of Exhausted: one attempt more than the cap.
ExhaustedAfter(e) == row[e].attempts > MaxAttempts[e]

Exhausted(e) == row[e].attempts >= MaxAttempts[e]

Due(e) == row[e].status = "pending" /\ row[e].wait = 0

\* Mutant of LeaseLapsed: the reclaimer does not ask for the expiry.
LeaseHeld(e) == row[e].status = "processing"

\* Mutant of LeaseLapsed: rows without an attempt left are not looked at.
LapsedWithAttempts(e) ==
  row[e].status = "processing" /\ row[e].lease = 0 /\ ~Exhausted(e)

LeaseLapsed(e) == row[e].status = "processing" /\ row[e].lease = 0

\* Mutant of Owns: the fence compares the worker, not the generation.
OwnsByName(r) ==
  /\ row[r.event].status = "processing"
  /\ row[r.event].worker = r.worker
  /\ row[r.event].lease > 0

\* The worker still holds exactly the lease this run was started under.
Owns(r) ==
  /\ row[r.event].status = "processing"
  /\ row[r.event].worker = r.worker
  /\ row[r.event].gen = r.gen
  /\ row[r.event].lease > 0

\* Mutant of Claimed: a new lease is given its margin on top.
ClaimedWithMargin(e, w) ==
  [status |-> "processing", attempts |-> row[e].attempts + 1, gen |-> row[e].gen + 1,
   worker |-> w, lease |-> Lease + Margin, wait |-> row[e].wait]

Claimed(e, w) ==
  [status |-> "processing", attempts |-> row[e].attempts + 1, gen |-> row[e].gen + 1,
   worker |-> w, lease |-> Lease, wait |-> row[e].wait]

Released(e, status, delay) ==
  [status |-> status, attempts |-> row[e].attempts, gen |-> row[e].gen,
   worker |-> NoWorker, lease |-> 0, wait |-> delay]

\* insertDlqFromLockedEvent keeps the lease columns in the archive.
Archived(e) == [row[e] EXCEPT !.status = "dlq"]

\* sweepExhaustedPending: a row the DLQ refuses is quarantined in place.
Swept(e) == IF e \in ArchiveConflict THEN Released(e, "failed", row[e].wait) ELSE Archived(e)

-----------------------------------------------------------------------------
(* The worker cycle *)

Init ==
  /\ row = [e \in Event |-> [status |-> "pending", attempts |-> FirstAttempts[e], gen |-> 0,
                             worker |-> NoWorker, lease |-> 0, wait |-> 0]]
  /\ runs = {}
  /\ requeues = 0
  /\ gaveUp = {}

NewRun(e, w) ==
  [event |-> e, worker |-> w, gen |-> row[e].gen + 1, stage |-> "queued",
   lost |-> FALSE, fence |-> 0, io |-> 0]

\* processCycle awaits the whole batch before the next reclaim or claim.
Idle(w) == \A r \in runs : r.worker = w => r.stage = "abandoned"

\* One transaction: archive the due rows that are out of attempts, then claim
\* up to BatchLimit of the others (SKIP LOCKED: which ones is left open).
ClaimOutboxBatch(w) ==
  /\ Idle(w)
  /\ \E batch \in SUBSET {e \in Event : Due(e) /\ ~Exhausted(e)} :
       LET swept == {e \in Event : Due(e) /\ Exhausted(e)}
           taken == batch \ ClaimConflict
       IN  /\ batch \cup swept # {}
           /\ Cardinality(batch) <= BatchLimit
           /\ row' = [e \in Event |->
                        IF e \in swept THEN Swept(e)
                        ELSE IF e \in taken THEN Claimed(e, w)
                        ELSE IF e \in batch THEN Released(e, "failed", row[e].wait)
                        ELSE row[e]]
           /\ runs' = runs \cup {NewRun(e, w) : e \in taken}
  /\ UNCHANGED <<requeues, gaveUp>>

\* One transaction over every expired lease: back to pending, or to the DLQ
\* when the attempts are used up; a row the DLQ refuses stays as it is.
ReclaimStuckProcessing(w) ==
  /\ Idle(w)
  /\ \E e \in Event : LeaseLapsed(e)
  /\ row' = [e \in Event |->
               IF ~LeaseLapsed(e) THEN row[e]
               ELSE IF ~Exhausted(e) THEN Released(e, "pending", 0)
               ELSE IF e \in ArchiveConflict THEN row[e]
               ELSE Archived(e)]
  /\ UNCHANGED <<runs, requeues, gaveUp>>

-----------------------------------------------------------------------------
(* One run of a handler: processClaimedOutboxEvent *)

Becomes(r, s) == runs' = (runs \ {r}) \cup {s}
Ends(r) == runs' = runs \ {r}

Awaited(r) == r.stage = "running" \/ r.stage \in Verdict

\* runScheduledWorkerBatch starts the next queued job of a lane.
StartRun(r) ==
  /\ r.stage = "queued"
  /\ Cardinality({s \in runs : s.worker = r.worker /\ Awaited(s)}) < Concurrency
  /\ Becomes(r, [r EXCEPT !.stage = "running"])
  /\ UNCHANGED <<row, requeues, gaveUp>>

\* heartbeatOutboxLease from the interval timer: renews the lease it holds ...
Heartbeat(r) ==
  /\ Awaited(r)
  /\ Owns(r)
  /\ row' = [row EXCEPT ![r.event].lease = Lease]
  /\ UNCHANGED <<runs, requeues, gaveUp>>

\* ... and a refusal, or an error of the database, marks the ownership lost.
HeartbeatRefused(r) ==
  /\ Awaited(r)
  /\ ~r.lost
  /\ Becomes(r, [r EXCEPT !.lost = TRUE])
  /\ UNCHANGED <<row, requeues, gaveUp>>

\* Mutant of AssertLeaseForProviderIo: a lease shorter than the margin will do.
AssertLeaseOnly(r) ==
  /\ r.stage \in {"running", "abandoned"}
  /\ r.io < MaxIo
  /\ Owns(r)
  /\ Becomes(r, [r EXCEPT !.fence = Margin, !.io = @ + 1])
  /\ UNCHANGED <<row, requeues, gaveUp>>

\* assertLeaseForProviderIo before external I/O: passes on a lease that lasts
\* longer than the margin, renews a shorter one.
AssertLeaseForProviderIo(r) ==
  /\ r.stage \in {"running", "abandoned"}
  /\ r.io < MaxIo
  /\ Owns(r)
  /\ row' = [row EXCEPT ![r.event].lease = IF @ > Margin THEN @ ELSE Lease]
  /\ Becomes(r, [r EXCEPT !.fence = Margin, !.io = @ + 1])
  /\ UNCHANGED <<requeues, gaveUp>>

\* A stale run is stopped there: OutboxLeaseLostError, no acknowledgement.
AssertLeaseLost(r) ==
  /\ r.stage \in {"running", "abandoned"}
  /\ ~Owns(r)
  /\ Ends(r)
  /\ UNCHANGED <<row, requeues, gaveUp>>

HandlerReturns(r) ==
  /\ r.stage = "running"
  /\ \E v \in Verdict :
       /\ Becomes(r, [r EXCEPT !.stage = v])
       /\ gaveUp' = IF v = "permanent" THEN gaveUp \cup {r.event} ELSE gaveUp
  /\ UNCHANGED <<row, requeues>>

\* WORKER_EVENT_TIMEOUT_MS: the worker stops waiting and stops the heartbeat;
\* the handler goes on detached.
DeadlineExceeded(r) ==
  /\ r.stage = "running"
  /\ Becomes(r, [r EXCEPT !.stage = "abandoned"])
  /\ UNCHANGED <<row, requeues, gaveUp>>

\* The detached handler ends late and is not acknowledged, whatever it did.
AbandonedRunEnds(r) ==
  /\ r.stage = "abandoned"
  /\ Ends(r)
  /\ UNCHANGED <<row, requeues, gaveUp>>

\* The acknowledgement finds the ownership gone, before or inside the
\* transaction: status lease_lost, nothing is written.
AckLeaseLost(r) ==
  /\ r.stage \in Verdict
  /\ r.lost \/ ~Owns(r)
  /\ Ends(r)
  /\ UNCHANGED <<row, requeues, gaveUp>>

MarkOutboxSent(r) ==
  /\ r.stage = "ok"
  /\ ~r.lost /\ Owns(r)
  /\ row' = [row EXCEPT ![r.event] = Released(r.event, "sent", row[r.event].wait)]
  /\ Ends(r)
  /\ UNCHANGED <<requeues, gaveUp>>

\* markOutboxFailed with a permanent failure or no attempt left: to the DLQ.
\* When the DLQ refuses the row the error leaves the run and the row is kept.
MarkFailedTerminal(r) ==
  /\ r.stage = "permanent" \/ (r.stage \in {"retry", "defer"} /\ Exhausted(r.event))
  /\ ~r.lost /\ Owns(r)
  /\ row' = IF r.event \in ArchiveConflict
              THEN row ELSE [row EXCEPT ![r.event] = Archived(r.event)]
  /\ Ends(r)
  /\ UNCHANGED <<requeues, gaveUp>>

\* Mutant of MarkFailedRetry: it does not ask whether an attempt is left.
MarkFailedAlwaysRetry(r) ==
  /\ r.stage \in {"retry", "defer"}
  /\ ~r.lost /\ Owns(r)
  /\ \E delay \in 1 .. MaxDelay :
       row' = [row EXCEPT ![r.event] = Released(r.event, "pending", delay)]
  /\ Ends(r)
  /\ UNCHANGED <<requeues, gaveUp>>

\* markOutboxFailed with attempts left: retried after the delay.
MarkFailedRetry(r) ==
  /\ r.stage \in {"retry", "defer"} /\ ~Exhausted(r.event)
  /\ ~r.lost /\ Owns(r)
  /\ \E delay \in 1 .. MaxDelay :
       row' = [row EXCEPT ![r.event] = Released(r.event, "pending", delay)]
  /\ Ends(r)
  /\ UNCHANGED <<requeues, gaveUp>>

\* A deferral whose retry time is already past updates no row: it is taken for
\* a lost lease and the row waits for its lease to expire.
MarkDeferredTooLate(r) ==
  /\ r.stage = "defer" /\ ~Exhausted(r.event)
  /\ ~r.lost /\ Owns(r)
  /\ Ends(r)
  /\ UNCHANGED <<row, requeues, gaveUp>>

-----------------------------------------------------------------------------
(* The other writers of the rail, and the environment *)

\* cleanupObsoleteDealOutboxEvents of a deal that became terminal.
CleanupObsolete(e) ==
  /\ e \in Obsoletable
  /\ row[e].status = "pending"
  /\ row' = [row EXCEPT ![e].status = "sent"]
  /\ UNCHANGED <<runs, requeues, gaveUp>>

\* The admin action requeue_outbox_event.
AdminRequeue(e) ==
  /\ requeues < MaxRequeue
  /\ row[e].status \in {"pending", "failed"}
  /\ ~Exhausted(e)
  /\ row' = [row EXCEPT ![e] = [Released(e, "pending", 0) EXCEPT !.gen = @ + 1]]
  /\ requeues' = requeues + 1
  /\ UNCHANGED <<runs, gaveUp>>

\* The process dies: its runs vanish, their rows stay claimed.
Crash(w) ==
  /\ \E r \in runs : r.worker = w
  /\ runs' = {r \in runs : r.worker # w}
  /\ UNCHANGED <<row, requeues, gaveUp>>

Less(n) == IF n = 0 THEN 0 ELSE n - 1

Tick ==
  /\ row' = [e \in Event |-> CASE row[e].status = "processing" -> [row[e] EXCEPT !.lease = Less(@)]
                               [] row[e].status = "pending" -> [row[e] EXCEPT !.wait = Less(@)]
                               [] OTHER -> row[e]]
  /\ runs' = {[r EXCEPT !.fence = Less(@)] : r \in runs}
  /\ UNCHANGED <<requeues, gaveUp>>

-----------------------------------------------------------------------------

Acknowledge(r) ==
  \/ AckLeaseLost(r) \/ MarkOutboxSent(r) \/ MarkFailedTerminal(r)
  \/ MarkFailedRetry(r) \/ MarkDeferredTooLate(r)

RunStep(r) ==
  \/ StartRun(r) \/ Heartbeat(r) \/ HeartbeatRefused(r)
  \/ AssertLeaseForProviderIo(r) \/ AssertLeaseLost(r)
  \/ HandlerReturns(r) \/ DeadlineExceeded(r) \/ AbandonedRunEnds(r)
  \/ Acknowledge(r)

Next ==
  \/ \E w \in Worker : ClaimOutboxBatch(w) \/ ReclaimStuckProcessing(w) \/ Crash(w)
  \/ \E r \in runs : RunStep(r)
  \/ \E e \in Event : CleanupObsolete(e) \/ AdminRequeue(e)
  \/ Tick

Spec == Init /\ [][Next]_vars

\* What the scheduling justifies.  Time passes.  A worker polls for ever: it
\* reclaims, claims and starts what it claimed.  The per-job deadline timer
\* fires, and a verdict is written once it is known.  No handler need ever
\* return, no heartbeat need ever succeed, and a worker may die at any moment
\* (a supervisor restarts it, and its watchdog exits a cycle that stalls).
Fairness ==
  /\ WF_vars(Tick)
  /\ \A w \in Worker : WF_vars(ClaimOutboxBatch(w)) /\ WF_vars(ReclaimStuckProcessing(w))
  /\ WF_vars(\E r \in runs : StartRun(r))
  /\ WF_vars(\E r \in runs : DeadlineExceeded(r))
  /\ WF_vars(\E r \in runs : Acknowledge(r))

LiveSpec == Spec /\ Fairness

-----------------------------------------------------------------------------
(* Safety *)

\* At any moment at most one run, over all workers, restarts and abandoned
\* handlers, holds the lease of an event (the event_uuid + worker_id +
\* lease_generation + lease_expires_at fence of every outbox write).
AtMostOneOwner ==
  \A r, s \in runs : r.event = s.event /\ Owns(r) /\ Owns(s) => r = s

\* For the whole margin after assertLeaseForProviderIo passed, no other run can
\* own the event, whatever the reclaimers, the admin and the clock do: what a
\* money handler relies on when it calls the payment provider.
ProviderIoFenced ==
  \A r \in runs : r.fence > 0 => Owns(r) /\ row[r.event].lease >= r.fence

\* No worker burns more attempts than the budget of the event, and a job is
\* dead-lettered only when its budget is used up or its handler declared the
\* failure permanent: a crash, a lost lease or a requeue never costs the rest.
AttemptBudget ==
  \A e \in Event :
    /\ row[e].attempts > FirstAttempts[e] => row[e].attempts <= MaxAttempts[e]
    /\ row[e].status = "dlq" => row[e].attempts >= MaxAttempts[e] \/ e \in gaveUp

\* A lease that has not expired is ended only by the run that holds it, with the
\* verdict of its own handler: never by a reclaimer, a stale run, the cleanup
\* of a terminal deal, an administrator or the deadline.
LiveLeaseEndsByVerdict ==
  [][\A e \in Event :
       row[e].status = "processing" /\ row[e].lease > 0 /\ row'[e].status # "processing"
         => \E r \in runs : /\ r.event = e /\ Owns(r) /\ r \notin runs'
                           /\ r.stage \in Verdict
                           /\ (row'[e].status = "sent") = (r.stage = "ok")]_vars

(* Liveness *)

Settled(e) == row[e].status \in {"sent", "dlq", "failed"}

\* Every event is eventually settled for good - sent, dead-lettered or
\* quarantined - although handlers hang, workers die and leases are lost; a
\* row the DLQ refuses is exempt, see the README.
EveryEventSettles == \A e \in Event \ ArchiveConflict : <>[]Settled(e)

-----------------------------------------------------------------------------
(* The queue the rail implements *)

Phase(s) == CASE s = "pending" -> "open"    [] s = "processing" -> "held"
              [] s = "sent"    -> "done"    [] s = "dlq"        -> "dead"
              [] s = "failed"  -> "parked"

Queue == INSTANCE JobQueue WITH
  Job <- Event, Budget <- MaxAttempts, FirstTakes <- FirstAttempts,
  phase <- [e \in Event |-> Phase(row[e].status)],
  takes <- [e \in Event |-> row[e].attempts]

\* The rail is a queue that hands a job to at most one holder at a time, at most
\* Budget times, settles it once and never reopens what it settled.
ImplementsJobQueue == Queue!Spec
=============================================================================
