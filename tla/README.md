# SITON group deals: TLA+ models and proofs

TLA+ modules beside the server of this repository (`src/*.ts`, the migrations
and the inventory RPC of `supabase/staging`).  Line numbers are those of
`src/app.ts` unless another file is named.

## 1. The system

A seller publishes a *deal*: units, a minimum, a deadline.  Buyers *join*: the
payment provider holds an authorisation on their card.  Above the target
(`threshold_units`, 90% of the minimum rounded up) the deal is charged; below it
at the deadline it fails and the holds are released.  Everything that calls the
provider, and everything that happens later, is a row of an *outbox* that worker
processes claim under a lease.

| Component | State | Operations | Talks to | What makes it correct |
|---|---|---|---|---|
| Outbox rail and worker (`outbox_worker_helpers.ts`, `worker.ts`, `worker_scheduler.ts`, `processClaimedOutboxEvent` of `app.ts`) | `outbox_events`, `outbox_dlq`; the jobs a process runs | claim, heartbeat, provider-I/O fence, acknowledge, reclaim, dead-letter, requeue | every handler below, by event type | one owner of a job; a fence that outlasts the I/O; attempts never over budget; every job settled |
| Deal lifecycle (`/deals` routes, `deadline_check`) | `deals`, `participants`, `inventory_deals` | publish, cancel, delete, join, close, reopen, prepare_charging, charging/start, deadline_check | inventory RPC (same transaction), outbox | no overselling; a deal charges or fails, never both; participants move with it; every deadline decided |
| Money rails (`payment_attempt_helpers.ts`, the handlers `charge_deal`, `recovery_deal`, `payment_release`, `payment_reconcile`) | `payment_attempts`, `money_state` of a participant | begin, arm, dispatch, settle, retire, reconcile | provider, outbox leases | no second money effect for one obligation while the first is unresolved; an answer is never overwritten by a guess |
| Deal settlement (the decision of `finalize_deal`, `refund_issue`, the reconciliation of refunds) | `deals.state`, participants, refund attempts, cases | the handlers | money rails, outbox, provider | one outcome; whoever is captured in a failed deal is paid back once, or somebody is told |
| Webhook ingestion (`webhook_ingestion.ts`, the route of `frontend_runtime.ts`, `ingestPaymentWebhookEvent`) | `webhook_events`, the newest attempts, the ledger | claim, classify, apply, mark, stale reclaim | money rails | each event has its effect at most once; a capture that contradicts the books is escalated |
| Authorisation bindings (`payment_binding.ts`, the authorize, status and callback routes, the gate of `charge_deal`) | `payment_authorization_bindings` | reserve, complete, confirm, consume, renew | Join, charge, provider | one hold per intent, and known; a Join rests on money that was approved; a capture is taken from the authorisation that is valid |
| Seller payouts (`payout_rail.ts`) | settlement, batch, items, cases, payout attempts | prepare, dispatch, reconcile, attest | provider, refunds, freezes | nothing is paid twice; what the provider says ends in the books or with an operator |
| Invoices (`invoice_dispatch.ts`) | `invoice_documents`, reconciliation cases | enqueue, issue, reconcile, reclaim, webhook, retry | outbox, provider | what the provider issued is on record or before somebody |
| Notifications (`notification_dispatch.ts`) | `notification_events`, `notification_attempts` | enqueue, claim, send, record, write, reclaim, retry | own claim, worker maintenance | sent within a budget, not given up before it is spent |
| Storage of deal images (`seller_deal_image_routes.ts`, the duplication and deletion of deals, `processStorageCleanupBatch`) | `deal_images`, `storage_cleanup_tasks`, the objects | upload, remove, duplicate, drop, clean up | object storage, worker maintenance | no image without its object, no object that nobody shows |
| One-time passwords (`otp_rail.ts`) | challenges | issue, verify | routes | attempt caps hold under concurrency |
| Fulfilment, administration, pages, adapters | see `PROJECT.json` | | | |

**What is hard.**  Workers die between any two transactions; a lease may expire
while its holder goes on, so that a job runs twice at once and the elder run
ends last; a per-job deadline abandons a handler that cannot be stopped.
Handlers and routes read in one transaction and write in a later one.  A failed
transaction of a sequence is retried from its start.  The provider may not
answer, and answers late.  Attempts, capacity and deadlines meet their limits at
equality.  Each is a row of `hazards` in `PROJECT.json`, with its line.

## 2. Modules

```
JobQueue      <-- refines --  OutboxWorker   <-- EXTENDS -- OutboxWorkerProofs,  MCOutboxWorker
GroupDeal     <-- refines --  CalmDealLifecycle <-- EXTENDS -- DealLifecycleProofs, MCDealLifecycle
                                 `- EXTENDS --> DealLifecycle
MoneyRails           <-- EXTENDS -- MoneyRailsProofs, MCMoneyRails
AuthorizationRenewal <-- EXTENDS -- AuthorizationProofs, MCAuthorizationRenewal
PayoutRail, WebhookIngestion, DealSettlement,
AuthorizationIntents, InvoiceRail,
NotificationCourier, ImageStore               <-- EXTENDS -- MCComponents
                    WebhookIngestion          <-- EXTENDS -- WebhookIngestionProofs, MCWebhookIngestion
                    DealSettlement            <-- EXTENDS -- DealSettlementProofs, MCDealSettlement
                    PayoutRail                <-- EXTENDS -- PayoutRailProofs
                    AuthorizationIntents      <-- EXTENDS -- AuthorizationProofs
InvoiceRail, NotificationCourier, ImageStore  <-- EXTENDS -- SideRailsProofs
```

The modules meet at promises.  OutboxWorker proves what the others take of a
lease (`ProviderIoFenced`: it outlasts the request that is sent under it).
MoneyRails shows what a decision knows of a capture (`DecisionKnowsTheMoney`),
and DealSettlement starts from there.  AuthorizationRenewal refines one step of
MoneyRails, the gate before a capture, which MoneyRails lets always pass, and
AuthorizationIntents says how the binding it starts from came about.
`MCComponents` holds seven modules that share no state, so that one run checks
all: its variable `component` says which of them moves.

### OutboxWorker

`row` is `outbox_events` with `outbox_dlq` (status `dlq`); `runs` are the handler
runs of live processes.  Every transaction of `outbox_worker_helpers.ts` is an
action of the same name; the steps of `processClaimedOutboxEvent` between them
(start, timer, deadline, verdict) are actions of their own, so that anything may
come between.  Time is ticks left; delays are any value up to `MaxDelay`, lanes
are one limit `Concurrency`.  A worker claims and reclaims only when it awaits
no run (`processCycle`), but runs it abandoned go on.

Facts the model makes visible:

- a job that is claimed and queued for its lane has no heartbeat; if its lease
  lapses there, the start still happens and the first fence stops it;
- an abandoned run can still renew the lease through
  `assertLeaseForProviderIo`, although the comment at the deadline branch says
  that the lease is no longer renewed and the reclaimer takes over;
- a deferral whose time is already past (`MarkDeferredTooLate`) updates no row
  and is taken for a lost lease; the job waits for its expiry;
- a row at its cap that the DLQ refuses stays `processing` for ever and is
  skipped by each reclaim: `EveryEventSettles` exempts exactly these rows;
- the proof of `ProviderIoFenced` needs `Margin <= Lease` (13 s and 60 s in the
  configuration).

### DealLifecycle

One deal.  A request or run that uses several transactions is several actions
and what it keeps in between is in `call` and `run`.  A Join is `JoinLock`
(`FOR UPDATE`, state and deadline checked) and `JoinCommit` or `JoinRollback`:
whoever only reads is not stopped by the lock.  Left out, because they change
nothing here or only refuse: idempotent replays of publish, cancel,
prepare_charging and charging/start; authorisation; the emergency flags of
administrators (an action may always stay out); editing of drafts except what
it does to the deadline job (`early`).  A client that reuses its own key on
close or reopen is not modelled, nor is the legacy inventory path the test
harness uses.  Hold and commit share the transaction of the Join, so a hold
never expires between them.  The `deadline_check` job follows OutboxWorker as
far as a handler can tell: claimed, reclaimed with its old run going on,
retried until `MaxAttempts`.

After `ReopenFollowsTruth` fails, the deal is above its target in
`PendingTarget`: Joins do not transition it (the inventory reports the
transition once) and the deadline run leaves it.  The seller must pause it and
prepare it.

`CalmDealLifecycle` adds `calm`: in a calm behaviour there is one request and one
run at a time.  Overlapping requests break what one alone keeps true (finding
1), so that `StateFollowsUnits` and the refinement of `GroupDeal` are claimed of
the calm behaviours only, and everything else of both.

Units are counted one by one (`UnitsOf` is the set of them), since the laws of a
cardinality can be cited and those of a sum cannot; `CountIsSum` in
`MCDealLifecycle` compares the two for every set of its buyers.

### MoneyRails

One participant of a deal that is being charged.  `at` is `payment_attempts`
(one row per identity), `buyer` and `money` are the participant's two states,
`deal` and `window` the deal's.  `run` holds the handler runs: a run is a program
counter with the identity it works on and what it remembers, and each
transaction and each provider call of the five handlers is an action, so that
another run, a callback, a death or a lost lease comes between any two.
`job` is the outbox as far as handlers see it: pending, held or none, with one
live job of a kind (the index of `outbox_events`).  The provider is `wire`
(requests that may still be executed), `executed`, and `sent`.

A provider is its ambiguity policy: does it deduplicate a repeated identity,
does a negative status prove that nothing was executed, may it settle late.
The four of the repository are `Providers` in `MCMoneyRails`.

What is trusted of the provider: an answer of success or decline is true; a
status tells the truth about what was executed, and what is not visible yet is
still on the wire; nothing is executed after the horizon it declares; a
synchronous provider is through with a request before the lease of its sender
ends; captured money is not released.  The lease lasts from the arm to the send:
that is `ProviderIoFenced`, proved of OutboxWorker.

Left out or merged: renewal of an authorisation (the gate lets every capture
proceed, see AuthorizationRenewal); refunds (see DealSettlement); a mismatch of
amount, currency or reference, and a missing reference, are one answer
`foreign`; operational cases are not state; the claim of a provider event, its
effect and the mark of its result are one step, and so are an ingested event or
an applied release and the settlement that follows it.  The other participants
are one choice made when the window closes (`others`): they meet the threshold,
or miss it, or this participant's capture decides.

Facts the model makes visible:

- at a policy horizon of 0 the arm passes null (`payment_attempt_helpers.ts`
  597), the row keeps no instant and an inferred failure is fenced for ever; the
  comment at 575 says that it still carries one;
- the release rail, unlike recovery and finalize, takes no second look at the
  capture when the horizon is over: it relies on the provider to refuse the
  release of captured money;
- `Refusing` excludes the providers that deduplicate from the passing runs.  With
  them finding 3 reaches further: the row of a request that is still on the wire
  is retired, and `DecisionKnowsTheMoney` fails.

### AuthorizationRenewal

The gate of `charge_deal` (`ensureUsableAuthorizationForCapture`, 3330 on), the
capture loop around it and `payment_reconcile` of a renewal and of a capture,
for one participant with a stored instrument.  Authorisation 0 is the one of the
Join, authorisation n the one that renewal n makes; the binding names the one in
use, and every request names the one it was sent on.  `lapsed` are those the
provider no longer honours; whether it *declares* how long they last, and
whether a negative status is *conclusive*, is the provider's choice.

Facts the model makes visible:

- a run reads the binding in one transaction and begins the renewal in another;
  when a second run applies its renewal in between, the first begins a fresh one
  (`docs/LONG_HORIZON_AUTHORIZATION_ARCHITECTURE.md:111-112` rules it out).
  `RenewedWhenExpired` exempts this case;
- a renewal whose adapter fails before it sends is disarmed and *blocks* the
  capture (`capture_blocked_by_unresolved_reauthorization`), and the run returns
  without holding the window, though 3475 says that the capture proceeds on the
  original authorisation and 3557 that the deal stays `Charging`.  A case is
  opened, so that `NobodyPassedOver` holds;
- a run that lost its lease settles the renewal between its successor's read and
  arm; the arm is refused and the gate skips the participant without a hold.  The
  window opens with nobody charged and no case.  `NobodyPassedOver` exempts it,
  and the capture that such a run settles and does not ingest;
- a reconciliation, or an owner that lost its lease, that was told of renewal 1
  and writes late puts authorisation 1 back over authorisation 2, with no expiry:
  `applyAuthorizationRenewalInTx` (`payment_binding.ts` 621-659) compares the
  reference it applies with the current one only, and `settleAttemptInTx` is
  content with a row that is a success already.  It is in reach of the run: the
  reconciliation reads `authorized`, `charge_deal` proves the same renewal,
  applies it, has its capture refused as unusable and renews again, and the
  reconciliation concludes.  No money moves by it: the next capture goes out on
  the older authorisation, and the provider decides on that.  Section 5 says what it
  does to a third renewal.

Left out: the use of the gate by recovery; release conflicts and settlement horizons (MoneyRails'); amount,
currency and reference mismatches.  Every adapter that renews deduplicates by
identity, and so does the model's provider.

### AuthorizationIntents

One buyer and deal before the Join.  `visit` are the requests to authorize,
each with its idempotency key; `intent` is the binding of a key, `page` what the
provider made for a visit.  A hosted provider (Grow) is asked behind a
reservation and holds the money when the buyer approves; the others
(`AskDirectly`, `BindDirectly`) hold it at once.  The poll of the buyer, the
callback and the sweep are one step each in `LookUp` (the provider's answer) and
one in `Confirm` (the transaction that books it), so that a lookup may be old
when it is booked.  `qty` stands for quantity and amount, which the server
prices; the buyer may approve, and the provider state, another amount.

Facts the model makes visible:

- an intent whose answer was lost stays reserved for ever, or is marked with the
  error code; `completeAuthorizationCreation` asks for the bare
  `provider_create_outcome_unknown` (`payment_binding.ts:189`), which
  `markAuthorizationCreationOutcome` never writes (247 appends the code);
- a binding is confirmed without comparing when the provider states no amount:
  `JoinedOnProof` exempts these, and only these;
- a hold that lapsed at the provider still carries a Join while its binding has
  not expired.

Left out: one-time passwords and the state of the deal before the request, the
stored payment methods, and a Join under lenient enforcement, which needs no
binding.

### DealSettlement

What a decision owes: the end of `finalize_deal`, `refund_issue` over the
participants it finds captured, and `payment_reconcile` of a refund.  `paid` is
who was captured, fixed before the decision; `refund` are the attempts of type
refund, `transit` and `paidBack` the provider's side.  The provider
deduplicates by identity and executes two identities twice.

Facts the model makes visible:

- a reconciliation that finds the refund not executed enqueues `refund_issue`
  again `ON CONFLICT DO NOTHING`; while a `refund_issue` of the deal is at its
  last participants the insert is dropped, and that run does not see what was
  just closed (2657; `docs/PAYMENT_RECONCILIATION_RUNBOOK.md:144` says that it is
  re-armed once).  `NobodyForgotten` exempts the participant;
- a refund that was executed and whose reconciliation was dropped is found only
  by the provider's own `refund_issued` event;
- refund verdicts wait for no settlement horizon (finding 5).

Left out: the window and fence checks, the capture-identity check and releases
(MoneyRails'); the branch blocked by an unresolved capture and the disarmed
dispatch (`rails_disarm`); a refund of a deal that is not `Failed`, and
`cancel_refund`; mismatches of amount, currency and reference; receipts,
notifications and fulfilment.

### WebhookIngestion

The provider's events about one participant, at least once and in any order.
`server` carries a delivery through its transactions: claim (with a token),
reclaim, target (`Classified` is the table of transitions), evidence,
escalation, effect, mark.  `attempt`, `ledger`, `buyer` and `money` are what it
reads and writes, and the jobs of the deal move them too.

Facts the model makes visible:

- a delivery that meets a young claim is answered 200 (finding 4);
- an event classified `failed` is answered 200 as well and not delivered again;
- the amount is compared only for an event that would be `processed`;
- an event that names an identity of another family settles no row but is
  escalated; one that names no identity of ours moves no money.

### PayoutRail

The money of a completed deal on its way to its seller.  Every transaction takes
the deal's lock and is one action; the calls of the payout provider lie between.
`open` are the blocking cases by type, `attested` the operator's word that a
payout failed.

Facts the model makes visible:

- a worker stalled before `createPayout` may send it after an operator attested
  that nothing was sent; the batch is then booked as failed while its payout
  lives, which `NoBatchForgotten` exempts (`attested`);
- an `unknown` result opens `dispatch_outcome_unknown` on a batch that was
  reconciled meanwhile, and nothing closes it;
- reconciliation matches amounts only, and payout webhooks have no consumer
  (`parsePayoutWebhookEvent` has no caller);
- a refund after `reconciled` opens no case;
- a prepare during a freeze leaves the settlement `pending` and its job `sent`;
  nothing enqueues it again (`docs/ADMIN_INTERVENTION_RUNBOOK.md:55`: to
  unfreeze only releases the flag).  A failed enqueue of the prepare is swallowed at 4633.

Left out: the comparison of the item total with the batch total.

### InvoiceRail

One receipt.  The rail uses no transactions, so that each statement of
`processInvoiceDocumentById` and `reconcileInvoiceDocumentById` is an action, and
a run (`scribe`) that lost its lease goes on beside its successor.  `receipt` is
the document row, `docjob` the newest row of its two jobs, `paper` the
provider's side.  `Frozen` is the trigger of migration 078, which refuses to
issue a document twice or to return it to `pending`.

Facts the model makes visible:

- a run that stops between the issue of the document and the insert of its
  reconciliation leaves a document that is issued and never reconciled;
- a status answer that is lost is a mismatch: the document becomes `failed` with
  a blocking case although it matches;
- two reconciliations that overlap may leave the document `failed` with its
  cases closed (`NoReceiptForgotten` exempts it, `breaks > 0`);
- a refused receipt that an administrator retries gets no job
  (`admin_control_plane.ts:307`): the row that failed it is `sent`.

Left out: `flushPendingDocuments`, which nothing calls on this path, and the
compatibility path without `createDocument`; amounts.

### NotificationCourier

One message.  `courier` are the flushes of the workers: claim, gate and provider,
record of the attempt, final write, each on its own.  `tally` counts claims and
what the provider took; `holds` says whether a courier's claim is still the one
of the row, which the code does not know.

Facts the model makes visible:

- a claim has neither lease nor generation.  A courier that was taken for dead
  writes its result over the one of its successor, `sent` and `failed` included,
  and a temporary failure counts from the claim: the budget starts anew (`late`).
  Each courier that was disturbed, and each retry of an administrator on top of
  one, may then cost a whole budget (`BudgetDisturbed`); without a late write a
  retry costs one attempt (`BudgetKept`);
- a send that succeeded and whose `recordAttempt` fails is a temporary failure,
  and the message is sent again;
- a message given up as `failed` may have been delivered.

`docs/OPERATIONAL_RUNBOOKS.md:118` promises no duplicate send, the comment at
`notification_dispatch.ts:481` bounded at-least-once; `WithinBudget` states the
comment.  Left out: templates, schedules, and what the recipient gate looks at
(its verdicts are answers of `Send`).  The provider of the repository only logs.

### ImageStore

One object and the deals that show it: a duplicated deal refers to the object of
its original.  `request` is the open transaction or the rest of a request about a
deal; `cleanup` is the live task of the key, `cleaner` the claims of it.  The
storage is outside every transaction, and a transaction sees what the others
have committed.

Facts the model makes visible (`torn` and `crossed` are these cases, and
`ImagesHaveObjects` holds of all others):

- a duplication reads the images without a lock.  Beside the removal of the last
  reference it commits an image whose object is gone;
- two removals of the last two references at once each see the other's, and
  neither deletes the object;
- a cleanup that judges before the deletion of the deal commits, or one already
  claimed that takes in the request of a later deletion, ends without deleting;
- an upload whose process dies between the object and its row leaves an object
  nothing refers to.  Only the administrator's report of orphans shows these;
- a stranded cleanup is claimed again whatever its `attempt_count`: `max_attempts`
  is compared after a failure only;
- the deletion of a deal takes a second connection of the pool while it holds
  one (`enqueueStorageCleanupTask`).

Left out: quotas, order and the primary image, replay of an upload by its key,
and a change of storage provider (`local_provider_retired`, mismatch).

## 3. Runs

| Run | Question | Size |
|---|---|---|
| outbox_safety | can two runs own a job, a fence be broken, a budget exceeded; is it a JobQueue | 2 workers, 2 events, 2 attempts, lease 3, margin 2 |
| outbox_liveness | is every event settled, those beside a row the database refuses too | 2 workers that may die at any time; rows refusing claim or archive, one at its cap, 1 requeue |
| deal_safety | overselling, split deals, both outcomes; is every deadline decided; calm: is it a GroupDeal | 3 buyers of 1, 1, 2 units for 3, 2 requests, 2 runs, 2 attempts |
| deal_reopen | does a reopening follow the units (comment at 7858) | violated: finding 1 |
| deal_unwind | is a failed deal unwound (threat model S12) | violated: finding 2 |
| rails_two_workers | is money captured twice, repeated blindly, or settled by a stale worker | 2 runs, 1 identity of each kind, 1 lost lease or given-up job, 4 providers |
| rails_one_worker | do release, recovery and the decision agree with the provider | 1 run at a time of all 5 jobs, same bounds |
| rails_disarm | does a recorded row mean that nothing was sent (comment at `payment_attempt_helpers.ts` 28) | violated: finding 3 |
| renewal | is anything renewed or captured beside an unresolved request; is anybody passed over | 2 runs, 2 authorisations after the first, 2 captures, 1 turn |
| components | payouts, webhooks, refunds, authorizations, documents, messages and images, each on its own | 2 payers, tellers, servers, joiners, hands, intents, visits, askers, scribes, couriers, deals and cleaners; 1 mishap each, 2 of a document or a message; 7 stories; 2 sends, 1 retry, 2 cleanup tries |
| webhook_swallowed | does a retry of the provider recover a delivery that died | violated: finding 4 |
| settlement_refund_twice | is a refund executed once | violated: finding 5 |

**Bounds.**  Two workers, or two runs of one job, are the least with a stale one;
a third would only repeat the second's conflict, since every fence compares with
the row.  Two attempts give a retry and an exhausted one.  Three Joins for three
units with quantities 1, 1, 2 and a target of 2 meet the target at equality and
above it, fill the capacity and refuse a Join for lack of units.  `MaxIo` and
`MaxRequeue` bound what a handler and an administrator may repeat.

The runs of `DealLifecycle` say `CHECK_DEADLOCK FALSE`: a deal that failed or
was handed to charging has nothing more to do.

MoneyRails: one charge and one recovery are already two identities of one
obligation, which is what a double capture takes.  A second identity of a kind is
minted behind a proof that the first failed, but with it `OneCapture` depends on
how long a run may live (section 5), so that the run is about one of each; beyond,
the theorems of section 4 say under which condition it holds.  Two runs are the stale one
and its successor, or two rails.  `MaxLost` = 1 gives a lost lease with the run
going on, or a job out of attempts; retries themselves are not bounded.  With
two runs the jobs are restricted by provider (`TwoWorkerScopes`): recovery
against charge where a negative status proves something (for the others the
fence never opens), charge, reconcile and finalize elsewhere.  With one run all
five jobs are possible with every provider, and the same run stands for any
sequence of workers.  The runs say `CHECK_DEADLOCK FALSE`: a settled deal stops.

AuthorizationRenewal: two authorisations after the first are what it takes to
apply the wrong one; an authorisation lapses only while a renewal is left for
it.  `MaxTurns` = 1 counts lost leases, abandoned jobs and second renewals and
captures together: one disturbance, at any point.  DealSettlement: `MaxMishaps`
counts lost leases, abandoned jobs and second refund identities alike; with
`Needed` = 2 of two participants a failed deal has at most one who is owed
money, and the run with one participant (finding 5) shows a second identity.
PayoutRail: `MaxLapses` = 1; a second createPayout is in reach, a third adds
nothing that the second does not.  WebhookIngestion: the seven stories pair the
events that the table treats differently: repeated, reversed (recovered before
charged), foreign, of another family, with the wrong amount, captured and
refunded; `MaxTrouble` is one death, failed transaction or slow server.  AuthorizationIntents: two visits under two keys or under one, which is what a
second page for one intent takes, and two lookups that are booked in either
order.  InvoiceRail: two runs, and `MaxBreaks` = 2, since a run that lost its
lease and the death of its successor are two.  NotificationCourier: two hitches
are a stall and the failure of the successor; two sends and one retry reach the
budget from both sides.  ImageStore: two deals are an original and its copy, and
a cleanup that fails twice gives up.  All these stop when everything is settled, so that their runs say `CHECK_DEADLOCK
FALSE`; that they do not stop *early* is `NobodyForgotten`, `NoBatchForgotten`,
`NoReceiptForgotten` and `NobodyPassedOver`, which look at the states in which nothing more is due.

Symmetry is over workers, runs, participants or clerks that the initial state
does not tell apart, and only in runs without liveness properties;
`ImplementsJobQueue` and the other temporal properties checked there are
initial predicates and box-actions.

**Fairness.**  OutboxWorker: time passes; each worker polls (the loop of
`startWorker`, a supervisor and a watchdog that exits a stalled process);
started timers fire; a verdict that is known is written.  No handler need
return and no heartbeat succeed.  DealLifecycle: the clock, the end of a
transaction that has the row lock (`lock_timeout`, or the death of its
session), and the workers; no seller and no buyer need act.

WebhookIngestion (`WebhookLiveSpec`, for finding 4): the provider repeats until
it is answered with 200, a live server goes on, claims grow old and the sweep
runs.

The other modules are checked for safety only.

## 4. Proofs

Each proof module EXTENDS the modules it is about and has, for each, a type
theorem and the safety properties the runs check, for every value of the
constants that the module's ASSUME allows: any number of workers, runs,
participants, identities, losses.  The ASSUMEs keep the null values out of the
sets of names, bounds natural, and say nothing about the size of anything.  No
property is inductive alone; what follows is what had to be added, and why.

**OutboxWorkerProofs** (`ConstantsAssumption`): `TypeOK`, `AtMostOneOwner`,
`ProviderIoFenced`, `AttemptBudget`, and the action property
`LiveLeaseEndsByVerdict`.  The invariant says how a run relates to its row: its
generation is not above the row's, and the run with the row's generation is the
only one and was started by the worker written there.  From this the fence of
every write (worker and generation and unexpired lease) names one run.
`RailIsQueue` is the refinement: under the mapping of `ImplementsJobQueue` every
step of the rail is a step of `JobQueue` or a stutter.

**DealLifecycleProofs** (`DealAssumption`): `TypeOK`, `NeverBoth`,
`ChargedTogether`, `OpenDealAcceptsJoins`.  `DealInv` joins types, *knowledge* (a
Join that has the lock sees an open deal; what a request remembers is a state it
can have read; a run past its transition runs in a failed deal) and
*consistency* (holds stand in step with the deal; the inventory was never closed
before the first Join synced it).  `NeverBoth` rests on the compare-and-swap of
`FailDeal` against the row lock of `prepare_charging`.

- `NothingOversold`: `CapacityHeld`.  `Counted` ties the inventory to the units of
  who joined, its `reached` flag to the target; who has the row lock has not joined
  yet (`LockedNew`), so that no Join is counted twice.
- `CalmStateTells`: `CalmStateFollowsUnits`, for any number of Joins with one
  request at a time.  What `reopen_joining` read is so until it swaps
  (`ReadHolds`): only a request opens a paused deal.  This is the step that two
  requests break (finding 1).  What a deadline run counted in a paused deal is so
  until it fails it (`CountHolds`), since it counts when nobody can join any more
  (`DecidesLate`); in an open deal its swap is on `PendingTarget`, which says it.
- `CalmDealIsGroupDeal`: the refinement of `GroupDeal` by the calm behaviours, from
  the two before.

**MoneyRailsProofs** (`RailsAssumption`): `TypeOK`; `NoBlindRepeat`; the action
property `InFlightUndisturbed`; `MoneyFollowsProvider`.  `TypeInv` adds where a run
can be with which job (`Places`), that identities of a rail are numbered without
gaps (`Contiguous`, which is how a fresh one is known to be fresh), and that what
is on the wire was sent.  `SendInv` adds one holder per lease, and `Armed1`: from
its arm to its send a row is its run's, dispatching, unless its capture was
reported meanwhile.  `NoBlindRepeat` then follows
from `Unrepeated`: of a provider that does not deduplicate, an identity that is
recorded or about to be sent was never sent.  `RailsAssumption` takes a negative
status for final only of providers that deduplicate, as the four of the
repository do.  `Backed` says that a row that is a success, and whatever a run was
told, was executed by the provider; `MoneyFollowsProvider` is its conclusion.

What the rails promise together is in four theorems, each with the hypotheses its
argument needs, and in `MoneySafe`, which has them all for one identity of a kind.

- `NeverSent`: `RecordedNeverSent`, where no adapter of a provider that
  deduplicates fails before it sends.  Finding 3 shows that the others break it.
  The next three take it as a hypothesis, since it is the repository's own
  definition of a recorded row.
- `CapturedOnce`: `OneCapture`.  `OnlyLatest`: of the captures one at most, the
  latest, can still be executed or was.  `Closed` and `Answered` say why the others
  cannot: a declared failure is the provider's answer, and nothing is under way any
  more for an inferred one whose horizon is past.
  `Turns` orders the rails (no recovery while the charge is waited for) and
  `Recoveries` what a run of recovery has seen when it begins its own.  A recovery
  reads twice and begins later; between, with a second identity of a kind, an
  inferred failure may turn out to be a capture if its horizon ends just then
  (section 5).  Hence the hypothesis `MaxIds` = 1 or `Unhurried` at every step.
- `ReleasedOrCaptured`: `NeverReleasedAndCaptured`, for every number of identities
  and every hour: releases are asked for when the participant is through
  (`ReleaseLast`), and a release that is minted finds no capture under way
  (`ReleaseBars`).
- `DecisionKnown`: `DecisionKnowsTheMoney`.  `Knows` follows a finalization through
  its looks, the fence and the sum (each place adds what is known of every capture),
  and `KnownAfter` is what remains when the deal is decided.  Charges have to be
  begun before the window is over (`InTime`); for one identity of a kind this
  follows (`ChargeBegun`: the window opens behind the first charge), for more it is
  a hypothesis, and section 5 tells what happens without it.

**DealSettlementProofs** (`SettlementAssumption`): `SettlementTypeOK`,
`PaidBackTwiceOnlyIfMisjudged`, `NobodyForgotten`.  `Keeps(h)` says once what any
step of a run may do to rows, jobs and money, `Ordered(h)` where the run then is;
`StepInv` derives the whole invariant from the two, so that each action has to
show only these.  `OneMay`: of a participant nobody misjudged at most one
identity is unknown, on its way or about to be sent, because a fresh one is
minted only when none is unresolved.  `Outcomes`: whoever is settled is settled as
it was decided, and a run past its list has settled all.  `Custody`: before
`refund_issue` ends, whoever is owed is paid back, before an operator, or has an
identity that is unresolved or refused.

**WebhookIngestionProofs** (`WebhookAssumption`): `WebhookTypeOK`, `OnlyOwnMoney`,
the action property `FinishedForGood`, and `RealMoneyKnown`.  The invariant carries
what a server resolved through its transactions (`ResolvedTruly`: the state that it
read still says what its verdict needs), how attempts and money go together
(`Courses`, `Captures`), and that what is finished, or is about to be, is known
(`Finished`).  `MoneyLedgered` is the first half of `RealMoneyKnown` and needs
nothing else.  The second half (two captures of one obligation are before an
operator) has the hypothesis `Straight`: no recovery is reported under the identity
of the charge.  Without it TLC refutes the second half (section 5); the stories of
the run satisfy it.

**PayoutRailProofs** (`PayoutAssumption`): `PayoutTypeOK`, `PaidOutOnce`,
`NoBatchForgotten`.  The argument is the order in which things come to exist
(`Made`), that there is one permission to call the provider and a call uses it up
(`OnePermit`), that what a run was told is final or moves on (`Told`), that a
refusal in the books has a ground (`Grounds`), and that every state of a batch has
somebody who has it (`Held`).

**AuthorizationProofs** (`IntentAssumption`, `RenewalAssumption`).

- Intents: `IntentTypeOK`, `OneKnownHold`, `JoinedOnProof`.  The row of a key is
  written by the one visit that reserved it (`Rows`, `Owners`), and what it says of
  its page was looked up at the provider (`Proofs`), which neither forgets nor
  changes a hold.
- Renewals: `RenewalTypeOK`, `RenewalsAreTrue`.  `AtPlace` says which kind of
  request a run has where it works on one, `ToldOf` that whatever it was told of it
  is what became of it, and `SubjectKnown` that a reconciliation is about a request
  of the participant.  What is decided at the provider stays decided, so that a
  verdict is true however late it is written, by whatever run.  Every action shows
  only `Follows`, what a step moves; `RenewalFollows` derives the invariant from it.
- Nobody passed over: `NobodyPassedOver`, from `PassInv`, which relates the runs to
  the rows.  `RowsStand`: a row that was not begun is blank, one that is dispatching
  is unresolved, renewals are minted in order.  `JobsStand`: a job has one live run
  at most (`LiveOne`), and `charge_deal` is over for one who waits only if it is
  `Excused`: a case is open, or a lease was lost and a renewal is settled.
  `RunStands`: what a run has begun and owns, which hold it was told of, and with
  what it ends.  `RowsGo` says what a step may do to the rows; `PassFollows` derives
  the invariant from it and from the place the run goes to.
- Renewed when expired: `RenewedWhenExpired`, twice.  A run is `Renewing` from the
  gate to the send, over four transactions, and never asks the binding again.
  `Outdated` is what the property wants when it sends: what it read has been
  replaced, or expired.  `StepTurned` shows that only the gate makes a run
  `Renewing`, and `StepMoves` what a step does to the binding: it takes another
  authorisation, or its own is past.  What was replaced is `Outdated` for as long as
  it does not come back, and `DueInv` shows that this takes two renewals that were
  made: with two renewals in all there is then none left to send
  (`RenewedOnlyWhenExpired`, for any number of runs, captures and disturbances; the
  instance of the run is one of these).  For any number of renewals
  `RenewedOnlyWhenExpiredForward` assumes `Forward`, that no late run applies a
  renewal that a later one has replaced; TLC shows that it is false without
  (section 5).

**SideRailsProofs** (`InvoiceAssumption`, `CourierAssumption`, `ImageAssumption`):
types, and `NoReceiptForgotten`, `WithinBudget`, `ImagesHaveObjects`.

- Receipts: the trigger freezes what has a reference, an issue job is acknowledged
  only behind a reference or a refusal, and while no lease was lost one run at a
  time reconciles.
- Messages: `Budgeted` counts budgets.  The message has one until it is decided,
  each stalled courier keeps the one it counted from, and the others are used up;
  claims are never above what is spent of all of them.  The sum over the couriers
  is the cardinality of a set of pairs (`Owed`): the laws of a fold would need
  induction over data.
- Images: `JudgementsHold` (whoever acts on the judgement that nobody else refers
  is right but for the torn copies), `ClaimsFenced` (one claim is the newest),
  `OneAtATime` and `SomebodyCares` (a stored object has a reference or somebody on
  whom its removal depends).

**Only model-checked.**

- Liveness (`EveryEventSettles`, `DeadlineDecides`): fairness and ENABLED are out
  of the prover's reach.
- AuthorizationRenewal: `OneRequestAtATime`, which is false beyond two disturbances
  (section 5), so that it has no theorem for every `MaxTurns`.
- `TypesOK` of MCComponents is the conjunction of the types of the seven components
  that the run holds; each conjunct is a theorem about its component.

## 5. Findings

Each is a run that TLC ends with the interleaving.

1. `deal_reopen`: the destination of a reopening is computed before the
   transaction that swaps on the state alone.
2. `deal_unwind`: a `deadline_check` that stops after the commit of `Failed`
   leaves participants joined and holds live; the retry sees `Failed` and
   returns.  `finalize_deal` has the same order (4922).
3. `rails_disarm`: a row that was sent once, found unexecuted and sent again
   returns to `recorded` when the second dispatch fails before the adapter sends.
   `recorded` then no longer means that nothing left the process, which the
   retirement of such rows relies on.
4. `webhook_swallowed`: a delivery that meets the young claim of a dead server is
   answered 200; the sweep returns the row to `pending`, where nothing but
   another delivery looks, and the provider sends none.
5. `settlement_refund_twice`: between its two looks for requests in flight a
   reconciliation may miss a whole request; the refund it declares unexecuted is
   executed, and runs again under a second identity
   (`tests/payment_provider_operation_identity_crash_validation.ts:9-10` says
   that no sequence may produce a second effect).

Met while modelling, without a run: a deferral counts as an attempt and on the
last one dead-letters the job that asked to be called later (the comment at 4588
says "a deferral burns no outbox attempt"); the lost re-arm (2657); the two
cases `RenewedWhenExpired` and `NobodyPassedOver` exempt, and the
pre-dispatch failure of a renewal (3475, 3557); the retry of a refused receipt
that does not run; and the status route, which answers a reference sealed anew
as the authorization to join with (`frontend_runtime.ts:7342`), a name no
binding has; and an administrator's approval, which is accepted whatever the
status, so that an action that failed can be approved and executed again
although `executeAdminAction` answers `admin_action_failed_requires_new_action`.
Those without a property are
hazards in `PROJECT.json`, with their lines.

Seven more came from the attempt to prove:

- *A second capture across a settlement horizon.*  With two identities of a kind,
  an asynchronous provider and two runs `OneCapture` fails: a late `charge_failed`
  of the declined charge 1 takes the participant to `ChargeFailedCompletion` while
  charge 2 is unresolved; a recovery passes the fence and both looks; charge 2
  executes, a reconciliation infers its failure from an absent status, the horizon
  ends, and the recovery begins its own identity (the looks at 4260-4305 and the
  fence at `payment_attempt_helpers.ts` 444-458 both pass; the comment at
  3838-3860 relies on them).  The recovery has to live from its looks to its begin
  for a whole horizon (24 h by default, `runtime_config.ts:78`).  That the horizon
  does not end while a run of recovery stands there is all it takes: this is
  `Unhurried`, the hypothesis of `CapturedOnce` (section 4).
- *A charge after the decision.*  With two charges, two disturbances and an
  asynchronous provider `DecisionKnowsTheMoney` fails, in 28 states (`MaxIds` = 2,
  `MaxLost` = 2, two runs of `charge_deal` and `finalize_deal`).  A second run of
  `charge_deal` finds charge 1 in flight and opens the completion window; the owner
  of charge 1 settles its row as declined and dies before the participant is told.
  When the job is claimed again, after an outage that spans the rest of the window,
  `finalize_deal` finds a charge that was declined and decides, while
  `handleChargeDealEvent` still sees `ChargeAttempt` and sends charge 2.  Only the
  arm of a recovery looks at the deal (`deal_gate`, 4175-4179); that of a charge
  does not.  The comment at 4744-4746 calls the outcome "terminal state hides late
  provider money", that at 4846-4854 says that the decision rules it out.  With one
  charge, and where no charge is begun when the window is over (`InTime`), nothing
  of the kind happens: this is `DecisionKnown` (section 4).
- *A crossed recovery.*  If the provider reports a recovery under the identity of
  the charge, after that charge was reported failed, the fallback of
  `payment_reconciliation.ts` (57-66, 99-103) applies it to the participant
  without settling any identity; two own captures that follow are ignored without
  a case, and `RealMoneyKnown` does not hold.  The story is charge failed,
  recovery captured naming the charge, charge captured, recovery captured.  Nothing
  in the code rules such a story out, and nothing shows that a provider tells it.
- *The budget of a message.*  An earlier form of `WithinBudget` allowed a late
  write one more budget for each disturbance but only one attempt for a retry.
  With `NOTIFICATION_MAX_ATTEMPTS` = 5, one stall and one retry there are 12
  claims, one more than that.
- *A third renewal beside the second.*  With `MaxRenewals` = 3 and `MaxTurns` = 3
  `OneRequestAtATime` fails, in some sixty steps, on the disarm of finding 3: a
  renewal whose answer was lost is armed again, the adapter fails before it sends,
  and the row returns to `recorded` while its first request is still at the
  provider; the window opens, a reconciliation retires the row; another one that
  stalled on the renewal before wakes `charge_deal`, and a third renewal is minted
  and sent beside the second.  With `MaxTurns` = 2 it holds, for two renewals and one
  capture and for one renewal and two captures.
- *A third renewal beside a valid authorisation.*  With three runs, `MaxRenewals` = 3
  and `MaxTurns` = 3 `RenewedWhenExpired` fails, in 43 steps, on the late write of
  section 2: a run of `charge_deal` finds authorisation 1 past and stands between the
  gate and the mint; the owner of renewal 2, which lost its lease, applies it; a
  reconciliation that was told of renewal 1 before applies that one, with no expiry;
  the first run mints renewal 3 and sends it, though the authorisation in use is the
  one it read and counts as valid.  What the document says at 111 and 114 (owner
  fencing, one identity at a time, a stalled owner's later write is refused) is
  about the sends and their settlement; a proof that was read is not fenced.
- *A capture judged by another authorisation.*  Within the bounds of the renewal run
  a capture that is still unresolved can be declared failed and then execute, in 21
  steps.  A run of `charge_deal` passes the gate with the first authorisation and
  stalls; that authorisation lapses; a second run renews it, sends a capture on the
  new one and gets no answer.  The first run goes on, meets the capture unresolved
  and asks for its status by the reference the gate gave it (`p.authorization_id`,
  3620), not by the one the arm has put on the row (3651); the HTTP adapter asks by
  reference alone (`payment_provider.ts` 1352-1356).  The lapsed authorisation
  answers with a final negative, the capture is settled as a permanent failure and
  the participant becomes `ChargeFailedRecovery`; then the capture executes.  The
  failure is recorded as inferred from a status, so that the settlement horizon
  (`captureSettlementFenceUntil`, 4268) holds a second capture back, recovery looks
  at the original again, and a late success opens a case: the harm is a false
  failure, not yet a second capture.  A renewal that a late proof has put back leads
  to the same.

## 6. Plan

Done: `OutboxWorker` and `JobQueue`; `DealLifecycle`, `CalmDealLifecycle` and `GroupDeal`; `MoneyRails`;
`AuthorizationRenewal`; `AuthorizationIntents`; `DealSettlement`; `WebhookIngestion`;
`PayoutRail`; `InvoiceRail`; `NotificationCourier`; `ImageStore`; proofs of all.

Left, by weight of what can go wrong:

1. Recovery under a renewal (the gate is called from `recovery_deal` too), and the
   life cycle of an administrator's action.

### Not modelled

Pages, search and analytics and the adapters of `payment_provider.ts` beyond the
policy each declares read and write rows that nobody else races for, or only
refuse; the larger part of the repository's lines is of that kind (front end,
dictionaries, pages).  One-time passwords are authentication: their caps are
single statements under a row lock.  Fulfilment changes each record under its
lock in one transaction, so that its steps do not interleave.  Of administration
the operations that touch a modelled rail are actions there (requeue, attest,
freeze, retry); the approval of its own requests is not.  `PROJECT.json` gives
the reason per component.
