--------------------------- MODULE DealLifecycle ---------------------------
(***************************************************************************)
(* One deal from its draft to the start of charging, or to its failure at  *)
(* the deadline: the row of siton.deals, its participants, the inventory   *)
(* RPC, the deadline_check job and the requests and handler runs that act  *)
(* on them (the /deals routes and workerProcessEvent of src/app.ts).       *)
(*                                                                         *)
(* A transaction is one action.  What a request or a run keeps between two *)
(* of its transactions is in call and run.  A join is two actions: from    *)
(* the moment it has the lock on the deal row to its commit, everybody     *)
(* else who writes the row waits, but whoever only reads does not.         *)
(*                                                                         *)
(* An action may stay out for a reason that is not modelled: an emergency  *)
(* flag of an administrator, a refused payment binding, a lost request.    *)
(***************************************************************************)
EXTENDS Integers, FiniteSets

CONSTANTS
  Buyer,        \* the Join requests: buyer and idempotency key
  NoBuyer,      \* nobody has the lock on the deal row
  Qty,          \* quantity of each Join
  MinUnits,     \* min_units
  MaxUnits,     \* max_units
  Call,         \* close_joining and reopen_joining requests in flight
  Run,          \* deadline_check handler runs
  NoRun,        \* the job is not leased
  MaxAttempts   \* attempts the deadline_check job has

ASSUME DealAssumption ==
  /\ NoBuyer \notin Buyer
  /\ Qty \in [Buyer -> Nat \ {0}]
  /\ MinUnits \in Nat \ {0}
  /\ MaxUnits \in Nat /\ MaxUnits >= MinUnits
  /\ NoRun \notin Run
  /\ MaxAttempts \in Nat \ {0}

\* threshold_units: 90% of the minimum, rounded up.
Threshold == (9 * MinUnits + 9) \div 10

VARIABLES
  state,        \* deals.state ("Deleted": the row is gone)
  late,         \* the deadline has passed, on the clock of the database
  lock,         \* the Join that has the lock on the deal row
  buyer,        \* buyer_state of each participant
  money,        \* money_state of each participant
  inventory,    \* siton_inventory.inventory_deals of the deal
  call,         \* what each request read before its transaction
  check,        \* the deadline_check job
  run,          \* the runs of its handler
  releases      \* participants with a payment_release job

dealVars == <<state, late, lock, buyer, money, inventory>>
jobVars == <<check, run, releases>>
vars == <<state, late, lock, buyer, money, inventory, call, check, run, releases>>

-----------------------------------------------------------------------------

DealState == {"Draft", "Cancelled", "Deleted", "PendingTarget", "TargetReached",
              "ClosedForJoining", "ReadyForCharging", "Charging", "Failed"}
BuyerState == {"NotJoined", "JoinedAuthorized", "LockedIn", "ChargingAttempt", "DealFailed"}
MoneyState == {"NoFinancial", "AuthHeld", "AuthLocked", "ChargeAttempt"}

Open == {"PendingTarget", "TargetReached"}

\* from: the state the request works from; to: the state it moves the deal to.
NoCall == [op |-> "none", from |-> "Draft", to |-> "Draft"]
CallForm == [op : {"none", "close", "reopen"}, from : DealState, to : DealState]

CheckForm == [status : {"none", "pending", "processing", "sent", "dlq"},
              holder : Run \cup {NoRun}, attempts : 0 .. MaxAttempts, early : BOOLEAN]

\* left: the participants a loop of the handler has still to visit.
Idle == [pc |-> "idle", from |-> "Draft", left |-> {}]
RunForm == [pc : {"idle", "read", "sum", "fail", "list", "participants",
                  "releases", "done", "defer"},
            from : DealState, left : SUBSET Buyer]

TypeOK ==
  /\ state \in DealState
  /\ late \in BOOLEAN
  /\ lock \in Buyer \cup {NoBuyer}
  /\ buyer \in [Buyer -> BuyerState]
  /\ money \in [Buyer -> MoneyState]
  /\ inventory \in [status : {"none", "open", "closed"}, committed : Nat,
                    reached : BOOLEAN, synced : BOOLEAN]
  /\ call \in [Call -> CallForm]
  /\ check \in CheckForm
  /\ run \in [Run -> RunForm]
  /\ releases \subseteq Buyer

-----------------------------------------------------------------------------

\* The units that a set of Joins asks for, one by one, and how many they are.
UnitsOf(S) == UNION {{b} \X (1 .. Qty[b]) : b \in S}
Units(S) == Cardinality(UnitsOf(S))

Joined == {b \in Buyer : buyer[b] # "NotJoined"}

\* sumJoinedUnits and the joined_units of reopen_joining.
JoinedUnits == Units({b \in Joined : buyer[b] # "DealFailed"})

\* Nobody has the row lock: whoever wants to write the deal row gets it now.
Unlocked == lock = NoBuyer

Init ==
  /\ state = "Draft"
  /\ late = FALSE
  /\ lock = NoBuyer
  /\ buyer = [b \in Buyer |-> "NotJoined"]
  /\ money = [b \in Buyer |-> "NoFinancial"]
  /\ inventory = [status |-> "none", committed |-> 0, reached |-> FALSE, synced |-> FALSE]
  /\ call = [c \in Call |-> NoCall]
  /\ check = [status |-> "none", holder |-> NoRun, attempts |-> 0, early |-> FALSE]
  /\ run = [i \in Run |-> Idle]
  /\ releases = {}

-----------------------------------------------------------------------------
(* The inventory RPC.  Hold and commit share the transaction of the Join, so *)
(* between transactions the reserved units are the committed ones.           *)

\* sync under a key that was not used: create the row, or open it again.
Synced(inv) == [inv EXCEPT !.status = "open"]

\* sync under the runtime-sync key of the deal, which every Join reuses.
JoinSynced(inv) == IF inv.synced THEN inv ELSE [Synced(inv) EXCEPT !.synced = TRUE]

\* Mutant of Available: what was committed before is not counted.
AvailableAtFirst(inv) == MaxUnits

Available(inv) == MaxUnits - inv.committed

Committed(inv, qty) ==
  [status |-> inv.status, synced |-> inv.synced, committed |-> inv.committed + qty,
   reached |-> inv.reached \/ inv.committed + qty >= Threshold]

\* Mutant of TargetTransitioned: above the target, not at it.
TransitionedAbove(inv, qty) == ~inv.reached /\ inv.committed + qty > Threshold

\* target_transitioned of that commit.
TargetTransitioned(inv, qty) == ~inv.reached /\ inv.committed + qty >= Threshold

Closed(inv) == [inv EXCEPT !.status = "closed"]

-----------------------------------------------------------------------------
(* The seller's routes of one transaction *)

\* The job is due at the deadline publish read before its transaction, which an
\* edit of the draft may have moved since.
Publish ==
  /\ state = "Draft"
  /\ state' = "PendingTarget"
  /\ \E early \in BOOLEAN :
       check' = [status |-> "pending", holder |-> NoRun, attempts |-> 0, early |-> early]
  /\ UNCHANGED <<late, lock, buyer, money, inventory, call, run, releases>>

Cancel ==
  /\ state = "Draft"
  /\ state' = "Cancelled"
  /\ UNCHANGED <<late, lock, buyer, money, inventory, call, check, run, releases>>

\* DELETE /api/seller/deals/:dealId, of a deal nobody ever joined.
DeleteDeal ==
  /\ state \in {"Draft", "Cancelled", "PendingTarget"}
  /\ Unlocked /\ Joined = {}
  /\ state' = "Deleted"
  /\ check' = [check EXCEPT !.status = "none", !.holder = NoRun]
  /\ UNCHANGED <<late, lock, buyer, money, inventory, call, run, releases>>

\* Mutant of PrepareCharging: a paused deal is charged below its target.
PrepareAnyUnits ==
  /\ state = "ClosedForJoining" /\ Unlocked
  /\ state' = "ReadyForCharging"
  /\ buyer' = [b \in Buyer |-> IF buyer[b] = "JoinedAuthorized" THEN "LockedIn" ELSE buyer[b]]
  /\ money' = [b \in Buyer |-> IF money[b] = "AuthHeld" THEN "AuthLocked" ELSE money[b]]
  /\ UNCHANGED <<late, lock, inventory, call, check, run, releases>>

\* prepare_charging locks the deal and its participants and counts live holds.
PrepareCharging ==
  /\ state = "ClosedForJoining" /\ Unlocked
  /\ Units({b \in Buyer : buyer[b] = "JoinedAuthorized" /\ money[b] = "AuthHeld"}) >= Threshold
  /\ state' = "ReadyForCharging"
  /\ buyer' = [b \in Buyer |-> IF buyer[b] = "JoinedAuthorized" THEN "LockedIn" ELSE buyer[b]]
  /\ money' = [b \in Buyer |-> IF money[b] = "AuthHeld" THEN "AuthLocked" ELSE money[b]]
  /\ UNCHANGED <<late, lock, inventory, call, check, run, releases>>

ChargingStart ==
  /\ state = "ReadyForCharging" /\ Unlocked
  /\ state' = "Charging"
  /\ buyer' = [b \in Buyer |-> IF buyer[b] = "LockedIn" THEN "ChargingAttempt" ELSE buyer[b]]
  /\ money' = [b \in Buyer |-> IF money[b] = "AuthLocked" THEN "ChargeAttempt" ELSE money[b]]
  /\ UNCHANGED <<late, lock, inventory, call, check, run, releases>>

-----------------------------------------------------------------------------
(* Join: one transaction, from the row lock to the commit *)

\* State and deadline are checked under the lock.
JoinLock(b) ==
  /\ buyer[b] = "NotJoined"
  /\ Unlocked
  /\ state \in Open
  /\ ~late
  /\ lock' = b
  /\ UNCHANGED <<state, late, buyer, money, inventory, call, check, run, releases>>

JoinCommit(b) ==
  LET inv == JoinSynced(inventory) IN
  /\ lock = b
  /\ inv.status = "open"
  /\ Qty[b] <= Available(inv)
  /\ inventory' = Committed(inv, Qty[b])
  /\ buyer' = [buyer EXCEPT ![b] = "JoinedAuthorized"]
  /\ money' = [money EXCEPT ![b] = "AuthHeld"]
  /\ state' = IF TargetTransitioned(inv, Qty[b]) /\ state = "PendingTarget"
                THEN "TargetReached" ELSE state
  /\ lock' = NoBuyer
  /\ UNCHANGED <<late, call, check, run, releases>>

\* The inventory refused, or the transaction failed or died.
JoinRollback(b) ==
  /\ lock = b
  /\ lock' = NoBuyer
  /\ UNCHANGED <<state, late, buyer, money, inventory, call, check, run, releases>>

-----------------------------------------------------------------------------
(* close_joining and reopen_joining: what a first transaction read, then the *)
(* transition, a compare-and-swap from it                                    *)

Answered(c) == call' = [call EXCEPT ![c] = NoCall]

CloseReads(c) ==
  /\ call[c] = NoCall
  /\ state \in Open
  /\ call' = [call EXCEPT ![c] = [op |-> "close", from |-> state, to |-> "ClosedForJoining"]]
  /\ UNCHANGED <<dealVars, jobVars>>

\* Mutant of CloseJoining: the transition does not compare, it only swaps.
CloseBlindly(c) ==
  /\ call[c].op = "close"
  /\ Unlocked
  /\ state' = "ClosedForJoining"
  /\ inventory' = Closed(Synced(inventory))
  /\ Answered(c)
  /\ UNCHANGED <<late, lock, buyer, money, jobVars>>

CloseJoining(c) ==
  /\ call[c].op = "close"
  /\ Unlocked
  /\ state = call[c].from
  /\ state' = "ClosedForJoining"
  /\ inventory' = Closed(Synced(inventory))
  /\ Answered(c)
  /\ UNCHANGED <<late, lock, buyer, money, jobVars>>

ReopenReads(c) ==
  /\ call[c] = NoCall
  /\ state = "ClosedForJoining"
  /\ ~late
  /\ JoinedUnits < MaxUnits
  /\ call' = [call EXCEPT ![c] =
                [op |-> "reopen", from |-> "ClosedForJoining",
                 to |-> IF JoinedUnits >= Threshold THEN "TargetReached" ELSE "PendingTarget"]]
  /\ UNCHANGED <<dealVars, jobVars>>

\* A deadline_check is inserted unless one is pending; one that is being
\* processed makes the insert do nothing.
Rearmed ==
  IF check.status \in {"pending", "processing"} THEN check
  ELSE [status |-> "pending", holder |-> NoRun, attempts |-> 0, early |-> FALSE]

\* Mutant of ReopenJoining: its sync reuses the key of the Joins.
ReopenUnderJoinKey(c) ==
  /\ call[c].op = "reopen"
  /\ Unlocked
  /\ state = call[c].from
  /\ state' = call[c].to
  /\ check' = Rearmed
  /\ inventory' = JoinSynced(inventory)
  /\ Answered(c)
  /\ UNCHANGED <<late, lock, buyer, money, run, releases>>

ReopenJoining(c) ==
  /\ call[c].op = "reopen"
  /\ Unlocked
  /\ state = call[c].from
  /\ state' = call[c].to
  /\ check' = Rearmed
  /\ inventory' = Synced(inventory)
  /\ Answered(c)
  /\ UNCHANGED <<late, lock, buyer, money, run, releases>>

\* The swap is lost (STATE_CONFLICT), or the request dies before it.
CallEnds(c) ==
  /\ call[c] # NoCall
  /\ Answered(c)
  /\ UNCHANGED <<dealVars, jobVars>>

-----------------------------------------------------------------------------
(* The deadline_check job, over the rail of OutboxWorker: at least one run,  *)
(* perhaps two at a time (a stale one goes on), at most MaxAttempts          *)

Holds(i) == check.status = "processing" /\ check.holder = i

\* Mutant of Retried: attempts are not counted against the cap.
RetriedForEver(early) ==
  [check EXCEPT !.status = "pending", !.holder = NoRun, !.early = early]

\* Back to pending with attempts left, else to the dead-letter queue.
Retried(early) ==
  [check EXCEPT !.status = IF check.attempts < MaxAttempts THEN "pending" ELSE "dlq",
                !.holder = NoRun, !.early = early]

ClaimCheck(i) ==
  /\ run[i] = Idle
  /\ check.status = "pending"
  /\ late \/ check.early
  /\ check' = [check EXCEPT !.status = "processing", !.holder = i, !.attempts = @ + 1]
  /\ run' = [run EXCEPT ![i].pc = "read"]
  /\ UNCHANGED <<dealVars, call, releases>>

\* The lease expired: the run died, or is slow and goes on without it.
ReclaimCheck ==
  /\ check.status = "processing"
  /\ check' = Retried(check.early)
  /\ UNCHANGED <<dealVars, call, run, releases>>

RunDies(i) ==
  /\ run[i] # Idle
  /\ run' = [run EXCEPT ![i] = Idle]
  /\ UNCHANGED <<dealVars, call, check, releases>>

\* An error leaves the handler: a lost swap, a database error, a deleted deal.
RunFails(i) ==
  /\ run[i].pc \notin {"idle", "done", "defer"}
  /\ run' = [run EXCEPT ![i] = Idle]
  /\ check' = IF Holds(i) THEN Retried(check.early) ELSE check
  /\ UNCHANGED <<dealVars, call, releases>>

\* Mutant of ReadDeal: a paused deal is taken for one with nothing to decide.
ReadOpenDeal(i) ==
  /\ run[i].pc = "read"
  /\ state # "Deleted"
  /\ run' = [run EXCEPT ![i].from = state,
                        ![i].pc = IF state # "PendingTarget" THEN "done"
                                  ELSE IF late THEN "sum" ELSE "defer"]
  /\ UNCHANGED <<dealVars, call, check, releases>>

\* Not the state of a deal that waits for its deadline: nothing to decide.  A
\* run before the deadline is deferred to it.
ReadDeal(i) ==
  /\ run[i].pc = "read"
  /\ state # "Deleted"
  /\ run' = [run EXCEPT ![i].from = state,
                        ![i].pc = IF state \notin {"PendingTarget", "ClosedForJoining"} THEN "done"
                                  ELSE IF late THEN "sum" ELSE "defer"]
  /\ UNCHANGED <<dealVars, call, check, releases>>

SumUnits(i) ==
  /\ run[i].pc = "sum"
  /\ run' = [run EXCEPT ![i].pc = IF JoinedUnits >= Threshold THEN "done" ELSE "fail"]
  /\ UNCHANGED <<dealVars, call, check, releases>>

\* The transition; under the key of the deal it is replayed once it has run.
FailDeal(i) ==
  /\ run[i].pc = "fail"
  /\ Unlocked
  /\ state \in {run[i].from, "Failed"}
  /\ state' = "Failed"
  /\ run' = [run EXCEPT ![i].pc = "list"]
  /\ UNCHANGED <<late, lock, buyer, money, inventory, call, check, releases>>

ListParticipants(i) ==
  /\ run[i].pc = "list"
  /\ run' = [run EXCEPT ![i].pc = "participants",
                        ![i].left = {b \in Joined : buyer[b] # "DealFailed"}]
  /\ UNCHANGED <<dealVars, call, check, releases>>

FailParticipant(i) ==
  /\ run[i].pc = "participants"
  /\ \E b \in run[i].left :
       /\ buyer' = [buyer EXCEPT ![b] = "DealFailed"]
       /\ run' = [run EXCEPT ![i].left = @ \ {b}]
  /\ UNCHANGED <<state, late, lock, money, inventory, call, check, releases>>

ListHeld(i) ==
  /\ run[i].pc = "participants" /\ run[i].left = {}
  /\ run' = [run EXCEPT ![i].pc = "releases",
                        ![i].left = {b \in Buyer : money[b] \in {"AuthHeld", "AuthLocked", "ChargeAttempt"}}]
  /\ UNCHANGED <<dealVars, call, check, releases>>

\* An error of the insert is swallowed.
ScheduleRelease(i) ==
  /\ run[i].pc = "releases"
  /\ \E b \in run[i].left :
       /\ releases' \in {releases, releases \cup {b}}
       /\ run' = [run EXCEPT ![i].left = @ \ {b}]
  /\ UNCHANGED <<dealVars, call, check>>

\* cleanupObsoleteDealOutboxEvents.
CleanupChecks(i) ==
  /\ run[i].pc = "releases" /\ run[i].left = {}
  /\ check' = [check EXCEPT !.status = IF @ = "pending" THEN "sent" ELSE @]
  /\ run' = [run EXCEPT ![i].pc = "done"]
  /\ UNCHANGED <<dealVars, call, releases>>

\* The verdict is written under the lease; a stale run writes nothing.
RunEnds(i) ==
  /\ run[i].pc \in {"done", "defer"}
  /\ check' = IF ~Holds(i) THEN check
              ELSE IF run[i].pc = "defer" THEN Retried(FALSE)
              ELSE [check EXCEPT !.status = "sent", !.holder = NoRun]
  /\ run' = [run EXCEPT ![i] = Idle]
  /\ UNCHANGED <<dealVars, call, releases>>

DeadlinePasses ==
  /\ ~late
  /\ late' = TRUE
  /\ UNCHANGED <<state, lock, buyer, money, inventory, call, jobVars>>

-----------------------------------------------------------------------------

SellerStep == Publish \/ Cancel \/ DeleteDeal \/ PrepareCharging \/ ChargingStart

CallStep(c) ==
  CloseReads(c) \/ CloseJoining(c) \/ ReopenReads(c) \/ ReopenJoining(c) \/ CallEnds(c)

JoinEnds(b) == JoinCommit(b) \/ JoinRollback(b)

HandlerStep(i) ==
  \/ ReadDeal(i) \/ SumUnits(i) \/ FailDeal(i) \/ ListParticipants(i) \/ FailParticipant(i)
  \/ ListHeld(i) \/ ScheduleRelease(i) \/ CleanupChecks(i) \/ RunEnds(i) \/ RunFails(i)

Next ==
  \/ SellerStep
  \/ \E b \in Buyer : JoinLock(b) \/ JoinEnds(b)
  \/ \E c \in Call : CallStep(c)
  \/ \E i \in Run : ClaimCheck(i) \/ HandlerStep(i) \/ RunDies(i)
  \/ ReclaimCheck
  \/ DeadlinePasses

Spec == Init /\ [][Next]_vars

\* The deadline comes; a transaction that has the row lock ends (lock_timeout,
\* or the death of its session); workers claim, handlers go on and an expired
\* lease is reclaimed.  No seller and no buyer need ever act.
Fairness ==
  /\ WF_vars(DeadlinePasses)
  /\ WF_vars(\E b \in Buyer : JoinEnds(b))
  /\ \A i \in Run : WF_vars(ClaimCheck(i)) /\ WF_vars(HandlerStep(i))
  /\ WF_vars(ReclaimCheck)

LiveSpec == Spec /\ Fairness

-----------------------------------------------------------------------------
(* Safety *)

\* The units the inventory gave out are those of the participants that joined,
\* and never more than there are, however joins, closes and reopens interleave.
CapacityHeld ==
  /\ inventory.committed = Units(Joined)
  /\ inventory.committed <= MaxUnits

\* Both sides of a deal move together: it is ready for charging, or charging,
\* only with the target met by participants that are all at the same point, so
\* a Join that committed beside prepare_charging is never left behind.
ChargedTogether ==
  /\ state = "ReadyForCharging" =>
       \A b \in Joined : buyer[b] = "LockedIn" /\ money[b] = "AuthLocked"
  /\ state = "Charging" =>
       \A b \in Joined : buyer[b] = "ChargingAttempt" /\ money[b] = "ChargeAttempt"
  /\ state \in {"ReadyForCharging", "Charging"} => Units(Joined) >= Threshold

\* The deadline run and the seller's charging race for a paused deal, and never
\* both win: a participant is failed, or his hold released, only in a deal that
\* failed (tests/black_sky_deadline_pause_failure_validation.ts).
NeverBoth ==
  releases # {} \/ (\E b \in Buyer : buyer[b] = "DealFailed") => state = "Failed"

\* While the deal takes Joins the inventory gives out units: a pause closed it,
\* and the reopening that ends the pause opened it again.
OpenDealAcceptsJoins == state \in Open => inventory.status # "closed"

\* With one request at a time the state of the deal tells whether its target is
\* met, and a deal fails only when it is not.
StateFollowsUnits ==
  /\ state = "PendingTarget" => Units(Joined) < Threshold
  /\ state = "TargetReached" => Units(Joined) >= Threshold
  /\ state = "Failed" => Units(Joined) < Threshold

(* Liveness *)

Undecided == state \in {"PendingTarget", "ClosedForJoining"} /\ JoinedUnits < Threshold

\* Once its deadline has passed, a deal below its target is decided, through any
\* pauses and reopenings and although runs die, are reclaimed and race Joins, or
\* its job is dead-lettered, where an operator sees it.
DeadlineDecides == late ~> ~Undecided \/ check.status = "dlq"

-----------------------------------------------------------------------------
(* What the code says, and does not do *)

\* src/app.ts, reopen_joining: "Destination follows the canonical truth:
\* TargetReached when joined units already meet the threshold, else
\* PendingTarget."
ReopenFollowsTruth ==
  [][state = "ClosedForJoining" /\ state' \in Open
       => (state' = "TargetReached") = (Units(Joined) >= Threshold)]_vars

\* docs/BLACK_SKY_THREAT_MODEL.md, S12: deadline_check "fails the deal at the
\* deadline on resume [...]; holds released via the release rail".  When the
\* rail has nothing more to do for a failed deal, every participant is failed.
FailedDealIsUnwound ==
  state = "Failed" /\ check.status = "sent" /\ (\A i \in Run : run[i] = Idle)
    => \A b \in Joined : buyer[b] = "DealFailed"

-----------------------------------------------------------------------------
(* The phase of the group deal it implements *)

Phase ==
  CASE state = "Draft" -> "draft"
    [] state \in Open -> "open"
    [] state = "ClosedForJoining" -> "paused"
    [] state \in {"ReadyForCharging", "Charging"} -> "charging"
    [] state = "Failed" -> "failed"
    [] state \in {"Cancelled", "Deleted"} -> "withdrawn"
=============================================================================
