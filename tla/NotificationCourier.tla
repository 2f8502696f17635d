------------------------ MODULE NotificationCourier ------------------------
(***************************************************************************)
(* One message of notification_dispatch.ts: the flush and the reclaim that *)
(* every worker runs between its jobs (runWorkerMaintenance, app.ts 5409)  *)
(* and the retry of an administrator.                                      *)
(*                                                                         *)
(* A claim has no lease and no generation: what a courier writes at the    *)
(* end is keyed by the message alone, and a batch of twenty may last       *)
(* longer than the age at which a claim is taken for stranded.             *)
(***************************************************************************)
EXTENDS Integers, FiniteSets

CONSTANTS
  Courier,        \* worker processes that flush
  MaxSends,       \* NOTIFICATION_MAX_ATTEMPTS
  MaxHitches,     \* deaths, stalls and failed statements the model allows
  MaxRetries      \* retries of an administrator

ASSUME CourierAssumption == MaxSends \in Nat \ {0} /\ MaxHitches \in Nat /\ MaxRetries \in Nat

VARIABLES
  message,        \* notification_events: status and attempt_count
  courier,        \* the flushes under way; count is the attempt_count of the claim
  hitches, retries,
  tally           \* claims, what the provider took, late writes, and whether an answer was final or lost

courierVars == <<message, courier, hitches, retries, tally>>

SendAnswer == {"success", "skipped", "blocked", "temporary", "permanent", "thrown"}
NoFlush == [pc |-> "idle", count |-> 0, answer |-> "thrown", holds |-> FALSE]

CourierTypeOK ==
  /\ message \in [status : {"absent", "pending", "processing", "sent", "skipped", "blocked", "failed"}, attempts : Nat]
  /\ courier \in [Courier -> [pc : {"idle", "send", "record", "write"}, count : Nat,
                              answer : SendAnswer, holds : BOOLEAN]]
  /\ hitches \in 0..MaxHitches /\ retries \in 0..MaxRetries
  /\ tally \in [claims : Nat, taken : Nat, late : BOOLEAN,
                final : BOOLEAN, ambiguous : BOOLEAN]

CourierInit ==
  /\ message = [status |-> "absent", attempts |-> 0]
  /\ courier = [c \in Courier |-> NoFlush] /\ hitches = 0 /\ retries = 0
  /\ tally = [claims |-> 0, taken |-> 0, late |-> FALSE, final |-> FALSE, ambiguous |-> FALSE]

Hitch == hitches < MaxHitches /\ hitches' = hitches + 1
Busy(c, pc) == courier[c].pc = pc
\* Whoever had claimed the message has it no longer.
Disowned == [c \in Courier |-> [courier[c] EXCEPT !.holds = FALSE]]
Counted(n) == [status |-> IF n >= MaxSends THEN "failed" ELSE "pending", attempts |-> n]

-----------------------------------------------------------------------------

\* enqueueNotification: a key that is known inserts nothing.
EnqueueNotification ==
  /\ message.status = "absent" /\ message' = [message EXCEPT !.status = "pending"]
  /\ UNCHANGED <<courier, hitches, retries, tally>>

\* FOR UPDATE SKIP LOCKED: of two flushes at once one gets the message.
ClaimMessage(c) ==
  /\ Busy(c, "idle") /\ message.status = "pending"
  /\ message' = [message EXCEPT !.status = "processing"]
  /\ courier' = [Disowned EXCEPT ![c] = [pc |-> "send", count |-> message.attempts, answer |-> "thrown", holds |-> TRUE]]
  /\ tally' = [tally EXCEPT !.claims = @ + 1]
  /\ UNCHANGED <<hitches, retries>>

\* The recipient gate and the provider.  It may take a message and not say so.
Send(c) ==
  /\ Busy(c, "send")
  /\ \E answer \in SendAnswer, took \in BOOLEAN :
       /\ took => answer \in {"success", "temporary", "thrown"}
       /\ answer = "success" => took
       /\ courier' = [courier EXCEPT ![c].answer = answer,
                                     ![c].pc = IF answer = "thrown" THEN "write" ELSE "record"]
       /\ tally' = [tally EXCEPT !.taken = IF took THEN @ + 1 ELSE @,
                                 !.ambiguous = @ \/ (took /\ answer # "success"),
                                 !.final = @ \/ answer = "permanent"]
  /\ UNCHANGED <<message, hitches, retries>>

\* recordAttempt: a statement that fails makes every answer a temporary failure.
RecordAttempt(c) ==
  /\ Busy(c, "record")
  /\ \/ courier' = [courier EXCEPT ![c].pc = "write"] /\ UNCHANGED hitches
     \/ courier' = [courier EXCEPT ![c].pc = "write", ![c].answer = "thrown"] /\ Hitch
  /\ UNCHANGED <<message, retries, tally>>

\* applyTemporaryFailure counts from the claim, the others from the row.
Outcome(c) ==
  CASE courier[c].answer = "success"   -> [status |-> "sent", attempts |-> message.attempts + 1]
    [] courier[c].answer = "permanent" -> [status |-> "failed", attempts |-> message.attempts + 1]
    [] courier[c].answer \in {"skipped", "blocked"} -> [message EXCEPT !.status = courier[c].answer]
    [] OTHER                           -> Counted(courier[c].count + 1)

Write(c) ==
  /\ Busy(c, "write")
  /\ message' = Outcome(c)
  /\ courier' = [Disowned EXCEPT ![c] = NoFlush]
  /\ tally' = [tally EXCEPT !.late = @ \/ ~courier[c].holds]
  /\ UNCHANGED <<hitches, retries>>

\* The failure of a first write is a temporary failure, that of a second is swallowed.
WriteFails(c) ==
  /\ Busy(c, "write") /\ Hitch
  /\ courier' = [courier EXCEPT ![c] = IF @.answer = "thrown" THEN NoFlush ELSE [@ EXCEPT !.answer = "thrown"]]
  /\ UNCHANGED <<message, retries, tally>>

CourierDies(c) ==
  /\ ~Busy(c, "idle") /\ Hitch /\ courier' = [courier EXCEPT ![c] = NoFlush]
  /\ UNCHANGED <<message, retries, tally>>

\* Mutant of ReclaimStranded: a stranded attempt costs nothing.
ReclaimFree ==
  /\ message.status = "processing" /\ message' = Counted(message.attempts)
  /\ IF \E c \in Courier : courier[c].holds THEN Hitch ELSE UNCHANGED hitches
  /\ courier' = Disowned
  /\ UNCHANGED <<retries, tally>>

\* reclaimStrandedNotifications, by age alone: a courier that still works on its
\* message has stalled for that long.
ReclaimStranded ==
  /\ message.status = "processing" /\ message' = Counted(message.attempts + 1)
  /\ IF \E c \in Courier : courier[c].holds THEN Hitch ELSE UNCHANGED hitches
  /\ courier' = Disowned
  /\ UNCHANGED <<retries, tally>>

\* retry_notification keeps the count.
RetryNotification ==
  /\ message.status = "failed" /\ retries < MaxRetries /\ retries' = retries + 1
  /\ message' = [message EXCEPT !.status = "pending"]
  /\ UNCHANGED <<courier, hitches, tally>>

CourierNext ==
  \/ EnqueueNotification \/ ReclaimStranded \/ RetryNotification
  \/ \E c \in Courier : ClaimMessage(c) \/ Send(c) \/ RecordAttempt(c) \/ Write(c) \/ WriteFails(c) \/ CourierDies(c)

CourierSpec == CourierInit /\ [][CourierNext]_courierVars

-----------------------------------------------------------------------------
(* Properties.                                                               *)

\* A message is attempted within its budget and once more for each retry,
\* whatever couriers die.  Only the late write of a courier that was taken for
\* dead starts a budget anew: then each courier that was disturbed, and each
\* retry, may cost a budget of its own.
BudgetKept == ~tally.late => tally.claims <= MaxSends + retries
BudgetDisturbed == tally.late => tally.claims <= MaxSends * (1 + hitches + retries)
\* It is given up for want of attempts only when they were made; and its
\* recipient gets it twice only if an answer was lost or a courier was disturbed
\* (the comments at 360 and 481).
GivenUpSpent == message.status = "failed" /\ ~tally.final => tally.claims >= MaxSends
TakenOnce == tally.taken > 1 => tally.ambiguous \/ hitches > 0

WithinBudget == BudgetKept /\ BudgetDisturbed /\ GivenUpSpent /\ TakenOnce
=============================================================================
