----------------------------- MODULE MoneyRails -----------------------------
(***************************************************************************)
(* The money of one participant of a deal that is being charged: the       *)
(* payment attempts of payment_attempt_helpers.ts, the handlers of app.ts  *)
(* that dispatch them to the provider, read its status and decide the      *)
(* deal, and the guards of migrations 067 and 068.                         *)
(*                                                                         *)
(* A handler run is a program counter and what it remembers; every         *)
(* transaction and every provider call of the code is a step, so that      *)
(* other runs, provider callbacks, deaths and lost leases come between     *)
(* any two of them.                                                        *)
(***************************************************************************)
EXTENDS Integers, FiniteSets

CONSTANTS
  Run,        \* handler runs that may be under way at once (of any job)
  MaxIds,     \* identities the model lets each rail mint
  MaxLost,    \* leases and jobs out of attempts the model lets happen
  Policies,   \* the ambiguity policies of providers to consider
  Scopes,     \* for each, the sets of jobs the model lets runs claim
  Refusing    \* those whose adapter the model lets fail before it sends

AttemptType == {"charge_start", "recovery", "release"}
Capture == {"charge_start", "recovery"}
Id == AttemptType \X (1..MaxIds)
CaptureIds == Capture \X (1..MaxIds)
NoId == <<"none", 0>>

\* PaymentAmbiguityPolicy: does the provider deduplicate a repeated identity,
\* does a negative status prove that the operation did not run, and may it
\* still settle after the request (a positive settlement horizon).
Policy == [repeatSafe : BOOLEAN, negativeFinal : BOOLEAN, horizon : BOOLEAN]

Job == {"charge_deal", "recovery_deal", "payment_release", "payment_reconcile", "finalize_deal"}
Outcomes == {"success", "permanent_fail", "unknown", "pre_dispatch_failure"}

ASSUME RailsAssumption ==
  /\ MaxIds \in Nat \ {0} /\ MaxLost \in Nat
  /\ "null" \notin Run /\ "gone" \notin Run
  /\ Policies \subseteq Policy
  /\ \A p \in Policies : p.negativeFinal => p.repeatSafe
  /\ Scopes \in [Policies -> SUBSET SUBSET Job] /\ Refusing \subseteq Policies

VARIABLES
  policy, scope,                  \* of the provider this participant's authorisation is held with
  others,   \* whether the other participants' captures meet the threshold (by the end)
  deal, window,                   \* deals.state, completion_window_until
  buyer, money,                   \* the participant's buyer_state, money_state
  at,                             \* payment_attempts
  job, reconciles,                \* live outbox jobs; the payload of payment_reconcile
  run,                            \* the handler runs
  lost,                           \* leases lost and jobs given up, so far
  wire, executed, sent            \* the provider: what may still happen, what did

vars == <<policy, scope, others, deal, window, buyer, money, at, job, reconciles, run, lost, wire, executed, sent>>
participant == <<buyer, money>>
phase == <<policy, scope, others, deal, window>>
jobs == <<job, reconciles>>
provider == <<wire, executed, sent, lost>>

Row == [result : {"none", "unknown", "success", "permanent_fail", "temporary_fail"},
        dispatch : {"recorded", "dispatching", "responded"},
        owner : Run \cup {"null", "gone"},
        evidence : {"null", "dispatch_response", "inferred"},
        horizon : {"null", "open", "elapsed"}]
Absent == [result |-> "none", dispatch |-> "recorded", owner |-> "null",
           evidence |-> "null", horizon |-> "null"]

Status == {"captured", "released", "failed", "authorized", "pending", "unknown", "foreign"}
Seen == Status \cup Outcomes \cup {"none", "completes", "fails", "waiting", "not_waiting",
                                   "ChargedSuccess", "Recovered", "ChargingAttempt",
                                   "ChargeFailedCompletion", "Dropped", "DealFailed", "DealCompleted"}
Pc == {"free", "start", "begin", "resolve", "act", "arm", "io", "await", "settle",
       "ingest", "reconcile", "apply_release", "schedule_release", "preflight", "second_look",
       "tail", "recorded", "retire", "sibling", "flight", "status", "conclude", "schedule_recovery",
       "unresolved", "fence", "sum", "decide", "list", "outcome",
       "sent", "failed"}
Free == [job |-> "none", pc |-> "free", id |-> NoId, live |-> FALSE, seen |-> "none", noted |-> FALSE]

TypeOK ==
  /\ policy \in Policies /\ scope \in Scopes[policy] /\ others \in {"unknown", "enough", "pivotal", "short"}
  /\ deal \in {"Charging", "CompletionWindow", "Completed", "Failed"}
  /\ window \in {"unset", "open", "over"}
  /\ buyer \in {"ChargingAttempt", "ChargedSuccess", "ChargeFailedCompletion", "Recovered",
                "Dropped", "DealCompleted", "DealFailed"}
  /\ money \in {"ChargeAttempt", "ChargedSuccess", "ChargeFailedRecovery", "RecoveredCharge", "AuthReleased"}
  /\ at \in [Id -> Row]
  /\ job \in [Job -> {"none", "pending", "held"}] /\ reconciles \in Id \cup {NoId}
  /\ run \in [Run -> [job : Job \cup {"none"}, pc : Pc, id : Id \cup {NoId}, live : BOOLEAN,
                      seen : Seen, noted : BOOLEAN]]
  /\ wire \subseteq Id /\ executed \subseteq Id /\ sent \in [Id -> 0..2]

Init ==
  /\ policy \in Policies /\ scope \in Scopes[policy] /\ others = "unknown"
  /\ deal = "Charging" /\ window = "unset"
  /\ buyer = "ChargingAttempt" /\ money = "ChargeAttempt"
  /\ at = [i \in Id |-> Absent]
  /\ job = [j \in Job |-> IF j = "charge_deal" THEN "pending" ELSE "none"]
  /\ reconciles = NoId
  /\ run = [r \in Run |-> Free]
  /\ lost = 0 /\ wire = {} /\ executed = {} /\ sent = [i \in Id |-> 0]

-----------------------------------------------------------------------------
(* Rows, and the rules of payment_attempt_helpers.ts.                        *)

InFlight(i) ==
  /\ at[i].result = "unknown" /\ at[i].dispatch = "dispatching"
  /\ at[i].owner \in Run /\ run[at[i].owner].live
AnyInFlight == \E i \in Id : InFlight(i)
Unknown(i) == at[i].result = "unknown"
Recorded(i) == Unknown(i) /\ at[i].dispatch = "recorded"

\* retireNeverDispatchedInTx
Retired(types) ==
  [i \in Id |-> IF i[1] \in types /\ Recorded(i) /\ at[i].owner = "null"
                THEN [at[i] EXCEPT !.result = "temporary_fail"] ELSE at[i]]

\* The fence of migration 068: failures that nobody declared for the request.
Fenced(i) ==
  at[i].result = "permanent_fail" /\ at[i].evidence = "inferred"
\* Mutant of Fence: it knows what is never final and forgets what is not yet.
FenceOfFinality ==
  IF \E i \in CaptureIds : Fenced(i) /\ ~policy.negativeFinal THEN "permanent" ELSE "none"
Fence ==
  IF \E i \in CaptureIds : Fenced(i) /\ (at[i].horizon = "null" \/ ~policy.negativeFinal) THEN "permanent"
  ELSE IF \E i \in CaptureIds : Fenced(i) /\ at[i].horizon = "open" THEN "open"
  ELSE "none"

Succeeded(i) == [at EXCEPT ![i].result = "success", ![i].dispatch = "responded"]
Final(i) == at[i].result \in {"success", "permanent_fail"}
Inferred(i) ==
  IF Final(i) THEN at
  ELSE [at EXCEPT ![i].result = "permanent_fail", ![i].dispatch = "responded",
                  ![i].evidence = "inferred"]

\* extendSettlementHorizon, and the horizon an arm opens
Extended(a, i) == IF policy.horizon THEN [a EXCEPT ![i].horizon = "open"] ELSE a

-----------------------------------------------------------------------------
(* The participant and the events about its money.                           *)

Waits(i) ==
  \/ i[1] = "charge_start" /\ participant = <<"ChargingAttempt", "ChargeAttempt">>
  \/ i[1] = "recovery" /\ participant = <<"ChargeFailedCompletion", "ChargeFailedRecovery">>
Held == {"ChargeAttempt", "ChargeFailedRecovery"}
Captured == {"ChargedSuccess", "RecoveredCharge"}

\* charge_captured and recovery_captured, with the late effect on a participant
\* that does not wait for it: its identity is settled, its state is not touched.
IngestCaptured(i) ==
  /\ IF Waits(i)
     THEN IF i[1] = "charge_start"
          THEN buyer' = "ChargedSuccess" /\ money' = "ChargedSuccess"
          ELSE buyer' = "Recovered" /\ money' = "RecoveredCharge"
     ELSE UNCHANGED participant
  /\ at' = Succeeded(i)

\* Mutant of IngestFailed: the two states are written into each other's column.
IngestFailedSwapped(i) ==
  /\ ~AnyInFlight
  /\ IF Waits(i) /\ i[1] = "charge_start"
     THEN buyer' = "ChargeFailedRecovery" /\ money' = "ChargeFailedCompletion"
     ELSE UNCHANGED participant
  /\ at' = Inferred(i)

\* charge_failed and recovery_failed: refused while any operation is in flight.
IngestFailed(i) ==
  /\ ~AnyInFlight
  /\ IF Waits(i)
     THEN IF i[1] = "charge_start"
          THEN buyer' = "ChargeFailedCompletion" /\ money' = "ChargeFailedRecovery"
          ELSE buyer' = "Dropped" /\ UNCHANGED money
     ELSE UNCHANGED participant
  /\ at' = Inferred(i)

ScheduleReconcile(i) ==
  IF job["payment_reconcile"] = "none"
  THEN job' = [job EXCEPT !["payment_reconcile"] = "pending"] /\ reconciles' = i
  ELSE UNCHANGED jobs
Scheduled(js) == [j \in Job |-> IF j \in js /\ job[j] = "none" THEN "pending" ELSE job[j]]

-----------------------------------------------------------------------------
(* Jobs, runs and leases, as in OutboxWorker.                                *)

\* A run moves on, and forgets what it needs no longer.
Go(r, pc) ==
  run' = [run EXCEPT ![r].pc = pc,
                     ![r].id = IF pc \in {"sent", "failed", "tail", "begin", "sum", "list"} THEN NoId ELSE @,
                     ![r].seen = IF pc \in {"recorded", "ingest", "retire"} THEN @ ELSE "none",
                     ![r].noted = pc \in {"sibling", "flight", "status", "conclude"} /\ @]
At(r, pc) == run[r].pc = pc
Rail(r) == CASE run[r].job = "charge_deal" -> "charge_start"
             [] run[r].job = "recovery_deal" -> "recovery"
             [] OTHER -> "release"
\* Where a rail goes on when it is through with the participant.
Next1(r) == IF run[r].job = "charge_deal" THEN "tail" ELSE "sent"

Claim(r, j) ==
  /\ At(r, "free") /\ j \in scope /\ job[j] = "pending"
  /\ job' = [job EXCEPT ![j] = "held"]
  /\ run' = [run EXCEPT ![r] = [Free EXCEPT !.job = j, !.pc = "start", !.live = TRUE,
               !.id = IF j = "payment_reconcile" THEN reconciles ELSE NoId]]
  /\ UNCHANGED <<phase, participant, at, reconciles, provider>>

Disowned(r) == [i \in Id |-> IF at[i].owner = r THEN [at[i] EXCEPT !.owner = "gone"] ELSE at[i]]
Left(j, s) == /\ job' = [job EXCEPT ![j] = s]
              /\ reconciles' = IF j = "payment_reconcile" /\ s = "none" THEN NoId ELSE reconciles

\* The verdict: acknowledged or dead-lettered, or failed and tried again, until
\* the attempts are used up.  A run that lost its lease writes nothing.
Ends(r) == run' = [run EXCEPT ![r] = Free] /\ at' = Disowned(r)
Acknowledge(r) ==
  /\ At(r, "sent") /\ Ends(r)
  /\ IF run[r].live THEN Left(run[r].job, "none") ELSE UNCHANGED jobs
  /\ UNCHANGED <<phase, participant, provider>>
FailAttempt(r) ==
  /\ At(r, "failed") /\ Ends(r)
  /\ \/ run[r].live /\ Left(run[r].job, "pending") /\ UNCHANGED lost
     \/ run[r].live /\ Left(run[r].job, "none") /\ lost < MaxLost /\ lost' = lost + 1
     \/ ~run[r].live /\ UNCHANGED <<jobs, lost>>
  /\ UNCHANGED <<phase, participant, wire, executed, sent>>

\* A process that dies takes no more steps; its lease still has to expire.
RunDies(r) ==
  /\ ~At(r, "free") /\ ~run[r].live
  /\ Ends(r)
  /\ UNCHANGED <<phase, participant, jobs, provider>>

\* An exception anywhere in a handler; the rows stay as they are.
HandlerThrows(r) ==
  /\ run[r].pc \notin {"free", "sent", "failed"}
  /\ policy.horizon \/ run[r].id \notin wire
  /\ Go(r, "failed")
  /\ UNCHANGED <<phase, participant, at, jobs, provider>>

\* The lease lasts from the arm to the send (ProviderIoFenced of OutboxWorker),
\* and to the end of a request that a synchronous provider can still execute.
LeaseExpires(r) ==
  /\ run[r].live /\ ~At(r, "io")
  /\ policy.horizon \/ run[r].id \notin wire
  /\ \E s \in {"pending", "none"} : Left(run[r].job, s)
  /\ run' = [run EXCEPT ![r].live = FALSE]
  /\ lost < MaxLost /\ lost' = lost + 1
  /\ UNCHANGED <<phase, participant, at, wire, executed, sent>>

-----------------------------------------------------------------------------
(* One operation of a rail: begin, resolve, arm, dispatch, settle, ingest.    *)

Admitted(t) ==
  IF t = "release" THEN money \in Held ELSE Waits(<<t, 1>>)
Conflicting(t) == IF t = "release" THEN Capture ELSE {"release"}

\* What blocks operation t in the rows a: for a capture a release, for a
\* recovery also a charge, for a release any capture, unresolved or executed.
Blockers(t, a) ==
  LET types == IF t = "recovery" THEN {"release", "charge_start"} ELSE Conflicting(t) IN
  {i \in Id : i[1] \in types /\ a[i].result \in {"unknown", "success"}}
ReleasedHold(t, a) == t # "release" /\ \E i \in Blockers(t, a) : i[1] = "release" /\ a[i].result = "success"
\* Mutant of FenceHolds: the release is not fenced.
FenceHoldsRecovery(t) == t = "recovery" /\ Fence # "none"
FenceHolds(t) == t # "charge_start" /\ Fence # "none"
Open(t, a) == {i \in Id : i[1] = t /\ a[i].result \in {"unknown", "success"}}
Minted(t) == {i \in Id : i[1] = t /\ at[i].result # "none"}

\* Every begin is one transaction on the rows with the conflicting identities
\* that never left the process retired.
Begins(r, a) ==
  /\ At(r, "begin") /\ Admitted(Rail(r))
  /\ a = Retired(Conflicting(Rail(r)))
  /\ at' = a
  /\ UNCHANGED <<phase, participant, jobs, provider>>

BeginStateChanged(r) ==
  /\ At(r, "begin") /\ ~Admitted(Rail(r))
  /\ at' = Retired({Rail(r)})
  /\ Go(r, Next1(r))
  /\ UNCHANGED <<phase, participant, jobs, provider>>

\* A blocked rail: the release of a hold that is gone is applied, an unknown
\* blocker is handed to the reconcile job, captured money is left to a case.
BeginBlocked(r) ==
  LET a == Retired(Conflicting(Rail(r)))
      t == Rail(r)
      b == Blockers(t, a)
      releases == {i \in b : i[1] = "release"}
      rank == IF ReleasedHold(t, a) THEN {i \in releases : a[i].result = "success"}
              ELSE IF releases # {} THEN releases
              ELSE IF t = "release" /\ \E i \in b : a[i].result = "unknown"
                   THEN {i \in b : a[i].result = "unknown"} ELSE b IN
  /\ Begins(r, a)
  /\ \E i \in rank :
       run' = [run EXCEPT ![r].id = i,
                          ![r].pc = IF ReleasedHold(t, a) THEN "apply_release"
                                    ELSE IF a[i].result = "unknown" THEN "reconcile" ELSE Next1(r)]

BeginFenced(r) ==
  LET a == Retired(Conflicting(Rail(r))) IN
  /\ Begins(r, a) /\ Blockers(Rail(r), a) = {} /\ FenceHolds(Rail(r))
  /\ Go(r, CASE Fence = "open" -> "failed"
             [] OTHER -> "sent")

\* The identity of an earlier run of this rail: in flight, never sent, or unresolved.
BeginAgain(r) ==
  LET a == Retired(Conflicting(Rail(r))) IN
  /\ Begins(r, a) /\ Blockers(Rail(r), a) = {} /\ ~FenceHolds(Rail(r))
  /\ \E i \in Open(Rail(r), a) :
       run' = [run EXCEPT ![r].id = i,
                          ![r].pc = IF InFlight(i) THEN Next1(r)
                                    ELSE IF Recorded(i) THEN "arm" ELSE "resolve"]

BeginFresh(r) ==
  LET a == Retired(Conflicting(Rail(r)))
      i == <<Rail(r), Cardinality(Minted(Rail(r))) + 1>> IN
  /\ At(r, "begin") /\ Admitted(Rail(r))
  /\ Blockers(Rail(r), a) = {} /\ ~FenceHolds(Rail(r)) /\ Open(Rail(r), a) = {}
  /\ i \in Id                                                       \* bound: MaxIds
  /\ at' = [a EXCEPT ![i] = [Absent EXCEPT !.result = "unknown"]]
  /\ run' = [run EXCEPT ![r].id = i, ![r].pc = "arm"]
  /\ UNCHANGED <<phase, participant, jobs, provider>>

\* What the provider may say of the authorisation: what was executed is seen,
\* what is on the wire is not, yet.
Answers ==
  {"pending", "unknown", "foreign"}
  \cup (IF executed \cap CaptureIds # {} THEN {"captured"}
        ELSE IF executed # {} THEN {"released"} ELSE {"failed", "authorized"})

\* resolvePriorProviderAttempt: the read, and what follows from it at once.
\* Mutant of Reusable: an identity is sent again whatever the provider does with it.
ReusableAlways == TRUE
Reusable == policy.negativeFinal \/ policy.repeatSafe
Proof(r) == IF Rail(r) = "release" THEN {}
            ELSE {"captured"} \cup (IF policy.negativeFinal THEN {"failed"} ELSE {})
Negative(r) == {"authorized"} \cup (IF Rail(r) # "release" /\ ~policy.negativeFinal THEN {"failed"} ELSE {})
Useless(r) == {"foreign"} \cup (IF Rail(r) = "release" THEN {"captured"} ELSE {})
ReadStatus(r) ==
  /\ At(r, "resolve")
  /\ \E s \in Answers :
       IF s \in Proof(r) THEN run' = [run EXCEPT ![r].pc = "act", ![r].seen = s]
       ELSE Go(r, IF s = "released" /\ Rail(r) = "release" THEN "apply_release"
                  ELSE IF s \in Negative(r) /\ Reusable THEN "arm"
                  ELSE IF s \in Negative(r) \cup Useless(r) THEN Next1(r) ELSE "reconcile")
  /\ UNCHANGED <<phase, participant, at, jobs, provider>>
ResolveCaptured(r) ==
  /\ At(r, "act") /\ run[r].seen = "captured"
  /\ IngestCaptured(run[r].id)
  /\ Go(r, Next1(r))
  /\ UNCHANGED <<phase, jobs, provider>>
ResolveFailed(r) ==
  /\ At(r, "act") /\ run[r].seen = "failed"
  /\ IF AnyInFlight THEN Go(r, "failed") /\ UNCHANGED <<participant, at>>
     ELSE /\ IngestFailed(run[r].id)
          /\ Go(r, IF Rail(r) = "recovery" /\ Waits(run[r].id) THEN "schedule_release" ELSE Next1(r))
  /\ UNCHANGED <<phase, jobs, provider>>

\* armProviderDispatch.
PhaseOpen(r) == Rail(r) = "recovery" => deal = "CompletionWindow" /\ window = "open"
Armable(r) ==
  /\ Admitted(Rail(r)) /\ Unknown(run[r].id) /\ ~InFlight(run[r].id)
ArmRefused(r) ==
  /\ At(r, "arm")
  /\ \/ ~run[r].live /\ Go(r, "failed") /\ UNCHANGED at
     \/ run[r].live /\ ~PhaseOpen(r) /\ Go(r, Next1(r)) /\ at' = Retired({Rail(r)})
     \/ run[r].live /\ PhaseOpen(r) /\ ~Armable(r) /\ Go(r, Next1(r)) /\ UNCHANGED at
  /\ UNCHANGED <<phase, participant, jobs, provider>>
Armed(r) ==
  LET i == run[r].id
      a == [at EXCEPT ![i].dispatch = "dispatching", ![i].owner = r] IN
  IF i[1] \in Capture THEN Extended(a, i) ELSE a
Arm(r) ==
  /\ At(r, "arm") /\ run[r].live /\ PhaseOpen(r) /\ Armable(r)
  /\ at' = Armed(r)
  /\ Go(r, "io")
  /\ UNCHANGED <<phase, participant, jobs, provider>>

\* The provider call.  A repeated identity is replayed by a provider that
\* deduplicates it: sent counts the requests it takes for operations.
Send(r) ==
  LET i == run[r].id IN
  /\ At(r, "io")
  /\ wire' = IF i \in executed /\ policy.repeatSafe THEN wire ELSE wire \cup {i}
  /\ sent' = [sent EXCEPT ![i] = IF @ = 0 \/ policy.repeatSafe THEN 1 ELSE 2]
  /\ Go(r, "await")
  /\ UNCHANGED <<phase, participant, at, jobs, executed, lost>>
NotSent(r) ==
  /\ At(r, "io") /\ policy \in Refusing
  /\ run' = [run EXCEPT ![r].pc = "settle", ![r].seen = "pre_dispatch_failure"]
  /\ UNCHANGED <<phase, participant, at, jobs, provider>>
Answer(r, o) ==
  LET i == run[r].id IN
  /\ At(r, "await") /\ o \in Outcomes \ {"pre_dispatch_failure"}
  /\ o = "success" => i \in executed
  /\ o = "permanent_fail" => i \notin executed
  /\ o = "unknown" => policy.horizon \/ i \notin wire
  /\ wire' = IF o = "permanent_fail" THEN wire \ {i} ELSE wire
  /\ run' = [run EXCEPT ![r].pc = "settle", ![r].seen = o]
  /\ UNCHANGED <<phase, participant, at, jobs, executed, sent, lost>>

\* settleProviderDispatch: success always lands, the rest only from the owner.
\* Mutant of Mine: a worker settles a row that another one has armed since.
MineAnyway(r) == TRUE
Mine(r) == at[run[r].id].owner \in {r, "null"}
SettleSuccess(r) ==
  /\ At(r, "settle") /\ run[r].seen = "success"
  /\ at' = Succeeded(run[r].id)
  /\ Go(r, IF Rail(r) = "release" THEN "apply_release" ELSE "ingest")
  /\ UNCHANGED <<phase, participant, jobs, provider>>
SettleNotSent(r) ==
  LET i == run[r].id IN
  /\ At(r, "settle") /\ run[r].seen = "pre_dispatch_failure"
  /\ at' = IF Unknown(i) /\ at[i].dispatch = "dispatching" /\ at[i].owner = r
           THEN [at EXCEPT ![i].dispatch = "recorded", ![i].owner = "null"] ELSE at
  /\ Go(r, "failed")
  /\ UNCHANGED <<phase, participant, jobs, provider>>
\* Mutant of SettleUnknown: a release with an unknown outcome is applied.
SettleUnknownApplied(r) ==
  LET i == run[r].id IN
  /\ At(r, "settle") /\ run[r].seen = "unknown"
  /\ at' = IF Mine(r) THEN [at EXCEPT ![i].dispatch = "responded"] ELSE at
  /\ Go(r, IF Rail(r) = "release" THEN "apply_release" ELSE "reconcile")
  /\ UNCHANGED <<phase, participant, jobs, provider>>
SettleUnknown(r) ==
  LET i == run[r].id IN
  /\ At(r, "settle") /\ run[r].seen = "unknown"
  /\ at' = IF Mine(r) THEN [at EXCEPT ![i].dispatch = "responded",
                                      ![i].result = IF Final(i) THEN @ ELSE "unknown"] ELSE at
  /\ Go(r, IF Mine(r) \/ Final(i) THEN "reconcile" ELSE "failed")
  /\ UNCHANGED <<phase, participant, jobs, provider>>
SettleDeclined(r) ==
  LET i == run[r].id IN
  /\ At(r, "settle") /\ run[r].seen = "permanent_fail"
  /\ at' = IF Mine(r)
           THEN [at EXCEPT ![i].dispatch = "responded", ![i].evidence = "dispatch_response",
                           ![i].result = IF @ = "success" THEN @ ELSE "permanent_fail"] ELSE at
  /\ Go(r, IF ~(Mine(r) \/ Final(i)) THEN "failed"
           ELSE IF Rail(r) = "release" THEN "sent" ELSE "ingest")
  /\ UNCHANGED <<phase, participant, jobs, provider>>

\* The event a dispatching worker ingests about its own settled capture.
Ingest(r) ==
  /\ At(r, "ingest")
  /\ IF run[r].seen = "success" THEN IngestCaptured(run[r].id) /\ Go(r, Next1(r))
     ELSE IF AnyInFlight THEN Go(r, "failed") /\ UNCHANGED <<participant, at>>
     ELSE /\ IngestFailed(run[r].id)
          /\ Go(r, IF Rail(r) = "recovery" /\ Waits(run[r].id) THEN "schedule_release" ELSE Next1(r))
  /\ UNCHANGED <<phase, jobs, provider>>

\* schedulePaymentReconcile: one live reconcile per participant.
Reconcile(r) ==
  /\ At(r, "reconcile")
  /\ ScheduleReconcile(run[r].id)
  /\ Go(r, IF Rail(r) # "release" /\ run[r].id[1] = "release" THEN "failed" ELSE Next1(r))
  /\ UNCHANGED <<phase, participant, at, provider>>

\* applyAuthorizationRelease, and the settlement of the release it is the proof of.
Releasable ==
  \/ money = "ChargeFailedRecovery"
  \/ money = "ChargeAttempt" /\ \A i \in CaptureIds : at[i].result \notin {"unknown", "success"}
ApplyRelease(r) ==
  /\ At(r, "apply_release")
  /\ money' = IF Releasable THEN "AuthReleased" ELSE money
  /\ at' = Succeeded(run[r].id)
  /\ Go(r, Next1(r))
  /\ UNCHANGED <<phase, buyer, jobs, provider>>

ScheduleRelease(r) ==
  /\ At(r, "schedule_release")
  /\ job' = IF run[r].job = "finalize_deal" /\ money \notin Held THEN job
            ELSE Scheduled({"payment_release"})
  /\ Go(r, Next1(r))
  /\ UNCHANGED <<phase, participant, at, reconciles, provider>>

-----------------------------------------------------------------------------
(* How the rails start and end.                                              *)

StartRail(r, pc) ==
  /\ At(r, "start")
  /\ Go(r, pc)
  /\ UNCHANGED <<phase, participant, at, jobs, provider>>
ChargeStarts(r) ==
  run[r].job = "charge_deal" /\ StartRail(r, IF Waits(<<"charge_start", 1>>) THEN "begin" ELSE "tail")
ReleaseStarts(r) ==
  run[r].job = "payment_release" /\ StartRail(r, IF money \in Held THEN "begin" ELSE "sent")
RecoveryStarts(r) ==
  /\ run[r].job = "recovery_deal"
  /\ StartRail(r, IF deal # "CompletionWindow" \/ window # "open" \/ ~Waits(<<"recovery", 1>>) THEN "sent"
                  ELSE CASE Fence = "permanent" -> "sent"
                         [] Fence = "open" -> "failed"
                         [] OTHER -> "preflight")

\* The end of charge_deal: the completion window opens, once.
ToCompletionWindow(r) ==
  /\ At(r, "tail")
  /\ IF deal = "Charging"
     THEN /\ deal' = "CompletionWindow"
          /\ window' = IF window = "unset" THEN "open" ELSE window
          /\ job' = Scheduled({"finalize_deal"} \cup
                              (IF Waits(<<"recovery", 1>>) THEN {"recovery_deal"} ELSE {}))
     ELSE UNCHANGED <<deal, window, job>>
  /\ Go(r, "sent")
  /\ UNCHANGED <<policy, scope, others, participant, at, reconciles, provider>>

-----------------------------------------------------------------------------
(* verifyOriginalCaptureBeforeRecovery: two status reads that must agree, for *)
(* the recovery rail and for the terminal decision.                           *)

Newest(t) == <<t, Cardinality(Minted(t))>>
Target == IF Minted("recovery") # {} THEN Newest("recovery") ELSE Newest("charge_start")
Exact(i) == at[i].result = "permanent_fail" /\ at[i].evidence = "dispatch_response"
Proceeds(r) == IF run[r].job = "recovery_deal" THEN "begin" ELSE "sum"
LookCaptured(r) == IF run[r].job = "recovery_deal" THEN "sent" ELSE "sum"

FirstLook(r) ==
  /\ At(r, "preflight")
  /\ IF Open("recovery", at) # {} THEN Go(r, Proceeds(r))
     ELSE \E s \in Answers :
            run' = [run EXCEPT ![r].pc = "second_look", ![r].id = Target,
                               ![r].seen = s, ![r].noted = Exact(Target)]
  /\ UNCHANGED <<phase, participant, at, jobs, provider>>

Ambiguous(r, s) ==
  LET both == {run[r].seen, s} IN
  \/ "foreign" \in both \/ Cardinality(both) = 2
  \/ both = {"unknown"} /\ ~run[r].noted
  \/ both # {"unknown"} /\ ~run[r].noted /\ ~policy.negativeFinal
SecondLook(r) ==
  LET i == run[r].id IN
  /\ At(r, "second_look")
  /\ \E s \in Answers :
       LET both == {run[r].seen, s} IN
       IF "foreign" \notin both /\ "captured" \in both
       THEN IngestCaptured(i) /\ Go(r, LookCaptured(r))
       ELSE /\ at' = IF "foreign" \notin both /\ "pending" \in both THEN Extended(at, i) ELSE at
            /\ Go(r, IF "pending" \in both \/ Ambiguous(r, s) THEN "failed" ELSE Proceeds(r))
            /\ UNCHANGED participant
  /\ UNCHANGED <<phase, jobs, provider>>

-----------------------------------------------------------------------------
(* payment_reconcile: the verdict about one identity.                         *)

Awaited(i) == IF i[1] = "release" THEN money \in Held \ {"ChargeAttempt"}
              ELSE Waits(<<"charge_start", 1>>) \/ Waits(i)
RailJob(i) == CASE i[1] = "charge_start" -> "charge_deal"
                [] i[1] = "recovery" -> "recovery_deal"
                [] OTHER -> "payment_release"
RailPhase(i) == CASE i[1] = "charge_start" -> deal = "Charging"
                  [] i[1] = "recovery" -> deal = "CompletionWindow" /\ window = "open"
                  [] OTHER -> TRUE

ReconcileStarts(r) ==
  LET i == run[r].id
      waiting == Awaited(i) IN
  /\ run[r].job = "payment_reconcile" /\ At(r, "start")
  /\ run' = [run EXCEPT ![r].seen = IF waiting /\ RailPhase(i) THEN "waiting"
                                    ELSE IF money \in Held /\ buyer \in {"DealFailed", "Dropped"} THEN "DealFailed"
                                    ELSE "not_waiting",
                        ![r].noted = (money = "ChargeFailedRecovery"),
                        ![r].pc = IF ~waiting /\ ~Unknown(i) THEN "sent"
                                  ELSE IF Recorded(i) THEN "recorded"
                                  ELSE IF Unknown(i) THEN "flight" ELSE "sibling"]
  /\ UNCHANGED <<phase, participant, at, jobs, provider>>

\* An identity that never left the process: its rail owns it while it has a job.
ReconcileRecorded(r) ==
  LET i == run[r].id IN
  /\ At(r, "recorded")
  /\ Go(r, CASE job[RailJob(i)] # "none" -> "sent"
             [] job[RailJob(i)] = "none" /\ run[r].seen = "waiting" ->
                  IF i[1] = "release" THEN "schedule_release" ELSE "sent"
             [] OTHER -> "retire")
  /\ UNCHANGED <<phase, participant, at, jobs, provider>>
ReconcileRetires(r) ==
  LET i == run[r].id IN
  /\ At(r, "retire")
  /\ at' = Retired({i[1]})
  /\ Go(r, IF at' # at /\ i[1] \in Capture /\ run[r].seen = "DealFailed" THEN "schedule_release" ELSE "sent")
  /\ UNCHANGED <<phase, participant, jobs, provider>>

\* A settled identity leaves the verdict to its unresolved sibling.
ReconcileSibling(r) ==
  LET i == run[r].id
      family == IF i[1] = "release" THEN {"release"} ELSE Capture IN
  /\ At(r, "sibling")
  /\ Go(r, IF \E k \in Id : k[1] \in family /\ k # i /\ Unknown(k) THEN "sent" ELSE "flight")
  /\ UNCHANGED <<phase, participant, at, jobs, provider>>
\* Nothing is concluded while any operation is in flight.
ReconcileLooks(r) ==
  /\ At(r, "flight")
  /\ Go(r, IF AnyInFlight THEN "failed" ELSE "status")
  /\ UNCHANGED <<phase, participant, at, jobs, provider>>
IsRelease(r) == run[r].id[1] = "release"
NotDone(r) == IF IsRelease(r) THEN {"authorized"} ELSE {"failed", "authorized"}
\* The read.  No verdict: an unproven negative and an unusable answer go to the
\* dead letters, an open one is asked again.
ReconcileReads(r) ==
  /\ At(r, "status")
  /\ \E s \in Answers :
       LET verdict == \/ s \in NotDone(r) /\ policy.negativeFinal
                      \/ s \in {"captured", "pending"} /\ ~IsRelease(r) IN
       IF verdict THEN run' = [run EXCEPT ![r].pc = "conclude", ![r].seen = s]
       ELSE Go(r, IF s = "released" /\ IsRelease(r) THEN "apply_release"
                  ELSE IF s \in {"foreign", "captured"} \cup NotDone(r) THEN "sent" ELSE "failed")
  /\ UNCHANGED <<phase, participant, at, jobs, provider>>

ConcludeCaptured(r) ==
  /\ At(r, "conclude") /\ run[r].seen = "captured"
  /\ IngestCaptured(run[r].id)
  /\ Go(r, "sent")
  /\ UNCHANGED <<phase, jobs, provider>>
ConcludeNotCaptured(r) ==
  LET i == run[r].id IN
  /\ At(r, "conclude") /\ ~IsRelease(r) /\ run[r].seen \in NotDone(r)
  /\ IF AnyInFlight THEN Go(r, "failed") /\ UNCHANGED <<participant, at>>
     ELSE /\ IngestFailed(i)
          /\ Go(r, CASE i[1] = "recovery" /\ Waits(i) -> "schedule_release"
                     [] i[1] = "charge_start" /\ (Waits(i) \/ run[r].noted) -> "schedule_recovery"
                     [] OTHER -> "sent")
  /\ UNCHANGED <<phase, jobs, provider>>
ScheduleRecovery(r) ==
  /\ At(r, "schedule_recovery")
  /\ job' = IF deal = "CompletionWindow" /\ window = "open" THEN Scheduled({"recovery_deal"}) ELSE job
  /\ Go(r, "sent")
  /\ UNCHANGED <<phase, participant, at, reconciles, provider>>
ConcludeNotReleased(r) ==
  LET i == run[r].id IN
  /\ At(r, "conclude") /\ IsRelease(r) /\ run[r].seen \in NotDone(r)
  /\ IF AnyInFlight THEN Go(r, "failed") /\ UNCHANGED at
     ELSE /\ at' = IF Final(i) THEN at
                   ELSE [at EXCEPT ![i].result = "permanent_fail", ![i].dispatch = "responded"]
          /\ Go(r, IF run[r].noted THEN "schedule_release" ELSE "sent")
  /\ UNCHANGED <<phase, participant, jobs, provider>>
\* An operation the provider still processes keeps the horizon open.
ConcludePending(r) ==
  /\ At(r, "conclude") /\ run[r].seen = "pending"
  /\ at' = Extended(at, run[r].id)
  /\ Go(r, "failed")
  /\ UNCHANGED <<phase, participant, jobs, provider>>

-----------------------------------------------------------------------------
(* finalize_deal: the terminal decision, and what it owes the participant.     *)

\* Mutant of Hidden: a capture that is executed and not applied is overlooked.
HiddenUnknown(i) == Unknown(i)
\* A capture that is unresolved, or executed and not yet applied.
Hidden(i) == Unknown(i) \/ (at[i].result = "success" /\ money \notin Captured)
Completes == others = "enough" \/ (others = "pivotal" /\ money \in Captured)
\* Mutant of LateLook: the second look stops with the horizon.
LateLookWhileOpen == money \in Held /\ \E i \in CaptureIds : Fenced(i) /\ at[i].horizon = "open"
LateLook == money \in Held /\ \E i \in CaptureIds : Fenced(i) /\ at[i].horizon # "null"

FinalizeStarts(r) ==
  /\ run[r].job = "finalize_deal"
  /\ StartRail(r, CASE deal = "Completed" -> "list"
                    [] deal \in {"Charging", "Failed"} -> "sent"
                    [] OTHER -> IF window = "over" THEN "unresolved" ELSE "failed")
FinalizeUnresolved(r) ==
  /\ At(r, "unresolved")
  /\ \/ \E i \in CaptureIds : Hidden(i) /\ ScheduleReconcile(i) /\ Go(r, "failed")
     \/ (\A i \in CaptureIds : ~Hidden(i)) /\ Go(r, "fence") /\ UNCHANGED jobs
  /\ UNCHANGED <<phase, participant, at, provider>>
FinalizeFence(r) ==
  /\ At(r, "fence")
  /\ Go(r, CASE Fence = "permanent" -> "sent"
             [] Fence = "open" -> "failed"
             [] OTHER -> IF LateLook THEN "preflight" ELSE "sum")
  /\ UNCHANGED <<phase, participant, at, jobs, provider>>
FinalizeSums(r) ==
  /\ At(r, "sum")
  /\ run' = [run EXCEPT ![r].pc = "decide", ![r].seen = IF Completes THEN "completes" ELSE "fails"]
  /\ UNCHANGED <<phase, participant, at, jobs, provider>>

\* The compare-and-swap with revalidateDecisionUnderLock; the same decision
\* taken by another run is replayed.
StillTrue(r) == (\A i \in CaptureIds : ~Hidden(i)) /\ (Completes <=> run[r].seen = "completes")
Verdict(r) == IF run[r].seen = "completes" THEN "Completed" ELSE "Failed"
FinalizeDecides(r) ==
  /\ At(r, "decide")
  /\ IF deal = "CompletionWindow" /\ StillTrue(r)
     THEN deal' = Verdict(r) /\ Go(r, "list")
     ELSE Go(r, IF deal = Verdict(r) THEN "list" ELSE "failed") /\ UNCHANGED deal
  /\ UNCHANGED <<policy, scope, others, window, participant, at, jobs, provider>>

\* failAllParticipantsForDeal and applyCompletedDealOutcome: a list, then a
\* compare-and-swap on what was listed.
ListParticipants(r) ==
  /\ At(r, "list")
  /\ run' = [run EXCEPT ![r].pc = "outcome", ![r].seen = buyer]
  /\ UNCHANGED <<phase, participant, at, jobs, provider>>
Decided == {"DealFailed", "DealCompleted"}
NothingCaptured == \A i \in CaptureIds : at[i].result \in {"none", "permanent_fail", "temporary_fail"}
Outcome(r) ==
  /\ At(r, "outcome")
  /\ IF run[r].seen \in Decided THEN Go(r, "schedule_release") /\ UNCHANGED buyer
     ELSE IF buyer # run[r].seen THEN Go(r, "failed") /\ UNCHANGED buyer
     ELSE IF deal = "Failed" THEN buyer' = "DealFailed" /\ Go(r, "schedule_release")
     ELSE IF buyer \in {"ChargedSuccess", "Recovered"} THEN buyer' = "DealCompleted" /\ Go(r, "schedule_release")
     ELSE IF NothingCaptured THEN buyer' = "DealFailed" /\ Go(r, "schedule_release")
     ELSE Go(r, "failed") /\ UNCHANGED buyer
  /\ UNCHANGED <<phase, money, at, jobs, provider>>

-----------------------------------------------------------------------------
(* Worker maintenance, the clock, and the provider.                           *)

RescheduleStalledFinalizations ==
  /\ deal = "CompletionWindow" /\ window = "over" /\ job["finalize_deal"] = "none"
  /\ job' = Scheduled({"finalize_deal"})
  /\ UNCHANGED <<phase, participant, at, reconciles, run, provider>>
ReconcileOrphan(i) ==
  /\ Unknown(i) /\ ~InFlight(i) /\ job["payment_reconcile"] = "none"
  /\ ScheduleReconcile(i)
  /\ UNCHANGED <<phase, participant, at, run, provider>>

WindowCloses ==
  /\ window = "open" /\ window' = "over"
  /\ others' \in {"enough", "pivotal", "short"}
  /\ UNCHANGED <<policy, scope, deal, participant, at, jobs, run, provider>>
\* The horizon is the provider's promise: what can still settle is not past it.
HorizonElapses(i) ==
  /\ Fenced(i) /\ at[i].horizon = "open" /\ i \notin wire
  /\ \A r \in Run : run[r].id = i => ~At(r, "io")
  /\ at' = [at EXCEPT ![i].horizon = "elapsed"]
  /\ UNCHANGED <<phase, participant, jobs, run, provider>>

Execute(i) ==
  /\ i \in wire
  /\ i[1] = "release" => executed \cap CaptureIds = {}
  /\ executed' = executed \cup {i} /\ wire' = wire \ {i}
  /\ UNCHANGED <<phase, participant, at, jobs, run, sent, lost>>
Lose(i) ==
  /\ i \in wire
  /\ wire' = wire \ {i}
  /\ UNCHANGED <<phase, participant, at, jobs, run, executed, sent, lost>>
\* The provider's own events about a request it was sent.  The release that a
\* failed recovery schedules after its transaction may be missed.
CallbackCaptured(i) ==
  /\ i \in executed \cap CaptureIds
  /\ IngestCaptured(i)
  /\ UNCHANGED <<phase, jobs, run, provider>>
CallbackFailed(i) ==
  /\ i \in CaptureIds \ executed /\ sent[i] > 0 /\ Waits(i)
  /\ policy.horizon \/ i \notin wire
  /\ IngestFailed(i)
  /\ job' \in {job} \cup (IF i[1] = "recovery" THEN {Scheduled({"payment_release"})} ELSE {})
  /\ UNCHANGED <<phase, reconciles, run, provider>>

-----------------------------------------------------------------------------
Step(r) ==
  \/ \E j \in Job : Claim(r, j)
  \/ Acknowledge(r) \/ FailAttempt(r) \/ RunDies(r) \/ HandlerThrows(r) \/ LeaseExpires(r)
  \/ ChargeStarts(r) \/ ReleaseStarts(r) \/ RecoveryStarts(r) \/ ReconcileStarts(r) \/ FinalizeStarts(r)
  \/ BeginStateChanged(r) \/ BeginBlocked(r) \/ BeginFenced(r) \/ BeginAgain(r) \/ BeginFresh(r)
  \/ ReadStatus(r) \/ ResolveCaptured(r) \/ ResolveFailed(r)
  \/ ArmRefused(r) \/ Arm(r) \/ Send(r) \/ NotSent(r) \/ \E o \in Outcomes : Answer(r, o)
  \/ SettleSuccess(r) \/ SettleNotSent(r) \/ SettleUnknown(r) \/ SettleDeclined(r) \/ Ingest(r)
  \/ Reconcile(r) \/ ApplyRelease(r) \/ ScheduleRelease(r) \/ ToCompletionWindow(r)
  \/ FirstLook(r) \/ SecondLook(r)
  \/ ReconcileRecorded(r) \/ ReconcileRetires(r) \/ ReconcileSibling(r) \/ ReconcileLooks(r) \/ ReconcileReads(r)
  \/ ConcludeCaptured(r) \/ ConcludeNotCaptured(r) \/ ScheduleRecovery(r)
  \/ ConcludeNotReleased(r) \/ ConcludePending(r)
  \/ FinalizeUnresolved(r) \/ FinalizeFence(r) \/ FinalizeSums(r) \/ FinalizeDecides(r)
  \/ ListParticipants(r) \/ Outcome(r)

Environment ==
  \/ RescheduleStalledFinalizations \/ WindowCloses
  \/ \E i \in Id : ReconcileOrphan(i) \/ HorizonElapses(i) \/ Execute(i) \/ Lose(i)
                   \/ CallbackCaptured(i) \/ CallbackFailed(i)

Next == (\E r \in Run : Step(r)) \/ Environment
Spec == Init /\ [][Next]_vars

-----------------------------------------------------------------------------
(* Properties.                                                                *)

\* An obligation is captured at most once, whatever was lost, repeated,
\* inferred or retried.
OneCapture == Cardinality(executed \cap CaptureIds) <= 1

\* A hold is never both released and captured.
NeverReleasedAndCaptured ==
  ~(executed \cap CaptureIds # {} /\ \E i \in executed : i[1] = "release")

\* What the participant's money state says happened did happen at the provider.
MoneyFollowsProvider ==
  /\ money \in Captured => executed \cap CaptureIds # {}
  /\ money = "AuthReleased" => \E i \in executed : i[1] = "release"

\* A deal that is decided counts this participant's money: every capture the
\* provider executed, or may still execute, is in the participant's state, when
\* the decision is taken and for ever after.
DecisionKnowsTheMoney ==
  deal \in {"Completed", "Failed"} =>
    money \in Captured \/ (executed \cup wire) \cap CaptureIds = {}

\* No identity is sent twice to a provider that would take it for two operations.
NoBlindRepeat == \A i \in Id : sent[i] <= 1

\* While an operation is in flight nobody but its owner touches its row (but for the
\* clock), unless to record that it succeeded.
InFlightUndisturbed ==
  [][\A i \in Id : InFlight(i) /\ at'[i] # [at[i] EXCEPT !.horizon = at'[i].horizon] =>
       \/ at'[i].result = "success"
       \/ run'[at[i].owner] # run[at[i].owner]]_vars

\* The lifecycle note of payment_attempt_helpers.ts: a recorded row never left
\* the process.
RecordedNeverSent == \A i \in Id : Recorded(i) => sent[i] = 0
=============================================================================
