------------------------ MODULE AuthorizationRenewal ------------------------
(***************************************************************************)
(* The authorization that a participant's capture is taken from, and its   *)
(* renewal at the charging boundary: ensureUsableAuthorizationForCapture   *)
(* and the capture loop of charge_deal, payment_reconcile of a renewal and *)
(* of a capture (app.ts), payment_binding.ts and the rules of              *)
(* payment_attempt_helpers.ts for renewals.                                *)
(*                                                                         *)
(* Authorization 0 is the one of the Join, n the one renewal n makes.      *)
(* Each transaction and each call of the provider is a step.               *)
(***************************************************************************)
EXTENDS Integers, FiniteSets

CONSTANTS
  Clerk,         \* handler runs that may be under way at once
  Providers,     \* what a provider is: see conclusive and declares
  MaxRenewals,   \* renewals the model lets the participant have
  MaxCaptures,   \* captures
  MaxTurns       \* leases lost, jobs out of attempts, second renewals and captures, together

Authorization == 0..MaxRenewals
Capture == {"charge_start"} \X (1..MaxCaptures)
Renewal == {"reauthorize"} \X (1..MaxRenewals)
Identity == Capture \cup Renewal
None == -1                                  \* no reference
Chore == {"charge_deal", "payment_reconcile"}

ASSUME RenewalAssumption ==
  /\ MaxRenewals \in Nat \ {0} /\ MaxCaptures \in Nat \ {0} /\ MaxTurns \in Nat
  /\ Providers \subseteq [conclusive : BOOLEAN, declares : BOOLEAN]
  /\ Clerk \cap {"null", "gone"} = {}

VARIABLES
  conclusive,    \* of the provider: negative_status_authoritative
  declares,      \* of the provider: it declares how long an authorization is valid
  binding,       \* payment_authorization_bindings; since: renewals minted before it
  ledger,        \* payment_attempts; ref is provider_reference
  charged,       \* the participant's state
  windowOpen,    \* the deal has left Charging
  chore, subject,   \* outbox; what payment_reconcile is about
  clerk,         \* the handler runs
  reported,      \* the participant has an open case
  stalls,        \* leases lost and jobs given up so far
  request,       \* the provider: what became of an identity, and on which authorization
  lapsed         \* authorizations that are no longer valid at the provider

renewalVars == <<conclusive, declares, binding, ledger, charged, windowOpen, chore, subject, clerk, reported, stalls, request, lapsed>>
provider == <<conclusive, declares, request, lapsed>>
records == <<binding, ledger, charged, windowOpen>>
queue == <<chore, subject>>

Nothing == <<"none", 0>>
Spent == stalls + Cardinality({i \in Identity : i[2] > 1 /\ ledger[i].result # "none"})
Spares(i) == i[2] = 1 \/ Spent < MaxTurns
Idle == [chore |-> "none", pc |-> "free", live |-> FALSE, on |-> Nothing, auth |-> None, retry |-> FALSE, hold |-> FALSE, seen |-> "none"]
NoAttempt == [result |-> "none", dispatch |-> "recorded", owner |-> "null", ref |-> None]
NoSubject == [of |-> Nothing, ref |-> None]

RenewalTypeOK ==
  /\ conclusive \in BOOLEAN /\ declares \in BOOLEAN
  /\ binding \in [auth : Authorization, expires : {"null", "declared", "past"}, since : 0..MaxRenewals]
  /\ ledger \in [Identity -> [result : {"none", "unknown", "success", "permanent_fail", "temporary_fail"},
                              dispatch : {"recorded", "dispatching", "responded"},
                              owner : Clerk \cup {"null", "gone"}, ref : Authorization \cup {None}]]
  /\ charged \in {"ChargeAttempt", "ChargedSuccess", "ChargeFailedRecovery"} /\ windowOpen \in BOOLEAN
  /\ chore \in [Chore -> {"none", "pending", "processing", "sent", "dlq"}]
  /\ subject \in [of : Identity \cup {Nothing}, ref : Authorization \cup {None}]
  /\ clerk \in [Clerk -> [chore : Chore \cup {"none"},
                          pc : {"free", "gate", "renew", "prove", "apply", "close", "arm", "send", "await", "settle", "capture",
                                "resolve", "ingest", "schedule", "end", "begin", "flight", "status", "conclude",
                                "wake", "ack", "throw", "give_up"},
                          live : BOOLEAN, on : Identity \cup {Nothing}, auth : Authorization \cup {None},
                          retry : BOOLEAN, hold : BOOLEAN,
                          seen : {"none", "done", "pending", "declined", "unusable", "unknown", "unsent", "negative", "authorized"}]]
  /\ reported \in BOOLEAN /\ stalls \in 0..MaxTurns
  /\ request \in [Identity -> [fate : {"unsent", "wire", "pending", "done", "declined", "unusable"}, on : Authorization]]
  /\ lapsed \subseteq Authorization

RenewalInit ==
  /\ \E p \in Providers : conclusive = p.conclusive /\ declares = p.declares
  /\ binding = [auth |-> 0, expires |-> IF declares THEN "declared" ELSE "null", since |-> 0]
  /\ ledger = [i \in Identity |-> NoAttempt]
  /\ charged = "ChargeAttempt" /\ windowOpen = FALSE
  /\ chore = [j \in Chore |-> IF j = "charge_deal" THEN "pending" ELSE "none"] /\ subject = NoSubject
  /\ clerk = [c \in Clerk |-> Idle]
  /\ reported = FALSE /\ stalls = 0
  /\ request = [i \in Identity |-> [fate |-> "unsent", on |-> 0]]
  /\ lapsed = {}

-----------------------------------------------------------------------------
(* Jobs and runs, as in OutboxWorker.                                        *)

Is(c, pc) == clerk[c].pc = pc
Its(c) == clerk[c].on
Closed(c, pc) == [Idle EXCEPT !.chore = clerk[c].chore, !.live = clerk[c].live, !.pc = pc]
Turns(c, pc) ==
  clerk' = [clerk EXCEPT ![c] = IF pc \in {"ack", "throw", "give_up"} THEN Closed(c, pc)
                                ELSE [@ EXCEPT !.pc = pc, !.seen = "none"]]
TurnsTo(c, pc, i) == clerk' = [clerk EXCEPT ![c].pc = pc, ![c].on = i]
TurnsKnowing(c, pc, v) == clerk' = [clerk EXCEPT ![c].pc = pc, ![c].seen = v]
Waits(c, pc, i) == clerk' = [clerk EXCEPT ![c].pc = pc, ![c].on = i, ![c].seen = "none", ![c].hold = TRUE]
Alive(j) == chore[j] \in {"pending", "processing"}
Enqueued(j) == IF Alive(j) THEN chore ELSE [chore EXCEPT ![j] = "pending"]

\* charge_deal passes over a participant who does not wait for his capture.
TakeChore(c, j) ==
  /\ Is(c, "free") /\ chore[j] = "pending"
  /\ chore' = [chore EXCEPT ![j] = "processing"]
  /\ clerk' = [clerk EXCEPT ![c] =
       [Idle EXCEPT !.chore = j, !.live = TRUE, !.retry = (j = "charge_deal"),
                    !.pc = IF j = "payment_reconcile" THEN "begin" ELSE IF charged = "ChargeAttempt" THEN "gate" ELSE "end",
                    !.on = IF j = "payment_reconcile" THEN subject.of ELSE Nothing]]
  /\ UNCHANGED <<provider, records, subject, reported, stalls>>

\* What a run leaves dispatching has no live owner any more.
LeavesWith(c, status) ==
  /\ chore' = IF clerk[c].live THEN [chore EXCEPT ![clerk[c].chore] = status] ELSE chore
  /\ clerk' = [clerk EXCEPT ![c] = Idle]
  /\ ledger' = [i \in Identity |-> IF ledger[i].owner = c THEN [ledger[i] EXCEPT !.owner = "gone"] ELSE ledger[i]]
  /\ UNCHANGED <<provider, binding, charged, windowOpen, subject, reported>>
ClerkAcks(c) == Is(c, "ack") /\ LeavesWith(c, "sent") /\ UNCHANGED stalls
ClerkRetries(c) == Is(c, "throw") /\ LeavesWith(c, "pending") /\ UNCHANGED stalls
ClerkGivesUp(c) == Is(c, "give_up") /\ LeavesWith(c, "dlq") /\ UNCHANGED stalls
OutOfAttempts(c) ==
  /\ Is(c, "throw") /\ clerk[c].live /\ Spent < MaxTurns
  /\ stalls' = stalls + 1 /\ LeavesWith(c, "dlq")
ClerkDies(c) == ~Is(c, "free") /\ ~clerk[c].live /\ LeavesWith(c, "none") /\ UNCHANGED stalls
ClerkThrows(c) ==
  /\ clerk[c].pc \notin {"free", "ack", "throw", "give_up", "send", "await"}
  /\ Turns(c, "throw")
  /\ UNCHANGED <<provider, records, queue, reported, stalls>>
\* The lease outlasts the client's side of a request (ProviderIoFenced).
ClerkStalls(c) ==
  /\ clerk[c].live /\ clerk[c].pc \notin {"send", "await"}
  /\ Spent < MaxTurns /\ stalls' = stalls + 1
  /\ clerk' = [clerk EXCEPT ![c].live = FALSE]
  /\ chore' = [chore EXCEPT ![clerk[c].chore] = "pending"]
  /\ UNCHANGED <<provider, records, subject, reported>>

-----------------------------------------------------------------------------
(* Rows and the binding.                                                     *)

Minted(type) == {i \in type : ledger[i].result # "none"}
NextOf(type) == CHOOSE i \in type : i[2] = Cardinality(Minted(type)) + 1
\* Mutant of Unknown: only what is under way is unresolved.
UnknownUnderWay(type) ==
  {i \in type : /\ ledger[i].result = "unknown" /\ ledger[i].dispatch = "dispatching"
                /\ ledger[i].owner \in Clerk /\ clerk[ledger[i].owner].live}
Unknown(type) == {i \in type : ledger[i].result = "unknown"}
InFlight(i) ==
  /\ ledger[i].result = "unknown" /\ ledger[i].dispatch = "dispatching"
  /\ ledger[i].owner \in Clerk /\ clerk[ledger[i].owner].live
AnyInFlight == \E i \in Identity : InFlight(i)
Terminal(i) == ledger[i].result \in {"success", "permanent_fail"}
\* retireNeverDispatchedInTx
Retired(type) ==
  [i \in Identity |-> IF i \in type /\ ledger[i].result = "unknown" /\ ledger[i].dispatch = "recorded"
                      THEN [ledger[i] EXCEPT !.result = "temporary_fail"] ELSE ledger[i]]
Responded(i, result) == [ledger EXCEPT ![i].result = result, ![i].dispatch = "responded"]
Succeeded(i, a) == [ledger EXCEPT ![i].result = "success", ![i].dispatch = "responded", ![i].ref = a]

\* assessAuthorizationUsability, and renewalEligibilityForParticipant
Expired == binding.expires = "past" \/ (binding.expires = "declared" /\ binding.auth \in lapsed)
LastDeclined ==
  \E i \in Renewal : i[2] = Cardinality(Minted(Renewal)) /\ i[2] > binding.since /\ ledger[i].result = "permanent_fail"
\* Mutant of Applied: the reference is read from the row, where the answer need
\* not be yet.
AppliedFromRow(a, expires) ==
  IF binding.auth = a THEN binding
  ELSE [auth |-> ledger[<<"reauthorize", a>>].ref, expires |-> expires, since |-> Cardinality(Minted(Renewal))]
\* applyAuthorizationRenewalInTx
Applied(a, expires) ==
  IF binding.auth = a THEN binding ELSE [auth |-> a, expires |-> expires, since |-> Cardinality(Minted(Renewal))]
DeclaredExpiry == IF declares THEN "declared" ELSE "null"

-----------------------------------------------------------------------------
(* ensureUsableAuthorizationForCapture.                                      *)

\* Mutant of Gate: it renews whatever may be renewed.
GateAlwaysRenews(c) ==
  /\ Is(c, "gate")
  /\ clerk' = [clerk EXCEPT ![c].auth = binding.auth, ![c].pc = IF ~LastDeclined THEN "renew" ELSE "capture"]
  /\ UNCHANGED <<provider, records, queue, reported, stalls>>
Gate(c) ==
  /\ Is(c, "gate")
  /\ clerk' = [clerk EXCEPT ![c].auth = binding.auth, ![c].pc = IF Expired /\ ~LastDeclined THEN "renew" ELSE "capture"]
  /\ UNCHANGED <<provider, records, queue, reported, stalls>>

RenewalNotAdmitted(c) ==
  /\ Is(c, "renew") /\ charged # "ChargeAttempt"
  /\ ledger' = Retired(Renewal) /\ Turns(c, "end")
  /\ UNCHANGED <<provider, binding, charged, windowOpen, queue, reported, stalls>>
RenewalBlocked(c) ==
  /\ Is(c, "renew") /\ charged = "ChargeAttempt"
  /\ \E i \in Unknown(Capture) : Waits(c, "schedule", i)
  /\ reported' = TRUE
  /\ UNCHANGED <<provider, records, queue, stalls>>
RenewalAgain(c) ==
  /\ Is(c, "renew") /\ charged = "ChargeAttempt" /\ Unknown(Capture) = {}
  /\ \E i \in Unknown(Renewal) :
       IF InFlight(i) THEN Waits(c, "end", Nothing)
       ELSE TurnsTo(c, IF ledger[i].dispatch = "recorded" THEN "arm" ELSE "prove", i)
  /\ UNCHANGED <<provider, records, queue, reported, stalls>>
RenewalFresh(c) ==
  /\ Is(c, "renew") /\ charged = "ChargeAttempt" /\ Unknown(Capture) = {} /\ Unknown(Renewal) = {}
  /\ Minted(Renewal) # Renewal /\ Spares(NextOf(Renewal))         \* bounds: MaxRenewals, MaxTurns
  /\ ledger' = [ledger EXCEPT ![NextOf(Renewal)].result = "unknown"]
  /\ TurnsTo(c, "arm", NextOf(Renewal))
  /\ UNCHANGED <<provider, binding, charged, windowOpen, queue, reported, stalls>>

\* What a status says of the authorization that renewal i made; it is open
\* ("pending") as long as it likes.
RenewalStatus(i) ==
  {"pending"} \cup (IF request[i].fate = "done" THEN {"done"} ELSE {})
              \cup (IF request[i].fate = "declined" \/ (request[i].fate = "done" /\ i[2] \in lapsed) THEN {"negative"} ELSE {})
\* An unresolved renewal is sent again unless the provider has named its
\* authorization: then its status decides.
ProveRenewal(c) ==
  LET i == Its(c) IN
  /\ Is(c, "prove")
  /\ IF ledger[i].ref = None THEN Turns(c, "arm")
     ELSE \E v \in RenewalStatus(i) :
            CASE v = "done" -> Turns(c, "apply")
              [] v = "negative" /\ conclusive -> Turns(c, "close")
              [] OTHER -> Waits(c, "schedule", i)
  /\ UNCHANGED <<provider, records, queue, reported, stalls>>
ApplyProven(c) ==
  LET i == Its(c) IN
  /\ Is(c, "apply")
  /\ ledger' = Succeeded(i, i[2]) /\ binding' = Applied(i[2], "null")
  /\ clerk' = [clerk EXCEPT ![c].pc = "capture", ![c].auth = i[2]]
  /\ UNCHANGED <<provider, charged, windowOpen, queue, reported, stalls>>
CloseUnexecuted(c) ==
  LET i == Its(c) IN
  /\ Is(c, "close")
  /\ IF AnyInFlight THEN Turns(c, "throw") /\ UNCHANGED ledger
     ELSE /\ ledger' = IF Terminal(i) THEN ledger ELSE Responded(i, "permanent_fail")
          /\ Turns(c, "capture")
  /\ UNCHANGED <<provider, binding, charged, windowOpen, queue, reported, stalls>>

-----------------------------------------------------------------------------
(* Arming, sending and the answer, for renewals and captures alike.          *)

ArmRequest(c) ==
  LET i == Its(c) IN
  /\ Is(c, "arm")
  /\ IF ~clerk[c].live THEN Turns(c, "throw") /\ UNCHANGED ledger
     ELSE IF charged = "ChargeAttempt" /\ ledger[i].result = "unknown" /\ ~InFlight(i)
     THEN /\ ledger' = [ledger EXCEPT ![i].dispatch = "dispatching", ![i].owner = c,
                                      ![i].ref = IF i \in Capture THEN clerk[c].auth ELSE @]
          /\ Turns(c, "send")
     ELSE Turns(c, "end") /\ UNCHANGED ledger
  /\ UNCHANGED <<provider, binding, charged, windowOpen, queue, reported, stalls>>
\* The provider recognises an identity it has seen.
SendRequest(c) ==
  LET i == Its(c) IN
  /\ Is(c, "send")
  /\ \/ /\ request' = IF request[i].fate # "unsent" THEN request
                      ELSE [request EXCEPT ![i] = [fate |-> "wire", on |-> IF i \in Capture THEN clerk[c].auth ELSE 0]]
        /\ Turns(c, "await")
     \/ TurnsKnowing(c, "settle", "unsent") /\ UNCHANGED request      \* the adapter fails before it sends
  /\ UNCHANGED <<conclusive, declares, lapsed, records, queue, reported, stalls>>
Answered(c) ==
  /\ Is(c, "await")
  /\ \E v \in {"unknown"} \cup ({request[Its(c)].fate} \cap {"done", "pending", "declined", "unusable"}) : TurnsKnowing(c, "settle", v)
  /\ UNCHANGED <<provider, records, queue, reported, stalls>>

Saw(c, v) == Is(c, "settle") /\ clerk[c].seen = v
Owns(c) == ledger[Its(c)].owner \in {c, "null"}
\* settleProviderDispatch of anything but a success: by the owner only; a row
\* that is decided needs nothing, any other refusal ends the run.
Refused(c) == ~Owns(c) /\ ~Terminal(Its(c))
Settled(c, result) ==
  ledger' = IF ~Owns(c) THEN ledger
            ELSE Responded(Its(c), IF Terminal(Its(c)) THEN ledger[Its(c)].result ELSE result)
SettleRefused(c) ==
  /\ Is(c, "settle") /\ clerk[c].seen # "done" /\ Refused(c)
  /\ Turns(c, "throw")
  /\ UNCHANGED <<provider, records, queue, reported, stalls>>
Disarmed(c) ==
  LET i == Its(c) IN
  IF ledger[i].result = "unknown" /\ ledger[i].dispatch = "dispatching" /\ ledger[i].owner = c
  THEN [ledger EXCEPT ![i].dispatch = "recorded", ![i].owner = "null"] ELSE ledger

-----------------------------------------------------------------------------
(* The answer to a renewal.                                                  *)

RenewalDone(c) ==
  LET i == Its(c) IN
  /\ i \in Renewal /\ Saw(c, "done")
  /\ ledger' = Succeeded(i, i[2]) /\ binding' = Applied(i[2], DeclaredExpiry)
  /\ clerk' = [clerk EXCEPT ![c].pc = "capture", ![c].auth = i[2], ![c].seen = "none"]
  /\ UNCHANGED <<provider, charged, windowOpen, queue, reported, stalls>>
RenewalPending(c) ==
  LET i == Its(c) IN
  /\ i \in Renewal /\ Saw(c, "pending") /\ ~Refused(c)
  /\ ledger' = IF Owns(c) THEN [ledger EXCEPT ![i].dispatch = "responded", ![i].ref = i[2]] ELSE ledger
  /\ Waits(c, "schedule", i)
  /\ UNCHANGED <<provider, binding, charged, windowOpen, queue, reported, stalls>>
\* Mutant of RenewalUnanswered: no answer is a decline.
RenewalGivenUp(c) ==
  /\ Its(c) \in Renewal /\ Saw(c, "unknown") /\ ~Refused(c)
  /\ Settled(c, "permanent_fail") /\ Turns(c, "capture")
  /\ UNCHANGED <<provider, binding, charged, windowOpen, queue, reported, stalls>>
RenewalUnanswered(c) ==
  /\ Its(c) \in Renewal /\ Saw(c, "unknown") /\ ~Refused(c)
  /\ Settled(c, "unknown") /\ Waits(c, "end", Nothing)
  /\ UNCHANGED <<provider, binding, charged, windowOpen, queue, reported, stalls>>
\* Declined or not sent: the provider is to decide on the old authorization.
RenewalDeclined(c) ==
  /\ Its(c) \in Renewal /\ Saw(c, "declined") /\ ~Refused(c)
  /\ Settled(c, "permanent_fail") /\ Turns(c, "capture")
  /\ UNCHANGED <<provider, binding, charged, windowOpen, queue, reported, stalls>>
RenewalUnsent(c) ==
  /\ Its(c) \in Renewal /\ Saw(c, "unsent") /\ ~Refused(c)
  /\ ledger' = Disarmed(c) /\ Turns(c, "capture") /\ reported' = TRUE
  /\ UNCHANGED <<provider, binding, charged, windowOpen, queue, stalls>>

-----------------------------------------------------------------------------
(* captureParticipantOnce.                                                   *)

CaptureNotAdmitted(c) ==
  /\ Is(c, "capture") /\ charged # "ChargeAttempt"
  /\ ledger' = Retired(Capture) /\ Turns(c, "end")
  /\ UNCHANGED <<provider, binding, charged, windowOpen, queue, reported, stalls>>
\* Mutant of CaptureBlocked: nobody is told.
CaptureBlockedSilently(c) ==
  /\ Is(c, "capture") /\ charged = "ChargeAttempt"
  /\ \E i \in Unknown(Renewal) : TurnsTo(c, "schedule", i)
  /\ UNCHANGED <<provider, records, queue, reported, stalls>>
\* It is not held for a renewal: only for a release.
CaptureBlocked(c) ==
  /\ Is(c, "capture") /\ charged = "ChargeAttempt"
  /\ \E i \in Unknown(Renewal) : TurnsTo(c, "schedule", i)
  /\ reported' = TRUE
  /\ UNCHANGED <<provider, records, queue, stalls>>
CaptureAgain(c) ==
  /\ Is(c, "capture") /\ charged = "ChargeAttempt" /\ Unknown(Renewal) = {}
  /\ \E i \in Minted(Capture) :
       /\ ledger[i].result \in {"unknown", "success"}
       /\ TurnsTo(c, IF InFlight(i) THEN "end"
                     ELSE IF ledger[i].result = "unknown" /\ ledger[i].dispatch = "recorded" THEN "arm" ELSE "resolve", i)
  /\ UNCHANGED <<provider, records, queue, reported, stalls>>
CaptureFresh(c) ==
  /\ Is(c, "capture") /\ charged = "ChargeAttempt" /\ Unknown(Renewal) = {}
  /\ \A i \in Capture : ledger[i].result \notin {"unknown", "success"}
  /\ Minted(Capture) # Capture /\ Spares(NextOf(Capture))         \* bounds: MaxCaptures, MaxTurns
  /\ ledger' = [ledger EXCEPT ![NextOf(Capture)].result = "unknown"]
  /\ TurnsTo(c, "arm", NextOf(Capture))
  /\ UNCHANGED <<provider, binding, charged, windowOpen, queue, reported, stalls>>

\* What a status says of the captures on authorization a. The final answers are
\* true and come with nothing on the wire.
CaptureStatus(a) ==
  LET fates == {request[i].fate : i \in {k \in Capture : request[k].on = a}} IN
  {"pending"} \cup (IF "done" \in fates THEN {"done"}
                    ELSE IF "wire" \in fates THEN {}
                    ELSE IF a \in lapsed \/ fates \cap {"declined", "unusable"} # {} THEN {"negative"} ELSE {"authorized"})
\* The events charge_captured and charge_failed, and the settlement of i.
Captured(i) ==
  /\ charged' = IF charged = "ChargeAttempt" THEN "ChargedSuccess" ELSE charged
  /\ reported' = (reported \/ charged = "ChargeFailedRecovery")
  /\ ledger' = Responded(i, "success")
NotCaptured(i) ==
  /\ charged' = IF charged = "ChargeAttempt" THEN "ChargeFailedRecovery" ELSE charged
  /\ ledger' = IF Terminal(i) THEN ledger ELSE Responded(i, "permanent_fail")

\* resolvePriorProviderAttempt
ResolveCaptured(c) ==
  /\ Is(c, "resolve") /\ "done" \in CaptureStatus(clerk[c].auth)
  /\ Captured(Its(c)) /\ Turns(c, "end")
  /\ UNCHANGED <<provider, binding, windowOpen, queue, stalls>>
ResolveFailed(c) ==
  /\ Is(c, "resolve") /\ "negative" \in CaptureStatus(clerk[c].auth) /\ conclusive
  /\ IF AnyInFlight THEN Turns(c, "throw") /\ UNCHANGED <<charged, ledger>>
     ELSE NotCaptured(Its(c)) /\ Turns(c, "end")
  /\ UNCHANGED <<provider, binding, windowOpen, queue, reported, stalls>>
ResolveUnsettled(c) ==
  /\ Is(c, "resolve")
  /\ \E v \in CaptureStatus(clerk[c].auth) :
       \/ (v = "authorized" \/ (v = "negative" /\ ~conclusive)) /\ Turns(c, "arm")
       \/ v = "pending" /\ Turns(c, "schedule")
  /\ UNCHANGED <<provider, records, queue, reported, stalls>>

CaptureDone(c) ==
  /\ Its(c) \in Capture /\ Saw(c, "done")
  /\ ledger' = Responded(Its(c), "success") /\ TurnsKnowing(c, "ingest", "done")
  /\ UNCHANGED <<provider, binding, charged, windowOpen, queue, reported, stalls>>
\* The provider no longer accepts the authorization: renew it and capture again,
\* once in a run.
CaptureUnusable(c) ==
  /\ Its(c) \in Capture /\ Saw(c, "unusable") /\ ~Refused(c) /\ clerk[c].retry /\ ~LastDeclined
  /\ Settled(c, "permanent_fail")
  /\ binding' = IF Owns(c) THEN [binding EXCEPT !.expires = "past"] ELSE binding
  /\ clerk' = [clerk EXCEPT ![c].pc = "gate", ![c].retry = FALSE, ![c].seen = "none"]
  /\ UNCHANGED <<provider, charged, windowOpen, queue, reported, stalls>>
CaptureDeclined(c) ==
  /\ Its(c) \in Capture /\ ~Refused(c)
  /\ Saw(c, "declined") \/ (Saw(c, "unusable") /\ (~clerk[c].retry \/ LastDeclined))
  /\ Settled(c, "permanent_fail") /\ TurnsKnowing(c, "ingest", "declined")
  /\ UNCHANGED <<provider, binding, charged, windowOpen, queue, reported, stalls>>
CaptureUnanswered(c) ==
  /\ Its(c) \in Capture /\ Saw(c, "unknown") /\ ~Refused(c)
  /\ Settled(c, "unknown") /\ Turns(c, "schedule")
  /\ UNCHANGED <<provider, binding, charged, windowOpen, queue, reported, stalls>>
CaptureUnsent(c) ==
  /\ Its(c) \in Capture /\ Saw(c, "unsent") /\ ~Refused(c)
  /\ ledger' = Disarmed(c) /\ Turns(c, "throw")
  /\ UNCHANGED <<provider, binding, charged, windowOpen, queue, reported, stalls>>
IngestOutcome(c) ==
  /\ Is(c, "ingest")
  /\ IF clerk[c].seen = "done" THEN Captured(Its(c)) ELSE NotCaptured(Its(c)) /\ UNCHANGED reported
  /\ Turns(c, "end")
  /\ UNCHANGED <<provider, binding, windowOpen, queue, stalls>>

\* schedulePaymentReconcile: behind a live one for another identity it is dropped
\* and shown as a case. A renewal is looked up by its own reference.
Scheduled(i, ref) ==
  /\ chore' = Enqueued("payment_reconcile")
  /\ subject' = IF Alive("payment_reconcile") THEN subject ELSE [of |-> i, ref |-> ref]
  /\ reported' = (reported \/ (Alive("payment_reconcile") /\ subject.of # i))
ScheduleReconcile(c) ==
  /\ Is(c, "schedule")
  /\ Scheduled(Its(c), IF Its(c) \in Renewal THEN ledger[Its(c)].ref ELSE clerk[c].auth)
  /\ Turns(c, "end")
  /\ UNCHANGED <<provider, records, stalls>>

\* The end of charge_deal: deferred, or the window opens.
EndOfCharge(c) ==
  /\ Is(c, "end")
  /\ IF clerk[c].hold THEN Turns(c, "throw") /\ UNCHANGED windowOpen
     ELSE /\ windowOpen' = TRUE
          /\ Turns(c, "ack") \/ (windowOpen /\ Turns(c, "throw"))
  /\ UNCHANGED <<provider, binding, ledger, charged, queue, reported, stalls>>

-----------------------------------------------------------------------------
(* payment_reconcile, of a renewal or a capture.                             *)

\* An identity that was never sent is its rail's while that has a live job;
\* otherwise it becomes a case, or it is retired. A renewal that is decided, or
\* has no reference of its own, has nothing to prove.
ReconcileBegins(c) ==
  LET i == Its(c)
      waiting == charged = "ChargeAttempt"
      unsent == ledger[i].result = "unknown" /\ ledger[i].dispatch = "recorded"
      sibling == i \in Capture /\ \E k \in Unknown(Capture) : k # i IN
  /\ Is(c, "begin")
  /\ \/ /\ unsent /\ Turns(c, "ack")
        /\ ledger' = (IF ~Alive("charge_deal") /\ ~(waiting /\ ~windowOpen) THEN Retired(IF i \in Capture THEN Capture ELSE Renewal) ELSE ledger)
        /\ reported' = (reported \/ (~Alive("charge_deal") /\ waiting /\ ~windowOpen))
     \/ /\ ~unsent /\ ledger[i].result # "unknown" /\ (~waiting \/ sibling \/ i \in Renewal)
        /\ Turns(c, "ack") /\ UNCHANGED <<ledger, reported>>
     \/ /\ ~unsent /\ (ledger[i].result = "unknown" \/ (waiting /\ ~sibling /\ i \in Capture))
        /\ clerk' = [clerk EXCEPT ![c].pc = "flight",
             ![c].auth = IF i \in Renewal
                         THEN IF ledger[i].ref = binding.auth THEN None ELSE ledger[i].ref
                         ELSE IF subject.ref = None THEN binding.auth ELSE subject.ref]
        /\ UNCHANGED <<ledger, reported>>
  /\ UNCHANGED <<provider, binding, charged, windowOpen, queue, stalls>>
ReconcileLooks(c) ==
  /\ Is(c, "flight")
  /\ Turns(c, IF AnyInFlight THEN "throw" ELSE IF clerk[c].auth = None THEN "ack" ELSE "status")
  /\ UNCHANGED <<provider, records, queue, reported, stalls>>
ReconcileReads(c) ==
  /\ Is(c, "status")
  /\ \E v \in (IF Its(c) \in Renewal THEN RenewalStatus(Its(c)) ELSE CaptureStatus(clerk[c].auth)) :
       IF v = "pending" THEN Turns(c, "throw") ELSE TurnsKnowing(c, "conclude", v)
  /\ UNCHANGED <<provider, records, queue, reported, stalls>>

ConcludeRenewed(c) ==
  LET i == Its(c) IN
  /\ Is(c, "conclude") /\ i \in Renewal /\ clerk[c].seen = "done"
  /\ ledger' = Succeeded(i, i[2]) /\ binding' = Applied(i[2], "null")
  /\ Turns(c, "wake")
  /\ UNCHANGED <<provider, charged, windowOpen, queue, reported, stalls>>
WakeCharge(c) ==
  /\ Is(c, "wake")
  /\ chore' = (IF charged = "ChargeAttempt" THEN Enqueued("charge_deal") ELSE chore)
  /\ Turns(c, "ack")
  /\ UNCHANGED <<provider, records, subject, reported, stalls>>
ConcludeCaptured(c) ==
  /\ Is(c, "conclude") /\ Its(c) \in Capture /\ clerk[c].seen = "done"
  /\ Captured(Its(c)) /\ Turns(c, "ack")
  /\ UNCHANGED <<provider, binding, windowOpen, queue, stalls>>
ConcludeNegative(c) ==
  LET i == Its(c) IN
  /\ Is(c, "conclude") /\ clerk[c].seen \in {"negative", "authorized"}
  /\ IF ~conclusive THEN Turns(c, "give_up") /\ reported' = TRUE /\ UNCHANGED <<charged, ledger>>
     ELSE /\ UNCHANGED reported
          /\ IF AnyInFlight THEN Turns(c, "throw") /\ UNCHANGED <<charged, ledger>>
             ELSE /\ Turns(c, "ack")
                  /\ IF i \in Capture THEN NotCaptured(i)
                     ELSE ledger' = (IF Terminal(i) THEN ledger ELSE Responded(i, "permanent_fail")) /\ UNCHANGED charged
  /\ UNCHANGED <<provider, binding, windowOpen, queue, stalls>>

-----------------------------------------------------------------------------
(* Worker maintenance, and the provider.                                     *)

\* The sweep looks a capture up by the binding, a renewal by its own reference.
SweepOrphan(i) ==
  /\ ledger[i].result = "unknown" /\ ~InFlight(i) /\ ~Alive("payment_reconcile")
  /\ Scheduled(i, IF i \in Renewal THEN ledger[i].ref ELSE binding.auth)
  /\ UNCHANGED <<provider, records, clerk, stalls>>

Becomes(i, fate) ==
  /\ request' = [request EXCEPT ![i].fate = fate]
  /\ UNCHANGED <<conclusive, declares, lapsed, records, queue, clerk, reported, stalls>>
ExecuteRenewal(i) ==
  \/ request[i].fate = "wire" /\ \E f \in {"done", "pending", "declined"} : Becomes(i, f)
  \/ request[i].fate = "pending" /\ \E f \in {"done", "declined"} : Becomes(i, f)
ExecuteCapture(i) ==
  /\ request[i].fate = "wire"
  /\ \E f \in (IF request[i].on \in lapsed THEN {"unusable"} ELSE {"done", "declined"}) : Becomes(i, f)
LoseRequest(i) == request[i].fate = "wire" /\ Becomes(i, "unsent")
\* Bound: an authorization keeps when there is no renewal left for it.
Lapses(a) ==
  /\ a \notin lapsed /\ <<"reauthorize", a + 1>> \in Renewal /\ Spares(<<"reauthorize", a + 1>>)
  /\ a \in {0} \cup {i[2] : i \in {k \in Renewal : request[k].fate = "done"}}
  /\ lapsed' = lapsed \cup {a}
  /\ UNCHANGED <<conclusive, declares, request, records, queue, clerk, reported, stalls>>

ClerkSteps(c) ==
  \/ \E j \in Chore : TakeChore(c, j)
  \/ ClerkAcks(c) \/ ClerkRetries(c) \/ ClerkGivesUp(c) \/ OutOfAttempts(c) \/ ClerkDies(c) \/ ClerkThrows(c) \/ ClerkStalls(c)
  \/ Gate(c) \/ RenewalNotAdmitted(c) \/ RenewalBlocked(c) \/ RenewalAgain(c) \/ RenewalFresh(c)
  \/ ProveRenewal(c) \/ ApplyProven(c) \/ CloseUnexecuted(c)
  \/ ArmRequest(c) \/ SendRequest(c) \/ Answered(c) \/ SettleRefused(c)
  \/ RenewalDone(c) \/ RenewalPending(c) \/ RenewalUnanswered(c) \/ RenewalDeclined(c) \/ RenewalUnsent(c)
  \/ CaptureNotAdmitted(c) \/ CaptureBlocked(c) \/ CaptureAgain(c) \/ CaptureFresh(c)
  \/ ResolveCaptured(c) \/ ResolveFailed(c) \/ ResolveUnsettled(c)
  \/ CaptureDone(c) \/ CaptureUnusable(c) \/ CaptureDeclined(c) \/ CaptureUnanswered(c) \/ CaptureUnsent(c) \/ IngestOutcome(c)
  \/ ScheduleReconcile(c) \/ EndOfCharge(c)
  \/ ReconcileBegins(c) \/ ReconcileLooks(c) \/ ReconcileReads(c)
  \/ ConcludeRenewed(c) \/ WakeCharge(c) \/ ConcludeCaptured(c) \/ ConcludeNegative(c)
RenewalNext ==
  \/ \E c \in Clerk : ClerkSteps(c)
  \/ \E i \in Identity : SweepOrphan(i) \/ LoseRequest(i)
  \/ \E i \in Renewal : ExecuteRenewal(i)
  \/ \E i \in Capture : ExecuteCapture(i)
  \/ \E a \in Authorization : Lapses(a)
RenewalSpec == RenewalInit /\ [][RenewalNext]_renewalVars

-----------------------------------------------------------------------------
(* Properties.                                                               *)

Done(type) == {i \in type : request[i].fate = "done"}

\* At most one request of the participant, renewal or capture, is undecided at
\* the provider: no capture runs against an authorization that is being
\* replaced, no renewal against one that is being captured, and neither is sent
\* under a second identity while the first may still be executed
\* (ensureUsableAuthorizationForCapture and captureParticipantOnce, which look
\* for each other's unresolved identities when they mint their own).  Over any
\* renewals and repeated captures the participant is charged once at most.
\* Three disturbances are beyond it: a row that was disarmed while its first
\* request was on its way can be retired, and a fresh one minted.
OneRequestAtATime ==
  /\ Cardinality({i \in Identity : request[i].fate \in {"wire", "pending"}}) <= 1
  /\ Cardinality(Done(Capture)) <= 1

\* What the ledger says of a renewal that it has closed, and what the binding
\* refers to, is what the provider did: a status read before the close or the
\* answer of a run that lost its lease never makes it a guess (settlement by
\* the run, by ApplyProven, by payment_reconcile); and the participant is recorded as
\* charged only when he was.
RenewalsAreTrue ==
  /\ charged = "ChargedSuccess" => Done(Capture) # {}
  /\ binding.auth > 0 => <<"reauthorize", binding.auth>> \in Done(Renewal)
  /\ \A i \in Renewal : Terminal(i) =>
       request[i].fate \in (IF ledger[i].result = "success" THEN {"done"} ELSE {"declined", "done"})

\* The completion window never opens over a participant who waits for his capture
\* and for whom no capture was ever begun, unless a case was opened or charge_deal
\* is still to run for him (the comment at app.ts 3557: "the deal stays Charging
\* until the renewal resolves").  Left out: a run that lost its lease settles the
\* renewal between its successor's read and arm; the arm is refused, and the
\* successor passes over the participant without holding the window.
NobodyPassedOver ==
  windowOpen /\ charged = "ChargeAttempt" /\ Minted(Capture) = {} =>
    \/ reported \/ Alive("charge_deal") \/ chore["charge_deal"] = "dlq"
    \/ stalls > 0 /\ \E i \in Renewal : Terminal(i)

\* A renewal is first sent only while the authorization in use has expired.  One
\* case is left out: between the gate's read of the binding and the first send
\* another run applied a renewal (the gate and the mint are two transactions).
\* With a third renewal another run may also put the older authorization back.
RenewedWhenExpired ==
  [][\A i \in Renewal : request[i].fate = "unsent" /\ request'[i].fate = "wire" =>
       Expired \/ \E c \in Clerk : Is(c, "send") /\ Its(c) = i /\ clerk[c].auth # binding.auth]_renewalVars
=============================================================================
