----------------------- MODULE WebhookIngestionProofs -----------------------
(***************************************************************************)
(* Proofs about the ingestion of the provider's events: the types, that    *)
(* what was finished stays finished, that money moves on evidence about an *)
(* operation of ours, and that captured money is known.                    *)
(*                                                                         *)
(* The last one needs an assumption about the provider that nothing in the *)
(* code enforces: it does not report a recovery under the identity of the  *)
(* charge.                                                                 *)
(***************************************************************************)
EXTENDS WebhookIngestion, FiniteSetTheorems, TLAPS

\* A recovery that succeeded is not reported under the identity of the charge.
Straight == \A e \in Event : Says[e].kind = "recovery_captured" => Says[e].names # "charge"

Succeeded(i) == attempt[i] = "success"
OwnCapture(e) == Says[e].kind \in Capture /\ Says[e].names = Family(Says[e].kind)

\* A delivery is about an event of the story, which names an operation that exists.
Carried ==
  \A s \in Server : server[s].pc # "free" =>
    /\ About(s) \in story
    /\ Says[About(s)].names \in {"foreign"} \cup {i \in Identity : attempt[i] # "absent"}

\* What a delivery resolved: an effect that was awaited, of an identity of ours,
\* or money that was captured and so is in the ledger; and a verdict in the end.
ResolvedTruly ==
  \A s \in Server :
    /\ server[s].pc = "apply" =>
         /\ Says[About(s)].names # "foreign"
         /\ Awaiting(Says[About(s)].kind, server[s].buyer, server[s].money)
    /\ server[s].pc = "late" /\ server[s].money \in Captured => "charge" \in ledger
    /\ server[s].pc = "mark" => server[s].verdict # "none"

\* Recoveries are attempted after the charge is over, refunds after money was captured.
Courses ==
  /\ attempt["recovery"] # "absent" => money # "ChargeAttempt"
  /\ attempt["refund"] # "absent" => money \in Captured

\* Two captures are a case; captured money is the success of one of the two.
Captures ==
  /\ Succeeded("charge") /\ case = {} => attempt["recovery"] = "absent" /\ money \in Captured
  /\ Straight /\ "charge" \in ledger => Succeeded("charge") \/ Succeeded("recovery") \/ case # {}

\* The money of an event is known: in the ledger, and with its identity, or in a case.
Known(e) ==
  OwnCapture(e) =>
    /\ "charge" \in ledger \/ case # {}
    /\ Straight => Succeeded(Says[e].names) \/ case # {}

\* ... of what is finished, of what is about to be, and of what took effect.
Finished ==
  /\ \A e \in story : event[e].status \in Final => Known(e)
  /\ \A s \in Server : server[s].pc = "mark" /\ server[s].verdict \in Final => Known(About(s))
  /\ \A e \in idempotent : Known(e)

WebhookInv ==
  WebhookTypeOK /\ Carried /\ ResolvedTruly /\ Courses /\ OnlyOwnMoney /\ Captures /\ Finished

-----------------------------------------------------------------------------
(* What the operators say.                                                   *)

EventRecord == [status : EventRow, token : Server \cup {NoServer}, stale : BOOLEAN]
Points == {"free", "claim", "reclaim", "resolve", "late", "escalate", "escalate_dual", "apply", "mark", "throw", "answer"}
ServerRecord == [pc : Points, about : story \cup {"none"}, buyer : BuyerState \cup {"none"},
                 money : MoneyState \cup {"none"}, verdict : Final \cup {"failed", "none"}]
AttemptTable == [Identity -> {"absent", "unknown", "success", "permanent_fail"}]

\* The type of the state, by these names.
LEMMA Types ==
  ASSUME WebhookTypeOK
  PROVE  /\ story \in Stories /\ story \subseteq Event /\ buyer \in BuyerState /\ money \in MoneyState
         /\ attempt \in AttemptTable /\ ledger \subseteq {"charge", "refund_adjustment"}
         /\ case \subseteq EventKind \cup {"dual_capture", "amount_mismatch"}
         /\ idempotent \subseteq story /\ answered \subseteq story
         /\ event \in [story -> EventRecord]
         /\ \A e \in story : event[e].token # NoServer <=> event[e].status = "processing"
         /\ server \in [Server -> ServerRecord] /\ trouble \in 0..MaxTrouble
BY WebhookAssumption DEF WebhookTypeOK, EventRecord, ServerRecord, Points, AttemptTable

\* The type of the state after a step, by these names.
LEMMA TypesNext ==
  ASSUME WebhookTypeOK, story' = story, buyer' \in BuyerState, money' \in MoneyState,
         attempt' \in AttemptTable, ledger' \subseteq {"charge", "refund_adjustment"},
         case' \subseteq EventKind \cup {"dual_capture", "amount_mismatch"},
         idempotent' \subseteq story, answered' \subseteq story, event' \in [story -> EventRecord],
         \A e \in story : event'[e].token # NoServer <=> event'[e].status = "processing",
         server' \in [Server -> ServerRecord], trouble' \in 0..MaxTrouble
  PROVE  WebhookTypeOK'
BY DEF WebhookTypeOK, EventRecord, ServerRecord, Points, AttemptTable

\* What an event says is what an event may say.
LEMMA Saying ==
  ASSUME WebhookTypeOK, NEW e \in story
  PROVE  Says[e].kind \in EventKind /\ Says[e].names \in Identity \cup {"foreign"} /\ Says[e].amountOk \in BOOLEAN
<1>1. e \in Event BY Types
<1>2. QED BY <1>1, WebhookAssumption

\* The family of a kind of event.
LEMMA Families ==
  /\ Family("charge_captured") = "charge" /\ Family("charge_failed") = "charge"
  /\ Family("recovery_captured") = "recovery" /\ Family("recovery_failed") = "recovery"
  /\ Family("refund_issued") = "refund"
<1>1. Family("charge_captured") = "charge" BY DEF Family
<1>2. Family("charge_failed") = "charge" BY DEF Family
<1>3. Family("recovery_captured") = "recovery" BY DEF Family
<1>4. Family("recovery_failed") = "recovery" BY DEF Family
<1>5. Family("refund_issued") = "refund" BY DEF Family
<1>6. QED BY <1>1, <1>2, <1>3, <1>4, <1>5

\* The states in which the effect of an event is awaited.
LEMMA Awaited ==
  ASSUME NEW b, NEW m
  PROVE  /\ \A kind \in {"charge_captured", "charge_failed"} :
              Awaiting(kind, b, m) => b = "ChargingAttempt" /\ m = "ChargeAttempt"
         /\ \A kind \in {"recovery_captured", "recovery_failed"} :
              Awaiting(kind, b, m) => b = "ChargeFailedCompletion" /\ m = "ChargeFailedRecovery"
         /\ Awaiting("refund_issued", b, m) => m \in {"ChargedSuccess", "RecoveredCharge"}
<1>1. Awaiting("charge_captured", b, m) => b = "ChargingAttempt" /\ m = "ChargeAttempt" BY DEF Awaiting
<1>2. Awaiting("charge_failed", b, m) => b = "ChargingAttempt" /\ m = "ChargeAttempt" BY DEF Awaiting
<1>3. Awaiting("recovery_captured", b, m) => b = "ChargeFailedCompletion" /\ m = "ChargeFailedRecovery"
  BY DEF Awaiting
<1>4. Awaiting("recovery_failed", b, m) => b = "ChargeFailedCompletion" /\ m = "ChargeFailedRecovery"
  BY DEF Awaiting
<1>5. Awaiting("refund_issued", b, m) => m \in {"ChargedSuccess", "RecoveredCharge"} BY DEF Awaiting
<1>6. QED BY <1>1, <1>2, <1>3, <1>4, <1>5

\* What an event makes of the participant.
LEMMA Effects ==
  ASSUME NEW b, NEW m
  PROVE  /\ Effect("charge_captured", b, m) = <<"ChargedSuccess", "ChargedSuccess">>
         /\ Effect("charge_failed", b, m) = <<"ChargeFailedCompletion", "ChargeFailedRecovery">>
         /\ Effect("recovery_captured", b, m) = <<"Recovered", "RecoveredCharge">>
         /\ Effect("recovery_failed", b, m) = <<"Dropped", m>>
         /\ Effect("refund_issued", b, m) = <<b, "Refunded">>
<1>1. Effect("charge_captured", b, m) = <<"ChargedSuccess", "ChargedSuccess">> BY DEF Effect
<1>2. Effect("charge_failed", b, m) = <<"ChargeFailedCompletion", "ChargeFailedRecovery">> BY DEF Effect
<1>3. Effect("recovery_captured", b, m) = <<"Recovered", "RecoveredCharge">> BY DEF Effect
<1>4. Effect("recovery_failed", b, m) = <<"Dropped", m>> BY DEF Effect
<1>5. Effect("refund_issued", b, m) = <<b, "Refunded">> BY DEF Effect
<1>6. QED BY <1>1, <1>2, <1>3, <1>4, <1>5

\* An event settles at most the identity it names, in its own family, and never
\* a success; a success it reports is recorded.
LEMMA Settling ==
  ASSUME WebhookTypeOK, NEW e \in story, NEW result \in {"success", "permanent_fail"}
  PROVE  /\ Settled(e, result) \in AttemptTable
         /\ \A i \in Identity : Settled(e, result)[i] # attempt[i] =>
              i = Says[e].names /\ i = Family(Says[e].kind) /\ Settled(e, result)[i] = result /\ attempt[i] # "success"
         /\ result = "success" /\ Says[e].names = Family(Says[e].kind) => Settled(e, result)[Says[e].names] = "success"
<1>1. attempt \in AttemptTable BY Types
<1>2. Family(Says[e].kind) \in Identity BY Saying, Families DEF EventKind, Capture, Identity
<1>3. QED BY <1>1, <1>2 DEF Settled, AttemptTable

\* Two distinct identities are a dual capture.
LEMMA Twice ==
  ASSUME NEW S, IsFiniteSet(S), NEW a \in S, NEW b \in S, a # b
  PROVE  Cardinality(S) >= 2
<1>1. IsFiniteSet({a, b}) /\ Cardinality({a, b}) = 2
  <2>1. IsFiniteSet({b}) /\ Cardinality({b}) = 1 BY FS_Singleton
  <2>2. {a, b} = {b} \cup {a} /\ a \notin {b} OBVIOUS
  <2>3. QED BY <2>1, <2>2, FS_AddElement
<1>2. {a, b} \subseteq S OBVIOUS
<1>3. QED BY <1>1, <1>2, FS_Subset, FS_CardinalityType

\* A capture that is reported while the other identity has succeeded is one.
LEMMA DualSeen ==
  ASSUME NEW e \in story, OwnCapture(e), NEW i \in {"charge", "recovery"}, Succeeded(i), i # Says[e].names
  PROVE  Dual(e)
<1> DEFINE reported == {<<Family(Says[e].kind), Says[e].names>>}
           settled == {<<j, j>> : j \in {j \in {"charge", "recovery"} : attempt[j] = "success"}}
<1>1. <<i, i>> \in settled BY DEF Succeeded
<1>2. <<Says[e].names, Says[e].names>> \in reported BY DEF OwnCapture
<1>3. IsFiniteSet(settled \cup reported)
  <2>1. IsFiniteSet({<<"charge", "charge">>, <<"recovery", "recovery">>, <<Family(Says[e].kind), Says[e].names>>})
    <3> DEFINE one == {<<Family(Says[e].kind), Says[e].names>>}
               two == one \cup {<<"recovery", "recovery">>}
    <3>1. IsFiniteSet(one) BY FS_Singleton
    <3>2. IsFiniteSet(two) BY <3>1, FS_AddElement
    <3>3. IsFiniteSet(two \cup {<<"charge", "charge">>}) BY <3>2, FS_AddElement
    <3>4. two \cup {<<"charge", "charge">>}
            = {<<"charge", "charge">>, <<"recovery", "recovery">>, <<Family(Says[e].kind), Says[e].names>>}
      OBVIOUS
    <3>5. QED BY <3>3, <3>4
  <2>2. settled \cup reported \subseteq
          {<<"charge", "charge">>, <<"recovery", "recovery">>, <<Family(Says[e].kind), Says[e].names>>}
    OBVIOUS
  <2>3. QED BY <2>1, <2>2, FS_Subset
<1>4. <<i, i>> # <<Says[e].names, Says[e].names>> OBVIOUS
<1>5. Cardinality(settled \cup reported) >= 2 BY <1>1, <1>2, <1>3, <1>4, Twice
<1>6. QED BY <1>5 DEF Dual, OwnCapture

-----------------------------------------------------------------------------
(* What a step may do to a delivery and to the row of an event.              *)

\* What a delivery carries agrees with the state (Carried, ResolvedTruly and
\* Finished, of one delivery).
Sound(s) ==
  /\ server[s].pc # "free" =>
       /\ About(s) \in story
       /\ Says[About(s)].names \in {"foreign"} \cup {i \in Identity : attempt[i] # "absent"}
  /\ server[s].pc = "apply" =>
       /\ Says[About(s)].names # "foreign"
       /\ Awaiting(Says[About(s)].kind, server[s].buyer, server[s].money)
  /\ server[s].pc = "late" /\ server[s].money \in Captured => "charge" \in ledger
  /\ server[s].pc = "mark" => server[s].verdict # "none"
  /\ server[s].pc = "mark" /\ server[s].verdict \in Final => Known(About(s))

\* The invariant says so of every delivery.
LEMMA AllSound ==
  ASSUME WebhookInv, NEW s \in Server
  PROVE  Sound(s)
BY DEF WebhookInv, Carried, ResolvedTruly, Finished, Sound

\* One delivery is replaced.
LEMMA ServerMoves ==
  ASSUME WebhookTypeOK, NEW s \in Server, NEW r \in ServerRecord, server' = [server EXCEPT ![s] = r]
  PROVE  /\ server' \in [Server -> ServerRecord] /\ server'[s] = r
         /\ \A t \in Server \ {s} : server'[t] = server[t]
<1>1. server \in [Server -> ServerRecord] BY Types
<1>2. QED BY <1>1

\* A delivery goes on to its next transaction.
LEMMA StepMoves ==
  ASSUME WebhookTypeOK, NEW s \in Server, NEW pc \in Points, Step(s, pc)
  PROVE  /\ server' \in [Server -> ServerRecord]
         /\ server'[s].pc = pc /\ server'[s].about = server[s].about /\ server'[s].buyer = server[s].buyer
         /\ server'[s].money = server[s].money /\ server'[s].verdict = server[s].verdict
         /\ \A t \in Server \ {s} : server'[t] = server[t]
<1>1. server \in [Server -> ServerRecord] BY Types
<1>2. server' = [server EXCEPT ![s].pc = pc] BY DEF Step
<1>3. QED BY <1>1, <1>2 DEF ServerRecord

\* An unused slot, and one that has nothing left but a verdict.
LEMMA Blank ==
  ASSUME WebhookTypeOK, NEW about \in story \cup {"none"}, NEW pc \in Points,
         NEW verdict \in Final \cup {"failed", "none"}
  PROVE  /\ Unused \in ServerRecord
         /\ [Unused EXCEPT !.pc = pc, !.about = about, !.verdict = verdict] \in ServerRecord
         /\ [Unused EXCEPT !.pc = pc, !.about = about] \in ServerRecord
BY DEF Unused, ServerRecord, Points

\* A delivery has nothing left but a verdict.
LEMMA ConcludeMoves ==
  ASSUME WebhookTypeOK, NEW s \in Server, NEW pc \in Points,
         NEW verdict \in Final \cup {"failed", "none"}, Conclude(s, pc, verdict)
  PROVE  /\ server' \in [Server -> ServerRecord]
         /\ server'[s].pc = pc /\ server'[s].about = server[s].about /\ server'[s].verdict = verdict
         /\ \A t \in Server \ {s} : server'[t] = server[t]
<1> DEFINE r == [Unused EXCEPT !.pc = pc, !.about = About(s), !.verdict = verdict]
<1>1. About(s) \in story \cup {"none"} BY Types DEF About, ServerRecord
<1>2. r \in ServerRecord BY <1>1, Blank
<1>3. r.pc = pc /\ r.about = server[s].about /\ r.verdict = verdict BY DEF Unused, About
<1>4. server' = [server EXCEPT ![s] = r] BY DEF Conclude
<1> HIDE DEF r
<1>5. QED BY <1>2, <1>3, <1>4, ServerMoves

\* A slot is free again.
LEMMA FreeMoves ==
  ASSUME WebhookTypeOK, NEW s \in Server, server' = [server EXCEPT ![s] = Unused]
  PROVE  /\ server' \in [Server -> ServerRecord] /\ server'[s].pc = "free"
         /\ \A t \in Server \ {s} : server'[t] = server[t]
<1>1. Unused \in ServerRecord BY DEF Unused, ServerRecord, Points
<1>2. Unused.pc = "free" BY DEF Unused
<1>3. QED BY <1>1, <1>2, ServerMoves

\* One row is replaced.
LEMMA RowMoves ==
  ASSUME WebhookTypeOK, NEW e \in story, NEW r \in EventRecord, r.token # NoServer <=> r.status = "processing",
         event' = [event EXCEPT ![e] = r]
  PROVE  /\ event' \in [story -> EventRecord] /\ event'[e] = r
         /\ \A f \in story \ {e} : event'[f] = event[f]
         /\ \A f \in story : event'[f].token # NoServer <=> event'[f].status = "processing"
<1>1. event \in [story -> EventRecord] BY Types
<1>2. event' \in [story -> EventRecord] /\ event'[e] = r /\ \A f \in story \ {e} : event'[f] = event[f]
  BY <1>1
<1>3. QED BY <1>2, Types

\* A claim, of an event whose row is open.
LEMMA ClaimMoves ==
  ASSUME WebhookTypeOK, NEW e \in story, NEW s \in Server, event' = Claim(s, e)
  PROVE  /\ event' \in [story -> EventRecord] /\ event'[e].status = "processing"
         /\ \A f \in story \ {e} : event'[f] = event[f]
         /\ \A f \in story : event'[f].token # NoServer <=> event'[f].status = "processing"
<1> DEFINE r == Row("processing", s)
<1>1. r \in EventRecord /\ r.token = s /\ r.status = "processing" BY DEF Row, EventRecord, EventRow
<1>2. s # NoServer BY WebhookAssumption
<1>3. event' = [event EXCEPT ![e] = r] BY DEF Claim
<1> HIDE DEF r
<1>4. QED BY <1>1, <1>2, <1>3, RowMoves

\* The mark: only of a row that is in process.
LEMMA MarkMoves ==
  ASSUME WebhookTypeOK, NEW s \in Server, About(s) \in story, NEW status \in EventRow \ {"processing"},
         event' = Marked(s, status)
  PROVE  /\ event' \in [story -> EventRecord]
         /\ \A f \in story : event'[f].token # NoServer <=> event'[f].status = "processing"
         /\ \A f \in story : \/ event'[f] = event[f]
                             \/ f = About(s) /\ event[f].status = "processing" /\ event'[f].status = status
<1> DEFINE r == Row(status, NoServer)
<1>1. r \in EventRecord /\ r.token = NoServer /\ r.status = status BY DEF Row, EventRecord
<1>2. \/ event' = [event EXCEPT ![About(s)] = r] /\ event[About(s)].status = "processing"
     \/ event' = event
  BY DEF Marked
<1>3. CASE event' = event BY <1>3, Types
<1>4. CASE event' = [event EXCEPT ![About(s)] = r] /\ event[About(s)].status = "processing"
  <2> HIDE DEF r
  <2>1. QED BY <1>1, <1>4, RowMoves
<1>5. QED BY <1>2, <1>3, <1>4

-----------------------------------------------------------------------------
(* What grows: entries of the ledger, cases, operations and their successes. *)

\* What is known stays known.
LEMMA KnownStays ==
  ASSUME WebhookTypeOK, NEW e \in story, Known(e), ledger \subseteq ledger', case \subseteq case',
         \A i \in Identity : attempt[i] = "success" => attempt'[i] = "success"
  PROVE  Known(e)'
<1>1. OwnCapture(e) => Says[e].names \in Identity BY Families DEF OwnCapture, Capture, Identity
<1>2. case # {} => case' # {} OBVIOUS
<1>3. QED BY <1>1, <1>2 DEF Known, Succeeded

\* A step under which the truth grows keeps every delivery sound that it does
\* not touch.
LEMMA Grows ==
  ASSUME WebhookInv, story' = story, ledger \subseteq ledger', case \subseteq case',
         \A i \in Identity : /\ attempt[i] = "success" => attempt'[i] = "success"
                             /\ attempt[i] # "absent" => attempt'[i] # "absent",
         \A t \in Server : server'[t] = server[t] \/ Sound(t)',
         \A e \in story : event'[e].status \in Final => event[e].status \in Final \/ Known(e)',
         \A e \in idempotent' : e \in idempotent \/ Known(e)'
  PROVE  Carried' /\ ResolvedTruly' /\ Finished'
<1>1. ASSUME NEW e \in story, Known(e) PROVE Known(e)' BY <1>1, KnownStays DEF WebhookInv
<1>2. ASSUME NEW t \in Server PROVE Sound(t)'
  <2>1. Sound(t) BY AllSound
  <2>2. CASE Sound(t)' BY <2>2
  <2>3. CASE server'[t] = server[t]
    <3>1. server'[t].pc # "free" =>
            /\ About(t)' \in story'
            /\ Says[About(t)'].names \in {"foreign"} \cup {i \in Identity : attempt'[i] # "absent"}
      BY <2>1, <2>3 DEF Sound, About
    <3>2. server'[t].pc = "apply" =>
            /\ Says[About(t)'].names # "foreign"
            /\ Awaiting(Says[About(t)'].kind, server'[t].buyer, server'[t].money)
      BY <2>1, <2>3 DEF Sound, About
    <3>3. server'[t].pc = "late" /\ server'[t].money \in Captured => "charge" \in ledger'
      BY <2>1, <2>3 DEF Sound
    <3>4. server'[t].pc = "mark" /\ server'[t].verdict \in Final => Known(About(t))'
      <4>1. About(t)' = About(t) BY <2>3 DEF About
      <4>2. SUFFICES ASSUME server[t].pc = "mark", server[t].verdict \in Final PROVE Known(About(t))'
        BY <2>3
      <4>3. About(t) \in story /\ Known(About(t)) BY <2>1, <4>2 DEF Sound
      <4>4. PICK e \in story : e = About(t) BY <4>3
      <4>5. Known(e)' BY <1>1, <4>3, <4>4
      <4>6. QED BY <4>1, <4>4, <4>5 DEF Known
    <3>5. server'[t].pc = "mark" => server'[t].verdict # "none" BY <2>1, <2>3 DEF Sound
    <3>6. QED BY <3>1, <3>2, <3>3, <3>4, <3>5 DEF Sound
  <2>4. QED BY <2>2, <2>3
<1>3. \A e \in story : event'[e].status \in Final => Known(e)' BY <1>1 DEF WebhookInv, Finished
<1>4. \A e \in idempotent' : Known(e)'
  <2>1. idempotent \subseteq story BY Types DEF WebhookInv
  <2>2. QED BY <1>1, <2>1 DEF WebhookInv, Finished
<1>5. QED BY <1>2, <1>3, <1>4 DEF Carried, ResolvedTruly, Finished, Sound

\* A step of a delivery that leaves the truth alone.
LEMMA TruthKept ==
  ASSUME WebhookInv, WebhookTypeOK', UNCHANGED truth,
         \A t \in Server : server'[t] = server[t] \/ Sound(t)',
         \A e \in story : event'[e].status \in Final => event[e].status \in Final \/ Known(e)
  PROVE  WebhookInv'
<1>1. UNCHANGED <<story, buyer, money, attempt, ledger, case, idempotent>> BY DEF truth, participant
<1>2. \A e \in story : Known(e)' <=> Known(e) BY <1>1 DEF Known, Succeeded
<1>3. Carried' /\ ResolvedTruly' /\ Finished' BY <1>1, <1>2, Grows
<1>4. Courses' BY <1>1 DEF WebhookInv, Courses
<1>5. OnlyOwnMoney' BY <1>1 DEF WebhookInv, OnlyOwnMoney
<1>6. Captures' BY <1>1 DEF WebhookInv, Captures, Succeeded
<1>7. QED BY <1>3, <1>4, <1>5, <1>6 DEF WebhookInv

\* The same, with the type of what it changes.
LEMMA DeliveryStep ==
  ASSUME WebhookInv, UNCHANGED truth, answered' \subseteq story, trouble' \in 0..MaxTrouble,
         event' \in [story -> EventRecord],
         \A f \in story : event'[f].token # NoServer <=> event'[f].status = "processing",
         server' \in [Server -> ServerRecord],
         \A t \in Server : server'[t] = server[t] \/ Sound(t)',
         \A f \in story : event'[f].status \in Final => event[f].status \in Final \/ Known(f)
  PROVE  WebhookInv'
<1>1. UNCHANGED <<story, buyer, money, attempt, ledger, case, idempotent>> BY DEF truth, participant
<1>2. WebhookTypeOK BY DEF WebhookInv
<1>3. WebhookTypeOK' BY <1>1, <1>2, Types, TypesNext
<1>4. QED BY <1>3, TruthKept

\* What is not resolved yet, or has no more to do, is sound if it is about an
\* event that may be delivered.
LEMMA Plain ==
  ASSUME WebhookInv, NEW s \in Server, UNCHANGED truth, server'[s].pc \in Points \ {"apply", "late", "mark"},
         server'[s].about = server[s].about, server[s].pc # "free" \/ server'[s].pc = "free"
  PROVE  Sound(s)'
<1>1. UNCHANGED <<story, attempt>> BY DEF truth, participant
<1>2. Sound(s) BY AllSound
<1>3. QED BY <1>1, <1>2 DEF Sound, About

\* A delivery arrives.
LEMMA DeliverInv ==
  ASSUME WebhookInv, NEW s \in Server, NEW e \in story, Deliver(s, e)
  PROVE  WebhookInv'
<1> DEFINE r == [Unused EXCEPT !.pc = "claim", !.about = e]
<1>1. WebhookTypeOK BY DEF WebhookInv
<1>2. r \in ServerRecord /\ r.pc = "claim" /\ r.about = e
  BY <1>1, Blank DEF Unused, Points
<1>3. server' = [server EXCEPT ![s] = r] /\ UNCHANGED <<truth, event, answered, trouble>> BY DEF Deliver
<1>4. Says[e].names \in {"foreign"} \cup {i \in Identity : attempt[i] # "absent"} BY DEF Deliver
<1> HIDE DEF r
<1>5. /\ server' \in [Server -> ServerRecord] /\ server'[s] = r
      /\ \A t \in Server \ {s} : server'[t] = server[t]
  BY <1>1, <1>2, <1>3, ServerMoves
<1>6. story' = story /\ attempt' = attempt BY <1>3 DEF truth, participant
<1>7. Sound(s)' BY <1>2, <1>4, <1>5, <1>6 DEF Sound, About
<1>8. QED BY <1>1, <1>3, <1>5, <1>7, Types, DeliveryStep

\* The first transaction of the claim.
LEMMA ClaimEventInv ==
  ASSUME WebhookInv, NEW s \in Server, ClaimEvent(s)
  PROVE  WebhookInv'
<1>1. WebhookTypeOK BY DEF WebhookInv
<1>2. UNCHANGED <<truth, answered, trouble>> /\ server[s].pc = "claim" BY DEF ClaimEvent, Carries
<1>3. About(s) \in story BY <1>2, AllSound DEF Sound
<1>4. PICK pc \in {"resolve", "answer", "reclaim"} :
        Step(s, pc) /\ (event' = event \/ event' = Claim(s, About(s)))
  BY DEF ClaimEvent
<1>5. pc \in Points BY <1>4 DEF Points
<1>6. /\ server' \in [Server -> ServerRecord] /\ server'[s].pc = pc /\ server'[s].about = server[s].about
      /\ \A t \in Server \ {s} : server'[t] = server[t]
  BY <1>1, <1>4, <1>5, StepMoves
<1>7. Sound(s)' BY <1>2, <1>4, <1>6, Plain DEF Points
<1>8. /\ event' \in [story -> EventRecord]
      /\ \A f \in story : event'[f].token # NoServer <=> event'[f].status = "processing"
      /\ \A f \in story : event'[f] = event[f] \/ event'[f].status = "processing"
  BY <1>1, <1>3, <1>4, ClaimMoves, Types
<1>9. QED BY <1>1, <1>2, <1>6, <1>7, <1>8, Types, DeliveryStep DEF Final

\* The second transaction of the claim.
LEMMA ReclaimEventInv ==
  ASSUME WebhookInv, NEW s \in Server, ReclaimEvent(s)
  PROVE  WebhookInv'
<1>1. WebhookTypeOK BY DEF WebhookInv
<1>2. UNCHANGED <<truth, answered, trouble>> /\ server[s].pc = "reclaim" BY DEF ReclaimEvent, Carries
<1>3. About(s) \in story BY <1>2, AllSound DEF Sound
<1>4. PICK pc \in {"resolve", "answer"} :
        Step(s, pc) /\ (event' = event \/ event' = Claim(s, About(s)))
  BY DEF ReclaimEvent
<1>5. pc \in Points BY <1>4 DEF Points
<1>6. /\ server' \in [Server -> ServerRecord] /\ server'[s].pc = pc /\ server'[s].about = server[s].about
      /\ \A t \in Server \ {s} : server'[t] = server[t]
  BY <1>1, <1>4, <1>5, StepMoves
<1>7. Sound(s)' BY <1>2, <1>4, <1>6, Plain DEF Points
<1>8. /\ event' \in [story -> EventRecord]
      /\ \A f \in story : event'[f].token # NoServer <=> event'[f].status = "processing"
      /\ \A f \in story : event'[f] = event[f] \/ event'[f].status = "processing"
  BY <1>1, <1>3, <1>4, ClaimMoves, Types
<1>9. QED BY <1>1, <1>2, <1>6, <1>7, <1>8, Types, DeliveryStep DEF Final

\* The verdict on an event: ignored is what no state awaits.
LEMMA Verdicts ==
  ASSUME WebhookTypeOK, NEW e \in story, NEW b, NEW m
  PROVE  /\ Classified(e, b, m) \in {"ignored", "failed", "processed"}
         /\ Classified(e, b, m) = "processed" => Awaiting(Says[e].kind, b, m) /\ Says[e].names # "foreign"
BY DEF Classified

\* Resolving: an effect that is awaited is applied, of any other the evidence is read.
LEMMA ResolveInv ==
  ASSUME WebhookInv, NEW s \in Server, Resolve(s)
  PROVE  WebhookInv'
<1> DEFINE verdict == Classified(About(s), buyer, money)
           pc == CASE verdict = "processed" -> "apply" [] verdict = "ignored" -> "late"
                   [] verdict = "failed" -> "mark"
           r == [server[s] EXCEPT !.buyer = buyer, !.money = money, !.verdict = verdict, !.pc = pc]
<1>1. WebhookTypeOK BY DEF WebhookInv
<1>2. UNCHANGED <<truth, event, answered, trouble>> /\ server[s].pc = "resolve" BY DEF Resolve, Carries
<1>3. Sound(s) BY AllSound
<1>4. About(s) \in story BY <1>2, <1>3 DEF Sound
<1>5. /\ verdict \in {"ignored", "failed", "processed"}
      /\ verdict = "processed" => Awaiting(Says[About(s)].kind, buyer, money) /\ Says[About(s)].names # "foreign"
  BY <1>1, <1>4, Verdicts
<1>6. server' = [server EXCEPT ![s] = r] BY DEF Resolve
<1> HIDE DEF verdict
<1>7. /\ pc \in {"apply", "late", "mark"} /\ (pc = "apply" => verdict = "processed")
      /\ (pc = "mark" => verdict = "failed")
  BY <1>5
<1>8. server[s] \in ServerRecord /\ buyer \in BuyerState /\ money \in MoneyState BY <1>1, Types
<1> HIDE DEF pc
<1>9. /\ r \in ServerRecord /\ r.pc = pc /\ r.about = About(s) /\ r.buyer = buyer /\ r.money = money
      /\ r.verdict = verdict
  BY <1>5, <1>7, <1>8 DEF ServerRecord, Points, Final, About
<1> HIDE DEF r
<1>10. /\ server' \in [Server -> ServerRecord] /\ server'[s] = r
       /\ \A t \in Server \ {s} : server'[t] = server[t]
  BY <1>1, <1>6, <1>9, ServerMoves
<1>11. Sound(s)'
  <2>1. UNCHANGED <<story, attempt, ledger, money, buyer>> BY <1>2 DEF truth, participant
  <2>2. About(s)' = About(s) BY <1>9, <1>10 DEF About
  <2>3. /\ About(s) \in story
        /\ Says[About(s)].names \in {"foreign"} \cup {i \in Identity : attempt[i] # "absent"}
    BY <1>2, <1>3 DEF Sound
  <2>4. server'[s].pc = "apply" =>
          Says[About(s)].names # "foreign" /\ Awaiting(Says[About(s)].kind, server'[s].buyer, server'[s].money)
    BY <1>5, <1>7, <1>9, <1>10
  <2>5. server'[s].pc = "late" /\ server'[s].money \in Captured => "charge" \in ledger
    BY <1>9, <1>10 DEF WebhookInv, OnlyOwnMoney
  <2>6. server'[s].pc = "mark" => server'[s].verdict = "failed" BY <1>7, <1>9, <1>10
  <2>7. QED BY <2>1, <2>2, <2>3, <2>4, <2>5, <2>6 DEF Sound, Final
<1>12. QED BY <1>1, <1>2, <1>10, <1>11, Types, DeliveryStep

\* Money of an event that came too late is known, if neither reading of the
\* evidence makes a case of it.
LEMMA LateIsKnown ==
  ASSUME WebhookInv, NEW s \in Server, server[s].pc = "late", ~Dual(About(s)),
         ~Contradicts(About(s), server[s].money)
  PROVE  Known(About(s))
<1>1. About(s) \in story /\ (server[s].money \in Captured => "charge" \in ledger) BY AllSound DEF Sound
<1>2. PICK e \in story : e = About(s) BY <1>1
<1>3. SUFFICES ASSUME OwnCapture(e) PROVE /\ "charge" \in ledger \/ case # {}
                                          /\ Straight => Succeeded(Says[e].names) \/ case # {}
  BY <1>2 DEF Known
<1>4. "charge" \in ledger BY <1>1, <1>2, <1>3 DEF Contradicts, OwnCapture
<1>5. ASSUME Straight PROVE Succeeded(Says[e].names) \/ case # {}
  <2>1. Succeeded("charge") \/ Succeeded("recovery") \/ case # {}
    BY <1>4, <1>5 DEF WebhookInv, Captures
  <2>2. Says[e].names \in {"charge", "recovery"} BY <1>3, Families DEF OwnCapture, Capture
  <2>3. \A i \in {"charge", "recovery"} : Succeeded(i) => i = Says[e].names BY <1>2, <1>3, DualSeen
  <2>4. QED BY <2>1, <2>2, <2>3
<1>6. QED BY <1>4, <1>5

\* Reading the evidence.
LEMMA ReadEvidenceInv ==
  ASSUME WebhookInv, NEW s \in Server, ReadEvidence(s)
  PROVE  WebhookInv'
<1>1. WebhookTypeOK BY DEF WebhookInv
<1>2. UNCHANGED <<truth, event, answered, trouble>> /\ server[s].pc = "late" BY DEF ReadEvidence, Carries
<1>3. CASE \E pc \in {"escalate", "escalate_dual"} : Step(s, pc)
  <2>1. PICK pc \in {"escalate", "escalate_dual"} : Step(s, pc) BY <1>3
  <2>2. pc \in Points BY DEF Points
  <2>3. /\ server' \in [Server -> ServerRecord] /\ server'[s].pc = pc /\ server'[s].about = server[s].about
        /\ \A t \in Server \ {s} : server'[t] = server[t]
    BY <1>1, <2>1, <2>2, StepMoves
  <2>4. Sound(s)' BY <1>2, <2>2, <2>3, Plain
  <2>5. QED BY <1>1, <1>2, <2>3, <2>4, Types, DeliveryStep
<1>4. CASE ~Dual(About(s)) /\ ~Contradicts(About(s), server[s].money) /\ Conclude(s, "mark", "ignored")
  <2>1. /\ server' \in [Server -> ServerRecord] /\ server'[s].pc = "mark" /\ server'[s].about = server[s].about
        /\ server'[s].verdict # "none"
        /\ \A t \in Server \ {s} : server'[t] = server[t]
    BY <1>1, <1>4, ConcludeMoves DEF Points, Final
  <2>2. Known(About(s)) BY <1>2, <1>4, LateIsKnown
  <2>3. Sound(s)'
    <3>1. UNCHANGED <<story, attempt, ledger, case>> BY <1>2 DEF truth, participant
    <3>2. About(s)' = About(s) BY <2>1 DEF About
    <3>3. Known(About(s))' BY <2>2, <3>1, <3>2 DEF Known, Succeeded
    <3>4. Sound(s) BY AllSound
    <3>5. QED BY <1>2, <2>1, <3>1, <3>2, <3>3, <3>4 DEF Sound
  <2>4. QED BY <1>1, <1>2, <2>1, <2>3, Types, DeliveryStep
<1>5. QED BY <1>3, <1>4 DEF ReadEvidence

\* What is settled was there before.
LEMMA SettledExists ==
  ASSUME WebhookTypeOK, NEW e \in story, NEW result \in {"success", "permanent_fail"},
         Says[e].names \in {"foreign"} \cup {i \in Identity : attempt[i] # "absent"},
         attempt' = Settled(e, result)
  PROVE  /\ attempt' \in AttemptTable
         /\ \A i \in Identity : (attempt[i] = "success" => attempt'[i] = "success")
                                /\ (attempt'[i] # "absent" <=> attempt[i] # "absent")
<1>1. \A i \in Identity : attempt'[i] # attempt[i] =>
        i = Says[e].names /\ attempt'[i] = result /\ attempt[i] # "success"
  BY Settling
<1>2. \A i \in Identity : i = Says[e].names => attempt[i] # "absent" BY DEF Identity
<1>3. attempt' \in AttemptTable BY Settling
<1>4. QED BY <1>1, <1>2, <1>3

\* A case is opened: whatever was, it is before an operator.
LEMMA CaseOpened ==
  ASSUME WebhookInv, NEW s \in Server, server[s].pc # "free",
         NEW c \in EventKind \cup {"dual_capture", "amount_mismatch"}, case' = case \cup {c},
         Conclude(s, "mark", "ignored"),
         UNCHANGED <<story, buyer, money, ledger, idempotent, event, answered, trouble>>,
         attempt' = attempt \/ attempt' = Settled(About(s), "success")
  PROVE  WebhookInv'
<1>1. WebhookTypeOK BY DEF WebhookInv
<1>2. Sound(s) BY AllSound
<1>3. /\ About(s) \in story
      /\ Says[About(s)].names \in {"foreign"} \cup {i \in Identity : attempt[i] # "absent"}
  BY <1>2 DEF Sound
<1>4. /\ attempt' \in AttemptTable
      /\ \A i \in Identity : (attempt[i] = "success" => attempt'[i] = "success")
                             /\ (attempt'[i] # "absent" <=> attempt[i] # "absent")
  BY <1>1, <1>3, SettledExists, Types
<1>5. /\ server' \in [Server -> ServerRecord] /\ server'[s].pc = "mark" /\ server'[s].about = server[s].about
      /\ server'[s].verdict # "none"
      /\ \A t \in Server \ {s} : server'[t] = server[t]
  BY <1>1, ConcludeMoves DEF Points, Final
<1>6. case' # {} /\ case \subseteq case' /\ case' \subseteq EventKind \cup {"dual_capture", "amount_mismatch"}
  BY <1>1, Types
<1>7. Sound(s)'
  <2>1. About(s)' = About(s) BY <1>5 DEF About
  <2>2. Known(About(s))' BY <1>6 DEF Known
  <2>3. QED BY <1>3, <1>4, <1>5, <2>1, <2>2 DEF Sound
<1>8. WebhookTypeOK' BY <1>1, <1>4, <1>5, <1>6, Types, TypesNext
<1>9. Carried' /\ ResolvedTruly' /\ Finished' BY <1>4, <1>5, <1>6, <1>7, Grows
<1>10. Courses'
  <2>1. "recovery" \in Identity /\ "refund" \in Identity BY DEF Identity
  <2>2. QED BY <1>4, <2>1 DEF WebhookInv, Courses
<1>11. OnlyOwnMoney' BY DEF WebhookInv, OnlyOwnMoney
<1>12. Captures' BY <1>6 DEF Captures
<1>13. QED BY <1>8, <1>9, <1>10, <1>11, <1>12 DEF WebhookInv

\* Evidence and case, in one transaction.
LEMMA EscalateInv ==
  ASSUME WebhookInv, NEW s \in Server, Escalate(s)
  PROVE  WebhookInv'
<1>1. server[s].pc # "free" BY DEF Escalate, Carries
<1>2. About(s) \in story BY <1>1, AllSound DEF Sound
<1>3. Says[About(s)].kind \in EventKind BY <1>2, Saying DEF WebhookInv
<1>4. PICK c \in EventKind \cup {"dual_capture", "amount_mismatch"} : case' = case \cup {c}
  <2>1. CASE Carries(s, "escalate") BY <1>3, <2>1 DEF Escalate
  <2>2. CASE ~Carries(s, "escalate") BY <2>2 DEF Escalate
  <2>3. QED BY <2>1, <2>2
<1>5. QED BY <1>1, <1>4, CaseOpened DEF Escalate

\* The hold for an amount that is not the obligation's.
LEMMA HeldInv ==
  ASSUME WebhookInv, NEW s \in Server, Held(s)
  PROVE  WebhookInv'
<1>1. server[s].pc # "free" BY DEF Held, Carries
<1>2. UNCHANGED <<story, buyer, money, attempt, ledger, idempotent, event, answered, trouble>>
  BY DEF Held, participant
<1>3. QED BY <1>1, <1>2, CaseOpened DEF Held

-----------------------------------------------------------------------------
(* The effect of an event.                                                   *)

\* What a delivery applies concerns an operation of ours that the course of the
\* participant allows.
LEMMA Applicable ==
  ASSUME WebhookInv, NEW s \in Server, server[s].pc = "apply", server[s].money = money,
         NEW e \in story, e = About(s)
  PROVE  /\ Says[e].names \in Identity /\ attempt[Says[e].names] # "absent"
         /\ Says[e].kind \in {"charge_captured", "charge_failed"} => money = "ChargeAttempt" /\ Says[e].names = "charge"
         /\ Says[e].kind \in {"recovery_captured", "recovery_failed"} =>
              money = "ChargeFailedRecovery" /\ Says[e].names \in {"charge", "recovery"}
         /\ Says[e].kind = "refund_issued" => money \in {"ChargedSuccess", "RecoveredCharge"}
<1>1. /\ Says[e].names \in {"foreign"} \cup {i \in Identity : attempt[i] # "absent"} /\ Says[e].names # "foreign"
      /\ Awaiting(Says[e].kind, server[s].buyer, server[s].money)
  BY AllSound DEF Sound
<1>2. Says[e].names \in Identity /\ attempt[Says[e].names] # "absent" BY <1>1
<1>3. /\ Says[e].kind \in {"charge_captured", "charge_failed"} => money = "ChargeAttempt"
      /\ Says[e].kind \in {"recovery_captured", "recovery_failed"} => money = "ChargeFailedRecovery"
      /\ Says[e].kind = "refund_issued" => money \in {"ChargedSuccess", "RecoveredCharge"}
  BY <1>1, Awaited
<1>4. money = "ChargeAttempt" => attempt["recovery"] = "absent" /\ attempt["refund"] = "absent"
  BY DEF WebhookInv, Courses, Captured
<1>5. money = "ChargeFailedRecovery" => attempt["refund"] = "absent" BY DEF WebhookInv, Courses, Captured
<1>6. QED BY <1>2, <1>3, <1>4, <1>5 DEF Identity

\* What the effect of an event writes.
Written(e) ==
  /\ buyer' = Effect(Says[e].kind, buyer, money)[1] /\ money' = Effect(Says[e].kind, buyer, money)[2]
  /\ attempt' = Settled(e, IF Says[e].kind \in Capture \cup {"refund_issued"} THEN "success" ELSE "permanent_fail")
  /\ ledger' = ledger \cup (IF Says[e].kind \in Capture THEN {"charge"} ELSE {})
                      \cup (IF Says[e].kind = "refund_issued" THEN {"charge", "refund_adjustment"} ELSE {})
  /\ UNCHANGED case

\* The effect of a charge that was captured.
LEMMA ChargeCaptured ==
  ASSUME WebhookInv, NEW s \in Server, server[s].pc = "apply", server[s].money = money,
         NEW e \in story, e = About(s), Says[e].kind = "charge_captured", Written(e)
  PROVE  /\ buyer' = "ChargedSuccess" /\ money' = "ChargedSuccess" /\ ledger' = ledger \cup {"charge"}
         /\ "charge" \in ledger' <=> money' \in Captured
         /\ "refund_adjustment" \in ledger' <=> money' = "Refunded"
         /\ Courses' /\ Captures' /\ Known(e)'
<1>1. WebhookTypeOK BY DEF WebhookInv
<1>2. money = "ChargeAttempt" /\ Says[e].names = "charge" BY Applicable
<1>3. buyer' = "ChargedSuccess" /\ money' = "ChargedSuccess" BY Effects DEF Written
<1>4. ledger' = ledger \cup {"charge"} /\ case' = case BY DEF Written, Capture
<1>5. "refund_adjustment" \notin ledger BY <1>2 DEF WebhookInv, OnlyOwnMoney
<1>6. attempt["recovery"] = "absent" /\ attempt["refund"] = "absent"
  BY <1>2 DEF WebhookInv, Courses, Captured
<1>7. attempt' = Settled(e, "success") BY DEF Written, Capture
<1>8. attempt'["charge"] = "success" /\ attempt'["recovery"] = "absent" /\ attempt'["refund"] = "absent"
  <2>1. /\ \A i \in Identity : attempt'[i] # attempt[i] => i = "charge"
        /\ attempt'["charge"] = "success"
    BY <1>1, <1>2, <1>7, Settling, Families
  <2>2. QED BY <1>6, <2>1 DEF Identity
<1>9. QED BY <1>2, <1>3, <1>4, <1>5, <1>8 DEF Captured, Courses, Captures, Known, Succeeded

\* The effect of a charge that was declined.
LEMMA ChargeFailed ==
  ASSUME WebhookInv, NEW s \in Server, server[s].pc = "apply", server[s].money = money,
         NEW e \in story, e = About(s), Says[e].kind = "charge_failed", Written(e)
  PROVE  /\ buyer' = "ChargeFailedCompletion" /\ money' = "ChargeFailedRecovery" /\ ledger' = ledger
         /\ "charge" \in ledger' <=> money' \in Captured
         /\ "refund_adjustment" \in ledger' <=> money' = "Refunded"
         /\ Courses' /\ Captures' /\ Known(e)'
<1>1. WebhookTypeOK BY DEF WebhookInv
<1>2. money = "ChargeAttempt" /\ Says[e].names = "charge" BY Applicable
<1>3. buyer' = "ChargeFailedCompletion" /\ money' = "ChargeFailedRecovery" BY Effects DEF Written
<1>4. ledger' = ledger /\ case' = case BY DEF Written, Capture
<1>5. "refund_adjustment" \notin ledger /\ "charge" \notin ledger
  BY <1>2 DEF WebhookInv, OnlyOwnMoney, Captured
<1>6. attempt["recovery"] = "absent" /\ attempt["refund"] = "absent"
  BY <1>2 DEF WebhookInv, Courses, Captured
<1>7. attempt' = Settled(e, "permanent_fail") BY DEF Written, Capture
<1>8. \A i \in Identity : attempt'[i] # attempt[i] => i = "charge" /\ attempt'[i] = "permanent_fail"
  BY <1>1, <1>2, <1>7, Settling
<1>9. /\ attempt'["recovery"] = "absent" /\ attempt'["refund"] = "absent"
      /\ attempt'["charge"] = "success" => attempt["charge"] = "success"
  BY <1>6, <1>8 DEF Identity
<1>10. attempt["charge"] = "success" => case # {} BY <1>2 DEF WebhookInv, Captures, Captured, Succeeded
<1>11. QED BY <1>2, <1>3, <1>4, <1>5, <1>9, <1>10
         DEF Captured, Capture, Courses, Captures, Known, OwnCapture, Succeeded

\* The effect of a recovery that was captured.
LEMMA RecoveryCaptured ==
  ASSUME WebhookInv, NEW s \in Server, server[s].pc = "apply", server[s].money = money,
         NEW e \in story, e = About(s), Says[e].kind = "recovery_captured", Written(e)
  PROVE  /\ buyer' = "Recovered" /\ money' = "RecoveredCharge" /\ ledger' = ledger \cup {"charge"}
         /\ "charge" \in ledger' <=> money' \in Captured
         /\ "refund_adjustment" \in ledger' <=> money' = "Refunded"
         /\ Courses' /\ Captures' /\ Known(e)'
<1>1. WebhookTypeOK BY DEF WebhookInv
<1>2. money = "ChargeFailedRecovery" /\ Says[e].names \in {"charge", "recovery"} BY Applicable
<1>3. buyer' = "Recovered" /\ money' = "RecoveredCharge" BY Effects DEF Written
<1>4. ledger' = ledger \cup {"charge"} /\ case' = case BY DEF Written, Capture
<1>5. "refund_adjustment" \notin ledger BY <1>2 DEF WebhookInv, OnlyOwnMoney
<1>6. attempt["charge"] = "success" => case # {} BY <1>2 DEF WebhookInv, Captures, Captured, Succeeded
<1>7. attempt' = Settled(e, "success") BY DEF Written, Capture
<1>8. /\ \A i \in Identity : attempt'[i] # attempt[i] => i = "recovery"
      /\ Says[e].names = "recovery" => attempt'["recovery"] = "success"
  BY <1>1, <1>7, Settling, Families
<1>9. attempt'["charge"] = attempt["charge"] BY <1>8 DEF Identity
<1>10. Straight => attempt'["recovery"] = "success"
  <2>1. e \in Event BY <1>1, Types
  <2>2. QED BY <1>2, <1>8, <2>1 DEF Straight
<1>11. OwnCapture(e) => Says[e].names = "recovery" BY Families DEF OwnCapture
<1>12. Captures' BY <1>4, <1>6, <1>9, <1>10 DEF Captures, Succeeded
<1>13. Known(e)' BY <1>4, <1>8, <1>11 DEF Known, Succeeded
<1>14. QED BY <1>3, <1>4, <1>5, <1>12, <1>13 DEF Captured, Courses

\* The effect of a recovery that was declined.
LEMMA RecoveryFailed ==
  ASSUME WebhookInv, NEW s \in Server, server[s].pc = "apply", server[s].money = money,
         NEW e \in story, e = About(s), Says[e].kind = "recovery_failed", Written(e)
  PROVE  /\ buyer' = "Dropped" /\ money' = money /\ ledger' = ledger
         /\ "charge" \in ledger' <=> money' \in Captured
         /\ "refund_adjustment" \in ledger' <=> money' = "Refunded"
         /\ Courses' /\ Captures' /\ Known(e)'
<1>1. WebhookTypeOK BY DEF WebhookInv
<1>2. money = "ChargeFailedRecovery" BY Applicable
<1>3. buyer' = "Dropped" /\ money' = money BY Effects DEF Written
<1>4. ledger' = ledger /\ case' = case BY DEF Written, Capture
<1>5. "refund_adjustment" \notin ledger /\ "charge" \notin ledger
  BY <1>2 DEF WebhookInv, OnlyOwnMoney, Captured
<1>6. attempt["charge"] = "success" => case # {} BY <1>2 DEF WebhookInv, Captures, Captured, Succeeded
<1>7. attempt' = Settled(e, "permanent_fail") BY DEF Written, Capture
<1>8. \A i \in Identity : attempt'[i] # attempt[i] => i = Says[e].names /\ attempt'[i] = "permanent_fail"
  BY <1>1, <1>7, Settling
<1>9. attempt'["charge"] = "success" => attempt["charge"] = "success" BY <1>8 DEF Identity
<1>10. Says[e].names # "refund" /\ attempt["refund"] = "absent"
  BY <1>2, Applicable DEF WebhookInv, Courses, Captured
<1>11. attempt'["refund"] = "absent" BY <1>8, <1>10 DEF Identity
<1>12. QED BY <1>2, <1>3, <1>4, <1>5, <1>6, <1>9, <1>11
         DEF Captured, Capture, Courses, Captures, Known, OwnCapture, Succeeded

\* The effect of a refund.
LEMMA RefundIssued ==
  ASSUME WebhookInv, NEW s \in Server, server[s].pc = "apply", server[s].money = money,
         NEW e \in story, e = About(s), Says[e].kind = "refund_issued", Written(e)
  PROVE  /\ buyer' = buyer /\ money' = "Refunded" /\ ledger' = ledger \cup {"charge", "refund_adjustment"}
         /\ "charge" \in ledger' <=> money' \in Captured
         /\ "refund_adjustment" \in ledger' <=> money' = "Refunded"
         /\ Courses' /\ Captures' /\ Known(e)'
<1>1. WebhookTypeOK BY DEF WebhookInv
<1>2. money \in {"ChargedSuccess", "RecoveredCharge"} BY Applicable
<1>3. buyer' = buyer /\ money' = "Refunded" BY Effects DEF Written
<1>4. ledger' = ledger \cup {"charge", "refund_adjustment"} /\ case' = case BY DEF Written, Capture
<1>5. attempt' = Settled(e, "success") BY DEF Written, Capture
<1>6. \A i \in Identity : attempt'[i] # attempt[i] => i = "refund"
  BY <1>1, <1>5, Settling, Families
<1>7. attempt'["charge"] = attempt["charge"] /\ attempt'["recovery"] = attempt["recovery"]
  BY <1>6 DEF Identity
<1>8. "charge" \in ledger BY <1>2 DEF WebhookInv, OnlyOwnMoney, Captured
<1>9. Captures' BY <1>3, <1>4, <1>7, <1>8 DEF WebhookInv, Captures, Captured, Succeeded
<1>10. QED BY <1>3, <1>4, <1>9 DEF Captured, Capture, Courses, Known, OwnCapture

\* A replay of an effect that was committed, the effect, or a conflict.
LEMMA ApplyForms ==
  ASSUME NEW s \in Server, Apply(s)
  PROVE  /\ server[s].pc = "apply" /\ UNCHANGED <<story, case, event, answered, trouble>>
         /\ \/ /\ About(s) \in idempotent /\ Conclude(s, "mark", "processed")
               /\ UNCHANGED truth
            \/ /\ server[s].money = money /\ Written(About(s)) /\ idempotent' = idempotent \cup {About(s)}
               /\ Conclude(s, "mark", "processed")
            \/ Conclude(s, "throw", "failed") /\ UNCHANGED truth
<1>1. server[s].pc = "apply" /\ UNCHANGED <<story, case, event, answered, trouble>> BY DEF Apply, Carries
<1>2. CASE About(s) \in idempotent /\ Conclude(s, "mark", "processed") /\ UNCHANGED <<story, participant, ledger, idempotent>>
  BY <1>1, <1>2 DEF truth
<1>3. CASE Conclude(s, "throw", "failed") /\ UNCHANGED <<story, participant, ledger, idempotent>>
  BY <1>1, <1>3 DEF truth
<1>4. CASE /\ server[s].money = money
           /\ buyer' = Effect(Says[About(s)].kind, buyer, money)[1]
           /\ money' = Effect(Says[About(s)].kind, buyer, money)[2]
           /\ attempt' = Settled(About(s), IF Says[About(s)].kind \in Capture \cup {"refund_issued"}
                                           THEN "success" ELSE "permanent_fail")
           /\ idempotent' = idempotent \cup {About(s)}
           /\ ledger' = ledger \cup (IF Says[About(s)].kind \in Capture THEN {"charge"} ELSE {})
                   \cup (IF Says[About(s)].kind = "refund_issued" THEN {"charge", "refund_adjustment"} ELSE {})
           /\ Conclude(s, "mark", "processed")
  BY <1>1, <1>4 DEF Written
<1>5. QED BY <1>1, <1>2, <1>3, <1>4 DEF Apply

\* The effect and its operation, in one transaction, by compare-and-swap.
LEMMA EffectInv ==
  ASSUME WebhookInv, NEW s \in Server, server[s].pc = "apply", server[s].money = money, Written(About(s)),
         idempotent' = idempotent \cup {About(s)}, Conclude(s, "mark", "processed"),
         UNCHANGED <<story, case, event, answered, trouble>>
  PROVE  WebhookInv'
<1>1. WebhookTypeOK BY DEF WebhookInv
<1>2. Sound(s) BY AllSound
<1>3. PICK e \in story : e = About(s) BY <1>2 DEF Sound
<1>4. Says[e].kind \in EventKind /\ Written(e) BY <1>1, <1>3, Saying
<1>5. /\ buyer' \in BuyerState /\ money' \in MoneyState
      /\ ledger \subseteq ledger' /\ ledger' \subseteq {"charge", "refund_adjustment"}
      /\ "charge" \in ledger' <=> money' \in Captured
      /\ "refund_adjustment" \in ledger' <=> money' = "Refunded"
      /\ Courses' /\ Captures' /\ Known(e)'
  <2>1. buyer \in BuyerState /\ money \in MoneyState /\ ledger \subseteq {"charge", "refund_adjustment"}
    BY <1>1, Types
  <2>2. CASE Says[e].kind = "charge_captured"
    BY <1>3, <1>4, <2>1, <2>2, ChargeCaptured DEF BuyerState, MoneyState, Captured
  <2>3. CASE Says[e].kind = "charge_failed"
    BY <1>3, <1>4, <2>1, <2>3, ChargeFailed DEF BuyerState, MoneyState, Captured
  <2>4. CASE Says[e].kind = "recovery_captured"
    BY <1>3, <1>4, <2>1, <2>4, RecoveryCaptured DEF BuyerState, MoneyState, Captured
  <2>5. CASE Says[e].kind = "recovery_failed"
    BY <1>3, <1>4, <2>1, <2>5, RecoveryFailed DEF BuyerState, MoneyState, Captured
  <2>6. CASE Says[e].kind = "refund_issued"
    BY <1>3, <1>4, <2>1, <2>6, RefundIssued DEF BuyerState, MoneyState, Captured
  <2>7. QED BY <1>4, <2>2, <2>3, <2>4, <2>5, <2>6 DEF EventKind, Capture
<1>6. /\ attempt' \in AttemptTable
      /\ \A i \in Identity : (attempt[i] = "success" => attempt'[i] = "success")
                             /\ (attempt'[i] # "absent" <=> attempt[i] # "absent")
  <2>1. PICK result \in {"success", "permanent_fail"} : attempt' = Settled(e, result)
    BY <1>4 DEF Written
  <2>2. Says[e].names \in {"foreign"} \cup {i \in Identity : attempt[i] # "absent"} BY <1>2, <1>3 DEF Sound
  <2>3. QED BY <1>1, <2>1, <2>2, SettledExists
<1>7. /\ server' \in [Server -> ServerRecord] /\ server'[s].pc = "mark" /\ server'[s].about = server[s].about
      /\ server'[s].verdict # "none"
      /\ \A t \in Server \ {s} : server'[t] = server[t]
  BY <1>1, ConcludeMoves DEF Points, Final
<1>8. Sound(s)'
  <2>1. About(s)' = e BY <1>3, <1>7 DEF About
  <2>2. Known(About(s))' BY <1>5, <2>1 DEF Known
  <2>3. QED BY <1>2, <1>3, <1>6, <1>7, <2>1, <2>2 DEF Sound
<1>9. idempotent' \subseteq story BY <1>1, <1>3, Types
<1>10. WebhookTypeOK' BY <1>1, <1>5, <1>6, <1>7, <1>9, Types, TypesNext
<1>11. Carried' /\ ResolvedTruly' /\ Finished' BY <1>3, <1>5, <1>6, <1>7, <1>8, Grows
<1>12. OnlyOwnMoney'
  <2>1. Says[e].names # "foreign" BY <1>2, <1>3 DEF Sound
  <2>2. QED BY <1>3, <1>5, <2>1 DEF WebhookInv, OnlyOwnMoney
<1>13. QED BY <1>5, <1>10, <1>11, <1>12 DEF WebhookInv

\* Applying what was resolved.
LEMMA ApplyInv ==
  ASSUME WebhookInv, NEW s \in Server, Apply(s)
  PROVE  WebhookInv'
<1>1. WebhookTypeOK BY DEF WebhookInv
<1>2. server[s].pc = "apply" /\ UNCHANGED <<story, case, event, answered, trouble>> BY ApplyForms
<1>3. CASE About(s) \in idempotent /\ Conclude(s, "mark", "processed") /\ UNCHANGED truth
  <2>1. /\ server' \in [Server -> ServerRecord] /\ server'[s].pc = "mark" /\ server'[s].about = server[s].about
        /\ server'[s].verdict # "none"
        /\ \A t \in Server \ {s} : server'[t] = server[t]
    BY <1>1, <1>3, ConcludeMoves DEF Points, Final
  <2>2. Sound(s)'
    <3>1. UNCHANGED <<story, attempt, ledger, case>> BY <1>3 DEF truth, participant
    <3>2. About(s)' = About(s) BY <2>1 DEF About
    <3>3. Known(About(s)) BY <1>3 DEF WebhookInv, Finished
    <3>4. Known(About(s))' BY <3>1, <3>2, <3>3 DEF Known, Succeeded
    <3>5. Sound(s) BY AllSound
    <3>6. QED BY <1>2, <2>1, <3>1, <3>2, <3>4, <3>5 DEF Sound
  <2>3. QED BY <1>1, <1>2, <1>3, <2>1, <2>2, Types, DeliveryStep
<1>4. CASE /\ server[s].money = money /\ Written(About(s)) /\ idempotent' = idempotent \cup {About(s)}
           /\ Conclude(s, "mark", "processed")
  BY <1>2, <1>4, EffectInv
<1>5. CASE Conclude(s, "throw", "failed") /\ UNCHANGED truth
  <2>1. /\ server' \in [Server -> ServerRecord] /\ server'[s].pc = "throw" /\ server'[s].about = server[s].about
        /\ \A t \in Server \ {s} : server'[t] = server[t]
    BY <1>1, <1>5, ConcludeMoves DEF Points, Final
  <2>2. Sound(s)' BY <1>2, <1>5, <2>1, Plain DEF Points
  <2>3. QED BY <1>1, <1>2, <1>5, <2>1, <2>2, Types, DeliveryStep
<1>6. QED BY <1>3, <1>4, <1>5, ApplyForms

-----------------------------------------------------------------------------
(* The mark, the answer, and trouble.                                        *)

\* The mark: an event is finished by a delivery that knows its money.
LEMMA MarkInv ==
  ASSUME WebhookInv, NEW s \in Server, Mark(s)
  PROVE  WebhookInv'
<1>1. WebhookTypeOK BY DEF WebhookInv
<1>2. UNCHANGED <<truth, answered, trouble>> /\ server[s].pc = "mark" BY DEF Mark, Carries
<1>3. Sound(s) BY AllSound
<1>4. About(s) \in story BY <1>2, <1>3 DEF Sound
<1>5. server[s].verdict \in EventRow \ {"processing"}
  <2>1. server[s] \in ServerRecord BY <1>1, Types
  <2>2. QED BY <1>2, <1>3, <2>1 DEF Sound, ServerRecord, Final, EventRow
<1>6. /\ event' \in [story -> EventRecord]
      /\ \A f \in story : event'[f].token # NoServer <=> event'[f].status = "processing"
      /\ \A f \in story : \/ event'[f] = event[f]
                          \/ f = About(s) /\ event[f].status = "processing" /\ event'[f].status = server[s].verdict
  BY <1>1, <1>4, <1>5, MarkMoves DEF Mark
<1>7. /\ server' \in [Server -> ServerRecord] /\ server'[s].pc = "answer" /\ server'[s].about = server[s].about
      /\ \A t \in Server \ {s} : server'[t] = server[t]
  BY <1>1, ConcludeMoves DEF Mark, Points, Final
<1>8. Sound(s)' BY <1>2, <1>7, Plain DEF Points
<1>9. \A f \in story : event'[f].status \in Final => event[f].status \in Final \/ Known(f)
  BY <1>2, <1>3, <1>6 DEF Sound
<1>10. QED BY <1>1, <1>2, <1>6, <1>7, <1>8, <1>9, Types, DeliveryStep

\* The mark of what failed.
LEMMA MarkFailedInv ==
  ASSUME WebhookInv, NEW s \in Server, MarkFailed(s)
  PROVE  WebhookInv'
<1>1. WebhookTypeOK BY DEF WebhookInv
<1>2. UNCHANGED <<truth, answered, trouble>> /\ server[s].pc = "throw" BY DEF MarkFailed, Carries
<1>3. About(s) \in story BY <1>2, AllSound DEF Sound
<1>4. "failed" \in EventRow \ {"processing"} BY DEF EventRow
<1>5. /\ event' \in [story -> EventRecord]
      /\ \A f \in story : event'[f].token # NoServer <=> event'[f].status = "processing"
      /\ \A f \in story : event'[f] = event[f] \/ event'[f].status = "failed"
  BY <1>1, <1>3, <1>4, MarkMoves DEF MarkFailed
<1>6. /\ server' \in [Server -> ServerRecord] /\ server'[s].pc = "free"
      /\ \A t \in Server \ {s} : server'[t] = server[t]
  BY <1>1, FreeMoves DEF MarkFailed
<1>7. Sound(s)' BY <1>6 DEF Sound
<1>8. QED BY <1>1, <1>2, <1>5, <1>6, <1>7, Types, DeliveryStep DEF Final

\* The answer.
LEMMA AcknowledgeInv ==
  ASSUME WebhookInv, NEW s \in Server, Acknowledge(s)
  PROVE  WebhookInv'
<1>1. WebhookTypeOK BY DEF WebhookInv
<1>2. UNCHANGED <<truth, event, trouble>> /\ server[s].pc = "answer" BY DEF Acknowledge, Carries
<1>3. About(s) \in story BY <1>2, AllSound DEF Sound
<1>4. /\ server' \in [Server -> ServerRecord] /\ server'[s].pc = "free"
      /\ \A t \in Server \ {s} : server'[t] = server[t]
  BY <1>1, FreeMoves DEF Acknowledge
<1>5. Sound(s)' BY <1>4 DEF Sound
<1>6. answered' \subseteq story BY <1>1, <1>3, Types DEF Acknowledge
<1>7. QED BY <1>1, <1>2, <1>4, <1>5, <1>6, Types, DeliveryStep

\* One more trouble, if the bound allows.
LEMMA OneMore ==
  ASSUME WebhookTypeOK, trouble < MaxTrouble
  PROVE  trouble + 1 \in 0..MaxTrouble
BY Types, WebhookAssumption

\* A transaction fails.
LEMMA FailsInv ==
  ASSUME WebhookInv, NEW s \in Server, Fails(s)
  PROVE  WebhookInv'
<1>1. WebhookTypeOK BY DEF WebhookInv
<1>2. /\ UNCHANGED <<truth, event, answered>> /\ server[s].pc # "free" /\ trouble' = trouble + 1
      /\ trouble < MaxTrouble
  BY DEF Fails
<1>3. /\ server' \in [Server -> ServerRecord] /\ server'[s].pc = "throw" /\ server'[s].about = server[s].about
      /\ \A t \in Server \ {s} : server'[t] = server[t]
  BY <1>1, ConcludeMoves DEF Fails, Points
<1>4. Sound(s)' BY <1>2, <1>3, Plain DEF Points
<1>5. QED BY <1>1, <1>2, <1>3, <1>4, OneMore, Types, DeliveryStep

\* A server dies.
LEMMA DiesInv ==
  ASSUME WebhookInv, NEW s \in Server, Dies(s)
  PROVE  WebhookInv'
<1>1. WebhookTypeOK BY DEF WebhookInv
<1>2. UNCHANGED <<truth, event, answered>> /\ trouble' = trouble + 1 /\ trouble < MaxTrouble BY DEF Dies
<1>3. /\ server' \in [Server -> ServerRecord] /\ server'[s].pc = "free"
      /\ \A t \in Server \ {s} : server'[t] = server[t]
  BY <1>1, FreeMoves DEF Dies
<1>4. Sound(s)' BY <1>3 DEF Sound
<1>5. QED BY <1>1, <1>2, <1>3, <1>4, OneMore, Types, DeliveryStep

\* A claim grows old.
LEMMA GoesStaleInv ==
  ASSUME WebhookInv, NEW e \in story, GoesStale(e)
  PROVE  WebhookInv'
<1> DEFINE r == [event[e] EXCEPT !.stale = TRUE]
<1>1. WebhookTypeOK BY DEF WebhookInv
<1>2. event[e] \in EventRecord /\ (event[e].token # NoServer <=> event[e].status = "processing") BY <1>1, Types
<1>3. r \in EventRecord /\ r.token = event[e].token /\ r.status = event[e].status BY <1>2 DEF EventRecord
<1>4. event' = [event EXCEPT ![e] = r] /\ UNCHANGED <<truth, server, answered>> BY DEF GoesStale
<1>5. trouble' \in 0..MaxTrouble BY <1>1, OneMore, Types DEF GoesStale
<1> HIDE DEF r
<1>6. /\ event' \in [story -> EventRecord] /\ event'[e] = r
      /\ \A f \in story \ {e} : event'[f] = event[f]
      /\ \A f \in story : event'[f].token # NoServer <=> event'[f].status = "processing"
  BY <1>1, <1>2, <1>3, <1>4, RowMoves
<1>7. \A f \in story : event'[f].status = event[f].status BY <1>3, <1>6
<1>8. QED BY <1>1, <1>4, <1>5, <1>6, <1>7, Types, DeliveryStep

\* The sweep takes a claim back.
LEMMA SweepInv ==
  ASSUME WebhookInv, NEW e \in story, ReclaimStaleProcessing(e)
  PROVE  WebhookInv'
<1> DEFINE r == Row("pending", NoServer)
<1>1. WebhookTypeOK BY DEF WebhookInv
<1>2. r \in EventRecord /\ r.token = NoServer /\ r.status = "pending" BY DEF Row, EventRecord, EventRow
<1>3. event' = [event EXCEPT ![e] = r] /\ UNCHANGED <<truth, server, answered, trouble>>
  BY DEF ReclaimStaleProcessing
<1> HIDE DEF r
<1>4. /\ event' \in [story -> EventRecord] /\ event'[e] = r
      /\ \A f \in story \ {e} : event'[f] = event[f]
      /\ \A f \in story : event'[f].token # NoServer <=> event'[f].status = "processing"
  BY <1>1, <1>2, <1>3, RowMoves
<1>5. \A f \in story : event'[f] = event[f] \/ event'[f].status = "pending" BY <1>2, <1>4
<1>6. QED BY <1>1, <1>3, <1>4, <1>5, Types, DeliveryStep DEF Final

-----------------------------------------------------------------------------
(* The jobs of the deal.                                                     *)

\* A job writes the participant and his operations, and takes nothing back.
LEMMA JobStep ==
  ASSUME WebhookInv, UNCHANGED <<story, ledger, case, idempotent, event, server, answered, trouble>>,
         buyer' \in BuyerState, money' \in MoneyState, attempt' \in AttemptTable,
         \A i \in Identity : (attempt[i] = "success" => attempt'[i] = "success")
                             /\ (attempt[i] # "absent" => attempt'[i] # "absent"),
         Courses', Captures', money' \in Captured <=> money \in Captured,
         money' = "Refunded" <=> money = "Refunded"
  PROVE  WebhookInv'
<1>1. WebhookTypeOK BY DEF WebhookInv
<1>2. WebhookTypeOK' BY <1>1, Types, TypesNext
<1>3. Carried' /\ ResolvedTruly' /\ Finished' BY Grows
<1>4. OnlyOwnMoney' BY DEF WebhookInv, OnlyOwnMoney
<1>5. QED BY <1>2, <1>3, <1>4 DEF WebhookInv

\* One operation is written.
LEMMA AttemptMoves ==
  ASSUME WebhookTypeOK, NEW i \in Identity, NEW r \in {"unknown", "success", "permanent_fail"},
         attempt' = [attempt EXCEPT ![i] = r], attempt[i] # "success"
  PROVE  /\ attempt' \in AttemptTable /\ attempt'[i] = r
         /\ \A j \in Identity \ {i} : attempt'[j] = attempt[j]
         /\ \A j \in Identity : (attempt[j] = "success" => attempt'[j] = "success")
                                /\ (attempt[j] # "absent" => attempt'[j] # "absent")
<1>1. attempt \in AttemptTable BY Types
<1>2. QED BY <1>1 DEF AttemptTable

\* A recovery is attempted after a charge that did not succeed.
LEMMA MintRecoveryInv ==
  ASSUME WebhookInv, MintRecovery
  PROVE  WebhookInv'
<1>1. WebhookTypeOK BY DEF WebhookInv
<1>2. "recovery" \in Identity /\ "charge" \in Identity /\ "refund" \in Identity BY DEF Identity
<1>3. /\ attempt' \in AttemptTable /\ attempt'["recovery"] = "unknown"
      /\ \A j \in Identity \ {"recovery"} : attempt'[j] = attempt[j]
      /\ \A j \in Identity : (attempt[j] = "success" => attempt'[j] = "success")
                             /\ (attempt[j] # "absent" => attempt'[j] # "absent")
  BY <1>1, <1>2, AttemptMoves DEF MintRecovery
<1>4. attempt["charge"] # "success" /\ attempt'["charge"] = attempt["charge"]
      /\ attempt'["refund"] = attempt["refund"] /\ money = "ChargeFailedRecovery" /\ attempt["recovery"] = "absent"
  BY <1>2, <1>3 DEF MintRecovery
<1>5. UNCHANGED <<story, buyer, money, ledger, case, idempotent, event, server, answered, trouble>>
  BY DEF MintRecovery
<1>6. Courses' BY <1>4, <1>5 DEF WebhookInv, Courses
<1>7. Captures' BY <1>3, <1>4, <1>5 DEF WebhookInv, Captures, Succeeded
<1>8. QED BY <1>1, <1>3, <1>5, <1>6, <1>7, JobStep, Types

\* A refund is attempted of captured money.
LEMMA MintRefundInv ==
  ASSUME WebhookInv, MintRefund
  PROVE  WebhookInv'
<1>1. WebhookTypeOK BY DEF WebhookInv
<1>2. "recovery" \in Identity /\ "charge" \in Identity /\ "refund" \in Identity BY DEF Identity
<1>3. /\ attempt' \in AttemptTable
      /\ \A j \in Identity \ {"refund"} : attempt'[j] = attempt[j]
      /\ \A j \in Identity : (attempt[j] = "success" => attempt'[j] = "success")
                             /\ (attempt[j] # "absent" => attempt'[j] # "absent")
  BY <1>1, <1>2, AttemptMoves DEF MintRefund
<1>4. attempt'["charge"] = attempt["charge"] /\ attempt'["recovery"] = attempt["recovery"]
      /\ money \in {"ChargedSuccess", "RecoveredCharge"}
  BY <1>2, <1>3 DEF MintRefund
<1>5. UNCHANGED <<story, buyer, money, ledger, case, idempotent, event, server, answered, trouble>>
  BY DEF MintRefund
<1>6. Courses' BY <1>4, <1>5 DEF Courses, Captured
<1>7. Captures' BY <1>4, <1>5 DEF WebhookInv, Captures, Succeeded
<1>8. QED BY <1>1, <1>3, <1>5, <1>6, <1>7, JobStep, Types

\* A recovery is answered.
LEMMA RecoveryAnswersInv ==
  ASSUME WebhookInv, RecoveryAnswers
  PROVE  WebhookInv'
<1>1. WebhookTypeOK BY DEF WebhookInv
<1>2. "recovery" \in Identity /\ "charge" \in Identity /\ "refund" \in Identity BY DEF Identity
<1>3. PICK r \in {"success", "permanent_fail"} : attempt' = [attempt EXCEPT !["recovery"] = r]
  BY DEF RecoveryAnswers
<1>4. /\ attempt' \in AttemptTable /\ attempt'["recovery"] = r
      /\ \A j \in Identity \ {"recovery"} : attempt'[j] = attempt[j]
      /\ \A j \in Identity : (attempt[j] = "success" => attempt'[j] = "success")
                             /\ (attempt[j] # "absent" => attempt'[j] # "absent")
  BY <1>1, <1>2, <1>3, AttemptMoves DEF RecoveryAnswers
<1>5. attempt'["charge"] = attempt["charge"] /\ attempt'["refund"] = attempt["refund"]
      /\ attempt["recovery"] = "unknown"
  BY <1>2, <1>4 DEF RecoveryAnswers
<1>6. UNCHANGED <<story, buyer, money, ledger, case, idempotent, event, server, answered, trouble>>
  BY DEF RecoveryAnswers
<1>7. Courses' BY <1>5, <1>6 DEF WebhookInv, Courses
<1>8. Captures' BY <1>5, <1>6 DEF WebhookInv, Captures, Succeeded
<1>9. QED BY <1>1, <1>4, <1>6, <1>7, <1>8, JobStep, Types

\* The deal is decided.
LEMMA DecideInv ==
  ASSUME WebhookInv, Decide
  PROVE  WebhookInv'
<1>1. WebhookTypeOK BY DEF WebhookInv
<1>2. UNCHANGED <<story, money, attempt, ledger, case, idempotent, event, server, answered, trouble>>
  BY DEF Decide
<1>3. buyer' \in BuyerState BY DEF Decide, BuyerState
<1>4. Courses' /\ Captures' BY <1>2 DEF WebhookInv, Courses, Captures, Succeeded
<1>5. QED BY <1>1, <1>2, <1>3, <1>4, JobStep, Types

\* A hold is released that nothing was captured from.
LEMMA ReleaseInv ==
  ASSUME WebhookInv, Release
  PROVE  WebhookInv'
<1>1. WebhookTypeOK BY DEF WebhookInv
<1>2. UNCHANGED <<story, buyer, attempt, ledger, case, idempotent, event, server, answered, trouble>>
  BY DEF Release
<1>3. money = "ChargeFailedRecovery" /\ money' = "AuthReleased" /\ attempt["charge"] # "success" BY DEF Release
<1>4. Courses' BY <1>2, <1>3 DEF WebhookInv, Courses, Captured
<1>5. Captures' BY <1>2, <1>3 DEF WebhookInv, Captures, Succeeded
<1>6. money' \in MoneyState /\ money' \notin Captured /\ money \notin Captured BY <1>3 DEF MoneyState, Captured
<1>7. QED BY <1>1, <1>2, <1>3, <1>4, <1>5, <1>6, JobStep, Types

-----------------------------------------------------------------------------
(* The theorems.                                                             *)

\* Nothing was delivered yet.
LEMMA InitInv == WebhookInit => WebhookInv
<1> SUFFICES ASSUME WebhookInit PROVE WebhookInv OBVIOUS
<1> USE DEF WebhookInit
<1>1. WebhookTypeOK
  <2>1. event \in [story -> [status : EventRow, token : Server \cup {NoServer}, stale : BOOLEAN]]
    BY DEF EventRow
  <2>2. \A e \in story : event[e].token # NoServer <=> event[e].status = "processing" OBVIOUS
  <2>3. attempt \in [Identity -> {"absent", "unknown", "success", "permanent_fail"}] OBVIOUS
  <2>4. Unused \in ServerRecord BY DEF Unused, ServerRecord, Points
  <2>5. server \in [Server -> ServerRecord] BY <2>4
  <2>6. trouble \in 0..MaxTrouble BY WebhookAssumption
  <2>7. buyer \in BuyerState /\ money \in MoneyState BY DEF BuyerState, MoneyState
  <2>8. QED BY <2>1, <2>2, <2>3, <2>5, <2>6, <2>7 DEF WebhookTypeOK, ServerRecord, Points
<1>2. \A s \in Server : server[s].pc = "free" BY DEF Unused
<1>3. /\ attempt["charge"] = "unknown" /\ attempt["recovery"] = "absent" /\ attempt["refund"] = "absent"
      /\ money = "ChargeAttempt"
  BY DEF Identity
<1>4. Carried /\ ResolvedTruly BY <1>2 DEF Carried, ResolvedTruly
<1>5. Courses /\ Captures BY <1>3 DEF Courses, Captures, Succeeded
<1>6. OnlyOwnMoney BY <1>3 DEF OnlyOwnMoney, Captured
<1>7. Finished
  <2>1. \A e \in story : event[e].status \notin Final BY DEF Final
  <2>2. QED BY <1>2, <2>1 DEF Finished
<1>8. QED BY <1>1, <1>4, <1>5, <1>6, <1>7 DEF WebhookInv

\* Every step keeps the invariant.
LEMMA StepInv == WebhookInv /\ [WebhookNext]_webhookVars => WebhookInv'
<1> SUFFICES ASSUME WebhookInv, [WebhookNext]_webhookVars PROVE WebhookInv' OBVIOUS
<1>1. ASSUME NEW s \in Server, Handle(s) PROVE WebhookInv'
  BY <1>1, ClaimEventInv, ReclaimEventInv, ResolveInv, ReadEvidenceInv, EscalateInv, HeldInv, ApplyInv,
     MarkInv, MarkFailedInv, AcknowledgeInv DEF Handle
<1>2. CASE UNCHANGED webhookVars
  <2>1. UNCHANGED truth /\ UNCHANGED <<event, server, answered, trouble>>
    BY <1>2 DEF webhookVars, truth, participant
  <2>2. QED BY <2>1, Types, DeliveryStep DEF WebhookInv
<1>3. CASE WebhookNext
  <2>1. CASE \E s \in Server, e \in story : Deliver(s, e) BY <2>1, DeliverInv
  <2>2. CASE \E s \in Server : Handle(s) \/ Fails(s) \/ Dies(s) BY <2>2, <1>1, FailsInv, DiesInv
  <2>3. CASE \E e \in story : GoesStale(e) \/ ReclaimStaleProcessing(e) BY <2>3, GoesStaleInv, SweepInv
  <2>4. CASE MintRecovery \/ RecoveryAnswers \/ MintRefund \/ Decide \/ Release
    BY <2>4, MintRecoveryInv, RecoveryAnswersInv, MintRefundInv, DecideInv, ReleaseInv
  <2>5. QED BY <1>3, <2>1, <2>2, <2>3, <2>4 DEF WebhookNext
<1>4. QED BY <1>2, <1>3

\* The invariant holds in every behaviour.
LEMMA InvHolds == WebhookSpec => []WebhookInv
<1>1. QED BY InitInv, StepInv, PTL DEF WebhookSpec

\* The types of the claims, the deliveries and the participant, in every
\* behaviour of webhook_ingestion.ts and the processing in app.ts.
THEOREM WebhookTypes == WebhookSpec => []WebhookTypeOK
<1>1. WebhookInv => WebhookTypeOK BY DEF WebhookInv
<1>2. QED BY <1>1, InvHolds, PTL

\* OnlyOwnMoney, for any set of events: an event about an operation that is not
\* ours never takes effect, and the entries of the ledger say what the state of
\* the participant says (app.ts, applyPaymentWebhookClassification).
THEOREM MoneyIsOwn == WebhookSpec => []OnlyOwnMoney
<1>1. WebhookInv => OnlyOwnMoney BY DEF WebhookInv
<1>2. QED BY <1>1, InvHolds, PTL

\* A row that is finished is claimed by nobody, marked by nobody and not swept.
LEMMA FinishedStep ==
  ASSUME WebhookInv, [WebhookNext]_webhookVars, NEW e \in story, event[e].status \in Final
  PROVE  event'[e].status = event[e].status
<1>1. WebhookTypeOK BY DEF WebhookInv
<1>2. event \in [story -> EventRecord] BY <1>1, Types
<1>3. event[e].status \notin {"absent", "pending", "failed", "processing"} BY DEF Final
<1>4. CASE event' = event BY <1>4
<1>5. ASSUME NEW s \in Server, Handle(s) PROVE event'[e].status = event[e].status
  <2>1. CASE ClaimEvent(s) BY <2>1, <1>2, <1>3 DEF ClaimEvent, Claim
  <2>2. CASE ReclaimEvent(s) BY <2>2, <1>2, <1>3 DEF ReclaimEvent, Reclaimable, Claim
  <2>3. CASE Resolve(s) \/ ReadEvidence(s) \/ Escalate(s) \/ Held(s) \/ Apply(s) \/ Acknowledge(s)
    BY <2>3 DEF Resolve, ReadEvidence, Escalate, Held, Apply, Acknowledge
  <2>4. CASE Mark(s) BY <2>4, <1>2, <1>3 DEF Mark, Marked
  <2>5. CASE MarkFailed(s) BY <2>5, <1>2, <1>3 DEF MarkFailed, Marked
  <2>6. QED BY <1>5, <2>1, <2>2, <2>3, <2>4, <2>5 DEF Handle
<1>6. CASE UNCHANGED webhookVars BY <1>6 DEF webhookVars
<1>7. CASE WebhookNext
  <2>1. CASE \E s \in Server, f \in story : Deliver(s, f) BY <2>1 DEF Deliver
  <2>2. CASE \E s \in Server : Handle(s) \/ Fails(s) \/ Dies(s) BY <2>2, <1>5 DEF Fails, Dies
  <2>3. CASE \E f \in story : GoesStale(f) \/ ReclaimStaleProcessing(f)
    <3>1. PICK f \in story : GoesStale(f) \/ ReclaimStaleProcessing(f) BY <2>3
    <3>2. f # e /\ event'[e] = event[e] BY <3>1, <1>2, <1>3 DEF GoesStale, ReclaimStaleProcessing
    <3>3. QED BY <3>2
  <2>4. CASE MintRecovery \/ RecoveryAnswers \/ MintRefund \/ Decide \/ Release
    BY <2>4 DEF MintRecovery, RecoveryAnswers, MintRefund, Decide, Release
  <2>5. QED BY <1>7, <2>1, <2>2, <2>3, <2>4 DEF WebhookNext
<1>8. QED BY <1>6, <1>7

\* FinishedForGood: no claimant that was overtaken, no sweep and no repetition
\* of the provider reopens what was processed or ignored (webhook_ingestion.ts,
\* claimEvent, markEvent and reclaimStaleProcessing).
THEOREM FinishedStays == WebhookSpec => FinishedForGood
<1>1. WebhookInv /\ [WebhookNext]_webhookVars =>
        [\A e \in story : event[e].status \in Final => event'[e].status = event[e].status]_webhookVars
  BY FinishedStep
<1>2. QED BY <1>1, InvHolds, PTL DEF WebhookSpec, FinishedForGood

\* The first half of RealMoneyKnown.
CaptureKnown ==
  \A e \in story : OwnCapture(e) /\ event[e].status \in Final => "charge" \in ledger \/ case # {}

\* Captured money whose event is finished is in the ledger or before an
\* operator, whatever the provider's events say of each other.
THEOREM MoneyLedgered == WebhookSpec => []CaptureKnown
<1>1. WebhookInv => CaptureKnown BY DEF WebhookInv, Finished, Known, CaptureKnown
<1>2. QED BY <1>1, InvHolds, PTL

\* RealMoneyKnown, if the provider reports no recovery under the identity of the
\* charge: also two captures of one obligation are before an operator.
THEOREM MoneyKnown ==
  ASSUME Straight
  PROVE  WebhookSpec => []RealMoneyKnown
<1>1. WebhookInv => RealMoneyKnown
  <2>1. SUFFICES ASSUME WebhookInv PROVE RealMoneyKnown OBVIOUS
  <2>2. \A e \in story : event[e].status \in Final => Known(e) BY <2>1 DEF WebhookInv, Finished
  <2>3. \A e \in story : Says[e].kind \in Capture /\ Says[e].names = Family(Says[e].kind)
          /\ event[e].status \in Final => "charge" \in ledger \/ case # {}
    BY <2>2 DEF Known, OwnCapture
  <2>4. ASSUME NEW e \in story, NEW f \in story, event[e].status \in Final, event[f].status \in Final,
               Says[e].names = "charge", Says[f].names = "recovery",
               Says[e].kind = "charge_captured", Says[f].kind = "recovery_captured"
        PROVE  case # {}
    <3>1. OwnCapture(e) /\ OwnCapture(f) BY <2>4, Families DEF OwnCapture, Capture
    <3>2. (Succeeded("charge") /\ Succeeded("recovery")) \/ case # {} BY <2>2, <2>4, <3>1 DEF Known
    <3>3. QED BY <2>1, <3>2 DEF WebhookInv, Captures, Succeeded
  <2>5. QED BY <2>3, <2>4 DEF RealMoneyKnown
<1>2. QED BY <1>1, InvHolds, PTL
=============================================================================
